----------------------- MODULE ExternalRequests_proofs -----------------------
(***************************************************************************)
(* Theorems about external run requests, for every value of the constants: *)
(* any number of clients and keys, any requests, retries and crashes.  The *)
(* invariant has a part on each row, a part on each client, the numbering  *)
(* of the runs, and that one client at most can be told that it created a  *)
(* run.  From it follow RequestInv, and that evidence and verdicts stay.   *)
(* That the rows implement IntegrationContract needs a second invariant,   *)
(* of the run behind the row of a plain key.                               *)
(***************************************************************************)
EXTENDS ExternalRequests, FiniteSetTheorems, TLAPS

\* A row agrees with itself, and success that is gated has its evidence.
Sound(r) ==
    /\ r.phase = "terminal" <=> r.outcome # "none"
    /\ r.policy = "external_receipt" /\ r.outcome = "succeeded" => r.completion # "none"

OwnRow(k) ==
    /\ ~Exists(k) => row[k] = NoRow
    /\ Sound(row[k])
    /\ row[k].completion \in Keys => row[k].completion = k /\ k \in manifest

\* Something of the run manager refers to the key.
Touched(k) ==
    \/ run[k] # "none" \/ k \in working
    \/ \E p \in pending : p.key = k
    \/ \E e \in errors : e[1] = k

\* A row stands for a request that was made.
Requested(k) ==
    Exists(k) =>
        /\ row[k].run \in 1..made /\ row[k].predecessor < row[k].run
        /\ \E c \in Clients : /\ KeyOf[c] = k
                              /\ row[k].digest = DigestOf[c] /\ row[k].policy = PolicyOf[c]

\* What a client has been told, or will be told, is true of the row of its key.
Informed(c) ==
    LET r == row[KeyOf[c]]
    IN  /\ c \in handling \/ Knows(c) => Exists(KeyOf[c]) /\ r.digest = DigestOf[c]
        /\ client[c].stage = "refused" => Exists(KeyOf[c]) /\ r.digest # DigestOf[c]
        /\ Knows(c) => client[c].run = r.run
        /\ client[c].created => Knows(c)
        /\ client[c].read # "none" => r.phase = "terminal" /\ client[c].read = r.outcome

\* The client that created the row of its key, as far as anybody may still say so.
Creator(c) == c \in handling \/ client[c].created

OneCreator ==
    \A c, d \in Clients : Creator(c) /\ Creator(d) /\ KeyOf[c] = KeyOf[d] => c = d

\* Runs are numbered as they are made, one for each row.
Numbered ==
    /\ {row[k].run : k \in {j \in Keys : Exists(j)}} = 1..made
    /\ made = Cardinality({k \in Keys : Exists(k)})

IInv ==
    /\ TypeOK
    /\ \A k \in Keys : OwnRow(k) /\ Requested(k) /\ (Touched(k) => Exists(k))
    /\ \A c \in Clients : Informed(c)
    /\ OneCreator /\ Numbered

-----------------------------------------------------------------------------
LEMMA InitGood == Init => IInv
<1> SUFFICES ASSUME Init PROVE IInv
  OBVIOUS
<1>1. /\ \A k \in Keys : ~Exists(k) /\ row[k] = NoRow
      /\ {j \in Keys : Exists(j)} = {}
  BY DEF Init, Exists, NoRow
<1>2. TypeOK
  <2>1. 0 \in 0..Cardinality(Keys) /\ 0 \in 0..MaxCrashes
    BY RequestsAssumption, EnvironmentAssumption, FS_CardinalityType
  <2>2. NoRow \in Row
    BY DEF NoRow, Row, Phases, Verdicts, NoRun
  <2> QED
    BY <2>1, <2>2 DEF Init, TypeOK, NoRun, Verdicts, Client, Statuses
<1>3. \A k \in Keys : OwnRow(k) /\ Requested(k) /\ ~Touched(k)
  BY <1>1, RequestsAssumption DEF Init, OwnRow, Sound, Requested, NoRow, Exists, Touched
<1>4. (\A c \in Clients : Informed(c)) /\ OneCreator
  BY DEF Init, Informed, OneCreator, Creator, Knows
<1>5. Numbered
  <2>1. {row[k].run : k \in {j \in Keys : Exists(j)}} = {} /\ made = 0
    BY <1>1 DEF Init
  <2>2. 1..0 = {}
    OBVIOUS
  <2> QED
    BY <1>1, <2>1, <2>2, FS_EmptySet DEF Numbered
<1> QED
  BY <1>2, <1>3, <1>4, <1>5 DEF IInv

-----------------------------------------------------------------------------
\* What is done to a row that exists: it stays as it is, or it was open and remains the row
\* of its request, with what was recorded of its completion.
Develops(r, s) ==
    \/ s = r
    \/ /\ r.phase # "terminal" /\ s.phase # "none"
       /\ s.run = r.run /\ s.predecessor = r.predecessor
       /\ s.digest = r.digest /\ s.policy = r.policy
       /\ r.completion # "none" => s.completion = r.completion
       /\ Sound(s)

\* What the run manager makes of a row: the same, and it records no completion.
Moves(r, s) == s \in Row /\ Develops(r, s) /\ s.completion = r.completion

LEMMA InPhaseMoves ==
    ASSUME NEW r \in Row, Sound(r), NEW phase \in Phases \ {"none", "terminal"}
    PROVE  /\ Moves(r, InPhase(r, phase))
           /\ r.phase # "terminal" => InPhase(r, phase).phase = phase
           /\ InPhase(r, phase).asked = r.asked /\ InPhase(r, phase).outcome = r.outcome
BY DEF InPhase, Moves, Develops, Sound, Row

LEMMA SettledMoves ==
    ASSUME NEW r \in Row, Sound(r), NEW outcome \in Verdicts,
           outcome = "succeeded" /\ r.policy = "external_receipt" => r.completion # "none"
    PROVE  /\ Moves(r, Settled(r, outcome))
           /\ Settled(r, outcome).phase = "terminal"
           /\ r.phase # "terminal" => Settled(r, outcome).outcome = outcome
           /\ Settled(r, outcome).asked = r.asked
BY DEF Settled, Moves, Develops, Sound, Row, Phases, Verdicts

\* The verdict of an exit follows from the row: it is cancelled only if that was asked, and
\* gated work succeeds only with its completion.
LEMMA AfterExitMoves ==
    ASSUME NEW r \in Row, Sound(r), NEW clean \in BOOLEAN
    PROVE  Moves(r, AfterExit(r, clean))
<1>1. Moves(r, Settled(r, "cancelled")) /\ Moves(r, Settled(r, "failed"))
      /\ Moves(r, InPhase(r, "awaiting_completion"))
  BY SettledMoves, InPhaseMoves DEF Verdicts, Phases
<1>2. CASE r.policy = "process_exit" \/ r.completion # "none"
  <2>1. Moves(r, Settled(r, "succeeded"))
    BY <1>2, SettledMoves DEF Verdicts
  <2> QED
    BY <1>1, <1>2, <2>1 DEF AfterExit
<1>3. CASE ~(r.policy = "process_exit" \/ r.completion # "none")
  BY <1>1, <1>3 DEF AfterExit
<1> QED
  BY <1>2, <1>3

\* A step in which no client is told anything keeps the invariant if every row develops and
\* the completions are those of their keys.
LEMMA RowsStep ==
    ASSUME IInv, row' \in [Keys -> Row], run' \in [Keys -> Statuses],
           attempts' \in [Keys -> Nat], made' = made, manifest' \in SUBSET Keys,
           working' \in SUBSET Keys, pending' \in SUBSET Pending,
           errors' \in SUBSET (Keys \X Nat), handling' \subseteq handling, client' = client,
           crashes' \in 0..MaxCrashes, manifest \subseteq manifest',
           \A k \in Keys : /\ \/ Exists(k) /\ Develops(row[k], row'[k])
                              \/ row'[k] = row[k]
                           /\ \/ row'[k].completion = row[k].completion
                              \/ row'[k].completion \in Keys
                                    => row'[k].completion = k /\ k \in manifest
                           /\ Touched(k)' => Touched(k) \/ Exists(k)
    PROVE  IInv'
<1>1. \A k \in Keys : Exists(k)' <=> Exists(k)
  BY DEF Develops, Exists
<1>2. \A k \in Keys : /\ row'[k].run = row[k].run /\ row'[k].predecessor = row[k].predecessor
                      /\ row'[k].digest = row[k].digest /\ row'[k].policy = row[k].policy
                      /\ row[k].phase = "terminal" => row'[k] = row[k]
  BY DEF Develops
<1>3. TypeOK'
  BY DEF IInv, TypeOK
<1>4. \A k \in Keys : OwnRow(k)' /\ Requested(k)' /\ (Touched(k)' => Exists(k)')
  <2> SUFFICES ASSUME NEW k \in Keys
               PROVE  OwnRow(k)' /\ Requested(k)' /\ (Touched(k)' => Exists(k)')
    OBVIOUS
  <2>1. OwnRow(k) /\ Requested(k) /\ (Touched(k) => Exists(k))
    BY DEF IInv
  <2>2. Sound(row[k])'
    BY <2>1 DEF OwnRow, Develops, Sound
  <2>3. OwnRow(k)'
    BY <1>1, <2>1, <2>2 DEF OwnRow, Exists
  <2> QED
    BY <1>1, <1>2, <2>1, <2>3 DEF Requested
<1>5. \A c \in Clients : Informed(c)'
  <2> SUFFICES ASSUME NEW c \in Clients PROVE Informed(c)'
    OBVIOUS
  <2>1. Informed(c) /\ KeyOf[c] \in Keys
    BY RequestsAssumption DEF IInv
  <2> QED
    BY <1>1, <1>2, <2>1 DEF Informed, Knows
<1>6. OneCreator'
  BY DEF IInv, OneCreator, Creator
<1>7. Numbered'
  <2>1. {j \in Keys : Exists(j)}' = {j \in Keys : Exists(j)}
    BY <1>1
  <2>2. {row[k].run : k \in {j \in Keys : Exists(j)}}'
          = {row[k].run : k \in {j \in Keys : Exists(j)}}
    BY <1>2, <2>1
  <2> QED
    BY <2>1, <2>2 DEF IInv, Numbered
<1> QED
  BY <1>3, <1>4, <1>5, <1>6, <1>7 DEF IInv

-----------------------------------------------------------------------------
(* Starting *)

LEMMA NoRowType == NoRow \in Row
BY DEF NoRow, Row, Phases, Verdicts, NoRun

LEMMA NewRowType ==
    ASSUME IInv, NEW c \in Clients
    PROVE  /\ NewRow(c) \in Row /\ PredecessorRun(c) \in 0..made
           /\ made \in Nat
<1>1. made \in Nat
  BY DEF IInv, TypeOK
<1>2. PredecessorRun(c) \in 0..made
  <2>1. CASE PredecessorOf[c] = NoKey
    BY <1>1, <2>1 DEF PredecessorRun, NoRun
  <2>2. CASE PredecessorOf[c] # NoKey
    <3>1. PredecessorOf[c] \in Keys
      BY <2>2, RequestsAssumption
    <3>2. row[PredecessorOf[c]].run \in 0..made
      BY <1>1, <3>1 DEF IInv, OwnRow, Requested, NoRow, NoRun
    <3> QED
      BY <2>2, <3>2 DEF PredecessorRun
  <2> QED
    BY <2>1, <2>2
<1>3. DigestOf[c] \in Digests /\ PolicyOf[c] \in {"process_exit", "external_receipt"}
  BY RequestsAssumption DEF Digests
<1>4. NewRow(c) \in Row
  <2> DEFINE a == [NoRow EXCEPT !.phase = "queued", !.digest = DigestOf[c]]
             b == [a EXCEPT !.policy = PolicyOf[c], !.run = made + 1]
             d == [b EXCEPT !.predecessor = PredecessorRun(c)]
  <2>1. NewRow(c) = d
    BY DEF NewRow
  <2>2. a \in Row
    BY <1>3, NoRowType DEF Row, Phases
  <2> HIDE DEF a
  <2>3. b \in Row
    <3>1. made + 1 \in Nat
      BY <1>1
    <3> QED
      BY <1>3, <2>2, <3>1 DEF Row
  <2> HIDE DEF b
  <2>4. d \in Row
    <3>1. PredecessorRun(c) \in Nat
      BY <1>1, <1>2
    <3> QED
      BY <2>3, <3>1 DEF Row
  <2> QED
    BY <2>1, <2>4
<1> QED
  BY <1>1, <1>2, <1>4

\* A new row is numbered and stands for the request that made it; its key had no creator.
LEMMA ReserveGood ==
    ASSUME IInv, NEW c \in Clients, Reserve(c)
    PROVE  IInv'
<1> DEFINE k == KeyOf[c]
           before == {j \in Keys : Exists(j)}
<1>1. /\ k \in Keys /\ ~Exists(k) /\ row[k] = NoRow
      /\ row' = [row EXCEPT ![k] = NewRow(c)] /\ run' = [run EXCEPT ![k] = "queued"]
      /\ made' = made + 1 /\ handling' = handling \cup {c}
      /\ UNCHANGED <<attempts, manifest, working, pending, errors, client, crashes>>
  BY RequestsAssumption DEF Reserve, Missing, Become, IInv, OwnRow, loop
<1>2. /\ row' \in [Keys -> Row] /\ row'[k] = NewRow(c)
      /\ \A j \in Keys \ {k} : row'[j] = row[j]
  BY <1>1, NewRowType DEF IInv, TypeOK
<1>3. /\ NewRow(c).phase = "queued" /\ NewRow(c).outcome = "none" /\ NewRow(c).run = made + 1
      /\ NewRow(c).digest = DigestOf[c] /\ NewRow(c).policy = PolicyOf[c]
      /\ NewRow(c).predecessor = PredecessorRun(c) /\ NewRow(c).asked = FALSE
      /\ NewRow(c).completion = "none"
  BY DEF NewRow, NoRow
<1>4. Exists(k)' /\ (\A j \in Keys \ {k} : Exists(j)' <=> Exists(j))
  BY <1>2, <1>3 DEF Exists
<1>5. {j \in Keys : Exists(j)}' = before \cup {k} /\ k \notin before
  BY <1>1, <1>4
<1>6. Numbered'
  <2>1. {row[j].run : j \in before} = 1..made /\ made = Cardinality(before) /\ made \in Nat
    BY NewRowType DEF IInv, Numbered
  <2>2. IsFiniteSet(before)
    BY RequestsAssumption, FS_Subset
  <2>3. Cardinality(before \cup {k}) = made + 1
    BY <1>5, <2>1, <2>2, FS_AddElement
  <2>4. {row'[j].run : j \in before \cup {k}} = {row[j].run : j \in before} \cup {made + 1}
    BY <1>1, <1>2, <1>3, <1>5
  <2>5. 1..(made + 1) = (1..made) \cup {made + 1}
    BY <2>1
  <2> QED
    BY <1>1, <1>5, <2>1, <2>3, <2>4, <2>5 DEF Numbered
<1>7. TypeOK'
  <2>1. made' \in 0..Cardinality(Keys)
    <3>1. Cardinality(before \cup {k}) <= Cardinality(Keys) /\ before \cup {k} \subseteq Keys
      BY <1>1, RequestsAssumption, FS_Subset
    <3>2. made' = Cardinality(before \cup {k}) /\ made \in Nat /\ Cardinality(Keys) \in Nat
      BY <1>5, <1>6, NewRowType, RequestsAssumption, FS_CardinalityType DEF Numbered
    <3> QED
      BY <1>1, <3>1, <3>2
  <2> QED
    BY <1>1, <1>2, <2>1 DEF IInv, TypeOK, Statuses
<1>8. \A j \in Keys : OwnRow(j)' /\ Requested(j)' /\ (Touched(j)' => Exists(j)')
  <2>1. OwnRow(k)'
    BY <1>1, <1>2, <1>3, <1>4, RequestsAssumption DEF OwnRow, Sound
  <2>2. Requested(k)'
    BY <1>1, <1>2, <1>3, NewRowType DEF Requested
  <2>3. ASSUME NEW j \in Keys \ {k} PROVE OwnRow(j)' /\ Requested(j)'
    <3>1. OwnRow(j) /\ Requested(j) /\ row'[j] = row[j] /\ (Exists(j)' <=> Exists(j))
      BY <1>2, <1>4 DEF IInv
    <3> QED
      BY <1>1, <3>1, NewRowType DEF OwnRow, Sound, Requested
  <2>4. ASSUME NEW j \in Keys \ {k}, Touched(j)' PROVE Exists(j)'
    <3>1. run'[j] = run[j]
      BY <1>1 DEF IInv, TypeOK
    <3>2. Touched(j)
      BY <1>1, <2>4, <3>1 DEF Touched
    <3> QED
      BY <1>4, <3>2 DEF IInv
  <2> QED
    BY <1>4, <2>1, <2>2, <2>3, <2>4
<1>9. \A d \in Clients : Informed(d)'
  <2> SUFFICES ASSUME NEW d \in Clients PROVE Informed(d)'
    OBVIOUS
  <2>1. Informed(d) /\ KeyOf[d] \in Keys
    BY RequestsAssumption DEF IInv
  <2>2. CASE KeyOf[d] = k
    <3>1. d \notin handling /\ ~Knows(d) /\ client[d].stage # "refused" /\ ~client[d].created
          /\ client[d].read = "none"
      BY <1>1, <2>1, <2>2 DEF Informed, NoRow
    <3>2. d \in handling' => d = c
      BY <1>1, <3>1
    <3> QED
      BY <1>1, <1>2, <1>3, <1>4, <2>2, <3>1, <3>2 DEF Informed, Knows
  <2>3. CASE KeyOf[d] # k
    <3>1. d # c
      BY <2>3
    <3> QED
      BY <1>1, <1>2, <1>4, <2>1, <2>3, <3>1 DEF Informed, Knows
  <2> QED
    BY <2>2, <2>3
<1>10. OneCreator'
  <2>1. \A d \in Clients : Creator(d)' <=> Creator(d) \/ d = c
    BY <1>1 DEF Creator
  <2>2. \A d \in Clients : KeyOf[d] = k => ~Creator(d)
    BY <1>1 DEF Creator, IInv, Informed
  <2> QED
    BY <2>1, <2>2 DEF IInv, OneCreator
<1> QED
  BY <1>6, <1>7, <1>8, <1>9, <1>10 DEF IInv

\* A step in which only client c is told something, that is true of its row.
LEMMA ClientTold ==
    ASSUME IInv, NEW c \in Clients, NEW new, client' = [client EXCEPT ![c] = new],
           new \in Client,
           handling' \subseteq handling,
           UNCHANGED <<runs, attempts, made, manifest, working, loop, crashes>>,
           Informed(c)', Creator(c)' => Creator(c)
    PROVE  IInv'
<1>1. client'[c] = new /\ \A d \in Clients \ {c} : client'[d] = client[d]
  BY DEF IInv, TypeOK
<1>2. TypeOK'
  BY DEF IInv, TypeOK, runs, loop
<1>3. \A k \in Keys : OwnRow(k)' /\ Requested(k)' /\ (Touched(k)' => Exists(k)')
  BY DEF IInv, OwnRow, Requested, Exists, Touched, runs, loop
<1>4. \A d \in Clients : Informed(d)'
  BY <1>1 DEF IInv, Informed, Knows, Exists, runs
<1>5. OneCreator'
  <2>1. \A d \in Clients : Creator(d)' => Creator(d)
    BY <1>1 DEF Creator
  <2> QED
    BY <2>1 DEF IInv, OneCreator
<1>6. Numbered'
  BY DEF IInv, Numbered, Exists, runs
<1> QED
  BY <1>2, <1>3, <1>4, <1>5, <1>6 DEF IInv

\* Who is refused asked for something else: equal digests are equal requests.
LEMMA RepeatGood ==
    ASSUME IInv, NEW c \in Clients, Repeat(c)
    PROVE  IInv'
<1> DEFINE k == KeyOf[c]
<1>1. k \in Keys /\ Exists(k) /\ client[c].stage = "waiting" /\ Informed(c)
      /\ row[k].run \in Nat /\ ~client[c].created
  BY RequestsAssumption DEF Repeat, IInv, TypeOK, Row, Informed, Knows
<1>2. CASE Differs(c)
  <2> DEFINE new == [client[c] EXCEPT !.stage = "refused"]
  <2>1. row[k].digest # DigestOf[c]
    <3>1. PICK d \in Clients : /\ KeyOf[d] = k
                               /\ row[k].digest = DigestOf[d] /\ row[k].policy = PolicyOf[d]
      BY <1>1 DEF IInv, Requested
    <3> QED
      BY <1>2, <3>1, DigestAssumption DEF Differs
  <2>2. client' = [client EXCEPT ![c] = new] /\ client'[c].stage = "refused"
        /\ client'[c].created = client[c].created /\ client'[c].read = client[c].read
    BY <1>2 DEF Repeat, IInv, TypeOK, Client
  <2>3. c \notin handling
    BY <1>1, <2>1 DEF Informed
  <2>4. Informed(c)'
    BY <1>1, <2>1, <2>2, <2>3 DEF Informed, Knows, Repeat, Exists, runs
  <2>5. Creator(c)' => Creator(c)
    BY <2>2 DEF Creator, Repeat
  <2>6. new \in Client
    BY DEF IInv, TypeOK, Client
  <2> QED
    BY <2>2, <2>4, <2>5, <2>6, ClientTold DEF Repeat
<1>3. CASE ~Differs(c)
  <2> DEFINE new == Told(c, FALSE)
  <2>1. client' = [client EXCEPT ![c] = new]
    BY <1>3 DEF Repeat
  <2>2. new \in Client
    BY <1>1 DEF IInv, TypeOK, Client, Told
  <2>3. /\ client'[c] = new
        /\ new.stage = "answered" /\ new.run = row[k].run /\ new.created = FALSE
        /\ new.read = client[c].read
    BY <2>1 DEF IInv, TypeOK, Client, Told
  <2>4. Informed(c)'
    BY <1>1, <1>3, <2>3 DEF Informed, Knows, Differs, Repeat, Exists, runs
  <2>5. Creator(c)' => Creator(c)
    BY <2>3 DEF Creator, Repeat
  <2> QED
    BY <2>1, <2>2, <2>4, <2>5, ClientTold DEF Repeat
<1> QED
  BY <1>2, <1>3

LEMMA AnswerGood ==
    ASSUME IInv, NEW c \in Clients, Answer(c)
    PROVE  IInv'
<1>1. c \in handling /\ handling' = handling \ {c} /\ Informed(c) /\ KeyOf[c] \in Keys
      /\ row[KeyOf[c]].run \in Nat
  BY RequestsAssumption DEF Answer, IInv, TypeOK, Row
<1>2. CASE client[c].stage = "waiting"
  <2> DEFINE new == Told(c, TRUE)
  <2>1. client' = [client EXCEPT ![c] = new]
    BY <1>2 DEF Answer
  <2>2. new \in Client
    BY <1>1 DEF IInv, TypeOK, Client, Told
  <2>3. /\ client'[c] = new
        /\ new.stage = "answered" /\ new.run = row[KeyOf[c]].run /\ new.read = client[c].read
    BY <2>1 DEF IInv, TypeOK, Client, Told
  <2>4. Informed(c)'
    BY <1>1, <2>3 DEF Informed, Knows, Answer, Exists, runs
  <2> QED
    BY <1>1, <2>1, <2>2, <2>4, ClientTold DEF Answer, Creator
<1>3. CASE client[c].stage # "waiting"
  BY <1>1, <1>3, RowsStep DEF Answer, IInv, TypeOK, Touched, runs, loop
<1> QED
  BY <1>2, <1>3

LEMMA LoseAnswerGood ==
    ASSUME IInv, NEW c \in Clients, LoseAnswer(c)
    PROVE  IInv'
BY RowsStep DEF LoseAnswer, IInv, TypeOK, Touched, runs, loop

-----------------------------------------------------------------------------
(* The run behind a row *)

\* What a step of the run manager leaves alone, and what it does to the rows.
Managed ==
    /\ row' \in [Keys -> Row] /\ run' \in [Keys -> Statuses] /\ attempts' \in [Keys -> Nat]
    /\ working' \in SUBSET Keys /\ pending' \in SUBSET Pending
    /\ errors' \in SUBSET (Keys \X Nat)
    /\ handling' \subseteq handling /\ crashes' \in 0..MaxCrashes
    /\ made' = made /\ manifest' = manifest /\ client' = client
    /\ \A k \in Keys : /\ row'[k] = row[k] \/ (Exists(k) /\ Moves(row[k], row'[k]))
                       /\ Touched(k)' => Touched(k) \/ Exists(k)

\* Nothing that was recorded of a completion, and nothing that a client has read, changes.
EvidenceKept ==
    /\ \A k \in Keys : row[k].completion # "none" => row[k].completion' = row[k].completion
    /\ \A c \in Clients : client[c].read # "none" => client[c].read' = client[c].read

LEMMA ManagedGood ==
    ASSUME IInv, Managed
    PROVE  IInv' /\ EvidenceKept
<1>1. \A k \in Keys : /\ \/ Exists(k) /\ Develops(row[k], row'[k])
                         \/ row'[k] = row[k]
                      /\ row'[k].completion = row[k].completion
                      /\ Touched(k)' => Touched(k) \/ Exists(k)
  BY DEF Managed, Moves
<1>2. IInv'
  BY <1>1, RowsStep DEF Managed, IInv, TypeOK
<1>3. EvidenceKept
  BY <1>1 DEF Managed, EvidenceKept
<1> QED
  BY <1>2, <1>3

\* Only the row and the run of k are written.
Writes(k) ==
    /\ row' \in [Keys -> Row] /\ run' \in [Keys -> Statuses]
    /\ \A j \in Keys \ {k} : row'[j] = row[j] /\ run'[j] = run[j]
    /\ row'[k] = row[k] \/ Moves(row[k], row'[k])

LEMMA UnchangedWrites == ASSUME IInv, NEW k \in Keys, UNCHANGED runs PROVE Writes(k)
BY DEF Writes, IInv, TypeOK, runs

LEMMA BecomeWrites ==
    ASSUME IInv, NEW k \in Keys, NEW r, NEW status \in Statuses, Become(k, r, status),
           Moves(row[k], r)
    PROVE  Writes(k) /\ row'[k] = r /\ run'[k] = status
BY DEF Become, Moves, Writes, IInv, TypeOK

LEMMA RowFacts ==
    ASSUME IInv, NEW k \in Keys
    PROVE  row[k] \in Row /\ Sound(row[k]) /\ (Touched(k) => Exists(k))
BY DEF IInv, TypeOK, OwnRow

LEMMA KeyStep ==
    ASSUME IInv, NEW k \in Keys, Exists(k), Writes(k), attempts' \in [Keys -> Nat],
           working' \in SUBSET Keys, pending' \in SUBSET Pending,
           errors' \in SUBSET (Keys \X Nat), working' \subseteq working \cup {k},
           \A p \in pending' : p \in pending \/ p.key = k,
           \A e \in errors' : e \in errors \/ e[1] = k,
           UNCHANGED <<made, manifest, handling, client, crashes>>
    PROVE  Managed
<1>1. \A j \in Keys \ {k} : Touched(j)' => Touched(j)
  BY DEF Writes, Touched
<1>2. \A j \in Keys : row'[j] = row[j] \/ (Exists(j) /\ Moves(row[j], row'[j]))
  BY RowFacts DEF Writes
<1> QED
  BY <1>1, <1>2 DEF Managed, Writes, IInv, TypeOK

LEMMA RetriedWrites == ASSUME IInv, NEW k \in Keys, Retried(k) PROVE Writes(k)
BY RowFacts, InPhaseMoves, BecomeWrites DEF Retried, Phases, Statuses

LEMMA AttemptFailsWrites == ASSUME IInv, NEW k \in Keys, AttemptFails(k) PROVE Writes(k)
<1>1. row[k] \in Row /\ Sound(row[k])
  BY RowFacts
<1>2. CASE Become(k, Settled(row[k], "failed"), "finished")
  <2>1. Moves(row[k], Settled(row[k], "failed"))
    BY <1>1, SettledMoves DEF Verdicts
  <2> QED
    BY <1>2, <2>1, BecomeWrites DEF Statuses
<1> QED
  BY <1>2, UnchangedWrites, RetriedWrites DEF AttemptFails

LEMMA LaunchManaged == ASSUME IInv, NEW k \in Keys, NEW how \in LaunchKinds[k], Launch(k, how)
                       PROVE  Managed
<1> DEFINE n == attempts[k] + 1
<1>1. Exists(k) /\ row[k] \in Row /\ Sound(row[k]) /\ n \in Nat
  BY RowFacts DEF Launch, Touched, IInv, TypeOK
<1>2. Writes(k)
  BY <1>1, InPhaseMoves, BecomeWrites DEF Launch, Phases, Statuses
<1>3. [key |-> k, attempt |-> n, rejected |-> how = "reject"] \in Pending
  BY <1>1 DEF Pending
<1>4. /\ attempts' \in [Keys -> Nat]
      /\ working' \in SUBSET Keys /\ working' \subseteq working \cup {k}
  BY <1>1 DEF Launch, IInv, TypeOK
<1>5. /\ pending' \in SUBSET Pending /\ errors' \in SUBSET (Keys \X Nat)
      /\ \A p \in pending' : p \in pending \/ p.key = k
      /\ \A e \in errors' : e \in errors \/ e[1] = k
  BY <1>1, <1>3 DEF Launch, IInv, TypeOK
<1>6. UNCHANGED <<made, manifest, handling, client, crashes>>
  BY DEF Launch, told
<1> QED
  BY <1>1, <1>2, <1>4, <1>5, <1>6, KeyStep

LEMMA PreparationFailsManaged == ASSUME IInv, NEW k \in Keys, PreparationFails(k) PROVE Managed
<1>1. Exists(k) /\ row[k] \in Row /\ Sound(row[k])
  BY RowFacts DEF PreparationFails, Touched
<1>2. Writes(k)
  BY <1>1, InPhaseMoves, BecomeWrites DEF PreparationFails, Phases, Statuses
<1> QED
  BY <1>1, <1>2, KeyStep DEF PreparationFails, IInv, TypeOK, loop, told

LEMMA ContinueManaged == ASSUME IInv, NEW p \in pending, Continue(p) PROVE Managed
<1> DEFINE k == p.key
<1>1. k \in Keys /\ Exists(k) /\ row[k] \in Row /\ Sound(row[k])
  BY RowFacts DEF IInv, TypeOK, Pending, Touched
<1>2. Writes(k)
  <2>1. CASE p.rejected
    BY <1>1, <2>1, AttemptFailsWrites, UnchangedWrites DEF Continue
  <2>2. CASE ~p.rejected
    <3> DEFINE r == IF row[k].phase = "cancelling" THEN row[k] ELSE InPhase(row[k], "active")
    <3>1. Moves(row[k], r)
      BY <1>1, InPhaseMoves DEF Phases, Moves, Develops
    <3> QED
      BY <1>1, <2>2, <3>1, BecomeWrites DEF Continue, Statuses
  <2> QED
    BY <2>1, <2>2
<1> QED
  BY <1>1, <1>2, KeyStep DEF Continue, IInv, TypeOK, told

LEMMA SpawnErrorManaged == ASSUME IInv, NEW e \in errors, SpawnError(e) PROVE Managed
<1>1. e[1] \in Keys /\ Exists(e[1])
  BY RowFacts DEF IInv, TypeOK, Touched
<1>2. Writes(e[1])
  BY <1>1, AttemptFailsWrites, UnchangedWrites DEF SpawnError
<1> QED
  BY <1>1, <1>2, KeyStep DEF SpawnError, IInv, TypeOK, told

LEMMA ProcessExitManaged ==
    ASSUME IInv, NEW k \in Keys, NEW clean \in BOOLEAN, ProcessExit(k, clean)
    PROVE  Managed
<1>1. Exists(k) /\ row[k] \in Row /\ Sound(row[k])
  BY RowFacts DEF ProcessExit, Touched
<1>2. Moves(row[k], AfterExit(row[k], clean))
  BY <1>1, AfterExitMoves
<1>3. Writes(k)
  BY <1>2, RetriedWrites, UnchangedWrites, BecomeWrites DEF ProcessExit, Statuses
<1> QED
  BY <1>1, <1>3, KeyStep DEF ProcessExit, IInv, TypeOK, loop, told

LEMMA OperatorEndsManaged == ASSUME IInv, NEW k \in Keys, OperatorEnds(k) PROVE Managed
<1>1. Exists(k) /\ run[k] # "none"
  BY RowFacts DEF OperatorEnds, Touched
<1>2. Writes(k)
  BY DEF OperatorEnds, Writes, IInv, TypeOK, Statuses
<1> QED
  BY <1>1, <1>2, KeyStep DEF OperatorEnds, IInv, TypeOK, loop, told

LEMMA ExpireManaged == ASSUME IInv, NEW k \in Keys, ExpireMissingCompletion(k) PROVE Managed
<1>1. row[k] \in Row /\ Sound(row[k]) /\ Exists(k)
  BY RowFacts DEF ExpireMissingCompletion, Exists
<1>2. Moves(row[k], Settled(row[k], "failed"))
  BY <1>1, SettledMoves DEF Verdicts
<1>3. \A j \in Keys : Touched(j)' <=> Touched(j)
  BY DEF ExpireMissingCompletion, Touched, loop
<1> QED
  BY <1>1, <1>2, <1>3 DEF ExpireMissingCompletion, Managed, Moves, IInv, TypeOK, loop, told

LEMMA ReservationFailsManaged ==
    ASSUME IInv, NEW c \in Clients, ReservationFails(c)
    PROVE  Managed
<1> DEFINE k == KeyOf[c]
<1>1. k \in Keys /\ row[k] \in Row /\ Sound(row[k]) /\ Exists(k)
  BY RequestsAssumption, RowFacts DEF ReservationFails, IInv, Informed
<1>2. Writes(k)
  BY <1>1, SettledMoves, BecomeWrites DEF ReservationFails, Statuses, Verdicts
<1> QED
  BY <1>1, <1>2, KeyStep DEF ReservationFails, IInv, TypeOK, loop, told

\* What had a process is settled, and no process is left.
LEMMA CrashManaged == ASSUME IInv, Crash PROVE Managed
<1>1. \A k \in Keys : /\ row'[k] = IF Lost(k) THEN Settled(row[k], "failed") ELSE row[k]
                      /\ run'[k] = IF Lost(k) THEN "finished" ELSE run[k]
  BY DEF Crash
<1>2. ASSUME NEW k \in Keys
      PROVE  /\ row'[k] = row[k] \/ (Exists(k) /\ Moves(row[k], row'[k]))
             /\ row'[k] \in Row /\ run'[k] \in Statuses /\ (Touched(k)' => Touched(k))
  <2>1. row[k] \in Row /\ Sound(row[k]) /\ (Touched(k) => Exists(k)) /\ run[k] \in Statuses
    BY RowFacts DEF IInv, TypeOK
  <2>2. Lost(k) => Touched(k)
    BY DEF Lost, Touched
  <2>3. Moves(row[k], Settled(row[k], "failed"))
    BY <2>1, SettledMoves DEF Verdicts
  <2>4. Touched(k)' => Touched(k)
    BY <1>1, <2>2 DEF Crash, Touched
  <2> QED
    BY <1>1, <2>1, <2>2, <2>3, <2>4 DEF Moves, Statuses
<1>3. row' \in [Keys -> Row] /\ run' \in [Keys -> Statuses]
  BY <1>2 DEF Crash
<1>4. crashes' \in 0..MaxCrashes
  BY EnvironmentAssumption DEF Crash, IInv, TypeOK
<1> QED
  BY <1>2, <1>3, <1>4 DEF Crash, Managed, IInv, TypeOK

-----------------------------------------------------------------------------
(* Other calls *)

LEMMA RegisterManifestGood ==
    ASSUME IInv, NEW c \in Clients, RegisterManifest(c)
    PROVE  IInv' /\ EvidenceKept
<1>1. manifest' = manifest \cup {KeyOf[c]} /\ manifest' \in SUBSET Keys
      /\ UNCHANGED <<row, run, attempts, made, working, pending, errors, handling, client, crashes>>
  BY RequestsAssumption DEF RegisterManifest, IInv, TypeOK, runs, loop, told
<1>2. IInv'
  BY <1>1, RowsStep DEF IInv, TypeOK, Touched
<1> QED
  BY <1>1, <1>2 DEF EvidenceKept

\* The first completion is recorded, and ends work whose process is gone.
LEMMA CompletionRow ==
    ASSUME NEW r \in Row, NEW completion \in Completions, r.phase \notin {"none", "terminal"},
           Sound(r)
    PROVE  LET s == RecordCompletion(r, completion)
           IN  /\ s \in Row /\ Develops(r, s) /\ s.asked = r.asked
               /\ s.completion \in {r.completion, completion}
               /\ r.completion # "none" => s = r
               /\ \/ s.phase = r.phase /\ s.outcome = r.outcome
                  \/ /\ r.phase = "awaiting_completion" /\ s.phase = "terminal"
                     /\ s.outcome = "succeeded" /\ s.completion = completion
<1>1. completion # "none"
  BY RequestsAssumption DEF Completions
<1>2. CASE r.completion # "none"
  BY <1>2 DEF RecordCompletion, Develops
<1>3. CASE r.completion = "none" /\ r.phase = "awaiting_completion"
  <2> DEFINE s == [Settled(r, "succeeded") EXCEPT !.completion = completion]
  <2>1. RecordCompletion(r, completion) = s
    BY <1>3 DEF RecordCompletion
  <2>2. s \in Row /\ s.phase = "terminal" /\ s.outcome = "succeeded" /\ s.asked = r.asked
        /\ s.completion = completion /\ s.run = r.run /\ s.predecessor = r.predecessor
        /\ s.digest = r.digest /\ s.policy = r.policy
    BY <1>3 DEF Settled, Row, Phases, Verdicts
  <2> HIDE DEF s
  <2> QED
    BY <1>1, <1>3, <2>1, <2>2 DEF Develops, Sound
<1>4. CASE r.completion = "none" /\ r.phase # "awaiting_completion"
  BY <1>1, <1>4 DEF RecordCompletion, Develops, Sound, Row
<1> QED
  BY <1>2, <1>3, <1>4

LEMMA CompleteGood ==
    ASSUME IInv, NEW c \in Clients, NEW completion \in Completions, Complete(c, completion)
    PROVE  IInv' /\ EvidenceKept
<1> DEFINE k == KeyOf[c]
           r == RecordCompletion(row[k], completion)
<1>1. k \in Keys /\ row[k] \in Row /\ OwnRow(k) /\ row[k].phase \notin {"none", "terminal"}
      /\ row' = [row EXCEPT ![k] = r]
      /\ UNCHANGED <<run, attempts, made, manifest, working, pending, errors, handling, client,
                     crashes>>
  BY RequestsAssumption DEF Complete, Open, IInv, TypeOK, loop, told
<1>2. completion \in Keys => completion = k /\ k \in manifest
  BY DEF Complete, OwnsManifest
<1>3. r \in Row /\ Develops(row[k], r) /\ r.completion \in {row[k].completion, completion}
  BY <1>1, CompletionRow DEF OwnRow
<1> HIDE DEF r
<1>4. /\ row' \in [Keys -> Row] /\ row'[k] = r
      /\ \A j \in Keys \ {k} : row'[j] = row[j]
  BY <1>1, <1>3 DEF IInv, TypeOK
<1>5. \A j \in Keys : Touched(j)' <=> Touched(j)
  BY <1>1 DEF Touched
<1>6. \A j \in Keys : /\ \/ Exists(j) /\ Develops(row[j], row'[j])
                         \/ row'[j] = row[j]
                      /\ \/ row'[j].completion = row[j].completion
                         \/ row'[j].completion \in Keys
                              => row'[j].completion = j /\ j \in manifest
  BY <1>1, <1>2, <1>3, <1>4 DEF Exists
<1>7. IInv'
  BY <1>1, <1>4, <1>5, <1>6, RowsStep DEF IInv, TypeOK
<1>8. EvidenceKept
  BY <1>1, <1>6 DEF EvidenceKept, Develops
<1> QED
  BY <1>7, <1>8

LEMMA CancelManaged ==
    ASSUME IInv, NEW c \in Clients, Cancel(c)
    PROVE  Managed
<1> DEFINE k == KeyOf[c]
<1>1. k \in Keys /\ row[k] \in Row /\ Sound(row[k]) /\ Exists(k) /\ row[k].phase # "terminal"
      /\ run[k] \in Statuses
  BY RequestsAssumption, RowFacts DEF Cancel, Open, Exists, IInv, TypeOK
<1>2. Moves(row[k], [Settled(row[k], "cancelled") EXCEPT !.asked = TRUE])
  BY <1>1 DEF Settled, Moves, Develops, Sound, Row, Phases, Verdicts
<1>3. Moves(row[k], [row[k] EXCEPT !.phase = "cancelling", !.asked = TRUE])
  BY <1>1 DEF Moves, Develops, Sound, Row, Phases, Verdicts
<1>4. Writes(k)
  BY <1>1, <1>2, <1>3, BecomeWrites DEF Cancel, Statuses
<1> QED
  BY <1>1, <1>4, KeyStep DEF Cancel, IInv, TypeOK, loop, told

LEMMA InspectGood ==
    ASSUME IInv, NEW c \in Clients, Inspect(c)
    PROVE  IInv' /\ EvidenceKept
<1> DEFINE new == [client[c] EXCEPT !.read = row[KeyOf[c]].outcome]
<1>1. KeyOf[c] \in Keys /\ row[KeyOf[c]] \in Row /\ Informed(c) /\ Knows(c)
      /\ row[KeyOf[c]].phase = "terminal"
  BY RequestsAssumption DEF Inspect, IInv, TypeOK
<1>2. new \in Client
  BY <1>1 DEF IInv, TypeOK, Client, Row
<1>3. /\ client' = [client EXCEPT ![c] = new] /\ client'[c] = new
      /\ new.stage = client[c].stage /\ new.run = client[c].run
      /\ new.created = client[c].created /\ new.read = row[KeyOf[c]].outcome
  BY DEF Inspect, IInv, TypeOK, Client
<1>4. Informed(c)'
  BY <1>1, <1>3 DEF Informed, Knows, Inspect, Exists, runs
<1>5. IInv'
  BY <1>2, <1>3, <1>4, ClientTold DEF Inspect, Creator
<1>6. EvidenceKept
  <2>1. client[c].read # "none" => new.read = client[c].read
    BY <1>1, <1>3 DEF Informed
  <2> QED
    BY <1>3, <2>1 DEF Inspect, EvidenceKept, runs, IInv, TypeOK
<1> QED
  BY <1>5, <1>6

-----------------------------------------------------------------------------
LEMMA NextGood == IInv /\ [Next]_vars => IInv' /\ EvidenceKept
<1> SUFFICES ASSUME IInv, [Next]_vars PROVE IInv' /\ EvidenceKept
  OBVIOUS
<1>1. CASE UNCHANGED vars
  <2>1. UNCHANGED <<row, run, attempts, made, manifest, working, pending, errors, handling,
                    client, crashes>>
    BY <1>1 DEF vars, runs, loop, told
  <2> QED
    BY <2>1, RowsStep DEF IInv, TypeOK, Touched, EvidenceKept
<1>2. ASSUME NEW c \in Clients, ClientStep(c) PROVE IInv' /\ EvidenceKept
  <2>1. CASE Reserve(c)
    <3>1. KeyOf[c] \in Keys /\ row[KeyOf[c]].completion = "none" /\ client' = client
          /\ row' = [row EXCEPT ![KeyOf[c]] = NewRow(c)]
      BY <2>1, RequestsAssumption DEF Reserve, Missing, Become, IInv, OwnRow, NoRow
    <3>2. EvidenceKept
      BY <3>1 DEF EvidenceKept, IInv, TypeOK
    <3> QED
      BY <2>1, <3>2, ReserveGood
  <2>2. CASE Repeat(c)
    <3>1. EvidenceKept
      BY <2>2 DEF Repeat, Told, runs, EvidenceKept, IInv, TypeOK, Client
    <3> QED
      BY <2>2, <3>1, RepeatGood
  <2>3. CASE Answer(c)
    <3>1. EvidenceKept
      BY <2>3 DEF Answer, Told, runs, EvidenceKept, IInv, TypeOK, Client
    <3> QED
      BY <2>3, <3>1, AnswerGood
  <2>4. CASE LoseAnswer(c)
    <3>1. EvidenceKept
      BY <2>4 DEF LoseAnswer, runs, EvidenceKept
    <3> QED
      BY <2>4, <3>1, LoseAnswerGood
  <2>5. CASE RegisterManifest(c)
    BY <2>5, RegisterManifestGood
  <2>6. CASE Cancel(c)
    BY <2>6, CancelManaged, ManagedGood
  <2>7. CASE Inspect(c)
    BY <2>7, InspectGood
  <2>8. CASE \E completion \in Completions : Complete(c, completion)
    BY <2>8, CompleteGood
  <2> QED
    BY <1>2, <2>1, <2>2, <2>3, <2>4, <2>5, <2>6, <2>7, <2>8 DEF ClientStep
<1>3. ASSUME NEW k \in Keys, RunStep(k) PROVE Managed
  BY <1>3, LaunchManaged, PreparationFailsManaged, ProcessExitManaged, OperatorEndsManaged,
     ExpireManaged DEF RunStep
<1>4. CASE LoopStep
  BY <1>4, ContinueManaged, SpawnErrorManaged, ManagedGood DEF LoopStep
<1>5. CASE Crash
  BY <1>5, CrashManaged, ManagedGood
<1>6. ASSUME NEW c \in Clients, ReservationFails(c) PROVE Managed
  BY <1>6, ReservationFailsManaged
<1> QED
  BY <1>1, <1>2, <1>3, <1>4, <1>5, <1>6, ManagedGood DEF Next

LEMMA Invariance == Spec => []IInv
<1>1. IInv /\ [Next]_vars => IInv'
  BY NextGood
<1> QED
  BY <1>1, InitGood, PTL DEF Spec

-----------------------------------------------------------------------------
(* Theorems *)

\* Whatever is lost, repeated or refused, however a launch fails, and whatever operators do:
\* one run for each key, all answers name it, one at most says that it was created, conflicts
\* are real, lineage has no cycle, and gated work succeeds with its own evidence
\* (createOrGet, recordCompletion, assertOwnedByExecution).
THEOREM RequestsKeepTheirRun == Spec => []RequestInv
<1>1. IInv => RequestInv
  <2> SUFFICES ASSUME IInv PROVE RequestInv
    OBVIOUS
  <2>1. TypeOK
    BY DEF IInv
  <2>2. OneRunPerKey
    BY DEF IInv, Numbered, OneRunPerKey, Informed
  <2>3. CreatedOnce
    BY DEF IInv, OneCreator, Creator, CreatedOnce
  <2>4. ConflictsAreReal
    BY DEF IInv, Informed, ConflictsAreReal
  <2>5. LineageIsAcyclic
    BY DEF IInv, Requested, LineageIsAcyclic
  <2>6. EvidenceIsOwn
    BY DEF IInv, OwnRow, Sound, EvidenceIsOwn
  <2> QED
    BY <2>1, <2>2, <2>3, <2>4, <2>5, <2>6 DEF RequestInv
<1> QED
  BY <1>1, Invariance, PTL

\* Replays, late exits and failed dispatches change neither a completion that was recorded
\* nor a verdict that a client has read (recordCompletion, and the guards of every terminal
\* update).
THEOREM EvidenceStays == Spec => EvidenceIsFinal
<1>1. IInv /\ [Next]_vars => EvidenceKept
  BY NextGood
<1>2. EvidenceKept =>
        /\ \A k \in Keys : row[k].completion # "none" => row[k].completion' = row[k].completion
        /\ \A c \in Clients : client[c].read # "none" => client[c].read' = client[c].read
  BY DEF EvidenceKept
<1> QED
  BY <1>1, <1>2, Invariance, PTL DEF Spec, EvidenceIsFinal

-----------------------------------------------------------------------------
(* The rows of plain keys implement the contract *)

LEMMA SeenStatus ==
    ASSUME NEW r \in Row
    PROVE  /\ r.phase = "none" => Seen(r) = "absent"
           /\ r.phase = "terminal" => Seen(r) = r.outcome
           /\ r.phase \in {"queued", "starting"} => Seen(r) = "pending"
           /\ r.phase \in {"active", "cancelling", "awaiting_completion"} => Seen(r) = "running"
BY DEF Seen

Launching(k) == \E p \in pending : p.key = k

\* The row of a plain key, its run, its process and the startRun() call that awaits the
\* runner, as they agree between any two handlers.
PlainRow(k) ==
    LET r == row[k]
    IN  \/ run[k] = "none" /\ r.phase = "none" /\ k \notin working /\ ~Launching(k)
        \/ /\ run[k] = "queued" /\ r.phase = "queued" /\ ~r.asked
           /\ k \notin working /\ ~Launching(k)
        \/ /\ run[k] = "starting" /\ r.phase = "starting" /\ ~r.asked
           /\ \E p \in pending : /\ p.key = k /\ (p.rejected <=> k \notin working)
                                 /\ \A q \in pending : q.key = k => q = p
        \/ /\ run[k] = "active" /\ r.phase \in {"active", "cancelling"}
           /\ r.asked <=> r.phase = "cancelling"
           /\ k \in working /\ ~Launching(k)
        \/ /\ run[k] = "finished" /\ r.phase \in {"awaiting_completion", "terminal"}
           /\ r.asked => r.phase = "terminal"
           /\ k \notin working /\ ~Launching(k)

Plain == \A k \in PlainKeys : PlainRow(k) /\ \A e \in errors : e[1] # k

\* What a step does to one key, as the contract allows it.
Allowed(k) ==
    LET was == Seen(row[k])  is == Seen(row'[k])
        keeps == row'[k].asked = row[k].asked
        works == k \in working  worksNow == k \in working'
    IN  \/ is = was /\ keeps /\ (worksNow <=> works)
        \/ was = "absent" /\ is = "pending" /\ keeps
        \/ was = "pending" /\ ~works /\ ~row[k].asked /\ is = "pending" /\ keeps /\ worksNow
        \/ was = "pending" /\ works /\ is = "running" /\ keeps /\ worksNow
        \/ was \in {"pending", "running"} /\ ~row[k].asked /\ is = "pending" /\ keeps
        \/ works /\ is = was /\ keeps /\ ~worksNow
        \/ was = "running" /\ is = "running" /\ row'[k].asked /\ (worksNow <=> works)
        \/ /\ was \notin Verdicts \cup {"absent"} /\ is \in Verdicts /\ ~worksNow
           /\ row[k].asked => row'[k].asked
           /\ is = "cancelled" => row'[k].asked
           /\ is = "succeeded" => was = "running" /\ ~row'[k].asked

Keeps == Plain' /\ \A k \in PlainKeys : Allowed(k)

\* Nothing happens to the other keys.
Only(k) ==
    /\ \A j \in Keys \ {k} :
          row'[j] = row[j] /\ run'[j] = run[j] /\ (j \in working' <=> j \in working)
    /\ \A p \in pending \cup pending' : p.key # k => (p \in pending' <=> p \in pending)
    /\ \A e \in errors' : e \in errors \/ e[1] = k

LEMMA OtherKeys ==
    ASSUME Plain, NEW k, Only(k), NEW j \in PlainKeys \ {k}
    PROVE  PlainRow(j)' /\ Allowed(j) /\ \A e \in errors' : e[1] # j
<1>1. PlainRow(j) /\ j \in Keys \ {k} /\ \A e \in errors : e[1] # j
  BY DEF Plain, PlainKeys
<1>2. \A p : p.key = j => (p \in pending' <=> p \in pending)
  BY DEF Only
<1> QED
  BY <1>1, <1>2 DEF Only, PlainRow, Allowed, Launching

\* What happens to a key that is not plain is of no concern.
LEMMA RoughKey ==
    ASSUME Plain, NEW k \in Keys \ PlainKeys, Only(k)
    PROVE  Keeps
BY OtherKeys DEF Keeps, Plain

\* A step that touches one plain key needs looking at only there.
LEMMA OneKey ==
    ASSUME Plain, NEW k \in PlainKeys, errors' = errors,
           \A j \in Keys \ {k} : /\ row'[j] = row[j] /\ run'[j] = run[j]
                                 /\ j \in working' <=> j \in working,
           \A p \in pending \cup pending' : p.key # k => (p \in pending' <=> p \in pending),
           PlainRow(k)', Allowed(k)
    PROVE  Keeps
<1>1. Only(k)
  BY DEF Only
<1>2. ASSUME NEW j \in PlainKeys \ {k}
      PROVE  PlainRow(j)' /\ Allowed(j) /\ \A e \in errors' : e[1] # j
  BY <1>1, OtherKeys
<1>3. \A e \in errors' : e[1] # k
  BY DEF Plain
<1> QED
  BY <1>2, <1>3 DEF Keeps, Plain

\* The verdict of an exit, and what it follows from.
LEMMA AfterExitSettles ==
    ASSUME NEW r \in Row, NEW clean \in BOOLEAN, r.phase # "terminal"
    PROVE  LET s == AfterExit(r, clean)
           IN  /\ s.asked = r.asked
               /\ \/ s.phase = "awaiting_completion" /\ ~r.asked
                  \/ /\ s.phase = "terminal" /\ s.outcome \in Verdicts
                     /\ s.outcome = "cancelled" => r.asked
                     /\ s.outcome = "succeeded" => ~r.asked
BY DEF AfterExit, Settled, InPhase, Row, Verdicts

LEMMA LaunchPlain ==
    ASSUME IInv, IInv', Plain, NEW k \in PlainKeys, NEW how \in LaunchKinds[k],
           Launch(k, how)
    PROVE  Keeps
<1> DEFINE p == [key |-> k, attempt |-> attempts[k] + 1, rejected |-> how = "reject"]
<1>1. /\ run[k] = "queued" /\ row[k].phase = "queued" /\ ~row[k].asked /\ k \notin working
      /\ ~Launching(k) /\ how \in {"spawned", "reject"} /\ row[k] \in Row
  BY DEF Launch, Plain, PlainRow, PlainKeys, IInv, TypeOK
<1>2. /\ row' = [row EXCEPT ![k] = InPhase(row[k], "starting")]
      /\ run' = [run EXCEPT ![k] = "starting"]
      /\ pending' = pending \cup {p} /\ errors' = errors
      /\ working' = IF how = "spawned" THEN working \cup {k} ELSE working
  BY <1>1 DEF Launch, Become
<1>3. row'[k].phase = "starting" /\ row'[k].asked = row[k].asked /\ run'[k] = "starting"
      /\ row'[k] \in Row
  BY <1>1, <1>2 DEF InPhase, IInv, TypeOK, Row
<1>4. p.key = k /\ (p.rejected <=> how = "reject")
  OBVIOUS
<1> HIDE DEF p
<1>5. PlainRow(k)'
  BY <1>1, <1>2, <1>3, <1>4 DEF PlainRow, Launching
<1>6. Allowed(k)
  BY <1>1, <1>2, <1>3, SeenStatus DEF Allowed
<1> QED
  BY <1>2, <1>4, <1>5, <1>6, OneKey DEF IInv, TypeOK

LEMMA ContinuePlain ==
    ASSUME IInv, IInv', Plain, NEW p \in pending, p.key \in PlainKeys,
           Continue(p)
    PROVE  Keeps
<1> DEFINE k == p.key
<1>1. /\ k \in Keys /\ row[k] \in Row /\ row'[k] \in Row
      /\ run[k] = "starting" /\ row[k].phase = "starting" /\ ~row[k].asked
      /\ p.rejected <=> k \notin working
      /\ \A q \in pending : q.key = k => q = p
  <2>1. k \in Keys
    BY DEF IInv, TypeOK, Pending
  <2> QED
    BY <2>1 DEF Plain, PlainRow, Launching, IInv, TypeOK
<1>2. pending' = pending \ {p} /\ errors' = errors /\ working' = working
  BY DEF Continue
<1>3. ~Launching(k)'
  BY <1>1, <1>2 DEF Launching
<1>4. CASE p.rejected
  <2>1. Retried(k) \/ Become(k, Settled(row[k], "failed"), "finished")
    BY <1>1, <1>4 DEF Continue, AttemptFails, MayBeStale, PlainKeys
  <2>2. CASE Retried(k)
    <3>1. /\ row' = [row EXCEPT ![k] = InPhase(row[k], "queued")]
          /\ run' = [run EXCEPT ![k] = "queued"]
      BY <2>2 DEF Retried, Become
    <3>2. row'[k].phase = "queued" /\ row'[k].asked = row[k].asked /\ run'[k] = "queued"
      BY <1>1, <3>1 DEF InPhase, IInv, TypeOK, Row
    <3>3. PlainRow(k)' /\ Allowed(k)
      BY <1>1, <1>2, <1>3, <1>4, <3>2, SeenStatus DEF PlainRow, Allowed
    <3> QED
      BY <1>1, <1>2, <3>1, <3>3, OneKey DEF IInv, TypeOK
  <2>3. CASE Become(k, Settled(row[k], "failed"), "finished")
    <3>1. /\ row' = [row EXCEPT ![k] = Settled(row[k], "failed")]
          /\ run' = [run EXCEPT ![k] = "finished"]
      BY <2>3 DEF Become
    <3>2. row'[k].phase = "terminal" /\ row'[k].outcome = "failed"
          /\ row'[k].asked = row[k].asked /\ run'[k] = "finished"
      BY <1>1, <3>1 DEF Settled, IInv, TypeOK, Row
    <3>3. PlainRow(k)' /\ Allowed(k)
      BY <1>1, <1>2, <1>3, <1>4, <3>2, SeenStatus DEF PlainRow, Allowed, Verdicts
    <3> QED
      BY <1>1, <1>2, <3>1, <3>3, OneKey DEF IInv, TypeOK
  <2> QED
    BY <2>1, <2>2, <2>3
<1>5. CASE ~p.rejected
  <2>1. /\ row' = [row EXCEPT ![k] = InPhase(row[k], "active")]
        /\ run' = [run EXCEPT ![k] = "active"]
    BY <1>1, <1>5 DEF Continue, Become
  <2>2. row'[k].phase = "active" /\ row'[k].asked = row[k].asked /\ run'[k] = "active"
    BY <1>1, <2>1 DEF InPhase, IInv, TypeOK, Row
  <2>3. PlainRow(k)' /\ Allowed(k)
    BY <1>1, <1>2, <1>3, <1>5, <2>2, SeenStatus DEF PlainRow, Allowed
  <2> QED
    BY <1>1, <1>2, <2>1, <2>3, OneKey DEF IInv, TypeOK
<1> QED
  BY <1>4, <1>5

LEMMA ProcessExitPlain ==
    ASSUME IInv, IInv', Plain, NEW k \in PlainKeys, NEW clean \in BOOLEAN,
           ProcessExit(k, clean)
    PROVE  Keeps
<1>1. /\ row[k] \in Row /\ row'[k] \in Row /\ k \in working
      /\ run[k] = "active" /\ row[k].phase \in {"active", "cancelling"}
      /\ row[k].asked <=> row[k].phase = "cancelling"
  BY DEF ProcessExit, Quiet, Plain, PlainRow, IInv, TypeOK
<1>2. pending' = pending /\ errors' = errors /\ working' = working \ {k} /\ ~Launching(k)'
  BY DEF ProcessExit, loop, Quiet, Launching
<1>3. Retried(k) \/ Become(k, AfterExit(row[k], clean), "finished")
  BY <1>1 DEF ProcessExit, MayBeStale, PlainKeys
<1>4. CASE Retried(k)
  <2>1. /\ row' = [row EXCEPT ![k] = InPhase(row[k], "queued")]
        /\ run' = [run EXCEPT ![k] = "queued"] /\ row[k].phase # "cancelling"
    BY <1>4 DEF Retried, Become
  <2>2. row'[k].phase = "queued" /\ row'[k].asked = row[k].asked /\ run'[k] = "queued"
    BY <1>1, <2>1 DEF InPhase, IInv, TypeOK, Row
  <2>3. PlainRow(k)' /\ Allowed(k)
    BY <1>1, <1>2, <2>1, <2>2, SeenStatus DEF PlainRow, Allowed
  <2> QED
    BY <1>2, <2>1, <2>3, OneKey DEF IInv, TypeOK
<1>5. CASE Become(k, AfterExit(row[k], clean), "finished")
  <2>1. /\ row' = [row EXCEPT ![k] = AfterExit(row[k], clean)]
        /\ run' = [run EXCEPT ![k] = "finished"]
    BY <1>5 DEF Become
  <2>2. row'[k] = AfterExit(row[k], clean) /\ run'[k] = "finished"
    BY <2>1 DEF IInv, TypeOK
  <2>3. PlainRow(k)'
    BY <1>1, <1>2, <2>2, AfterExitSettles DEF PlainRow
  <2>4. Allowed(k)
    BY <1>1, <1>2, <2>2, AfterExitSettles, SeenStatus DEF Allowed, Verdicts
  <2> QED
    BY <1>2, <2>1, <2>3, <2>4, OneKey DEF IInv, TypeOK
<1> QED
  BY <1>3, <1>4, <1>5

LEMMA ExpirePlain ==
    ASSUME IInv, IInv', Plain, NEW k \in PlainKeys, ExpireMissingCompletion(k)
    PROVE  Keeps
<1>1. /\ row[k] \in Row /\ row'[k] \in Row /\ run[k] = "finished" /\ k \notin working
      /\ row[k].phase = "awaiting_completion" /\ ~row[k].asked /\ ~Launching(k)
  BY DEF ExpireMissingCompletion, Plain, PlainRow, IInv, TypeOK
<1>2. /\ row' = [row EXCEPT ![k] = Settled(row[k], "failed")]
      /\ UNCHANGED <<run, working, pending, errors>>
  BY DEF ExpireMissingCompletion, loop
<1>3. row'[k].phase = "terminal" /\ row'[k].outcome = "failed" /\ row'[k].asked = row[k].asked
  BY <1>1, <1>2 DEF Settled, IInv, TypeOK, Row
<1>4. PlainRow(k)' /\ Allowed(k)
  BY <1>1, <1>2, <1>3, SeenStatus DEF PlainRow, Allowed, Verdicts, Launching
<1> QED
  BY <1>2, <1>4, OneKey DEF IInv, TypeOK

LEMMA ReservePlain ==
    ASSUME IInv, IInv', Plain, NEW c \in Clients, KeyOf[c] \in PlainKeys, Reserve(c)
    PROVE  Keeps
<1> DEFINE k == KeyOf[c]
<1>1. /\ k \in Keys /\ row[k] \in Row /\ row'[k] \in Row
      /\ row[k].phase = "none" /\ row[k].asked = FALSE /\ k \notin working /\ ~Launching(k)
  BY RequestsAssumption DEF Reserve, Missing, Exists, Plain, PlainRow, IInv, TypeOK, OwnRow, NoRow
<1>2. /\ row' = [row EXCEPT ![k] = NewRow(c)] /\ run' = [run EXCEPT ![k] = "queued"]
      /\ UNCHANGED <<working, pending, errors>>
  BY DEF Reserve, Become, loop
<1>3. NewRow(c).phase = "queued" /\ NewRow(c).asked = FALSE
  BY DEF NewRow, NoRow
<1>4. row'[k].phase = "queued" /\ row'[k].asked = FALSE /\ run'[k] = "queued"
  BY <1>1, <1>2, <1>3 DEF IInv, TypeOK
<1>5. PlainRow(k)' /\ Allowed(k)
  BY <1>1, <1>2, <1>4, SeenStatus DEF PlainRow, Allowed, Launching
<1> QED
  BY <1>1, <1>2, <1>5, OneKey DEF IInv, TypeOK

LEMMA CancelPlain ==
    ASSUME IInv, IInv', Plain, Quiet, NEW c \in Clients,
           KeyOf[c] \in PlainKeys, Cancel(c)
    PROVE  Keeps
<1> DEFINE k == KeyOf[c]
           now == [Settled(row[k], "cancelled") EXCEPT !.asked = TRUE]
           later == [row[k] EXCEPT !.phase = "cancelling", !.asked = TRUE]
<1>1. /\ k \in Keys /\ row[k] \in Row /\ row'[k] \in Row
      /\ row[k].phase \notin {"none", "terminal"} /\ PlainRow(k) /\ ~Launching(k)
  BY RequestsAssumption DEF Cancel, Open, Quiet, Plain, Launching, IInv, TypeOK
<1>2. pending' = pending /\ errors' = errors /\ working' = working
  BY DEF Cancel, loop
<1>3. CASE Become(k, now, "finished") /\ (run[k] = "queued" \/ run[k] = "finished")
  <2>1. row' = [row EXCEPT ![k] = now] /\ run' = [run EXCEPT ![k] = "finished"]
    BY <1>3 DEF Become
  <2>2. now.phase = "terminal" /\ now.outcome = "cancelled" /\ now.asked
    BY <1>1 DEF Settled, Row
  <2> HIDE DEF now
  <2>3. row'[k] = now /\ run'[k] = "finished"
    BY <1>1, <2>1 DEF IInv, TypeOK
  <2>4. k \notin working /\ row[k].phase \in {"queued", "awaiting_completion"}
    BY <1>1, <1>3 DEF PlainRow
  <2>5. PlainRow(k)' /\ Allowed(k)
    BY <1>1, <1>2, <2>2, <2>3, <2>4, SeenStatus DEF PlainRow, Allowed, Verdicts, Launching
  <2> QED
    BY <1>1, <1>2, <2>1, <2>5, OneKey DEF IInv, TypeOK
<1>4. CASE Become(k, later, run[k])
           /\ ~(run[k] = "queued" \/ (run[k] = "finished" /\ row[k].phase = "awaiting_completion"))
  <2>1. row' = [row EXCEPT ![k] = later] /\ run' = [run EXCEPT ![k] = run[k]]
    BY <1>4 DEF Become
  <2>2. later.phase = "cancelling" /\ later.asked
    BY <1>1 DEF Row
  <2> HIDE DEF later
  <2>3. row'[k] = later /\ run'[k] = run[k]
    BY <1>1, <2>1 DEF IInv, TypeOK
  <2>4. run[k] = "active" /\ k \in working /\ row[k].phase \in {"active", "cancelling"}
    BY <1>1, <1>4 DEF PlainRow, Launching
  <2>5. PlainRow(k)' /\ Allowed(k)
    BY <1>1, <1>2, <2>2, <2>3, <2>4, SeenStatus DEF PlainRow, Allowed, Launching
  <2> QED
    BY <1>1, <1>2, <2>1, <2>5, OneKey DEF IInv, TypeOK
<1> QED
  BY <1>3, <1>4 DEF Cancel

LEMMA CompletePlain ==
    ASSUME IInv, IInv', Plain, NEW c \in Clients, KeyOf[c] \in PlainKeys,
           NEW completion \in Completions, Complete(c, completion)
    PROVE  Keeps
<1> DEFINE k == KeyOf[c]
           r == RecordCompletion(row[k], completion)
<1>1. /\ k \in Keys /\ row[k] \in Row /\ row'[k] \in Row /\ Sound(row[k])
      /\ row[k].phase \notin {"none", "terminal"} /\ PlainRow(k)
  BY RequestsAssumption DEF Complete, Open, Plain, IInv, TypeOK, OwnRow
<1>2. row' = [row EXCEPT ![k] = r] /\ UNCHANGED <<run, working, pending, errors>>
  BY DEF Complete, loop
<1>3. r.asked = row[k].asked
      /\ \/ r.phase = row[k].phase /\ r.outcome = row[k].outcome
         \/ /\ row[k].phase = "awaiting_completion" /\ r.phase = "terminal"
            /\ r.outcome = "succeeded"
  BY <1>1, CompletionRow
<1> HIDE DEF r
<1>4. row'[k] = r
  BY <1>1, <1>2 DEF IInv, TypeOK
<1>5. PlainRow(k)' /\ Allowed(k)
  <2>1. CASE r.phase = row[k].phase /\ r.outcome = row[k].outcome
    <3>1. Seen(r) = Seen(row[k])
      BY <2>1 DEF Seen
    <3> QED
      BY <1>1, <1>2, <1>3, <1>4, <2>1, <3>1 DEF PlainRow, Allowed, Launching
  <2>2. CASE row[k].phase = "awaiting_completion" /\ r.phase = "terminal"
             /\ r.outcome = "succeeded"
    <3>1. Seen(row[k]) = "running" /\ Seen(row'[k]) = "succeeded"
      BY <1>1, <1>4, <2>2, SeenStatus
    <3> QED
      BY <1>1, <1>2, <1>3, <1>4, <2>2, <3>1 DEF PlainRow, Allowed, Verdicts, Launching
  <2> QED
    BY <1>3, <2>1, <2>2
<1> QED
  BY <1>1, <1>2, <1>5, OneKey DEF IInv, TypeOK

LEMMA SamePlain ==
    ASSUME Plain, UNCHANGED <<row, run, working, pending, errors>>
    PROVE  Keeps
BY DEF Plain, PlainRow, Launching, Keeps, Allowed

LEMMA CrashPlain == ASSUME IInv, IInv', Plain, Crash PROVE Keeps
<1> SUFFICES ASSUME NEW k \in PlainKeys PROVE PlainRow(k)' /\ Allowed(k)
  BY DEF Keeps, Plain, Crash
<1>1. /\ row[k] \in Row /\ row'[k] \in Row /\ k \notin working' /\ ~Launching(k)' /\ PlainRow(k)
      /\ row'[k] = IF Lost(k) THEN Settled(row[k], "failed") ELSE row[k]
      /\ run'[k] = IF Lost(k) THEN "finished" ELSE run[k]
  BY DEF Crash, IInv, TypeOK, Launching, Plain, PlainKeys
<1>2. CASE Lost(k)
  <2>1. row[k].phase \in {"starting", "active", "cancelling"}
    BY <1>1, <1>2 DEF Lost, PlainRow
  <2>2. row'[k].phase = "terminal" /\ row'[k].outcome = "failed"
        /\ row'[k].asked = row[k].asked /\ run'[k] = "finished"
    BY <1>1, <1>2, <2>1 DEF Settled, Row
  <2> QED
    BY <1>1, <2>1, <2>2, SeenStatus DEF PlainRow, Allowed, Verdicts
<1>3. CASE ~Lost(k)
  <2>1. row'[k] = row[k] /\ run'[k] = run[k] /\ k \notin working /\ ~Launching(k)
    BY <1>1, <1>3 DEF Lost, PlainRow
  <2> QED
    BY <1>1, <1>3, <2>1 DEF Lost, PlainRow, Allowed
<1> QED
  BY <1>2, <1>3

\* The steps that touch the run of one key, and one that is not plain.
LEMMA StepIsOfOneKey ==
    ASSUME IInv, IInv', NEW k \in Keys,
           \/ RunStep(k)
           \/ \E p \in pending : p.key = k /\ Continue(p)
           \/ \E e \in errors : e[1] = k /\ SpawnError(e)
           \/ \E c \in Clients : KeyOf[c] = k /\ (ReservationFails(c) \/ ClientStep(c))
    PROVE  Only(k)
<1> USE DEF IInv, TypeOK
<1>1. ASSUME UNCHANGED runs, UNCHANGED <<working, pending, errors>> PROVE Only(k)
  BY <1>1 DEF Only, runs
<1>2. ASSUME NEW r, NEW s, Become(k, r, s), UNCHANGED <<working, pending, errors>> PROVE Only(k)
  BY <1>2 DEF Only, Become
<1>3. ASSUME UNCHANGED runs \/ \E r, s : Become(k, r, s),
             \A j \in Keys \ {k} : j \in working' <=> j \in working,
             \A p \in pending \cup pending' : p.key # k => (p \in pending' <=> p \in pending),
             \A e \in errors' : e \in errors \/ e[1] = k
      PROVE  Only(k)
  BY <1>3 DEF Only, Become, runs
<1>4. CASE RunStep(k)
  <2>1. ASSUME NEW how \in LaunchKinds[k], Launch(k, how) PROVE Only(k)
    <3>1. \E r, s : Become(k, r, s)
      BY <2>1 DEF Launch
    <3> DEFINE p == [key |-> k, attempt |-> attempts[k] + 1, rejected |-> how = "reject"]
               e == <<k, attempts[k] + 1>>
    <3>2. p.key = k /\ e[1] = k /\ pending' = pending \cup {p}
          /\ (errors' = errors \/ errors' = errors \cup {e})
          /\ (working' = working \/ working' = working \cup {k})
      BY <2>1 DEF Launch
    <3> HIDE DEF p, e
    <3> QED
      BY <1>3, <3>1, <3>2
  <2>2. CASE PreparationFails(k)
    BY <1>2, <2>2 DEF PreparationFails, loop
  <2>3. ASSUME NEW clean \in BOOLEAN, ProcessExit(k, clean) PROVE Only(k)
    <3>1. UNCHANGED runs \/ \E r, s : Become(k, r, s)
      BY <2>3 DEF ProcessExit, Retried
    <3>2. working' = working \ {k} /\ UNCHANGED <<pending, errors>>
      BY <2>3 DEF ProcessExit, loop
    <3> QED
      BY <1>3, <3>1, <3>2
  <2>4. CASE OperatorEnds(k)
    BY <2>4 DEF OperatorEnds, loop, Only
  <2>5. CASE ExpireMissingCompletion(k)
    BY <2>5 DEF ExpireMissingCompletion, loop, Only
  <2> QED
    BY <1>4, <2>1, <2>2, <2>3, <2>4, <2>5 DEF RunStep
<1>5. ASSUME NEW p \in pending, p.key = k, Continue(p) PROVE Only(k)
  <2>1. UNCHANGED runs \/ \E r, s : Become(k, r, s)
    BY <1>5 DEF Continue, AttemptFails, Retried
  <2>2. pending' = pending \ {p} /\ UNCHANGED <<working, errors>>
    BY <1>5 DEF Continue
  <2> QED
    BY <1>3, <1>5, <2>1, <2>2
<1>6. ASSUME NEW e \in errors, e[1] = k, SpawnError(e) PROVE Only(k)
  <2>1. UNCHANGED runs \/ \E r, s : Become(k, r, s)
    BY <1>6 DEF SpawnError, AttemptFails, Retried
  <2>2. errors' = errors \ {e} /\ UNCHANGED <<working, pending>>
    BY <1>6 DEF SpawnError
  <2> QED
    BY <1>3, <2>1, <2>2
<1>7. ASSUME NEW c \in Clients, KeyOf[c] = k, ReservationFails(c) \/ ClientStep(c) PROVE Only(k)
  <2>1. CASE ReservationFails(c)
    BY <1>2, <1>7, <2>1 DEF ReservationFails, loop
  <2>2. CASE Repeat(c) \/ Answer(c) \/ LoseAnswer(c) \/ RegisterManifest(c) \/ Inspect(c)
    BY <1>1, <2>2 DEF Repeat, Answer, LoseAnswer, RegisterManifest, Inspect, loop
  <2>3. CASE Reserve(c)
    BY <1>2, <1>7, <2>3 DEF Reserve, loop
  <2>4. CASE Cancel(c)
    BY <1>2, <1>7, <2>4 DEF Cancel, loop
  <2>5. ASSUME NEW completion \in Completions, Complete(c, completion) PROVE Only(k)
    BY <1>7, <2>5 DEF Complete, loop, Only
  <2> QED
    BY <1>7, <2>1, <2>2, <2>3, <2>4, <2>5 DEF ClientStep
<1> QED
  BY <1>4, <1>5, <1>6, <1>7

LEMMA StepKeeps == IInv /\ IInv' /\ Plain /\ [Next]_vars => Keeps
<1> SUFFICES ASSUME IInv, IInv', Plain, [Next]_vars PROVE Keeps
  OBVIOUS
<1>1. CASE UNCHANGED vars
  BY <1>1, SamePlain DEF vars, runs, loop
<1>2. ASSUME NEW c \in Clients, Quiet, ClientStep(c), KeyOf[c] \in PlainKeys PROVE Keeps
  <2>1. CASE Repeat(c) \/ Answer(c) \/ LoseAnswer(c) \/ RegisterManifest(c) \/ Inspect(c)
    BY <2>1, SamePlain DEF Repeat, Answer, LoseAnswer, RegisterManifest, Inspect, runs, loop
  <2> QED
    BY <1>2, <2>1, ReservePlain, CancelPlain, CompletePlain DEF ClientStep
<1>3. ASSUME NEW k \in PlainKeys, RunStep(k) PROVE Keeps
  BY <1>3, LaunchPlain, ProcessExitPlain, ExpirePlain
     DEF RunStep, PreparationFails, OperatorEnds, PlainKeys
<1>4. ASSUME NEW c \in Clients, KeyOf[c] \in PlainKeys PROVE ~ReservationFails(c)
  BY <1>4 DEF ReservationFails, PlainKeys
<1>5. ASSUME NEW p \in pending, Continue(p) PROVE Keeps
  <2>1. p.key \in Keys
    BY DEF IInv, TypeOK, Pending
  <2> QED
    BY <1>5, <2>1, ContinuePlain, StepIsOfOneKey, RoughKey
<1>6. ASSUME NEW e \in errors, SpawnError(e) PROVE Keeps
  <2>1. e[1] \in Keys \ PlainKeys
    BY DEF IInv, TypeOK, Plain
  <2> QED
    BY <1>6, <2>1, StepIsOfOneKey, RoughKey
<1>7. ASSUME NEW c \in Clients, (Quiet /\ ClientStep(c)) \/ ReservationFails(c) PROVE Keeps
  <2>1. KeyOf[c] \in Keys
    BY RequestsAssumption
  <2> QED
    BY <1>2, <1>4, <1>7, <2>1, StepIsOfOneKey, RoughKey
<1>8. ASSUME NEW k \in Keys, RunStep(k) PROVE Keeps
  BY <1>3, <1>8, StepIsOfOneKey, RoughKey
<1>9. CASE Crash
  BY <1>9, CrashPlain
<1> QED
  BY <1>1, <1>5, <1>6, <1>7, <1>8, <1>9 DEF Next, LoopStep

\* The rows of plain keys, as their handlers change them, are an implementation of the
\* contract with the integration: work starts only while nobody has cancelled it, and the
\* verdict is given once, when no process works for it.  It holds for any number of attempts
\* and crashes, and whatever becomes of the keys that are not plain.
THEOREM RowsKeepContract == Spec => ContractKept
<1> DEFINE status == [k \in PlainKeys |-> Seen(row[k])]
           asked == {k \in PlainKeys : row[k].asked}
           worked == working \cap PlainKeys
<1>1. Init => Plain /\ Contract!Init
  <2> SUFFICES ASSUME Init PROVE Plain /\ Contract!Init
    OBVIOUS
  <2>1. \A k \in PlainKeys : row[k].phase = "none" /\ row[k].asked = FALSE /\ run[k] = "none"
    BY DEF Init, NoRow, PlainKeys
  <2>2. status = [k \in PlainKeys |-> "absent"] /\ asked = {}
    BY <2>1 DEF Seen
  <2> QED
    BY <2>1, <2>2 DEF Init, Contract!Init, Plain, PlainRow, Launching
<1>2. IInv /\ IInv' /\ Plain /\ [Next]_vars => Plain'
  BY StepKeeps DEF Keeps
<1>3. IInv /\ IInv' /\ Plain /\ [Next]_vars => [Contract!Next]_(Contract!vars)
  <2> SUFFICES ASSUME IInv, IInv', Plain, [Next]_vars PROVE Contract!Next
    OBVIOUS
  <2> SUFFICES ASSUME NEW k \in PlainKeys
               PROVE  \/ Contract!Same(k) \/ Contract!Reserve(k) \/ Contract!Launch(k)
                      \/ Contract!Run(k) \/ Contract!Retry(k) \/ Contract!Lose(k)
                      \/ Contract!AskCancel(k) \/ Contract!Settle(k)
    BY DEF Contract!Next
  <2>1. Allowed(k)
    BY StepKeeps DEF Keeps
  <2>2. /\ status[k] = Seen(row[k]) /\ status'[k] = Seen(row'[k])
        /\ k \in asked <=> row[k].asked
        /\ k \in asked' <=> row'[k].asked
        /\ k \in worked <=> k \in working
        /\ k \in worked' <=> k \in working'
        /\ row[k].asked \in BOOLEAN /\ row'[k].asked \in BOOLEAN
    BY DEF IInv, TypeOK, Row, PlainKeys
  <2> QED
    BY <2>1, <2>2 DEF Allowed, Contract!Become, Contract!Same, Contract!Reserve,
                      Contract!Launch, Contract!Run, Contract!Retry, Contract!Lose,
                      Contract!AskCancel, Contract!Settle, Contract!Verdicts, Verdicts
<1> QED
  BY <1>1, <1>2, <1>3, Invariance, PTL DEF Spec, ContractKept, Contract!Spec
=============================================================================
