------------------------- MODULE RunResources_proofs -------------------------
(***************************************************************************)
(* Theorems about what runs own, for every value of the constants: any     *)
(* runs of a Mon, any of them isolated or with grants, any number of       *)
(* crashes between any two statements.  A handler touches one run only, so *)
(* the invariant has, for each run, a part that holds of every state its   *)
(* handlers pass through (Torn: a crash may leave it behind), one that     *)
(* holds while the service is up (Up) and one until startup is done (Down).*)
(***************************************************************************)
EXTENDS RunResources, TLAPS

Directory == {"absent", "writable", "sealed"}

State == [run : [Runs -> Row], att : [Runs -> Attempt], slots : SUBSET Runs,
          ws : [Runs -> Workspace], grants : [Runs -> Grants], man : [Runs -> Manifest],
          dir : [Runs -> Directory], known : [Runs -> Nat],
          pending : SUBSET Pending, errors : SUBSET (Runs \X Nat),
          procs : SUBSET Process, service : {"up", "down"}, unswept : SUBSET Runs,
          faults : Nat]

\* No preparation of an isolated run can fail once its scope is recorded.
PreparationIsSafe == Isolated \cap (Claims \cup Unmountable) = {}

Waiting(s, r) == s.run[r].status \in {"none", "queued"}
Unsealed(s, r) == s.dir[r] = "writable" /\ s.ws[r].state = "active"
Launching(s, r) == \E w \in s.pending : w.run = r
Credentials(s, r) == s.run[r].token # 0 \/ s.grants[r].live # {}

\* An output that only its registration calls available, whose file is gone.
Promised(s, r) ==
    /\ s.man[r].status = "available" /\ s.man[r].reason = "none"
    /\ s.run[r].root = "scratch" /\ s.dir[r] = "absent"

\* Attempt k has no process, and if it is the one that is open its run has left the queue.
Dead(s, r, k) ==
    /\ k <= s.att[r].n
    /\ k = s.att[r].n /\ s.att[r].open => ~Waiting(s, r) /\ \A p \in s.procs : p.run # r

AttemptTorn(s, r) ==
    /\ s.att[r].open => s.att[r].n > 0
    /\ s.grants[r].live \subseteq {s.att[r].n}
    /\ Waiting(s, r) /\ s.grants[r].live # {} => s.att[r].open

ProcessTorn(s, r) ==
    /\ Waiting(s, r) => \A p \in s.procs : p.run # r
    /\ \A p, q \in s.procs : p.run = r /\ q.run = r => p = q
    /\ \A p \in s.procs : p.run = r =>
          /\ p.attempt > 0 /\ p.attempt <= s.att[r].n
          /\ r \in Isolated => p.root = "scratch" /\ s.run[r].root = "scratch"

ScopeTorn(s, r) ==
    /\ Promised(s, r) => s.ws[r].state \in {"sealed", "cleanup_failed"} /\ s.ws[r].left = 0
    /\ Waiting(s, r) /\ s.att[r].n = 0 =>
          s.ws[r].state \in {"none", "active"} /\ (s.dir[r] = "absent" => s.ws[r].state = "none")
    /\ PreparationIsSafe /\ r \in Isolated /\ s.run[r].root = "scratch"
          /\ (Waiting(s, r) \/ s.att[r].open) => Unsealed(s, r)

LaunchTorn(s, r) ==
    /\ \A e \in s.errors : e[1] = r => Dead(s, r, e[2])
    /\ \A w \in s.pending : w.run = r /\ w.rejected => Dead(s, r, w.attempt)
    /\ \A w \in s.pending : w.run = r => w.attempt > 0

Torn(s, r) == AttemptTorn(s, r) /\ ProcessTorn(s, r) /\ ScopeTorn(s, r) /\ LaunchTorn(s, r)

\* A slot belongs to an open attempt that is watched, or whose own launch is awaited; a
\* watched process, or one whose launch is awaited, is of the open attempt.
Sound(s, r) ==
    /\ r \in s.slots <=> s.att[r].open /\ (s.known[r] # 0 \/ Launching(s, r))
    /\ s.att[r].open /\ Launching(s, r) =>
          s.known[r] # 0 \/ \E w \in s.pending : w.run = r /\ w.attempt = s.att[r].n
    /\ s.att[r].open /\ s.run[r].status = "finished" => ~Launching(s, r)
    /\ \A p \in s.procs :
          /\ p.run = r
          /\ s.known[r] = p.attempt \/ \E w \in s.pending : w.run = r /\ w.attempt = p.attempt
          => s.att[r].open /\ s.att[r].n = p.attempt

Steady(s, r) ==
    /\ Waiting(s, r) => s.known[r] = 0
    /\ s.run[r].status \in {"starting", "active"} /\ Credentials(s, r)
          => s.att[r].open /\ s.run[r].token \in {0, s.att[r].n}
    /\ Launching(s, r) /\ s.run[r].status \notin {"starting", "active"} => ~Credentials(s, r)
    /\ ~Promised(s, r)

Up(s, r) == Steady(s, r) /\ Sound(s, r)

Down(s, r) ==
    /\ s.known[r] = 0 /\ ~Launching(s, r)
    /\ Promised(s, r) => r \in s.unswept

Good(s, r) == Torn(s, r) /\ IF s.service = "up" THEN Up(s, r) ELSE Down(s, r)

IInv == TypeOK /\ \A r \in Runs : Good(st, r)

-----------------------------------------------------------------------------
(* One field changes, the others are as they were. *)

ButRun(s, t) ==
    /\ t.att = s.att /\ t.slots = s.slots /\ t.ws = s.ws /\ t.grants = s.grants
    /\ t.man = s.man /\ t.dir = s.dir /\ t.known = s.known /\ t.pending = s.pending
    /\ t.errors = s.errors /\ t.procs = s.procs /\ t.service = s.service /\ t.unswept = s.unswept
    /\ t.faults = s.faults
ButAtt(s, t) ==
    /\ t.run = s.run /\ t.slots = s.slots /\ t.ws = s.ws /\ t.grants = s.grants
    /\ t.man = s.man /\ t.dir = s.dir /\ t.known = s.known /\ t.pending = s.pending
    /\ t.errors = s.errors /\ t.procs = s.procs /\ t.service = s.service /\ t.unswept = s.unswept
    /\ t.faults = s.faults
ButSlots(s, t) ==
    /\ t.run = s.run /\ t.att = s.att /\ t.ws = s.ws /\ t.grants = s.grants
    /\ t.man = s.man /\ t.dir = s.dir /\ t.known = s.known /\ t.pending = s.pending
    /\ t.errors = s.errors /\ t.procs = s.procs /\ t.service = s.service /\ t.unswept = s.unswept
    /\ t.faults = s.faults
ButWs(s, t) ==
    /\ t.run = s.run /\ t.att = s.att /\ t.slots = s.slots /\ t.grants = s.grants
    /\ t.man = s.man /\ t.dir = s.dir /\ t.known = s.known /\ t.pending = s.pending
    /\ t.errors = s.errors /\ t.procs = s.procs /\ t.service = s.service /\ t.unswept = s.unswept
    /\ t.faults = s.faults
ButGrants(s, t) ==
    /\ t.run = s.run /\ t.att = s.att /\ t.slots = s.slots /\ t.ws = s.ws
    /\ t.man = s.man /\ t.dir = s.dir /\ t.known = s.known /\ t.pending = s.pending
    /\ t.errors = s.errors /\ t.procs = s.procs /\ t.service = s.service /\ t.unswept = s.unswept
    /\ t.faults = s.faults
ButMan(s, t) ==
    /\ t.run = s.run /\ t.att = s.att /\ t.slots = s.slots /\ t.ws = s.ws
    /\ t.grants = s.grants /\ t.dir = s.dir /\ t.known = s.known /\ t.pending = s.pending
    /\ t.errors = s.errors /\ t.procs = s.procs /\ t.service = s.service /\ t.unswept = s.unswept
    /\ t.faults = s.faults
ButDir(s, t) ==
    /\ t.run = s.run /\ t.att = s.att /\ t.slots = s.slots /\ t.ws = s.ws
    /\ t.grants = s.grants /\ t.man = s.man /\ t.known = s.known /\ t.pending = s.pending
    /\ t.errors = s.errors /\ t.procs = s.procs /\ t.service = s.service /\ t.unswept = s.unswept
    /\ t.faults = s.faults
ButKnown(s, t) ==
    /\ t.run = s.run /\ t.att = s.att /\ t.slots = s.slots /\ t.ws = s.ws
    /\ t.grants = s.grants /\ t.man = s.man /\ t.dir = s.dir /\ t.pending = s.pending
    /\ t.errors = s.errors /\ t.procs = s.procs /\ t.service = s.service /\ t.unswept = s.unswept
    /\ t.faults = s.faults
ButPending(s, t) ==
    /\ t.run = s.run /\ t.att = s.att /\ t.slots = s.slots /\ t.ws = s.ws
    /\ t.grants = s.grants /\ t.man = s.man /\ t.dir = s.dir /\ t.known = s.known
    /\ t.errors = s.errors /\ t.procs = s.procs /\ t.service = s.service /\ t.unswept = s.unswept
    /\ t.faults = s.faults
ButErrors(s, t) ==
    /\ t.run = s.run /\ t.att = s.att /\ t.slots = s.slots /\ t.ws = s.ws
    /\ t.grants = s.grants /\ t.man = s.man /\ t.dir = s.dir /\ t.known = s.known
    /\ t.pending = s.pending /\ t.procs = s.procs /\ t.service = s.service /\ t.unswept = s.unswept
    /\ t.faults = s.faults
ButProcs(s, t) ==
    /\ t.run = s.run /\ t.att = s.att /\ t.slots = s.slots /\ t.ws = s.ws
    /\ t.grants = s.grants /\ t.man = s.man /\ t.dir = s.dir /\ t.known = s.known
    /\ t.pending = s.pending /\ t.errors = s.errors /\ t.service = s.service /\ t.unswept = s.unswept
    /\ t.faults = s.faults
ButService(s, t) ==
    /\ t.run = s.run /\ t.att = s.att /\ t.slots = s.slots /\ t.ws = s.ws
    /\ t.grants = s.grants /\ t.man = s.man /\ t.dir = s.dir /\ t.known = s.known
    /\ t.pending = s.pending /\ t.errors = s.errors /\ t.procs = s.procs /\ t.unswept = s.unswept
    /\ t.faults = s.faults
ButUnswept(s, t) ==
    /\ t.run = s.run /\ t.att = s.att /\ t.slots = s.slots /\ t.ws = s.ws
    /\ t.grants = s.grants /\ t.man = s.man /\ t.dir = s.dir /\ t.known = s.known
    /\ t.pending = s.pending /\ t.errors = s.errors /\ t.procs = s.procs /\ t.service = s.service
    /\ t.faults = s.faults
ButFaults(s, t) ==
    /\ t.run = s.run /\ t.att = s.att /\ t.slots = s.slots /\ t.ws = s.ws
    /\ t.grants = s.grants /\ t.man = s.man /\ t.dir = s.dir /\ t.known = s.known
    /\ t.pending = s.pending /\ t.errors = s.errors /\ t.procs = s.procs /\ t.service = s.service
    /\ t.unswept = s.unswept

LEMMA SetRun ==
    ASSUME NEW s \in State, NEW v \in [Runs -> Row]
    PROVE  LET t == [s EXCEPT !.run = v] IN t \in State /\ t.run = v /\ ButRun(s, t)
BY DEF State, ButRun

LEMMA SetAtt ==
    ASSUME NEW s \in State, NEW v \in [Runs -> Attempt]
    PROVE  LET t == [s EXCEPT !.att = v] IN t \in State /\ t.att = v /\ ButAtt(s, t)
BY DEF State, ButAtt

LEMMA SetSlots ==
    ASSUME NEW s \in State, NEW v \in SUBSET Runs
    PROVE  LET t == [s EXCEPT !.slots = v] IN t \in State /\ t.slots = v /\ ButSlots(s, t)
BY DEF State, ButSlots

LEMMA SetWs ==
    ASSUME NEW s \in State, NEW v \in [Runs -> Workspace]
    PROVE  LET t == [s EXCEPT !.ws = v] IN t \in State /\ t.ws = v /\ ButWs(s, t)
BY DEF State, ButWs

LEMMA SetGrants ==
    ASSUME NEW s \in State, NEW v \in [Runs -> Grants]
    PROVE  LET t == [s EXCEPT !.grants = v] IN t \in State /\ t.grants = v /\ ButGrants(s, t)
BY DEF State, ButGrants

LEMMA SetMan ==
    ASSUME NEW s \in State, NEW v \in [Runs -> Manifest]
    PROVE  LET t == [s EXCEPT !.man = v] IN t \in State /\ t.man = v /\ ButMan(s, t)
BY DEF State, ButMan

LEMMA SetDir ==
    ASSUME NEW s \in State, NEW v \in [Runs -> Directory]
    PROVE  LET t == [s EXCEPT !.dir = v] IN t \in State /\ t.dir = v /\ ButDir(s, t)
BY DEF State, ButDir

LEMMA SetKnown ==
    ASSUME NEW s \in State, NEW v \in [Runs -> Nat]
    PROVE  LET t == [s EXCEPT !.known = v] IN t \in State /\ t.known = v /\ ButKnown(s, t)
BY DEF State, ButKnown

LEMMA SetPending ==
    ASSUME NEW s \in State, NEW v \in SUBSET Pending
    PROVE  LET t == [s EXCEPT !.pending = v] IN t \in State /\ t.pending = v /\ ButPending(s, t)
BY DEF State, ButPending

LEMMA SetErrors ==
    ASSUME NEW s \in State, NEW v \in SUBSET (Runs \X Nat)
    PROVE  LET t == [s EXCEPT !.errors = v] IN t \in State /\ t.errors = v /\ ButErrors(s, t)
BY DEF State, ButErrors

LEMMA SetProcs ==
    ASSUME NEW s \in State, NEW v \in SUBSET Process
    PROVE  LET t == [s EXCEPT !.procs = v] IN t \in State /\ t.procs = v /\ ButProcs(s, t)
BY DEF State, ButProcs

LEMMA SetService ==
    ASSUME NEW s \in State, NEW v \in {"up", "down"}
    PROVE  LET t == [s EXCEPT !.service = v] IN t \in State /\ t.service = v /\ ButService(s, t)
BY DEF State, ButService

LEMMA SetUnswept ==
    ASSUME NEW s \in State, NEW v \in SUBSET Runs
    PROVE  LET t == [s EXCEPT !.unswept = v] IN t \in State /\ t.unswept = v /\ ButUnswept(s, t)
BY DEF State, ButUnswept

LEMMA SetFaults ==
    ASSUME NEW s \in State, NEW v \in Nat
    PROVE  LET t == [s EXCEPT !.faults = v] IN t \in State /\ t.faults = v /\ ButFaults(s, t)
BY DEF State, ButFaults

-----------------------------------------------------------------------------
(* Handlers *)

\* s differs from the state of the variables in what r owns at most.
Apart(s, r) ==
    /\ s.service = service /\ s.faults = faults
    /\ \A q \in Runs \ {r} :
        /\ s.run[q] = run[q] /\ s.att[q] = att[q] /\ s.ws[q] = ws[q]
        /\ s.grants[q] = grants[q] /\ s.man[q] = man[q] /\ s.dir[q] = dir[q]
        /\ s.known[q] = known[q]
        /\ q \in s.slots <=> q \in slots
        /\ q \in s.unswept <=> q \in unswept
    /\ \A p \in Process : p.run # r => (p \in s.procs <=> p \in procs)
    /\ \A w \in Pending : w.run # r => (w \in s.pending <=> w \in pending)
    /\ \A e \in Runs \X Nat : e[1] # r => (e \in s.errors <=> e \in errors)

\* What a handler of r may pass through.
Passes(r) == {s \in State : Apart(s, r) /\ Torn(s, r)}

\* A handler that passes through states of S.
Through(h, S) == h \in Seq(S) /\ h # << >>

LEMMA Tuple1 ==
    ASSUME NEW S, NEW a \in S
    PROVE  Through(<<a>>, S) /\ LastOf(<<a>>) = a
BY DEF Through, LastOf

LEMMA Tuple2 ==
    ASSUME NEW S, NEW a \in S, NEW b \in S
    PROVE  Through(<<a, b>>, S) /\ LastOf(<<a, b>>) = b
BY DEF Through, LastOf

LEMMA Tuple3 ==
    ASSUME NEW S, NEW a \in S, NEW b \in S, NEW c \in S
    PROVE  Through(<<a, b, c>>, S) /\ LastOf(<<a, b, c>>) = c
BY DEF Through, LastOf

LEMMA Tuple4 ==
    ASSUME NEW S, NEW a \in S, NEW b \in S, NEW c \in S, NEW d \in S
    PROVE  Through(<<a, b, c, d>>, S) /\ LastOf(<<a, b, c, d>>) = d
BY DEF Through, LastOf

LEMMA Chain ==
    ASSUME NEW S, NEW a, NEW b, Through(a, S), Through(b, S)
    PROVE  Through(a \o b, S) /\ LastOf(a \o b) = LastOf(b)
BY DEF Through, LastOf

LEMMA LastPasses == ASSUME NEW S, NEW h, Through(h, S) PROVE LastOf(h) \in S
BY DEF Through, LastOf

LEMMA StFields ==
    /\ st.run = run /\ st.att = att /\ st.slots = slots /\ st.ws = ws /\ st.grants = grants
    /\ st.man = man /\ st.dir = dir /\ st.known = known /\ st.procs = procs
    /\ st.pending = pending /\ st.errors = errors
    /\ st.service = service /\ st.unswept = unswept /\ st.faults = faults
BY DEF st

LEMMA StState == TypeOK => st \in State
BY NumberAssumption, StFields DEF TypeOK, State, Directory, st

LEMMA CommitFields ==
    ASSUME NEW s, Commit(s)
    PROVE  /\ st'.run = s.run /\ st'.att = s.att /\ st'.slots = s.slots /\ st'.ws = s.ws
           /\ st'.grants = s.grants /\ st'.man = s.man /\ st'.dir = s.dir
           /\ st'.known = s.known /\ st'.procs = s.procs /\ st'.service = s.service
           /\ st'.pending = s.pending /\ st'.errors = s.errors
           /\ st'.unswept = s.unswept /\ st'.faults = s.faults
BY DEF Commit, st

LEMMA StPasses == ASSUME IInv, NEW r \in Runs PROVE st \in Passes(r)
BY StState, StFields DEF IInv, Good, Passes, Apart

\* What is good of a state is good of the variables after it is committed.
LEMMA SameParts ==
    ASSUME NEW s, NEW t, NEW r,
           t.run = s.run, t.att = s.att, t.slots = s.slots, t.ws = s.ws, t.grants = s.grants,
           t.man = s.man, t.dir = s.dir, t.known = s.known, t.procs = s.procs,
           t.pending = s.pending, t.errors = s.errors,
           t.service = s.service, t.unswept = s.unswept
    PROVE  Good(t, r) <=> Good(s, r)
BY DEF Good, Torn, AttemptTorn, ProcessTorn, ScopeTorn, LaunchTorn, Dead, Up, Steady, Sound, Down,
       Promised, Waiting, Unsealed, Launching, Credentials

\* What is said of another run is said of it still.
LEMMA Elsewhere ==
    ASSUME IInv, NEW r \in Runs, NEW s \in Passes(r), NEW q \in Runs \ {r}
    PROVE  Torn(s, q) /\ (Up(st, q) => Up(s, q)) /\ (Down(st, q) => Down(s, q))
<1>1. /\ s \in State /\ Apart(s, r) /\ Torn(st, q)
  BY DEF Passes, IInv, Good
<1>2. /\ s.run[q] = run[q] /\ s.att[q] = att[q] /\ s.ws[q] = ws[q]
      /\ s.grants[q] = grants[q] /\ s.man[q] = man[q] /\ s.dir[q] = dir[q]
      /\ s.known[q] = known[q] /\ (q \in s.slots <=> q \in slots)
      /\ (q \in s.unswept <=> q \in unswept)
  BY <1>1 DEF Apart
<1>3. /\ \A p \in Process : p.run = q => (p \in s.procs <=> p \in procs)
      /\ \A w \in Pending : w.run = q => (w \in s.pending <=> w \in pending)
      /\ \A e \in Runs \X Nat : e[1] = q => (e \in s.errors <=> e \in errors)
  BY <1>1 DEF Apart
<1>4. /\ s.procs \subseteq Process /\ procs \subseteq Process
      /\ s.pending \subseteq Pending /\ pending \subseteq Pending
      /\ s.errors \subseteq Runs \X Nat /\ errors \subseteq Runs \X Nat
  BY <1>1 DEF State, IInv, TypeOK
<1>5. /\ Waiting(s, q) = Waiting(st, q) /\ Unsealed(s, q) = Unsealed(st, q)
      /\ Promised(s, q) = Promised(st, q) /\ Credentials(s, q) = Credentials(st, q)
  BY <1>2, StFields DEF Waiting, Unsealed, Promised, Credentials
<1>6. AttemptTorn(s, q)
  BY <1>1, <1>2, <1>5, StFields DEF Torn, AttemptTorn
<1>7. ProcessTorn(s, q)
  BY <1>1, <1>2, <1>3, <1>4, <1>5, StFields DEF Torn, ProcessTorn
<1>8. ScopeTorn(s, q)
  BY <1>1, <1>2, <1>5, StFields DEF Torn, ScopeTorn
<1>9. LaunchTorn(s, q)
  <2>1. \A k : Dead(st, q, k) => Dead(s, q, k)
    BY <1>2, <1>3, <1>4, <1>5, StFields DEF Dead
  <2> QED
    BY <1>1, <1>3, <1>4, <2>1, StFields DEF Torn, LaunchTorn
<1>10. Launching(s, q) = Launching(st, q)
  BY <1>3, <1>4, StFields DEF Launching
<1>11. Sound(st, q) => Sound(s, q)
  BY <1>2, <1>3, <1>4, <1>5, <1>10, StFields DEF Sound
<1>12. Up(st, q) => Up(s, q)
  BY <1>2, <1>5, <1>10, <1>11, StFields DEF Up, Steady
<1> QED
  BY <1>2, <1>5, <1>6, <1>7, <1>8, <1>9, <1>10, <1>12, StFields DEF Torn, Down

Settled(s, r) == IF s.service = "up" THEN Up(s, r) ELSE Down(s, r)

LEMMA CommitState ==
    ASSUME NEW s \in State, s.faults \in 0..MaxFaults, Commit(s)
    PROVE  TypeOK'
BY DEF Commit, State, Directory, TypeOK

LEMMA CountedGood ==
    ASSUME IInv, NEW r \in Runs, NEW s \in Passes(r), Settled(s, r),
           NEW t \in State, ButFaults(s, t), t.faults \in 0..MaxFaults, Commit(t)
    PROVE  IInv'
<1>1. s \in State /\ Apart(s, r) /\ Torn(s, r)
  BY DEF Passes
<1>2. TypeOK'
  BY CommitState
<1>3. ASSUME NEW q \in Runs PROVE Good(s, q)
  <2>1. CASE q = r
    BY <1>1, <2>1 DEF Good, Settled
  <2>2. CASE q # r
    <3>1. Torn(s, q) /\ (Up(st, q) => Up(s, q)) /\ (Down(st, q) => Down(s, q))
      BY <2>2, Elsewhere
    <3> QED
      BY <1>1, <3>1, StFields DEF IInv, Good, Apart
  <2> QED
    BY <2>1, <2>2
<1>4. ASSUME NEW q \in Runs PROVE Good(st', q)
  <2>1. Good(t, q)
    BY <1>3, SameParts DEF ButFaults
  <2> QED
    BY <2>1, CommitFields, SameParts
<1> QED
  BY <1>2, <1>4 DEF IInv

LEMMA CommitGood ==
    ASSUME IInv, NEW r \in Runs, NEW s \in Passes(r), Settled(s, r), Commit(s)
    PROVE  IInv'
<1>1. s \in State /\ Apart(s, r)
  BY DEF Passes
<1>2. s.faults \in 0..MaxFaults /\ ButFaults(s, s)
  BY <1>1 DEF Apart, IInv, TypeOK, ButFaults
<1> QED
  BY <1>1, <1>2, CountedGood

LEMMA CrashedFields ==
    ASSUME NEW s \in State
    PROVE  LET t == Crashed(s)
           IN  /\ t \in State /\ t.faults = s.faults + 1
               /\ t.run = s.run /\ t.att = s.att /\ t.ws = s.ws /\ t.grants = s.grants
               /\ t.man = s.man /\ t.dir = s.dir /\ t.procs = s.procs
               /\ t.pending = {} /\ t.errors = {}
               /\ t.service = "down" /\ t.unswept = Runs /\ \A r \in Runs : t.known[r] = 0
<1> DEFINE nobody == [r \in Runs |-> 0]
           one == [s EXCEPT !.known = nobody]
           two == [one EXCEPT !.pending = {}]
           three == [two EXCEPT !.errors = {}]
           four == [three EXCEPT !.service = "down"]
           five == [four EXCEPT !.unswept = Runs]
           six == [five EXCEPT !.faults = s.faults + 1]
<1>1. nobody \in [Runs -> Nat] /\ (\A r \in Runs : nobody[r] = 0) /\ s.faults + 1 \in Nat
  BY DEF State
<1>2. six = Crashed(s)
  BY DEF Crashed
<1>3. one \in State /\ one.known = nobody /\ ButKnown(s, one)
  <2> HIDE DEF nobody
  <2> QED
    BY <1>1, SetKnown
<1> HIDE DEF nobody, one
<1>4. two \in State /\ two.pending = {} /\ ButPending(one, two)
  BY <1>3, SetPending
<1> HIDE DEF two
<1>5. three \in State /\ three.errors = {} /\ ButErrors(two, three)
  BY <1>4, SetErrors
<1> HIDE DEF three
<1>6. four \in State /\ four.service = "down" /\ ButService(three, four)
  BY <1>5, SetService
<1> HIDE DEF four
<1>7. five \in State /\ five.unswept = Runs /\ ButUnswept(four, five)
  BY <1>6, SetUnswept
<1> HIDE DEF five
<1>8. six \in State /\ six.faults = s.faults + 1 /\ ButFaults(five, six)
  BY <1>1, <1>7, SetFaults
<1> HIDE DEF six
<1>9. /\ four.run = s.run /\ four.att = s.att /\ four.ws = s.ws /\ four.grants = s.grants
      /\ four.man = s.man /\ four.dir = s.dir /\ four.procs = s.procs
      /\ four.pending = {} /\ four.errors = {} /\ four.known = nobody
  BY <1>3, <1>4, <1>5, <1>6 DEF ButKnown, ButPending, ButErrors, ButService
<1> QED
  BY <1>1, <1>2, <1>6, <1>7, <1>8, <1>9 DEF ButUnswept, ButFaults

LEMMA CrashedGood ==
    ASSUME IInv, NEW s \in State, s.faults = faults, \A q \in Runs : Torn(s, q),
           faults < MaxFaults, Commit(Crashed(s))
    PROVE  IInv'
<1> DEFINE t == Crashed(s)
<1>1. /\ t \in State /\ t.faults = s.faults + 1
      /\ t.run = s.run /\ t.att = s.att /\ t.ws = s.ws /\ t.grants = s.grants
      /\ t.man = s.man /\ t.dir = s.dir /\ t.procs = s.procs
      /\ t.pending = {} /\ t.errors = {}
      /\ t.service = "down" /\ t.unswept = Runs /\ \A q \in Runs : t.known[q] = 0
  BY CrashedFields
<1> HIDE DEF t
<1>2. TypeOK'
  <2>1. t.faults \in 0..MaxFaults
    BY <1>1, NumberAssumption DEF IInv, TypeOK
  <2> QED
    BY <1>1, <2>1, CommitState DEF t
<1>3. ASSUME NEW q \in Runs PROVE Good(t, q)
  <2>1. Torn(t, q)
    BY <1>1
    DEF Torn, AttemptTorn, ProcessTorn, ScopeTorn, LaunchTorn, Promised, Waiting, Unsealed
  <2>2. Down(t, q)
    BY <1>1 DEF Down, Launching
  <2> QED
    BY <1>1, <2>1, <2>2 DEF Good
<1>4. ASSUME NEW q \in Runs PROVE Good(st', q)
  BY <1>3, CommitFields, SameParts DEF t
<1> QED
  BY <1>2, <1>4 DEF IInv

\* The states of the handler keep Torn; the last one is settled.
LEMMA HandleGood ==
    ASSUME IInv, NEW r \in Runs, NEW h, Through(h, Passes(r)), Settled(LastOf(h), r), Handle(h)
    PROVE  IInv'
<1>1. LastOf(h) \in Passes(r)
  BY LastPasses
<1>2. CASE Commit(LastOf(h))
  BY <1>1, <1>2, CommitGood
<1>3. ASSUME faults < MaxFaults, NEW i \in 1..(Len(h) - 1), Commit(Crashed(h[i]))
      PROVE  IInv'
  <2>1. h[i] \in Passes(r)
    BY DEF Through
  <2>2. h[i] \in State /\ h[i].faults = faults /\ Torn(h[i], r)
    BY <2>1 DEF Passes, Apart
  <2>3. \A q \in Runs : Torn(h[i], q)
    BY <2>1, <2>2, Elsewhere
  <2> QED
    BY <1>3, <2>2, <2>3, CrashedGood
<1> QED
  BY <1>2, <1>3 DEF Handle
-----------------------------------------------------------------------------
(* What r owns changes in one field, and nothing else does. *)

LEMMA PutRun ==
    ASSUME NEW r \in Runs, NEW s \in State, Apart(s, r), NEW v \in Row
    PROVE  LET t == [s EXCEPT !.run[r] = v]
           IN  t \in State /\ Apart(t, r) /\ t.run[r] = v /\ ButRun(s, t)
<1> DEFINE w == [s.run EXCEPT ![r] = v]
           t == [s EXCEPT !.run = w]
<1>1. w \in [Runs -> Row] /\ w[r] = v /\ \A q \in Runs \ {r} : w[q] = s.run[q]
  BY DEF State
<1>2. t = [s EXCEPT !.run[r] = v]
  OBVIOUS
<1> HIDE DEF w
<1>3. t \in State /\ t.run = w /\ ButRun(s, t)
  BY <1>1, SetRun
<1> HIDE DEF t
<1> QED
  BY <1>1, <1>2, <1>3 DEF ButRun, Apart

LEMMA PutAtt ==
    ASSUME NEW r \in Runs, NEW s \in State, Apart(s, r), NEW v \in Attempt
    PROVE  LET t == [s EXCEPT !.att[r] = v]
           IN  t \in State /\ Apart(t, r) /\ t.att[r] = v /\ ButAtt(s, t)
<1> DEFINE w == [s.att EXCEPT ![r] = v]
           t == [s EXCEPT !.att = w]
<1>1. w \in [Runs -> Attempt] /\ w[r] = v /\ \A q \in Runs \ {r} : w[q] = s.att[q]
  BY DEF State
<1>2. t = [s EXCEPT !.att[r] = v]
  OBVIOUS
<1> HIDE DEF w
<1>3. t \in State /\ t.att = w /\ ButAtt(s, t)
  BY <1>1, SetAtt
<1> HIDE DEF t
<1> QED
  BY <1>1, <1>2, <1>3 DEF ButAtt, Apart

LEMMA PutWs ==
    ASSUME NEW r \in Runs, NEW s \in State, Apart(s, r), NEW v \in Workspace
    PROVE  LET t == [s EXCEPT !.ws[r] = v]
           IN  t \in State /\ Apart(t, r) /\ t.ws[r] = v /\ ButWs(s, t)
<1> DEFINE w == [s.ws EXCEPT ![r] = v]
           t == [s EXCEPT !.ws = w]
<1>1. w \in [Runs -> Workspace] /\ w[r] = v /\ \A q \in Runs \ {r} : w[q] = s.ws[q]
  BY DEF State
<1>2. t = [s EXCEPT !.ws[r] = v]
  OBVIOUS
<1> HIDE DEF w
<1>3. t \in State /\ t.ws = w /\ ButWs(s, t)
  BY <1>1, SetWs
<1> HIDE DEF t
<1> QED
  BY <1>1, <1>2, <1>3 DEF ButWs, Apart

LEMMA PutGrants ==
    ASSUME NEW r \in Runs, NEW s \in State, Apart(s, r), NEW v \in Grants
    PROVE  LET t == [s EXCEPT !.grants[r] = v]
           IN  t \in State /\ Apart(t, r) /\ t.grants[r] = v /\ ButGrants(s, t)
<1> DEFINE w == [s.grants EXCEPT ![r] = v]
           t == [s EXCEPT !.grants = w]
<1>1. w \in [Runs -> Grants] /\ w[r] = v /\ \A q \in Runs \ {r} : w[q] = s.grants[q]
  BY DEF State
<1>2. t = [s EXCEPT !.grants[r] = v]
  OBVIOUS
<1> HIDE DEF w
<1>3. t \in State /\ t.grants = w /\ ButGrants(s, t)
  BY <1>1, SetGrants
<1> HIDE DEF t
<1> QED
  BY <1>1, <1>2, <1>3 DEF ButGrants, Apart

LEMMA PutMan ==
    ASSUME NEW r \in Runs, NEW s \in State, Apart(s, r), NEW v \in Manifest
    PROVE  LET t == [s EXCEPT !.man[r] = v]
           IN  t \in State /\ Apart(t, r) /\ t.man[r] = v /\ ButMan(s, t)
<1> DEFINE w == [s.man EXCEPT ![r] = v]
           t == [s EXCEPT !.man = w]
<1>1. w \in [Runs -> Manifest] /\ w[r] = v /\ \A q \in Runs \ {r} : w[q] = s.man[q]
  BY DEF State
<1>2. t = [s EXCEPT !.man[r] = v]
  OBVIOUS
<1> HIDE DEF w
<1>3. t \in State /\ t.man = w /\ ButMan(s, t)
  BY <1>1, SetMan
<1> HIDE DEF t
<1> QED
  BY <1>1, <1>2, <1>3 DEF ButMan, Apart

LEMMA PutDir ==
    ASSUME NEW r \in Runs, NEW s \in State, Apart(s, r), NEW v \in Directory
    PROVE  LET t == [s EXCEPT !.dir[r] = v]
           IN  t \in State /\ Apart(t, r) /\ t.dir[r] = v /\ ButDir(s, t)
<1> DEFINE w == [s.dir EXCEPT ![r] = v]
           t == [s EXCEPT !.dir = w]
<1>1. w \in [Runs -> Directory] /\ w[r] = v /\ \A q \in Runs \ {r} : w[q] = s.dir[q]
  BY DEF State
<1>2. t = [s EXCEPT !.dir[r] = v]
  OBVIOUS
<1> HIDE DEF w
<1>3. t \in State /\ t.dir = w /\ ButDir(s, t)
  BY <1>1, SetDir
<1> HIDE DEF t
<1> QED
  BY <1>1, <1>2, <1>3 DEF ButDir, Apart

LEMMA PutKnown ==
    ASSUME NEW r \in Runs, NEW s \in State, Apart(s, r), NEW v \in Nat
    PROVE  LET t == [s EXCEPT !.known[r] = v]
           IN  t \in State /\ Apart(t, r) /\ t.known[r] = v /\ ButKnown(s, t)
<1> DEFINE w == [s.known EXCEPT ![r] = v]
           t == [s EXCEPT !.known = w]
<1>1. w \in [Runs -> Nat] /\ w[r] = v /\ \A q \in Runs \ {r} : w[q] = s.known[q]
  BY DEF State
<1>2. t = [s EXCEPT !.known[r] = v]
  OBVIOUS
<1> HIDE DEF w
<1>3. t \in State /\ t.known = w /\ ButKnown(s, t)
  BY <1>1, SetKnown
<1> HIDE DEF t
<1> QED
  BY <1>1, <1>2, <1>3 DEF ButKnown, Apart

LEMMA PutSlots ==
    ASSUME NEW r \in Runs, NEW s \in State, Apart(s, r), NEW v \in SUBSET Runs,
           \A q \in Runs \ {r} : q \in v <=> q \in s.slots
    PROVE  LET t == [s EXCEPT !.slots = v]
           IN  t \in State /\ Apart(t, r) /\ t.slots = v /\ ButSlots(s, t)
<1> DEFINE t == [s EXCEPT !.slots = v]
<1>1. t \in State /\ t.slots = v /\ ButSlots(s, t)
  BY SetSlots
<1> HIDE DEF t
<1>2. Apart(t, r)
  BY <1>1 DEF ButSlots, Apart
<1> QED
  BY <1>1, <1>2 DEF t

LEMMA PutUnswept ==
    ASSUME NEW r \in Runs, NEW s \in State, Apart(s, r), NEW v \in SUBSET Runs,
           \A q \in Runs \ {r} : q \in v <=> q \in s.unswept
    PROVE  LET t == [s EXCEPT !.unswept = v]
           IN  t \in State /\ Apart(t, r) /\ t.unswept = v /\ ButUnswept(s, t)
<1> DEFINE t == [s EXCEPT !.unswept = v]
<1>1. t \in State /\ t.unswept = v /\ ButUnswept(s, t)
  BY SetUnswept
<1> HIDE DEF t
<1>2. Apart(t, r)
  BY <1>1 DEF ButUnswept, Apart
<1> QED
  BY <1>1, <1>2 DEF t

LEMMA PutProcs ==
    ASSUME NEW r \in Runs, NEW s \in State, Apart(s, r), NEW v \in SUBSET Process,
           \A p \in Process : p.run # r => (p \in v <=> p \in s.procs)
    PROVE  LET t == [s EXCEPT !.procs = v]
           IN  t \in State /\ Apart(t, r) /\ t.procs = v /\ ButProcs(s, t)
<1> DEFINE t == [s EXCEPT !.procs = v]
<1>1. t \in State /\ t.procs = v /\ ButProcs(s, t)
  BY SetProcs
<1> HIDE DEF t
<1>2. Apart(t, r)
  BY <1>1 DEF ButProcs, Apart
<1> QED
  BY <1>1, <1>2 DEF t

LEMMA PutPending ==
    ASSUME NEW r \in Runs, NEW s \in State, Apart(s, r), NEW v \in SUBSET Pending,
           \A w \in Pending : w.run # r => (w \in v <=> w \in s.pending)
    PROVE  LET t == [s EXCEPT !.pending = v]
           IN  t \in State /\ Apart(t, r) /\ t.pending = v /\ ButPending(s, t)
<1> DEFINE t == [s EXCEPT !.pending = v]
<1>1. t \in State /\ t.pending = v /\ ButPending(s, t)
  BY SetPending
<1> HIDE DEF t
<1>2. Apart(t, r)
  BY <1>1 DEF ButPending, Apart
<1> QED
  BY <1>1, <1>2 DEF t

LEMMA PutErrors ==
    ASSUME NEW r \in Runs, NEW s \in State, Apart(s, r), NEW v \in SUBSET (Runs \X Nat),
           \A e \in Runs \X Nat : e[1] # r => (e \in v <=> e \in s.errors)
    PROVE  LET t == [s EXCEPT !.errors = v]
           IN  t \in State /\ Apart(t, r) /\ t.errors = v /\ ButErrors(s, t)
<1> DEFINE t == [s EXCEPT !.errors = v]
<1>1. t \in State /\ t.errors = v /\ ButErrors(s, t)
  BY SetErrors
<1> HIDE DEF t
<1>2. Apart(t, r)
  BY <1>1 DEF ButErrors, Apart
<1> QED
  BY <1>1, <1>2 DEF t

-----------------------------------------------------------------------------
(* The statements of a handler keep what may be left behind. *)

LEMMA PassesParts ==
    ASSUME NEW r \in Runs, NEW s \in Passes(r)
    PROVE  /\ s \in State /\ Apart(s, r)
           /\ AttemptTorn(s, r) /\ ProcessTorn(s, r) /\ ScopeTorn(s, r) /\ LaunchTorn(s, r)
           /\ s.run[r] \in Row /\ s.att[r] \in Attempt /\ s.ws[r] \in Workspace
           /\ s.grants[r] \in Grants /\ s.man[r] \in Manifest /\ s.dir[r] \in Directory
           /\ s.slots \subseteq Runs /\ s.procs \subseteq Process /\ s.unswept \subseteq Runs
           /\ s.pending \subseteq Pending /\ s.errors \subseteq Runs \X Nat
BY DEF Passes, Torn, State

LEMMA PassesIntro ==
    ASSUME NEW r \in Runs, NEW s \in State, Apart(s, r),
           AttemptTorn(s, r), ProcessTorn(s, r), ScopeTorn(s, r), LaunchTorn(s, r)
    PROVE  s \in Passes(r)
BY DEF Passes, Torn

LEMMA ReleaseSlotPasses ==
    ASSUME NEW r \in Runs, NEW s \in Passes(r)
    PROVE  LET t == ReleaseSlot(s, r)
           IN  t \in Passes(r) /\ ButSlots(s, t) /\ r \notin t.slots
<1> DEFINE left == s.slots \ {r}
           t == [s EXCEPT !.slots = left]
<1>1. left \subseteq Runs /\ (\A q \in Runs \ {r} : q \in left <=> q \in s.slots) /\ r \notin left
  BY PassesParts
<1> HIDE DEF left
<1>2. t \in State /\ Apart(t, r) /\ t.slots = left /\ ButSlots(s, t)
  BY <1>1, PassesParts, PutSlots
<1> HIDE DEF t
<1>3. AttemptTorn(t, r) /\ ProcessTorn(t, r) /\ ScopeTorn(t, r) /\ LaunchTorn(t, r)
  BY <1>2, PassesParts
  DEF ButSlots, AttemptTorn, ProcessTorn, ScopeTorn, LaunchTorn, Dead,
      Waiting, Promised, Unsealed
<1> QED
  BY <1>1, <1>2, <1>3, PassesIntro DEF ReleaseSlot, t, left

\* A waiting run has no grants left when its attempt is closed.
LEMMA FinishAttemptPasses ==
    ASSUME NEW r \in Runs, NEW s \in Passes(r), Waiting(s, r) => s.grants[r].live = {}
    PROVE  LET t == FinishAttempt(s, r)
           IN  /\ t \in Passes(r) /\ ButAtt(s, t)
               /\ t.att[r].n = s.att[r].n /\ t.att[r].open = FALSE
<1> DEFINE v == [s.att[r] EXCEPT !.open = FALSE]
           t == [s EXCEPT !.att[r] = v]
<1>1. v \in Attempt /\ v.n = s.att[r].n /\ v.open = FALSE
  BY PassesParts DEF Attempt
<1> HIDE DEF v
<1>2. t \in State /\ Apart(t, r) /\ t.att[r] = v /\ ButAtt(s, t)
  BY <1>1, PassesParts, PutAtt
<1>3. t = FinishAttempt(s, r)
  BY DEF FinishAttempt, v
<1> HIDE DEF t
<1>4. AttemptTorn(t, r) /\ ProcessTorn(t, r) /\ ScopeTorn(t, r) /\ LaunchTorn(t, r)
  BY <1>1, <1>2, PassesParts
  DEF ButAtt, AttemptTorn, ProcessTorn, ScopeTorn, LaunchTorn, Dead,
      Waiting, Promised, Unsealed
<1> QED
  BY <1>1, <1>2, <1>3, <1>4, PassesIntro

LEMMA EndPasses ==
    ASSUME NEW r \in Runs, NEW s \in Passes(r)
    PROVE  LET t == SetStatus(s, r, "finished")
           IN  /\ t \in Passes(r) /\ ButRun(s, t)
               /\ t.run[r].status = "finished" /\ t.run[r].root = s.run[r].root
<1> DEFINE v == [s.run[r] EXCEPT !.status = "finished"]
           t == [s EXCEPT !.run[r] = v]
<1>1. v \in Row /\ v.status = "finished" /\ v.root = s.run[r].root
  BY PassesParts DEF Row
<1> HIDE DEF v
<1>2. t \in State /\ Apart(t, r) /\ t.run[r] = v /\ ButRun(s, t)
  BY <1>1, PassesParts, PutRun
<1>3. t = SetStatus(s, r, "finished")
  BY DEF SetStatus, v
<1> HIDE DEF t
<1>4. AttemptTorn(t, r) /\ ProcessTorn(t, r) /\ ScopeTorn(t, r) /\ LaunchTorn(t, r)
  BY <1>1, <1>2, PassesParts
  DEF ButRun, AttemptTorn, ProcessTorn, ScopeTorn, LaunchTorn, Dead,
      Waiting, Promised, Unsealed
<1> QED
  BY <1>1, <1>2, <1>3, <1>4, PassesIntro

LEMMA RevokeGrantsPasses ==
    ASSUME NEW r \in Runs, NEW s \in Passes(r)
    PROVE  LET t == RevokeGrants(s, r)
           IN  t \in Passes(r) /\ ButGrants(s, t) /\ t.grants[r].live = {}
<1> DEFINE v == [s.grants[r] EXCEPT !.live = {}]
           t == [s EXCEPT !.grants[r] = v]
<1>1. v \in Grants /\ v.live = {}
  BY PassesParts DEF Grants
<1> HIDE DEF v
<1>2. t \in State /\ Apart(t, r) /\ t.grants[r] = v /\ ButGrants(s, t)
  BY <1>1, PassesParts, PutGrants
<1>3. t = RevokeGrants(s, r)
  BY DEF RevokeGrants, v
<1> HIDE DEF t
<1>4. AttemptTorn(t, r) /\ ProcessTorn(t, r) /\ ScopeTorn(t, r) /\ LaunchTorn(t, r)
  BY <1>1, <1>2, PassesParts
  DEF ButGrants, AttemptTorn, ProcessTorn, ScopeTorn, LaunchTorn, Dead,
      Waiting, Promised, Unsealed
<1> QED
  BY <1>1, <1>2, <1>3, <1>4, PassesIntro

LEMMA RevokeTokenPasses ==
    ASSUME NEW r \in Runs, NEW s \in Passes(r)
    PROVE  LET t == RevokeToken(s, r)
           IN  /\ t \in Passes(r) /\ ButRun(s, t)
               /\ t.run[r].status = s.run[r].status /\ t.run[r].root = s.run[r].root
               /\ t.run[r].token = 0
<1> DEFINE v == [s.run[r] EXCEPT !.token = 0]
           t == [s EXCEPT !.run[r] = v]
<1>1. v \in Row /\ v.status = s.run[r].status /\ v.root = s.run[r].root /\ v.token = 0
  BY PassesParts DEF Row
<1> HIDE DEF v
<1>2. t \in State /\ Apart(t, r) /\ t.run[r] = v /\ ButRun(s, t)
  BY <1>1, PassesParts, PutRun
<1>3. t = RevokeToken(s, r)
  BY DEF RevokeToken, v
<1> HIDE DEF t
<1>4. AttemptTorn(t, r) /\ ProcessTorn(t, r) /\ ScopeTorn(t, r) /\ LaunchTorn(t, r)
  BY <1>1, <1>2, PassesParts
  DEF ButRun, AttemptTorn, ProcessTorn, ScopeTorn, LaunchTorn, Dead,
      Waiting, Promised, Unsealed
<1> QED
  BY <1>1, <1>2, <1>3, <1>4, PassesIntro

\* What revokeRunToken() leaves as it was.
LEMMA RevokeRunTokenPasses ==
    ASSUME NEW r \in Runs, NEW s \in Passes(r)
    PROVE  LET h == RevokeRunToken(s, r)
               t == LastOf(h)
           IN  /\ Through(h, Passes(r)) /\ t \in Passes(r)
               /\ t.run[r].status = s.run[r].status /\ t.run[r].root = s.run[r].root
               /\ t.att = s.att /\ t.slots = s.slots /\ t.ws = s.ws /\ t.man = s.man
               /\ t.dir = s.dir /\ t.known = s.known /\ t.procs = s.procs
               /\ t.pending = s.pending /\ t.errors = s.errors
               /\ t.unswept = s.unswept /\ t.grants[r].live = {} /\ ~Credentials(t, r)
<1> DEFINE g == RevokeGrants(s, r)
           t == RevokeToken(g, r)
<1>1. g \in Passes(r) /\ ButGrants(s, g) /\ g.grants[r].live = {}
  BY RevokeGrantsPasses
<1> HIDE DEF g
<1>2. /\ t \in Passes(r) /\ ButRun(g, t) /\ t.run[r].token = 0
      /\ t.run[r].status = g.run[r].status /\ t.run[r].root = g.run[r].root
  BY <1>1, RevokeTokenPasses
<1> HIDE DEF t
<1>3. RevokeRunToken(s, r) = <<g, t>>
  BY DEF RevokeRunToken, g, t
<1>4. Through(<<g, t>>, Passes(r)) /\ LastOf(<<g, t>>) = t
  BY <1>1, <1>2, Tuple2
<1> QED
  BY <1>1, <1>2, <1>3, <1>4 DEF ButGrants, ButRun, Credentials

\* A workspace is sealed when its run is finished, or when a preparation failed.
MaySeal(s, r) ==
    /\ Waiting(s, r) => s.att[r].n # 0
    /\ PreparationIsSafe /\ r \in Isolated => ~Waiting(s, r) /\ ~s.att[r].open

LEMMA SealRunWorkspacePasses ==
    ASSUME NEW r \in Runs, NEW s \in Passes(r), MaySeal(s, r), NEW linked \in BOOLEAN
    PROVE  LET h == SealRunWorkspace(s, r, linked)
               t == LastOf(h)
           IN  /\ Through(h, Passes(r)) /\ t \in Passes(r)
               /\ t.run = s.run /\ t.att = s.att /\ t.slots = s.slots /\ t.grants = s.grants
               /\ t.man = s.man /\ t.known = s.known /\ t.procs = s.procs
               /\ t.pending = s.pending /\ t.errors = s.errors /\ t.unswept = s.unswept
               /\ t.dir[r] = "absent" <=> s.dir[r] = "absent"
<1>1. CASE s.ws[r].state \in {"none", "sealed", "cleaned"}
  BY <1>1, Tuple1 DEF SealRunWorkspace
<1>2. CASE s.ws[r].state \notin {"none", "sealed", "cleaned"} /\ linked
  <2> DEFINE v == [s.ws[r] EXCEPT !.state = "cleanup_failed"]
             t == [s EXCEPT !.ws[r] = v]
  <2>1. v \in Workspace /\ v.state = "cleanup_failed" /\ v.left = s.ws[r].left
    BY PassesParts DEF Workspace
  <2> HIDE DEF v
  <2>2. t \in State /\ Apart(t, r) /\ t.ws[r] = v /\ ButWs(s, t)
    BY <2>1, PassesParts, PutWs
  <2>3. SealRunWorkspace(s, r, linked) = <<t>>
    BY <1>2 DEF SealRunWorkspace, v
  <2> HIDE DEF t
  <2>4. AttemptTorn(t, r) /\ ProcessTorn(t, r) /\ LaunchTorn(t, r)
    BY <2>2, PassesParts DEF ButWs, AttemptTorn, ProcessTorn, LaunchTorn, Dead, Waiting
  <2>5. ScopeTorn(t, r)
    BY <2>1, <2>2, PassesParts DEF MaySeal, ButWs, ScopeTorn, Waiting, Promised, Unsealed
  <2>6. t \in Passes(r)
    BY <2>2, <2>4, <2>5, PassesIntro
  <2> QED
    BY <2>2, <2>3, <2>6, Tuple1 DEF ButWs
<1>3. CASE s.ws[r].state \notin {"none", "sealed", "cleaned"} /\ ~linked
  <2> DEFINE d == IF s.dir[r] = "absent" THEN "absent" ELSE "sealed"
             files == [s EXCEPT !.dir[r] = d]
             v == [state |-> "sealed", left |-> IF s.ws[r].left = Null THEN Window
                                                                      ELSE s.ws[r].left]
             t == [files EXCEPT !.ws[r] = v]
  <2>1. /\ d \in Directory /\ (d = "absent" <=> s.dir[r] = "absent")
        /\ v \in Workspace /\ v.state = "sealed" /\ (s.ws[r].left = 0 => v.left = 0)
    BY PassesParts, NumberAssumption DEF Workspace, Null, Directory
  <2>2. SealRunWorkspace(s, r, linked) = <<files, t>>
    BY <1>3 DEF SealRunWorkspace
  <2> HIDE DEF d, v
  <2>3. files \in State /\ Apart(files, r) /\ files.dir[r] = d /\ ButDir(s, files)
    BY <2>1, PassesParts, PutDir
  <2> HIDE DEF files
  <2>4. t \in State /\ Apart(t, r) /\ t.ws[r] = v /\ ButWs(files, t)
    BY <2>1, <2>3, PutWs
  <2> HIDE DEF t
  <2>5. /\ AttemptTorn(files, r) /\ ProcessTorn(files, r) /\ LaunchTorn(files, r)
        /\ AttemptTorn(t, r) /\ ProcessTorn(t, r) /\ LaunchTorn(t, r)
    BY <2>3, <2>4, PassesParts
    DEF ButDir, ButWs, AttemptTorn, ProcessTorn, LaunchTorn, Dead, Waiting
  <2>6. ScopeTorn(files, r)
    BY <2>1, <2>3, PassesParts DEF MaySeal, ButDir, ScopeTorn, Waiting, Promised, Unsealed
  <2>7. ScopeTorn(t, r)
    BY <2>1, <2>3, <2>4, PassesParts
    DEF MaySeal, ButDir, ButWs, ScopeTorn, Waiting, Promised, Unsealed
  <2>8. files \in Passes(r) /\ t \in Passes(r)
    BY <2>3, <2>4, <2>5, <2>6, <2>7, PassesIntro
  <2> QED
    BY <2>1, <2>2, <2>3, <2>4, <2>8, Tuple2 DEF ButDir, ButWs
<1> QED
  BY <1>1, <1>2, <1>3

LEMMA FinishTerminalRunPasses ==
    ASSUME NEW r \in Runs, NEW s \in Passes(r), s.run[r].status = "finished",
           ~s.att[r].open, NEW linked \in BOOLEAN
    PROVE  LET h == FinishTerminalRun(s, r, linked)
               t == LastOf(h)
           IN  /\ Through(h, Passes(r)) /\ t \in Passes(r)
               /\ t.run[r].status = "finished" /\ t.run[r].root = s.run[r].root
               /\ t.att = s.att /\ t.slots = s.slots /\ t.man = s.man /\ t.known = s.known
               /\ t.procs = s.procs /\ t.pending = s.pending /\ t.unswept = s.unswept
               /\ t.dir[r] = "absent" <=> s.dir[r] = "absent"
               /\ ~Credentials(t, r)
<1> DEFINE sealing == SealRunWorkspace(s, r, linked)
           u == LastOf(sealing)
           revoking == RevokeRunToken(u, r)
           t == LastOf(revoking)
<1>1. MaySeal(s, r)
  BY DEF MaySeal, Waiting
<1>2. /\ Through(sealing, Passes(r)) /\ u \in Passes(r)
      /\ u.run = s.run /\ u.att = s.att /\ u.slots = s.slots /\ u.man = s.man
      /\ u.known = s.known /\ u.procs = s.procs /\ u.pending = s.pending
      /\ u.unswept = s.unswept
      /\ u.dir[r] = "absent" <=> s.dir[r] = "absent"
  BY <1>1, SealRunWorkspacePasses
<1> HIDE DEF sealing, u
<1>3. /\ Through(revoking, Passes(r)) /\ t \in Passes(r)
      /\ t.run[r].status = u.run[r].status /\ t.run[r].root = u.run[r].root
      /\ t.att = u.att /\ t.slots = u.slots /\ t.man = u.man /\ t.dir = u.dir
      /\ t.known = u.known /\ t.procs = u.procs /\ t.pending = u.pending
      /\ t.unswept = u.unswept /\ ~Credentials(t, r)
  BY <1>2, RevokeRunTokenPasses
<1> HIDE DEF t, revoking
<1>4. FinishTerminalRun(s, r, linked) = sealing \o revoking
  BY DEF FinishTerminalRun, sealing, u, revoking
<1>5. Through(sealing \o revoking, Passes(r)) /\ LastOf(sealing \o revoking) = t
  BY <1>2, <1>3, Chain DEF t
<1> QED
  BY <1>2, <1>3, <1>4, <1>5

\* The run is working for an attempt.
Working(s, r) == s.run[r].status \in {"starting", "active"} /\ s.att[r].n > 0

LEMMA RetryPasses ==
    ASSUME NEW r \in Runs, NEW s \in Passes(r), Working(s, r), \A p \in s.procs : p.run # r,
           PreparationIsSafe /\ r \in Isolated /\ s.run[r].root = "scratch" => Unsealed(s, r)
    PROVE  LET h == Retry(s, r)
               t == LastOf(h)
           IN  /\ Through(h, Passes(r)) /\ t \in Passes(r)
               /\ t.run[r].status = "queued" /\ t.att[r].open = FALSE
               /\ t.slots = s.slots /\ t.known = s.known /\ t.procs = s.procs
               /\ t.pending = s.pending /\ (Promised(t, r) <=> Promised(s, r))
               /\ ~Credentials(t, r)
<1> DEFINE f == FinishAttempt(s, r)
           revoked == RevokeRunToken(f, r)
           u == LastOf(revoked)
           v == [u.run[r] EXCEPT !.status = "queued", !.retry = "backoff"]
           t == [u EXCEPT !.run[r] = v]
<1>1. f \in Passes(r) /\ ButAtt(s, f) /\ f.att[r].n = s.att[r].n /\ f.att[r].open = FALSE
  BY FinishAttemptPasses DEF Working, Waiting
<1> HIDE DEF f
<1>2. /\ Through(revoked, Passes(r)) /\ u \in Passes(r)
      /\ u.run[r].status = f.run[r].status /\ u.run[r].root = f.run[r].root
      /\ u.att = f.att /\ u.slots = f.slots /\ u.ws = f.ws /\ u.man = f.man
      /\ u.dir = f.dir /\ u.known = f.known /\ u.procs = f.procs
      /\ u.pending = f.pending /\ u.errors = f.errors
      /\ u.grants[r].live = {} /\ ~Credentials(u, r)
  BY <1>1, RevokeRunTokenPasses
<1>3. Retry(s, r) = <<f>> \o revoked \o <<t>>
  BY DEF Retry, f
<1> HIDE DEF revoked, u
<1>4. v \in Row /\ v.status = "queued" /\ v.root = u.run[r].root /\ v.token = u.run[r].token
  BY <1>2, PassesParts DEF Row
<1> HIDE DEF v
<1>5. t \in State /\ Apart(t, r) /\ t.run[r] = v /\ ButRun(u, t)
  BY <1>2, <1>4, PassesParts, PutRun
<1> HIDE DEF t
<1>6. AttemptTorn(t, r) /\ ProcessTorn(t, r) /\ ScopeTorn(t, r) /\ LaunchTorn(t, r)
  <2>1. AttemptTorn(u, r) /\ ProcessTorn(u, r) /\ ScopeTorn(u, r) /\ LaunchTorn(u, r)
    BY <1>2, PassesParts
  <2>2. t.att[r].n > 0 /\ t.grants[r].live = {} /\ \A p \in t.procs : p.run # r
    BY <1>1, <1>2, <1>5 DEF ButAtt, ButRun, Working
  <2>3. /\ u.run[r].root = s.run[r].root /\ t.run[r].root = u.run[r].root
        /\ u.ws = s.ws /\ u.dir = s.dir
    BY <1>1, <1>2, <1>4, <1>5 DEF ButAtt
  <2>4. AttemptTorn(t, r) /\ ProcessTorn(t, r)
    BY <1>5, <2>1, <2>2 DEF ButRun, AttemptTorn, ProcessTorn
  <2>5. t.att[r].open = FALSE
    BY <1>1, <1>2, <1>5 DEF ButRun
  <2>6. LaunchTorn(t, r)
    BY <1>5, <2>1, <2>5 DEF ButRun, LaunchTorn, Dead
  <2> QED
    BY <1>5, <2>1, <2>2, <2>3, <2>4, <2>6 DEF ButRun, ScopeTorn, Promised, Unsealed
<1>7. t \in Passes(r)
  BY <1>5, <1>6, PassesIntro
<1>8. /\ Through(<<f>>, Passes(r)) /\ Through(<<t>>, Passes(r)) /\ LastOf(<<t>>) = t
  BY <1>1, <1>7, Tuple1
<1>9. Through(<<f>> \o revoked, Passes(r))
  BY <1>2, <1>8, Chain
<1>10. /\ Through(<<f>> \o revoked \o <<t>>, Passes(r))
       /\ LastOf(<<f>> \o revoked \o <<t>>) = t
  BY <1>8, <1>9, Chain
<1>11. Promised(t, r) <=> Promised(s, r)
  BY <1>1, <1>2, <1>4, <1>5 DEF Promised, ButAtt, ButRun
<1>12. ~Credentials(t, r)
  BY <1>2, <1>4, <1>5 DEF Credentials, ButRun
<1> QED
  BY <1>1, <1>2, <1>3, <1>4, <1>5, <1>7, <1>10, <1>11, <1>12 DEF ButAtt, ButRun

LEMMA RecordExitPasses ==
    ASSUME NEW r \in Runs, NEW s \in Passes(r), NEW b \in BOOLEAN
    PROVE  LET t == [s EXCEPT !.man[r].exited = @ \/ b]
           IN  /\ t \in Passes(r) /\ ButMan(s, t)
               /\ t.man[r].status = s.man[r].status /\ t.man[r].reason = s.man[r].reason
<1> DEFINE v == [s.man[r] EXCEPT !.exited = s.man[r].exited \/ b]
           t == [s EXCEPT !.man[r] = v]
<1>1. v \in Manifest /\ v.status = s.man[r].status /\ v.reason = s.man[r].reason
  <2>1. (s.man[r].exited \/ b) \in BOOLEAN
    OBVIOUS
  <2> QED
    BY <2>1, PassesParts DEF Manifest
<1>2. t = [s EXCEPT !.man[r].exited = @ \/ b]
  OBVIOUS
<1> HIDE DEF v
<1>3. t \in State /\ Apart(t, r) /\ t.man[r] = v /\ ButMan(s, t)
  BY <1>1, PassesParts, PutMan
<1> HIDE DEF t
<1>4. AttemptTorn(t, r) /\ ProcessTorn(t, r) /\ ScopeTorn(t, r) /\ LaunchTorn(t, r)
  BY <1>1, <1>3, PassesParts
  DEF ButMan, AttemptTorn, ProcessTorn, ScopeTorn, LaunchTorn, Dead,
      Waiting, Promised, Unsealed
<1> QED
  BY <1>1, <1>2, <1>3, <1>4, PassesIntro

LEMMA FinishPasses ==
    ASSUME NEW r \in Runs, NEW s \in Passes(r), ~Waiting(s, r),
           NEW linked \in BOOLEAN, NEW exited \in BOOLEAN
    PROVE  LET h == Finish(s, r, linked, exited)
               t == LastOf(h)
           IN  /\ Through(h, Passes(r)) /\ t \in Passes(r)
               /\ t.run[r].status = "finished" /\ t.att[r].open = FALSE
               /\ t.slots = s.slots /\ t.known = s.known /\ t.procs = s.procs
               /\ t.pending = s.pending /\ (Promised(t, r) <=> Promised(s, r))
               /\ ~Credentials(t, r)
<1> DEFINE b == exited /\ r \in External
           f == FinishAttempt(s, r)
           m == [f EXCEPT !.man[r].exited = @ \/ b]
           e == SetStatus(m, r, "finished")
           ending == FinishTerminalRun(e, r, linked)
           t == LastOf(ending)
<1>1. f \in Passes(r) /\ ButAtt(s, f) /\ f.att[r].open = FALSE
  BY FinishAttemptPasses
<1>2. Finish(s, r, linked, exited) = <<f, m, e>> \o ending
  BY DEF Finish
<1> HIDE DEF f
<1>3. /\ m \in Passes(r) /\ ButMan(f, m)
      /\ m.man[r].status = f.man[r].status /\ m.man[r].reason = f.man[r].reason
  <2>1. b \in BOOLEAN
    OBVIOUS
  <2> HIDE DEF b
  <2> QED
    BY <1>1, <2>1, RecordExitPasses
<1> HIDE DEF m, b
<1>4. /\ e \in Passes(r) /\ ButRun(m, e)
      /\ e.run[r].status = "finished" /\ e.run[r].root = m.run[r].root
  BY <1>3, EndPasses
<1> HIDE DEF e
<1>5. /\ Through(ending, Passes(r)) /\ t \in Passes(r)
      /\ t.run[r].status = "finished" /\ t.run[r].root = e.run[r].root
      /\ t.att = e.att /\ t.slots = e.slots /\ t.man = e.man /\ t.known = e.known
      /\ t.procs = e.procs /\ t.pending = e.pending /\ (t.dir[r] = "absent" <=> e.dir[r] = "absent")
      /\ ~Credentials(t, r)
  <2>1. e.att = f.att
    BY <1>3, <1>4 DEF ButMan, ButRun
  <2>2. ~e.att[r].open
    BY <1>1, <2>1
  <2> QED
    BY <1>4, <2>2, FinishTerminalRunPasses
<1> HIDE DEF ending
<1>6. Through(<<f, m, e>>, Passes(r))
  BY <1>1, <1>3, <1>4, Tuple3
<1>7. Through(<<f, m, e>> \o ending, Passes(r)) /\ LastOf(<<f, m, e>> \o ending) = t
  BY <1>5, <1>6, Chain
<1> HIDE DEF t
<1>8. Promised(t, r) <=> Promised(s, r)
  BY <1>1, <1>3, <1>4, <1>5 DEF Promised, ButAtt, ButMan, ButRun
<1> QED
  BY <1>1, <1>2, <1>3, <1>4, <1>5, <1>7, <1>8 DEF ButAtt, ButMan, ButRun

\* A run is given up or waits in the queue: its slot is free and nothing of it runs.
Released(s, t, r) ==
    /\ t \in Passes(r) /\ t.run[r].status \in {"queued", "finished"}
    /\ r \notin t.slots /\ t.att[r].open = FALSE /\ t.known = s.known
    /\ t.procs = s.procs /\ t.pending = s.pending
    /\ Promised(t, r) <=> Promised(s, r)
    /\ Credentials(t, r) => s.run[r].status = "queued" /\ s.run[r].token # 0

\* It is settled while the service is up.
LEMMA ReleasedIsUp ==
    ASSUME NEW r, NEW t, t.run[r].status \in {"queued", "finished"}, r \notin t.slots,
           t.known[r] = 0, ~Promised(t, r), Launching(t, r) => ~Credentials(t, r),
           t.att[r].open => ~Launching(t, r), \A p \in t.procs : p.run # r
    PROVE  Up(t, r)
<1>1. Steady(t, r)
  BY DEF Steady
<1>2. Sound(t, r)
  BY DEF Sound
<1> QED
  BY <1>1, <1>2 DEF Up

LEMMA WatchPasses ==
    ASSUME NEW r \in Runs, NEW s \in Passes(r), NEW k \in Nat
    PROVE  LET t == [s EXCEPT !.known[r] = k]
           IN  t \in Passes(r) /\ ButKnown(s, t) /\ t.known[r] = k
<1> DEFINE t == [s EXCEPT !.known[r] = k]
<1>1. t \in State /\ Apart(t, r) /\ t.known[r] = k /\ ButKnown(s, t)
  BY PassesParts, PutKnown
<1> HIDE DEF t
<1>2. AttemptTorn(t, r) /\ ProcessTorn(t, r) /\ ScopeTorn(t, r) /\ LaunchTorn(t, r)
  BY <1>1, PassesParts
  DEF ButKnown, AttemptTorn, ProcessTorn, ScopeTorn, LaunchTorn, Dead,
      Waiting, Promised, Unsealed
<1> QED
  BY <1>1, <1>2, PassesIntro DEF t

\* The launch of an attempt that has no process failed: the event is stale, or the run is
\* given up or queued again.
LEMMA FailedLaunchPasses ==
    ASSUME NEW r \in Runs, NEW s \in Passes(r), Steady(s, r), NEW k \in Nat, Dead(s, r, k),
           Stale(s, r, k) => Sound(s, r),
           s.att[r].open /\ s.run[r].status = "finished" => ~Launching(s, r),
           NEW linked \in BOOLEAN
    PROVE  LET h == FailedLaunch(s, r, k, linked)
           IN  Through(h, Passes(r)) /\ Up(LastOf(h), r)
<1> DEFINE g == [s EXCEPT !.known[r] = 0]
           u == ReleaseSlot(g, r)
           rest == IF ShouldRetry(k) THEN Retry(u, r) ELSE Finish(u, r, linked, FALSE)
           t == LastOf(rest)
           h == FailedLaunch(s, r, k, linked)
<1>1. g \in Passes(r) /\ ButKnown(s, g) /\ g.known[r] = 0
  BY WatchPasses
<1>2. h = IF Stale(s, r, k) THEN <<s>>
          ELSE IF s.run[r].status = "finished" THEN <<u>>
          ELSE <<u>> \o rest
  BY DEF FailedLaunch
<1> HIDE DEF g, h
<1>3. u \in Passes(r) /\ ButSlots(g, u) /\ r \notin u.slots
  BY <1>1, ReleaseSlotPasses
<1> HIDE DEF u
<1>4. /\ u.run = s.run /\ u.att = s.att /\ u.grants = s.grants /\ u.procs = s.procs
      /\ u.pending = s.pending /\ u.known[r] = 0 /\ (Promised(u, r) <=> Promised(s, r))
  BY <1>1, <1>3 DEF ButKnown, ButSlots, Promised
<1>5. CASE Stale(s, r, k)
  <2>1. Up(s, r)
    BY <1>5 DEF Up
  <2> QED
    BY <1>2, <1>5, <2>1, Tuple1 DEF h
<1>6. CASE ~Stale(s, r, k) /\ s.run[r].status = "finished"
  <2>1. u.run[r].status = "finished" /\ ~Promised(u, r)
    BY <1>4, <1>6 DEF Steady
  <2>2. Launching(u, r) = Launching(s, r) /\ Credentials(u, r) = Credentials(s, r)
    BY <1>4 DEF Launching, Credentials
  <2>3. ~Launching(u, r) /\ \A p \in u.procs : p.run # r
    BY <1>4, <1>6, <2>2 DEF Stale, Dead
  <2>4. Up(u, r)
    BY <1>3, <1>4, <2>1, <2>3, ReleasedIsUp
  <2>5. Through(<<u>>, Passes(r)) /\ LastOf(<<u>>) = u
    BY <1>3, Tuple1
  <2> QED
    BY <1>2, <1>6, <2>4, <2>5 DEF h
<1>7. CASE ~Stale(s, r, k) /\ s.run[r].status # "finished"
  <2>1. s.att[r].open /\ s.att[r].n = k /\ s.run[r] \in Row
    BY <1>7, PassesParts DEF Stale
  <2>2. ~Waiting(s, r) /\ (\A p \in s.procs : p.run # r) /\ s.att[r].n > 0
    BY <2>1, PassesParts DEF Dead, AttemptTorn
  <2>3. Working(u, r) /\ ~Waiting(u, r) /\ (\A p \in u.procs : p.run # r)
    BY <1>4, <1>7, <2>1, <2>2 DEF Working, Waiting, Row
  <2>4. /\ Through(rest, Passes(r)) /\ t \in Passes(r)
        /\ t.run[r].status \in {"queued", "finished"} /\ t.att[r].open = FALSE
        /\ t.slots = u.slots /\ t.known = u.known /\ t.procs = u.procs
        /\ t.pending = u.pending /\ (Promised(t, r) <=> Promised(u, r))
        /\ ~Credentials(t, r)
    <3>1. CASE ShouldRetry(k)
      <4>1. PreparationIsSafe /\ r \in Isolated /\ u.run[r].root = "scratch" => Unsealed(u, r)
        BY <1>3, <1>4, <2>1, PassesParts DEF ScopeTorn
      <4> QED
        BY <1>3, <2>3, <3>1, <4>1, RetryPasses
    <3>2. CASE ~ShouldRetry(k)
      BY <1>3, <2>3, <3>2, FinishPasses
    <3> QED
      BY <3>1, <3>2
  <2> HIDE DEF rest
  <2>5. Through(<<u>>, Passes(r))
    BY <1>3, Tuple1
  <2>6. Through(<<u>> \o rest, Passes(r)) /\ LastOf(<<u>> \o rest) = t
    BY <2>4, <2>5, Chain
  <2> HIDE DEF t
  <2>7. ~Promised(t, r) /\ Launching(t, r) = Launching(s, r)
    BY <1>4, <2>4 DEF Steady, Launching
  <2>8. Up(t, r)
    BY <1>3, <1>4, <2>3, <2>4, <2>7, ReleasedIsUp
  <2> QED
    BY <1>2, <1>7, <2>6, <2>8 DEF h
<1> QED
  BY <1>5, <1>6, <1>7 DEF h

-----------------------------------------------------------------------------
(* startRun() *)

\* A queued run of a service that is up, before anything is done for it.
Idle(r) == IInv /\ service = "up" /\ run[r].status = "queued"

LEMMA IdleParts ==
    ASSUME NEW r \in Runs, Idle(r)
    PROVE  /\ st \in Passes(r) /\ Waiting(st, r) /\ st.known[r] = 0 /\ ~Promised(st, r)
           /\ \A p \in st.procs : p.run # r
           /\ Launching(st, r) => st.run[r].token = 0
<1>1. st \in Passes(r) /\ Torn(st, r) /\ Up(st, r) /\ Waiting(st, r) /\ st.run[r].status = "queued"
  BY StPasses, StFields DEF Idle, IInv, Good, Waiting
<1>2. Launching(st, r) => st.run[r].token = 0
  BY <1>1 DEF Up, Steady, Credentials
<1> QED
  BY <1>1, <1>2 DEF Torn, ProcessTorn, Up, Steady

LEMMA ReservedPasses ==
    ASSUME NEW r \in Runs, NEW s \in Passes(r)
    PROVE  LET t == [s EXCEPT !.slots = @ \cup {r}]
           IN  t \in Passes(r) /\ ButSlots(s, t)
<1> DEFINE more == s.slots \cup {r}
           t == [s EXCEPT !.slots = more]
<1>1. more \subseteq Runs /\ (\A q \in Runs \ {r} : q \in more <=> q \in s.slots)
  BY PassesParts
<1> HIDE DEF more
<1>2. t \in State /\ Apart(t, r) /\ ButSlots(s, t)
  BY <1>1, PassesParts, PutSlots
<1> HIDE DEF t
<1>3. AttemptTorn(t, r) /\ ProcessTorn(t, r) /\ ScopeTorn(t, r) /\ LaunchTorn(t, r)
  BY <1>2, PassesParts
  DEF ButSlots, AttemptTorn, ProcessTorn, ScopeTorn, LaunchTorn, Dead,
      Waiting, Promised, Unsealed
<1> QED
  BY <1>2, <1>3, PassesIntro DEF t, more

LEMMA BeginAttemptPasses ==
    ASSUME NEW r \in Runs, NEW s \in Passes(r), Waiting(s, r)
    PROVE  LET t == BeginAttempt(s, r)
           IN  /\ t \in Passes(r) /\ ButAtt(s, t)
               /\ t.att[r].open = TRUE /\ t.att[r].n > 0
<1> DEFINE n == IF s.att[r].open THEN s.att[r].n ELSE s.att[r].n + 1
           v == [n |-> n, open |-> TRUE]
           t == [s EXCEPT !.att[r] = v]
<1>1. /\ v \in Attempt /\ v.open = TRUE /\ v.n > 0
      /\ s.att[r].open => v.n = s.att[r].n
  BY PassesParts DEF Attempt, AttemptTorn
<1>2. t = BeginAttempt(s, r)
  BY DEF BeginAttempt
<1> HIDE DEF v
<1>3. t \in State /\ Apart(t, r) /\ t.att[r] = v /\ ButAtt(s, t)
  BY <1>1, PassesParts, PutAtt
<1> HIDE DEF t
<1>4. AttemptTorn(t, r)
  <2>1. s.grants[r].live \subseteq {v.n}
    BY <1>1, PassesParts DEF AttemptTorn
  <2> QED
    BY <1>1, <1>3, <2>1 DEF ButAtt, AttemptTorn
<1>5. ScopeTorn(t, r)
  BY <1>1, <1>3, PassesParts DEF ButAtt, ScopeTorn, Waiting, Promised, Unsealed
<1>6. s.att[r].n <= v.n /\ (v.n = s.att[r].n => s.att[r].open) /\ s.att[r].n \in Nat
  BY PassesParts DEF Attempt, v
<1>7. ProcessTorn(t, r)
  BY <1>3, <1>6, PassesParts DEF ButAtt, ProcessTorn, Waiting
<1>8. LaunchTorn(t, r)
  <2>1. ASSUME NEW k, Dead(s, r, k), k \in Nat PROVE Dead(t, r, k)
    BY <1>1, <1>3, <1>6, <2>1, PassesParts DEF Dead, ButAtt, Attempt, Waiting
  <2>2. /\ \A e \in s.errors : e[2] \in Nat
        /\ \A w \in s.pending : w.attempt \in Nat
    BY PassesParts DEF Pending
  <2> QED
    BY <1>3, <2>1, <2>2, PassesParts DEF ButAtt, LaunchTorn
<1> QED
  BY <1>1, <1>2, <1>3, <1>4, <1>5, <1>7, <1>8, PassesIntro

\* What the preparation leaves to the launch.
Prepared(t, r) ==
    /\ t \in Passes(r) /\ t.run = run /\ t.man = man /\ t.known = known /\ t.procs = procs
    /\ t.pending = pending /\ t.grants = grants
    /\ t.att[r].open = TRUE /\ t.att[r].n > 0 /\ r \in t.slots
    /\ IF NeedsScope(r) THEN Unsealed(t, r) ELSE t.dir = dir /\ t.ws = ws

LEMMA PreparationPasses ==
    ASSUME NEW r \in Runs, Idle(r), NeedsScope(r) => dir[r] = "absent"
    PROVE  /\ Through(Preparation(r), Passes(r))
           /\ Prepared(LastOf(Preparation(r)), r)
<1> DEFINE a == [st EXCEPT !.slots = @ \cup {r}]
           made == [a EXCEPT !.dir[r] = "writable"]
           v == [made.ws[r] EXCEPT !.state = IF @ = "none" THEN "active" ELSE @]
           registered == [made EXCEPT !.ws[r] = v]
           e == IF NeedsScope(r) THEN registered ELSE a
           b == BeginAttempt(e, r)
<1>1. a \in Passes(r) /\ ButSlots(st, a) /\ r \in a.slots
  <2>1. a \in Passes(r) /\ ButSlots(st, a)
    BY IdleParts, ReservedPasses
  <2>2. r \in a.slots
    BY DEF st
  <2> QED
    BY <2>1, <2>2
<1>2. Preparation(r) = IF NeedsScope(r) THEN <<a, made, registered, b>> ELSE <<a, b>>
  BY DEF Preparation
<1> HIDE DEF a
<1>3. ASSUME NeedsScope(r)
      PROVE  /\ made \in Passes(r) /\ registered \in Passes(r)
             /\ ButDir(a, made) /\ ButWs(made, registered) /\ Unsealed(registered, r)
  <2>1. a.dir[r] = "absent" /\ a.att[r].n = 0 /\ a.ws[r].state = "none"
    <3>1. dir[r] = "absent" /\ att[r].n = 0
      BY <1>3 DEF NeedsScope
    <3>2. ScopeTorn(st, r) /\ Waiting(st, r)
      BY IdleParts, PassesParts
    <3> QED
      BY <1>1, <3>1, <3>2, StFields DEF ButSlots, ScopeTorn
  <2>2. made \in State /\ Apart(made, r) /\ made.dir[r] = "writable" /\ ButDir(a, made)
    <3>1. "writable" \in Directory
      BY DEF Directory
    <3> QED
      BY <1>1, <3>1, PassesParts, PutDir
  <2>3. made \in Passes(r)
    <3>1. AttemptTorn(made, r) /\ ProcessTorn(made, r) /\ LaunchTorn(made, r)
      BY <1>1, <2>2, PassesParts
      DEF ButDir, AttemptTorn, ProcessTorn, LaunchTorn, Dead, Waiting
    <3>2. ScopeTorn(made, r)
      BY <1>1, <2>1, <2>2, PassesParts DEF ButDir, ScopeTorn, Waiting, Promised, Unsealed
    <3> QED
      BY <2>2, <3>1, <3>2, PassesIntro
  <2>4. v \in Workspace /\ v.state = "active"
    <3>1. made.ws[r] = a.ws[r] /\ a.ws[r] \in Workspace
      BY <1>1, <2>2, PassesParts DEF ButDir
    <3> QED
      BY <2>1, <3>1 DEF Workspace
  <2> HIDE DEF made, v
  <2>5. registered \in State /\ Apart(registered, r) /\ registered.ws[r] = v
        /\ ButWs(made, registered)
    BY <2>2, <2>4, PutWs
  <2> HIDE DEF registered
  <2>6. Unsealed(registered, r)
    BY <2>2, <2>4, <2>5 DEF ButWs, Unsealed
  <2>7. AttemptTorn(registered, r) /\ ProcessTorn(registered, r) /\ LaunchTorn(registered, r)
    BY <2>3, <2>5, PassesParts
    DEF ButWs, AttemptTorn, ProcessTorn, LaunchTorn, Dead, Waiting
  <2>8. ScopeTorn(registered, r)
    BY <2>4, <2>5, <2>6 DEF ScopeTorn, Promised, Unsealed
  <2> QED
    BY <2>2, <2>3, <2>5, <2>6, <2>7, <2>8, PassesIntro
<1>4. /\ e \in Passes(r) /\ e.run = run /\ e.man = man /\ e.known = known /\ e.procs = procs
      /\ e.pending = pending /\ e.grants = grants /\ r \in e.slots
      /\ IF NeedsScope(r) THEN Unsealed(e, r) ELSE e.dir = dir /\ e.ws = ws
  <2>1. CASE NeedsScope(r)
    <3> HIDE DEF made, registered
    <3> QED
      BY <1>1, <1>3, <2>1, StFields DEF ButSlots, ButDir, ButWs
  <2>2. CASE ~NeedsScope(r)
    BY <1>1, <2>2, StFields DEF ButSlots
  <2> QED
    BY <2>1, <2>2
<1> HIDE DEF e
<1>5. b \in Passes(r) /\ ButAtt(e, b) /\ b.att[r].open = TRUE /\ b.att[r].n > 0
  <2>1. Waiting(e, r)
    BY <1>4 DEF Idle, Waiting
  <2> QED
    BY <1>4, <2>1, BeginAttemptPasses
<1> HIDE DEF b
<1>6. Prepared(b, r)
  BY <1>4, <1>5 DEF Prepared, ButAtt, Unsealed
<1>7. CASE NeedsScope(r)
  <2> HIDE DEF made, registered
  <2> QED
    BY <1>1, <1>2, <1>3, <1>5, <1>6, <1>7, Tuple4
<1>8. CASE ~NeedsScope(r)
  <2> HIDE DEF made, registered
  <2> QED
    BY <1>1, <1>2, <1>5, <1>6, <1>8, Tuple2
<1> QED
  BY <1>7, <1>8

LEMMA IssuePasses ==
    ASSUME NEW r \in Runs, NEW s, Prepared(s, r)
    PROVE  LET t == Issue(s, r) IN t \in Passes(r) /\ ButGrants(s, t)
<1> DEFINE k == s.att[r].n
           v == [issued |-> s.grants[r].issued \cup {k}, live |-> s.grants[r].live \cup {k}]
           t == [s EXCEPT !.grants[r] = v]
<1>1. s \in Passes(r)
  BY DEF Prepared
<1>2. v \in Grants /\ v.live \subseteq {k}
  BY <1>1, PassesParts DEF Grants, Attempt, AttemptTorn
<1>3. t = Issue(s, r)
  BY DEF Issue
<1> HIDE DEF v
<1>4. t \in State /\ Apart(t, r) /\ t.grants[r] = v /\ ButGrants(s, t)
  BY <1>1, <1>2, PassesParts, PutGrants
<1> HIDE DEF t
<1>5. AttemptTorn(t, r) /\ ProcessTorn(t, r) /\ ScopeTorn(t, r) /\ LaunchTorn(t, r)
  BY <1>1, <1>2, <1>4, PassesParts
  DEF Prepared, ButGrants, AttemptTorn, ProcessTorn, ScopeTorn, LaunchTorn, Dead,
      Waiting, Promised, Unsealed
<1> QED
  BY <1>1, <1>3, <1>4, <1>5, PassesIntro

LEMMA FailedPreparationPasses ==
    ASSUME NEW r \in Runs, NEW s \in Passes(r), s.run[r].status = "queued", s.att[r].n > 0,
           PreparationIsSafe => r \notin Isolated, NEW linked \in BOOLEAN
    PROVE  LET h == FailedPreparation(s, r, linked)
           IN  Through(h, Passes(r)) /\ Released(s, LastOf(h), r)
<1> DEFINE u == ReleaseSlot(s, r)
           g == RevokeGrants(u, r)
           f == FinishAttempt(g, r)
           sealing == SealRunWorkspace(f, r, linked)
           t == LastOf(sealing)
<1>1. FailedPreparation(s, r, linked) = <<u, g, f>> \o sealing
  BY DEF FailedPreparation
<1>2. u \in Passes(r) /\ ButSlots(s, u) /\ r \notin u.slots
  BY ReleaseSlotPasses
<1> HIDE DEF u
<1>3. g \in Passes(r) /\ ButGrants(u, g) /\ g.grants[r].live = {}
  BY <1>2, RevokeGrantsPasses
<1> HIDE DEF g
<1>4. f \in Passes(r) /\ ButAtt(g, f) /\ f.att[r].n = g.att[r].n /\ f.att[r].open = FALSE
  BY <1>3, FinishAttemptPasses
<1> HIDE DEF f
<1>5. MaySeal(f, r)
  BY <1>2, <1>3, <1>4 DEF MaySeal, ButSlots, ButGrants, ButAtt
<1>6. /\ Through(sealing, Passes(r)) /\ t \in Passes(r)
      /\ t.run = f.run /\ t.att = f.att /\ t.slots = f.slots /\ t.man = f.man
      /\ t.known = f.known /\ t.procs = f.procs /\ t.pending = f.pending
      /\ t.grants = f.grants
      /\ t.dir[r] = "absent" <=> f.dir[r] = "absent"
  BY <1>4, <1>5, SealRunWorkspacePasses
<1> HIDE DEF sealing
<1>7. Through(<<u, g, f>>, Passes(r))
  BY <1>2, <1>3, <1>4, Tuple3
<1>8. Through(<<u, g, f>> \o sealing, Passes(r)) /\ LastOf(<<u, g, f>> \o sealing) = t
  BY <1>6, <1>7, Chain
<1>9. t.run = s.run /\ t.man = s.man /\ (t.dir[r] = "absent" <=> s.dir[r] = "absent")
  BY <1>2, <1>3, <1>4, <1>6 DEF ButSlots, ButGrants, ButAtt
<1>10. (Promised(t, r) <=> Promised(s, r)) /\ t.grants[r].live = {}
  BY <1>3, <1>4, <1>6, <1>9 DEF Promised, ButAtt
<1>11. /\ r \notin t.slots /\ t.att[r].open = FALSE /\ t.known = s.known
       /\ t.procs = s.procs /\ t.pending = s.pending
  BY <1>2, <1>3, <1>4, <1>6 DEF ButSlots, ButGrants, ButAtt
<1>12. Released(s, t, r)
  BY <1>6, <1>9, <1>10, <1>11 DEF Released, Credentials
<1> QED
  BY <1>1, <1>6, <1>8, <1>12

\* What the launch needs of the state the grants were made in.
Launchable(s, r, root) ==
    /\ s \in Passes(r) /\ s.run[r].status = "queued" /\ s.known[r] = 0
    /\ s.att[r].open = TRUE /\ s.att[r].n > 0 /\ r \in s.slots
    /\ \A p \in s.procs : p.run # r
    /\ root \in {"scratch", "work"}
    /\ root = "scratch" /\ s.man[r].status = "available" /\ s.man[r].reason = "none"
          => s.dir[r] # "absent"
    /\ PreparationIsSafe /\ r \in Isolated /\ root = "scratch" => Unsealed(s, r)

LEMMA RecordScopePasses ==
    ASSUME NEW r \in Runs, NEW root, NEW s, Launchable(s, r, root)
    PROVE  LET t == RecordScope(s, r, root)
           IN  /\ t \in Passes(r) /\ ButRun(s, t) /\ ~Promised(t, r)
               /\ t.run[r].status = "queued" /\ t.run[r].root = root
               /\ t.run[r].token = s.att[r].n
<1> DEFINE v == [s.run[r] EXCEPT !.root = root, !.token = s.att[r].n, !.retry = "none"]
           t == [s EXCEPT !.run[r] = v]
<1>1. s \in Passes(r)
  BY DEF Launchable
<1>2. /\ v \in Row /\ v.status = "queued" /\ v.root = root /\ v.token = s.att[r].n
  BY <1>1, PassesParts DEF Launchable, Row, Attempt
<1>3. t = RecordScope(s, r, root)
  BY DEF RecordScope
<1> HIDE DEF v
<1>4. t \in State /\ Apart(t, r) /\ t.run[r] = v /\ ButRun(s, t)
  BY <1>1, <1>2, PassesParts, PutRun
<1> HIDE DEF t
<1>5. ~Promised(t, r)
  BY <1>2, <1>4 DEF Launchable, ButRun, Promised
<1>6. AttemptTorn(t, r) /\ ProcessTorn(t, r) /\ LaunchTorn(t, r)
  BY <1>1, <1>2, <1>4, PassesParts
  DEF Launchable, ButRun, AttemptTorn, ProcessTorn, LaunchTorn, Dead, Waiting
<1>7. ScopeTorn(t, r)
  BY <1>2, <1>4, <1>5 DEF Launchable, ButRun, ScopeTorn, Unsealed
<1> QED
  BY <1>2, <1>3, <1>4, <1>5, <1>6, <1>7, PassesIntro

LEMMA WorkingPasses ==
    ASSUME NEW r \in Runs, NEW s \in Passes(r), s.run[r].status \in {"queued", "starting"},
           NEW status \in {"starting", "active"}
    PROVE  LET t == SetStatus(s, r, status)
           IN  /\ t \in Passes(r) /\ ButRun(s, t)
               /\ t.run[r].status = status /\ t.run[r].root = s.run[r].root
               /\ t.run[r].token = s.run[r].token
<1> DEFINE v == [s.run[r] EXCEPT !.status = status]
           t == [s EXCEPT !.run[r] = v]
<1>1. /\ v \in Row /\ v.status = status /\ v.root = s.run[r].root
      /\ v.token = s.run[r].token
  BY PassesParts DEF Row
<1> HIDE DEF v
<1>2. t \in State /\ Apart(t, r) /\ t.run[r] = v /\ ButRun(s, t)
  BY <1>1, PassesParts, PutRun
<1>3. t = SetStatus(s, r, status)
  BY DEF SetStatus, v
<1> HIDE DEF t
<1>4. AttemptTorn(t, r) /\ ProcessTorn(t, r) /\ ScopeTorn(t, r) /\ LaunchTorn(t, r)
  BY <1>1, <1>2, PassesParts
  DEF ButRun, AttemptTorn, ProcessTorn, ScopeTorn, LaunchTorn, Dead,
      Waiting, Promised, Unsealed
<1> QED
  BY <1>1, <1>2, <1>3, <1>4, PassesIntro

\* No launch of the attempt that is open has failed.
Fresh(s, r) ==
    /\ \A e \in s.errors : e[1] = r => e[2] # s.att[r].n
    /\ \A w \in s.pending : w.run = r /\ w.rejected => w.attempt # s.att[r].n

LEMMA LaunchableIsFresh ==
    ASSUME NEW r \in Runs, NEW root, NEW s, Launchable(s, r, root)
    PROVE  Fresh(s, r)
<1>1. LaunchTorn(s, r) /\ Waiting(s, r) /\ s.att[r].open
  BY PassesParts DEF Launchable, Waiting
<1>2. \A k : Dead(s, r, k) => k # s.att[r].n
  BY <1>1 DEF Dead
<1> QED
  BY <1>1, <1>2 DEF LaunchTorn, Fresh

LEMMA SpawnPasses ==
    ASSUME NEW r \in Runs, NEW s \in Passes(r), ~Waiting(s, r), s.att[r].n > 0,
           NEW root \in {"scratch", "work"}, s.run[r].root = root,
           r \in Isolated => root = "scratch", \A p \in s.procs : p.run # r, Fresh(s, r)
    PROVE  LET t == [s EXCEPT !.procs = @ \cup
                         {[run |-> r, attempt |-> s.att[r].n, root |-> root]}]
           IN  /\ t \in Passes(r) /\ ButProcs(s, t)
               /\ \A p \in t.procs : p.run = r => p.attempt = s.att[r].n
<1> DEFINE k == s.att[r].n
           new == [run |-> r, attempt |-> k, root |-> root]
           more == s.procs \cup {new}
           t == [s EXCEPT !.procs = more]
<1>0. k \in Nat
  BY PassesParts DEF Attempt
<1>1. new \in Process /\ new.run = r /\ new.attempt = k /\ new.root = root
  BY <1>0 DEF Process
<1> HIDE DEF new
<1>2. more \subseteq Process /\ \A p \in Process : p.run # r => (p \in more <=> p \in s.procs)
  BY <1>1, PassesParts
<1> HIDE DEF more
<1>3. t \in State /\ Apart(t, r) /\ t.procs = more /\ ButProcs(s, t)
  BY <1>2, PassesParts, PutProcs
<1>4. t = [s EXCEPT !.procs = @ \cup {[run |-> r, attempt |-> s.att[r].n, root |-> root]}]
  BY DEF more, new
<1> HIDE DEF t
<1>5. AttemptTorn(t, r) /\ ScopeTorn(t, r)
  BY <1>3, PassesParts DEF ButProcs, AttemptTorn, ScopeTorn, Waiting, Promised, Unsealed
<1>6. \A p \in t.procs : p.run = r => p = new
  BY <1>3 DEF more
<1>7. ProcessTorn(t, r)
  BY <1>0, <1>1, <1>3, <1>6 DEF ButProcs, ProcessTorn, Waiting
<1>8. LaunchTorn(t, r)
  <2>1. ASSUME NEW i, Dead(s, r, i), i # k PROVE Dead(t, r, i)
    BY <1>3, <2>1 DEF Dead, ButProcs
  <2> QED
    BY <1>3, <2>1, PassesParts DEF ButProcs, LaunchTorn, Fresh
<1> QED
  BY <1>1, <1>3, <1>4, <1>5, <1>6, <1>7, <1>8, PassesIntro

\* The call waits for the runner.
LEMMA WaitPasses ==
    ASSUME NEW r \in Runs, NEW s \in Passes(r), ~Waiting(s, r), s.att[r].n > 0,
           \A p \in s.procs : p.run # r, NEW rejected \in BOOLEAN
    PROVE  LET w == [run |-> r, attempt |-> s.att[r].n, rejected |-> rejected]
               t == [s EXCEPT !.pending = @ \cup {w}]
           IN  t \in Passes(r) /\ ButPending(s, t) /\ t.pending = s.pending \cup {w}
<1> DEFINE k == s.att[r].n
           w == [run |-> r, attempt |-> k, rejected |-> rejected]
           more == s.pending \cup {w}
           t == [s EXCEPT !.pending = more]
<1>0. k \in Nat
  BY PassesParts DEF Attempt
<1>1. w \in Pending /\ w.run = r /\ w.attempt = k
  BY <1>0 DEF Pending
<1>2. t = [s EXCEPT !.pending = @ \cup {w}]
  OBVIOUS
<1> HIDE DEF w
<1>3. more \subseteq Pending /\ \A v \in Pending : v.run # r => (v \in more <=> v \in s.pending)
  BY <1>1, PassesParts
<1> HIDE DEF more
<1>4. t \in State /\ Apart(t, r) /\ t.pending = more /\ ButPending(s, t)
  BY <1>3, PassesParts, PutPending
<1> HIDE DEF t
<1>5. AttemptTorn(t, r) /\ ProcessTorn(t, r) /\ ScopeTorn(t, r)
  BY <1>4, PassesParts
  DEF ButPending, AttemptTorn, ProcessTorn, ScopeTorn, Waiting, Promised, Unsealed
<1>6. LaunchTorn(t, r)
  <2>1. \A i : Dead(s, r, i) => Dead(t, r, i)
    BY <1>4 DEF Dead, ButPending, Waiting
  <2>2. Dead(t, r, k)
    BY <1>0, <1>4 DEF Dead, ButPending, Waiting
  <2>3. \A v \in t.pending : v \in s.pending \/ v = w
    BY <1>4 DEF more
  <2> QED
    BY <1>1, <1>4, <2>1, <2>2, <2>3, PassesParts DEF ButPending, LaunchTorn
<1> QED
  BY <1>2, <1>4, <1>5, <1>6, PassesIntro DEF more, w

LEMMA ReportPasses ==
    ASSUME NEW r \in Runs, NEW s \in Passes(r), ~Waiting(s, r), \A p \in s.procs : p.run # r
    PROVE  LET t == [s EXCEPT !.errors = @ \cup {<<r, s.att[r].n>>}]
           IN  t \in Passes(r) /\ ButErrors(s, t)
<1> DEFINE k == s.att[r].n
           new == <<r, k>>
           more == s.errors \cup {new}
           t == [s EXCEPT !.errors = more]
<1>0. k \in Nat
  BY PassesParts DEF Attempt
<1>1. new \in Runs \X Nat /\ new[1] = r /\ new[2] = k
  BY <1>0
<1>2. t = [s EXCEPT !.errors = @ \cup {<<r, s.att[r].n>>}]
  OBVIOUS
<1> HIDE DEF new
<1>3. /\ more \subseteq Runs \X Nat
      /\ \A e \in Runs \X Nat : e[1] # r => (e \in more <=> e \in s.errors)
  BY <1>1, PassesParts
<1> HIDE DEF more
<1>4. t \in State /\ Apart(t, r) /\ t.errors = more /\ ButErrors(s, t)
  BY <1>3, PassesParts, PutErrors
<1> HIDE DEF t
<1>5. AttemptTorn(t, r) /\ ProcessTorn(t, r) /\ ScopeTorn(t, r)
  BY <1>4, PassesParts
  DEF ButErrors, AttemptTorn, ProcessTorn, ScopeTorn, Waiting, Promised, Unsealed
<1>6. LaunchTorn(t, r)
  <2>1. \A i : Dead(s, r, i) => Dead(t, r, i)
    BY <1>4 DEF Dead, ButErrors, Waiting
  <2>2. Dead(t, r, k)
    BY <1>0, <1>4 DEF Dead, ButErrors, Waiting
  <2>3. \A e \in t.errors : e \in s.errors \/ e = new
    BY <1>4 DEF more
  <2> QED
    BY <1>1, <1>4, <2>1, <2>2, <2>3, PassesParts DEF ButErrors, LaunchTorn
<1> QED
  BY <1>2, <1>4, <1>5, <1>6, PassesIntro

\* What startRun() leaves behind at its await, whatever becomes of the launch.
LEMMA AwaitingPasses ==
    ASSUME NEW r \in Runs, NEW s \in Passes(r), ~Waiting(s, r), s.att[r].n > 0,
           \A p \in s.procs : p.run # r, Fresh(s, r), NEW root \in {"scratch", "work"},
           s.run[r].root = root, NEW how \in {"spawned", "event", "reject"},
           how # "reject" /\ r \in Isolated => root = "scratch"
    PROVE  LET t == Awaiting(s, r, root, how)
               w == [run |-> r, attempt |-> s.att[r].n, rejected |-> how = "reject"]
           IN  /\ t \in Passes(r) /\ t.pending = s.pending \cup {w}
               /\ t.run = s.run /\ t.att = s.att /\ t.slots = s.slots /\ t.ws = s.ws
               /\ t.grants = s.grants /\ t.man = s.man /\ t.dir = s.dir /\ t.known = s.known
               /\ \A q \in t.procs : q.run = r => q.attempt = s.att[r].n
<1> DEFINE k == s.att[r].n
           w == [run |-> r, attempt |-> k, rejected |-> how = "reject"]
           x == [s EXCEPT !.pending = @ \cup {w}]
           p == [x EXCEPT !.procs = @ \cup {[run |-> r, attempt |-> k, root |-> root]}]
           e == [x EXCEPT !.errors = @ \cup {<<r, k>>}]
           t == Awaiting(s, r, root, how)
<1>1. t = IF how = "spawned" THEN p ELSE IF how = "event" THEN e ELSE x
  BY DEF Awaiting
<1> HIDE DEF t
<1>2. x \in Passes(r) /\ ButPending(s, x) /\ x.pending = s.pending \cup {w}
  <2>1. (how = "reject") \in BOOLEAN
    OBVIOUS
  <2> QED
    BY <2>1, WaitPasses
<1>3. w.run = r /\ w.attempt = k /\ w.rejected = (how = "reject")
  OBVIOUS
<1> HIDE DEF w, x
<1>4. ~Waiting(x, r) /\ x.run = s.run /\ x.att = s.att /\ (\A q \in x.procs : q.run # r)
  BY <1>2 DEF ButPending, Waiting
<1>5. CASE how = "spawned"
  <2>1. Fresh(x, r)
    BY <1>2, <1>3, <1>5 DEF Fresh, ButPending
  <2>2. p \in Passes(r) /\ ButProcs(x, p) /\ \A q \in p.procs : q.run = r => q.attempt = k
    <3>1. p = [x EXCEPT !.procs = @ \cup {[run |-> r, attempt |-> x.att[r].n, root |-> root]}]
      BY <1>4
    <3>2. x.att[r].n > 0 /\ x.run[r].root = root /\ (r \in Isolated => root = "scratch")
      BY <1>4, <1>5
    <3> HIDE DEF p
    <3>3. p \in Passes(r) /\ ButProcs(x, p) /\ \A q \in p.procs : q.run = r => q.attempt = x.att[r].n
      BY <1>2, <1>4, <2>1, <3>1, <3>2, SpawnPasses
    <3> QED
      BY <1>4, <3>3
  <2> HIDE DEF p
  <2> QED
    BY <1>1, <1>2, <1>5, <2>2 DEF ButPending, ButProcs, t, w
<1>6. CASE how = "event"
  <2>1. e \in Passes(r) /\ ButErrors(x, e)
    <3>1. e = [x EXCEPT !.errors = @ \cup {<<r, x.att[r].n>>}]
      BY <1>4
    <3> HIDE DEF e
    <3> QED
      BY <1>2, <1>4, <1>6, <3>1, ReportPasses
  <2> HIDE DEF e
  <2> QED
    BY <1>1, <1>2, <1>4, <1>6, <2>1 DEF ButPending, ButErrors, t, w
<1>7. CASE how = "reject"
  BY <1>1, <1>2, <1>4, <1>7 DEF ButPending, t, w
<1> QED
  BY <1>5, <1>6, <1>7

LEMMA LaunchPasses ==
    ASSUME NEW r \in Runs, NEW root, NEW s, Launchable(s, r, root),
           NEW how \in {"spawned", "event", "reject"}, how # "reject" => CanLaunch(r, root)
    PROVE  LET h == Launch(s, r, root, how)
           IN  Through(h, Passes(r)) /\ Up(LastOf(h), r)
<1> DEFINE k == s.att[r].n
           c == RecordScope(s, r, root)
           g == SetStatus(c, r, "starting")
           t == Awaiting(g, r, root, how)
           w == [run |-> r, attempt |-> g.att[r].n, rejected |-> how = "reject"]
<1>1. /\ c \in Passes(r) /\ ButRun(s, c) /\ ~Promised(c, r)
      /\ c.run[r].status = "queued" /\ c.run[r].root = root /\ c.run[r].token = k
  BY RecordScopePasses
<1>2. Launch(s, r, root, how) = <<c, g, t>>
  BY DEF Launch
<1> HIDE DEF c
<1>3. /\ g \in Passes(r) /\ ButRun(c, g) /\ g.run[r].status = "starting"
      /\ g.run[r].root = c.run[r].root /\ g.run[r].token = c.run[r].token
  BY <1>1, WorkingPasses
<1> HIDE DEF g
<1>4. /\ ~Waiting(g, r) /\ ~Promised(g, r) /\ g.att = s.att /\ g.att[r].n > 0
      /\ g.run[r].root = root /\ (\A p \in g.procs : p.run # r) /\ Fresh(g, r)
  <2>1. Fresh(s, r)
    BY LaunchableIsFresh
  <2> QED
    BY <1>1, <1>3, <2>1 DEF Launchable, Waiting, Promised, ButRun, Fresh
<1>5. root \in {"scratch", "work"} /\ (how # "reject" /\ r \in Isolated => root = "scratch")
  BY DEF Launchable, CanLaunch
<1>6. /\ t \in Passes(r) /\ t.pending = g.pending \cup {w}
      /\ t.run = g.run /\ t.att = g.att /\ t.slots = g.slots /\ t.ws = g.ws
      /\ t.man = g.man /\ t.dir = g.dir /\ t.known = g.known
      /\ \A p \in t.procs : p.run = r => p.attempt = g.att[r].n
  BY <1>3, <1>4, <1>5, AwaitingPasses
<1>7. w.run = r /\ w.attempt = k
  BY <1>4
<1> HIDE DEF t, w
<1>8. /\ t.run[r].status = "starting" /\ t.run[r].root = root /\ t.run[r].token = k
      /\ t.att[r].n = k /\ t.att[r].open /\ t.known[r] = 0 /\ r \in t.slots
      /\ t.pending = s.pending \cup {w} /\ ~Promised(t, r)
      /\ \A p \in t.procs : p.run = r => p.attempt = k
  BY <1>1, <1>3, <1>4, <1>6 DEF Launchable, ButRun, Promised
<1>9. Steady(t, r)
  BY <1>8 DEF Steady, Waiting
<1>10. Sound(t, r)
  <2>1. w \in t.pending
    BY <1>8
  <2>2. Launching(t, r)
    BY <1>7, <2>1 DEF Launching
  <2> QED
    BY <1>7, <1>8, <2>1, <2>2 DEF Sound
<1>11. Through(<<c, g, t>>, Passes(r)) /\ LastOf(<<c, g, t>>) = t
  BY <1>1, <1>3, <1>6, Tuple3
<1> QED
  BY <1>2, <1>9, <1>10, <1>11 DEF Up

LEMMA StartRunPasses ==
    ASSUME NEW r \in Runs, Idle(r), NEW mounted \in BOOLEAN, NEW how \in Launches,
           NEW linked \in BOOLEAN, ~mounted => r \in Unmountable
    PROVE  LET h == StartRun(r, mounted, how, linked)
           IN  Through(h, Passes(r)) /\ Up(LastOf(h), r)
<1> DEFINE prepared == Preparation(r)
           b == LastOf(prepared)
           issued == IF r \in Claims THEN Issue(b, r) ELSE b
           root == RootOf(r)
           fails == GrantFails(b, r, TRUE)
           outcome == IF CanLaunch(r, root) THEN how ELSE "reject"
           h == StartRun(r, mounted, how, linked)
<1>0. h = IF NeedsScope(r) /\ dir[r] # "absent" THEN <<prepared[1], st>>
          ELSE IF r \in Claims /\ fails THEN prepared \o FailedPreparation(b, r, linked)
          ELSE IF ~mounted THEN prepared \o <<issued>> \o FailedPreparation(issued, r, linked)
          ELSE prepared \o <<issued>> \o Launch(issued, r, root, outcome)
  BY DEF StartRun
<1> HIDE DEF h
<1>1. CASE NeedsScope(r) /\ dir[r] # "absent"
  <2> DEFINE a == [st EXCEPT !.slots = @ \cup {r}]
  <2>1. prepared[1] = a
    BY <1>1 DEF Preparation
  <2>2. a \in Passes(r) /\ st \in Passes(r)
    BY IdleParts, ReservedPasses
  <2>3. Up(st, r)
    BY StFields DEF Idle, IInv, Good
  <2> HIDE DEF a, prepared
  <2> QED
    BY <1>0, <1>1, <2>1, <2>2, <2>3, Tuple2 DEF h
<1>2. ASSUME NeedsScope(r) => dir[r] = "absent"
      PROVE  Through(h, Passes(r)) /\ Up(LastOf(h), r)
  <2>1. Through(prepared, Passes(r)) /\ Prepared(b, r)
    BY <1>2, PreparationPasses
  <2> HIDE DEF prepared, b
  <2>2. /\ b \in Passes(r) /\ b.run[r].status = "queued" /\ b.att[r].n > 0 /\ b.known[r] = 0
        /\ ~Promised(b, r) /\ (Launching(b, r) => b.run[r].token = 0)
        /\ \A p \in b.procs : p.run # r
    <3>1. b.run[r].status = "queued" /\ b.known[r] = 0 /\ b.att[r].n > 0
      BY <2>1, IdleParts, StFields DEF Prepared, Idle
    <3>2. ~Promised(b, r)
      BY <2>1, IdleParts, StFields DEF Prepared, Promised, Unsealed
    <3>3. Launching(b, r) = Launching(st, r) /\ b.run[r].token = st.run[r].token
      BY <2>1, StFields DEF Prepared, Launching
    <3> QED
      BY <2>1, <3>1, <3>2, <3>3, IdleParts, StFields DEF Prepared
  <2>3. issued \in Passes(r) /\ (issued = b \/ ButGrants(b, issued))
    BY <2>1, <2>2, IssuePasses
  <2> HIDE DEF issued
  <2>4. /\ issued.run[r].status = "queued" /\ issued.att[r].n > 0 /\ issued.known[r] = 0
        /\ ~Promised(issued, r) /\ (Launching(issued, r) => issued.run[r].token = 0)
        /\ \A p \in issued.procs : p.run # r
    <3>1. issued.run = b.run /\ issued.pending = b.pending
      BY <2>3 DEF ButGrants
    <3>2. Launching(issued, r) = Launching(b, r)
      BY <3>1 DEF Launching
    <3> QED
      BY <2>2, <2>3, <3>1, <3>2 DEF ButGrants, Promised
  <2>5. CASE r \in Claims /\ fails
    <3> DEFINE f == FailedPreparation(b, r, linked)
    <3>1. Through(f, Passes(r)) /\ Released(b, LastOf(f), r)
      BY <2>2, <2>5, FailedPreparationPasses DEF PreparationIsSafe
    <3> HIDE DEF f
    <3>2. Through(prepared \o f, Passes(r)) /\ LastOf(prepared \o f) = LastOf(f)
      BY <2>1, <3>1, Chain
    <3>3. Up(LastOf(f), r)
      <4>1. Launching(LastOf(f), r) = Launching(b, r)
        BY <3>1 DEF Released, Launching
      <4> QED
        BY <2>2, <3>1, <4>1, ReleasedIsUp DEF Released
    <3> QED
      BY <1>0, <1>2, <2>5, <3>2, <3>3 DEF f
  <2>6. Through(<<issued>>, Passes(r))
    BY <2>3, Tuple1
  <2>7. Through(prepared \o <<issued>>, Passes(r))
    BY <2>1, <2>6, Chain
  <2>8. CASE ~(r \in Claims /\ fails) /\ ~mounted
    <3> DEFINE f == FailedPreparation(issued, r, linked)
    <3>1. Through(f, Passes(r)) /\ Released(issued, LastOf(f), r)
      BY <2>3, <2>4, <2>8, FailedPreparationPasses DEF PreparationIsSafe
    <3> HIDE DEF f
    <3>2. /\ Through(prepared \o <<issued>> \o f, Passes(r))
          /\ LastOf(prepared \o <<issued>> \o f) = LastOf(f)
      BY <2>7, <3>1, Chain
    <3>3. Up(LastOf(f), r)
      <4>1. Launching(LastOf(f), r) = Launching(issued, r)
        BY <3>1 DEF Released, Launching
      <4> QED
        BY <2>4, <3>1, <4>1, ReleasedIsUp DEF Released
    <3> QED
      BY <1>0, <1>2, <2>8, <3>2, <3>3 DEF f
  <2>9. CASE ~(r \in Claims /\ fails) /\ mounted
    <3> DEFINE l == Launch(issued, r, root, outcome)
    <3>1. Launchable(issued, r, root)
      <4>1. /\ issued.att[r].open = TRUE /\ r \in issued.slots /\ issued.man = man
            /\ issued.dir = b.dir /\ issued.ws = b.ws /\ issued.procs = procs
        BY <2>1, <2>3 DEF Prepared, ButGrants
      <4>2. \A p \in issued.procs : p.run # r
        BY <4>1, IdleParts, StFields
      <4>3. run[r] \in Row /\ ScopeTorn(st, r) /\ ~Promised(st, r)
        BY IdleParts, PassesParts, StFields
      <4>4. root \in {"scratch", "work"} /\ (root = "scratch" => run[r].root = "scratch" \/ NeedsScope(r))
        BY <4>3 DEF RootOf, Row
      <4>5. CASE NeedsScope(r)
        <5>1. Unsealed(issued, r)
          BY <2>1, <4>1, <4>5 DEF Prepared, Unsealed
        <5> HIDE DEF root
        <5> QED
          BY <2>3, <2>4, <4>1, <4>2, <4>4, <5>1 DEF Launchable, Unsealed
      <4>6. CASE ~NeedsScope(r)
        <5>1. b.dir = dir /\ b.ws = ws
          BY <2>1, <4>6 DEF Prepared
        <5> HIDE DEF root
        <5>2. root = "scratch" => run[r].root = "scratch"
          BY <4>4, <4>6
        <5>3. PreparationIsSafe /\ r \in Isolated /\ root = "scratch" => Unsealed(issued, r)
          BY <4>1, <4>3, <5>1, <5>2, IdleParts, StFields DEF ScopeTorn, Unsealed
        <5>4. root = "scratch" /\ issued.man[r].status = "available"
                 /\ issued.man[r].reason = "none" => issued.dir[r] # "absent"
          BY <4>1, <4>3, <5>1, <5>2, StFields DEF Promised
        <5> QED
          BY <2>3, <2>4, <4>1, <4>2, <4>4, <5>3, <5>4 DEF Launchable
      <4> QED
        BY <4>5, <4>6
    <3>2. /\ outcome \in {"spawned", "event", "reject"}
          /\ outcome # "reject" => CanLaunch(r, root)
      BY LaunchAssumption
    <3> HIDE DEF outcome, root
    <3>3. Through(l, Passes(r)) /\ Up(LastOf(l), r)
      BY <3>1, <3>2, LaunchPasses
    <3> HIDE DEF l
    <3>4. /\ Through(prepared \o <<issued>> \o l, Passes(r))
          /\ LastOf(prepared \o <<issued>> \o l) = LastOf(l)
      BY <2>7, <3>3, Chain
    <3> QED
      BY <1>0, <1>2, <2>9, <3>3, <3>4 DEF l
  <2> QED
    BY <2>5, <2>8, <2>9
<1> QED
  BY <1>1, <1>2 DEF h

LEMMA StartGood ==
    ASSUME IInv, NEW r \in Runs, NEW mounted \in BOOLEAN, NEW how \in Launches,
           NEW linked \in BOOLEAN, Start(r, mounted, how, linked)
    PROVE  IInv'
<1> DEFINE h == StartRun(r, mounted, how, linked)
<1>1. /\ Idle(r) /\ (~mounted => r \in Unmountable) /\ Handle(h)
  BY DEF Start, Idle, OldestQueued, Runnable
<1>2. Through(h, Passes(r)) /\ Up(LastOf(h), r)
  BY <1>1, StartRunPasses
<1> HIDE DEF h
<1>3. LastOf(h).service = "up"
  BY <1>1, <1>2, LastPasses DEF Passes, Apart, Idle
<1> QED
  BY <1>1, <1>2, <1>3, HandleGood DEF Settled

-----------------------------------------------------------------------------
(* The other actions *)

LEMMA StSettled == ASSUME IInv, NEW r \in Runs PROVE Settled(st, r) /\ Torn(st, r)
BY DEF IInv, Good, Settled, st

LEMMA CreateGood == ASSUME IInv, NEW r \in Runs, Create(r) PROVE IInv'
<1> DEFINE v == [st.run[r] EXCEPT !.status = "queued"]
           t == [st EXCEPT !.run[r] = v]
<1>1. /\ service = "up" /\ run[r].status = "none" /\ st \in Passes(r) /\ Up(st, r)
      /\ st.pending = {} /\ Commit(t)
  BY StPasses, StSettled, StFields DEF Create, Quiet, SetStatus, Settled
<1>2. v \in Row /\ v.status = "queued" /\ v.root = st.run[r].root
  BY <1>1, PassesParts DEF Row
<1> HIDE DEF v
<1>3. t \in State /\ Apart(t, r) /\ t.run[r] = v /\ ButRun(st, t)
  BY <1>1, <1>2, PassesParts, PutRun
<1> HIDE DEF t
<1>4. AttemptTorn(t, r) /\ ProcessTorn(t, r) /\ ScopeTorn(t, r) /\ LaunchTorn(t, r)
  BY <1>1, <1>2, <1>3, PassesParts, StFields
  DEF ButRun, AttemptTorn, ProcessTorn, ScopeTorn, LaunchTorn, Dead,
      Waiting, Promised, Unsealed
<1>5. t \in Passes(r) /\ Settled(t, r)
  BY <1>1, <1>2, <1>3, <1>4, PassesIntro, StFields
  DEF ButRun, Settled, Up, Steady, Sound, Launching, Waiting, Promised, Unsealed
<1> QED
  BY <1>1, <1>5, CommitGood

LEMMA BackoffElapsesGood == ASSUME IInv, NEW r \in Runs, BackoffElapses(r) PROVE IInv'
<1> DEFINE v == [st.run[r] EXCEPT !.retry = "none"]
           t == [st EXCEPT !.run[r] = v]
<1>1. st \in Passes(r) /\ Settled(st, r) /\ Commit(t)
  BY StPasses, StSettled DEF BackoffElapses
<1>2. /\ v \in Row /\ v.status = st.run[r].status /\ v.root = st.run[r].root
      /\ v.token = st.run[r].token
  BY <1>1, PassesParts DEF Row
<1> HIDE DEF v
<1>3. t \in State /\ Apart(t, r) /\ t.run[r] = v /\ ButRun(st, t)
  BY <1>1, <1>2, PassesParts, PutRun
<1> HIDE DEF t
<1>4. AttemptTorn(t, r) /\ ProcessTorn(t, r) /\ ScopeTorn(t, r) /\ LaunchTorn(t, r)
  BY <1>1, <1>2, <1>3, PassesParts
  DEF ButRun, AttemptTorn, ProcessTorn, ScopeTorn, LaunchTorn, Dead,
      Waiting, Promised, Unsealed
<1>5. /\ Waiting(t, r) = Waiting(st, r) /\ Promised(t, r) = Promised(st, r)
      /\ Unsealed(t, r) = Unsealed(st, r) /\ Launching(t, r) = Launching(st, r)
      /\ Credentials(t, r) = Credentials(st, r)
  BY <1>2, <1>3 DEF ButRun, Waiting, Promised, Unsealed, Launching, Credentials
<1>6. t \in Passes(r) /\ Settled(t, r)
  BY <1>1, <1>2, <1>3, <1>4, <1>5, PassesIntro DEF ButRun, Settled, Up, Steady, Sound, Down
<1> QED
  BY <1>1, <1>6, CommitGood

LEMMA StopGood == ASSUME IInv, NEW r \in Runs, Stop(r) PROVE IInv'
<1> DEFINE v == [st.run[r] EXCEPT !.status = "finished", !.retry = "none"]
           e == [st EXCEPT !.run[r] = v]
           u == IF known[r] # 0 THEN e ELSE ReleaseSlot(e, r)
           revoking == RevokeRunToken(u, r)
           t == LastOf(revoking)
<1>1. /\ service = "up" /\ st \in Passes(r) /\ Up(st, r) /\ st.pending = {}
      /\ Handle(<<e, u>> \o revoking)
  <2>1. [SetStatus(st, r, "finished") EXCEPT !.run[r].retry = "none"] = e
    BY DEF SetStatus
  <2> HIDE DEF e
  <2> QED
    BY <2>1, StPasses, StSettled, StFields DEF Stop, Quiet, Settled
<1>2. v \in Row /\ v.status = "finished" /\ v.root = st.run[r].root
  BY <1>1, PassesParts DEF Row
<1> HIDE DEF v
<1>3. e \in State /\ Apart(e, r) /\ e.run[r] = v /\ ButRun(st, e)
  BY <1>1, <1>2, PassesParts, PutRun
<1> HIDE DEF e
<1>4. AttemptTorn(e, r) /\ ProcessTorn(e, r) /\ ScopeTorn(e, r) /\ LaunchTorn(e, r)
  BY <1>1, <1>2, <1>3, PassesParts
  DEF ButRun, AttemptTorn, ProcessTorn, ScopeTorn, LaunchTorn, Dead,
      Waiting, Promised, Unsealed
<1>5. e \in Passes(r)
  BY <1>3, <1>4, PassesIntro
<1>6. /\ u \in Passes(r) /\ ButSlots(e, u)
      /\ r \in u.slots <=> st.att[r].open /\ u.known[r] # 0
  <2>1. CASE known[r] # 0
    BY <1>1, <1>3, <1>5, <2>1, StFields DEF ButRun, ButSlots, Up, Sound, Launching
  <2>2. CASE known[r] = 0
    BY <1>3, <1>5, <2>2, ReleaseSlotPasses, StFields DEF ButRun, ButSlots
  <2> QED
    BY <2>1, <2>2
<1> HIDE DEF u
<1>7. /\ Through(revoking, Passes(r)) /\ t \in Passes(r)
      /\ t.run[r].status = u.run[r].status /\ t.run[r].root = u.run[r].root
      /\ t.att = u.att /\ t.slots = u.slots /\ t.ws = u.ws /\ t.man = u.man
      /\ t.dir = u.dir /\ t.known = u.known /\ t.procs = u.procs /\ t.pending = u.pending
  BY <1>6, RevokeRunTokenPasses
<1> HIDE DEF revoking
<1>8. Through(<<e, u>>, Passes(r))
  BY <1>5, <1>6, Tuple2
<1>9. Through(<<e, u>> \o revoking, Passes(r)) /\ LastOf(<<e, u>> \o revoking) = t
  BY <1>7, <1>8, Chain
<1>10. t.service = "up"
  BY <1>1, <1>7 DEF Passes, Apart
<1> HIDE DEF t
<1>11. /\ t.run[r].status = "finished" /\ ~Promised(t, r) /\ t.pending = {}
       /\ t.att = st.att /\ t.known = st.known /\ t.procs = st.procs /\ t.slots = u.slots
       /\ u.known = st.known
  BY <1>1, <1>2, <1>3, <1>6, <1>7 DEF Up, Steady, Promised, ButRun, ButSlots
<1>12. Steady(t, r)
  BY <1>11 DEF Steady, Waiting, Launching
<1>13. Sound(t, r)
  BY <1>1, <1>6, <1>11 DEF Up, Sound, Launching
<1> QED
  BY <1>1, <1>9, <1>10, <1>12, <1>13, HandleGood DEF Settled, Up

\* A process is gone: at most one of its run was there.
LEMMA GonePasses ==
    ASSUME NEW r \in Runs, NEW s \in Passes(r), NEW p \in s.procs, p.run = r
    PROVE  LET t == [s EXCEPT !.procs = @ \ {p}]
           IN  t \in Passes(r) /\ ButProcs(s, t) /\ \A q \in t.procs : q.run # r
<1> DEFINE left == s.procs \ {p}
           t == [s EXCEPT !.procs = left]
<1>1. left \subseteq Process /\ (\A q \in Process : q.run # r => (q \in left <=> q \in s.procs))
      /\ \A q \in left : q.run # r
  BY PassesParts DEF ProcessTorn
<1> HIDE DEF left
<1>2. t \in State /\ Apart(t, r) /\ t.procs = left /\ ButProcs(s, t)
  BY <1>1, PassesParts, PutProcs
<1> HIDE DEF t
<1>3. AttemptTorn(t, r) /\ ProcessTorn(t, r) /\ ScopeTorn(t, r) /\ LaunchTorn(t, r)
  BY <1>1, <1>2, PassesParts
  DEF ButProcs, AttemptTorn, ProcessTorn, ScopeTorn, LaunchTorn, Dead,
      Waiting, Promised, Unsealed
<1> QED
  BY <1>1, <1>2, <1>3, PassesIntro DEF t, left

LEMMA ProcessExitGood ==
    ASSUME IInv, NEW p \in procs, NEW clean \in BOOLEAN, NEW linked \in BOOLEAN,
           ProcessExit(p, clean, linked)
    PROVE  IInv'
<1> DEFINE r == p.run
           g == [st EXCEPT !.procs = @ \ {p}]
           gone == [g EXCEPT !.known[r] = 0]
           u == ReleaseSlot(gone, r)
           h == IF run[r].status = "finished" THEN StoppedExit(gone, r, linked)
                ELSE IF ~clean /\ ShouldRetry(p.attempt) THEN RetryExit(gone, r, linked)
                ELSE <<u>> \o Finish(u, r, linked, TRUE)
<1>1. p \in st.procs /\ r \in Runs
  BY StFields DEF IInv, TypeOK, Process
<1>2. service = "up" /\ st.pending = {} /\ known[r] = p.attempt /\ Handle(h)
  <2>1. gone = [st EXCEPT !.procs = @ \ {p}, !.known[r] = 0]
    OBVIOUS
  <2> HIDE DEF gone
  <2> QED
    BY <2>1, StFields DEF ProcessExit, Quiet
<1>3. st \in Passes(r) /\ Up(st, r)
  BY <1>1, <1>2, StPasses, StSettled, StFields DEF Settled
<1>4. st.run[r].status \in {"starting", "active", "finished"} /\ st.att[r].n > 0
  <2>1. p.attempt > 0 /\ p.attempt <= st.att[r].n /\ st.run[r] \in Row /\ st.att[r].n \in Nat
    BY <1>1, <1>3, PassesParts DEF ProcessTorn, Attempt
  <2>2. known[r] # 0 /\ p.attempt \in Nat
    BY <1>1, <1>2, <2>1, <1>3, PassesParts DEF Process
  <2> QED
    BY <1>3, <2>1, <2>2, StFields DEF Up, Steady, Waiting, Row
<1>5. g \in Passes(r) /\ ButProcs(st, g) /\ \A q \in g.procs : q.run # r
  BY <1>1, <1>3, GonePasses
<1> HIDE DEF g
<1>6. gone \in Passes(r) /\ ButKnown(g, gone) /\ gone.known[r] = 0
  BY <1>1, <1>5, WatchPasses
<1> HIDE DEF gone
<1>7. u \in Passes(r) /\ ButSlots(gone, u) /\ r \notin u.slots
  BY <1>1, <1>6, ReleaseSlotPasses
<1>8. /\ u.run = run /\ u.att = st.att /\ u.known[r] = 0 /\ ~Promised(u, r)
      /\ u.pending = {} /\ \A q \in u.procs : q.run # r
  <2> HIDE DEF u, r
  <2> QED
    BY <1>2, <1>3, <1>5, <1>6, <1>7, StFields
    DEF ButProcs, ButKnown, ButSlots, Promised, Up, Steady
<1>9. st.att[r].open
  BY <1>1, <1>2, <1>3, StFields DEF Up, Sound
<1>10. CASE run[r].status = "finished"
  <2> DEFINE f == FinishAttempt(u, r)
             sealing == SealRunWorkspace(f, r, linked)
             t == LastOf(sealing)
  <2>1. h = <<u, f>> \o sealing
    BY <1>10 DEF StoppedExit
  <2> HIDE DEF u, r, h
  <2>2. f \in Passes(r) /\ ButAtt(u, f) /\ f.att[r].open = FALSE
    BY <1>1, <1>7, <1>8, <1>10, FinishAttemptPasses DEF Waiting
  <2> HIDE DEF f
  <2>3. MaySeal(f, r)
    BY <1>8, <1>10, <2>2 DEF MaySeal, Waiting, ButAtt
  <2>4. /\ Through(sealing, Passes(r)) /\ t \in Passes(r)
        /\ t.run = f.run /\ t.att = f.att /\ t.slots = f.slots /\ t.man = f.man
        /\ t.known = f.known /\ t.procs = f.procs /\ t.pending = f.pending
        /\ t.dir[r] = "absent" <=> f.dir[r] = "absent"
    BY <1>1, <2>2, <2>3, SealRunWorkspacePasses
  <2> HIDE DEF sealing
  <2>5. Through(<<u, f>>, Passes(r))
    BY <1>7, <2>2, Tuple2
  <2>6. Through(<<u, f>> \o sealing, Passes(r)) /\ LastOf(<<u, f>> \o sealing) = t
    BY <2>4, <2>5, Chain
  <2> HIDE DEF t
  <2>7. ~Promised(t, r)
    BY <1>8, <2>2, <2>4 DEF Promised, ButAtt
  <2>8. Up(t, r)
    <3>1. ~Launching(t, r)
      BY <1>8, <2>2, <2>4 DEF ButAtt, Launching
    <3> QED
      BY <1>7, <1>8, <1>10, <2>2, <2>4, <2>7, <3>1, ReleasedIsUp DEF ButAtt
  <2>9. t.service = "up"
    BY <1>2, <2>4 DEF Passes, Apart
  <2> QED
    BY <1>1, <1>2, <2>1, <2>6, <2>8, <2>9, HandleGood DEF Settled
<1>11. CASE run[r].status # "finished"
  <2> DEFINE rest == IF ~clean /\ ShouldRetry(p.attempt) THEN Retry(u, r)
                                                          ELSE Finish(u, r, linked, TRUE)
             t == LastOf(rest)
  <2>1. h = <<u>> \o rest
    BY <1>11 DEF RetryExit
  <2> HIDE DEF u, r, h
  <2>2. Working(u, r) /\ ~Waiting(u, r)
    BY <1>4, <1>8, <1>11, StFields DEF Working, Waiting
  <2>3. /\ Through(rest, Passes(r)) /\ t \in Passes(r)
        /\ t.run[r].status \in {"queued", "finished"} /\ t.att[r].open = FALSE
        /\ t.slots = u.slots /\ t.known = u.known /\ t.procs = u.procs
        /\ t.pending = u.pending /\ (Promised(t, r) <=> Promised(u, r))
    <3>1. CASE ~clean /\ ShouldRetry(p.attempt)
      <4>1. u.att[r].open
        BY <1>8, <1>9
      <4>2. PreparationIsSafe /\ r \in Isolated /\ u.run[r].root = "scratch" => Unsealed(u, r)
        BY <1>1, <1>7, <4>1, PassesParts DEF ScopeTorn
      <4> QED
        BY <1>1, <1>7, <1>8, <2>2, <3>1, <4>2, RetryPasses
    <3>2. CASE ~(~clean /\ ShouldRetry(p.attempt))
      <4> DEFINE fin == Finish(u, r, linked, TRUE)
      <4>1. rest = fin
        BY <3>2
      <4> HIDE DEF rest
      <4>2. /\ Through(fin, Passes(r)) /\ LastOf(fin) \in Passes(r)
            /\ LastOf(fin).run[r].status = "finished" /\ LastOf(fin).att[r].open = FALSE
            /\ LastOf(fin).slots = u.slots /\ LastOf(fin).known = u.known
            /\ LastOf(fin).procs = u.procs /\ LastOf(fin).pending = u.pending
            /\ Promised(LastOf(fin), r) <=> Promised(u, r)
        BY <1>1, <1>7, <2>2, FinishPasses
      <4> QED
        BY <4>1, <4>2
    <3> QED
      BY <3>1, <3>2
  <2> HIDE DEF rest
  <2>4. Through(<<u>>, Passes(r))
    BY <1>7, Tuple1
  <2>5. Through(<<u>> \o rest, Passes(r)) /\ LastOf(<<u>> \o rest) = t
    BY <2>3, <2>4, Chain
  <2> HIDE DEF t
  <2>6. Up(t, r)
    BY <1>7, <1>8, <2>3, ReleasedIsUp DEF Launching
  <2>7. t.service = "up"
    BY <1>2, <2>3 DEF Passes, Apart
  <2> QED
    BY <1>1, <1>2, <2>1, <2>5, <2>6, <2>7, HandleGood DEF Settled
<1> QED
  BY <1>10, <1>11

\* A call that awaited the runner, or an event, is taken from what the event loop runs.
LEMMA TakenPasses ==
    ASSUME NEW r \in Runs, NEW s \in Passes(r), NEW p \in s.pending, p.run = r
    PROVE  LET t == [s EXCEPT !.pending = @ \ {p}]
           IN  t \in Passes(r) /\ ButPending(s, t) /\ t.pending = s.pending \ {p}
<1> DEFINE left == s.pending \ {p}
           t == [s EXCEPT !.pending = left]
<1>1. /\ left \subseteq Pending /\ left \subseteq s.pending
      /\ \A w \in Pending : w.run # r => (w \in left <=> w \in s.pending)
  BY PassesParts
<1>2. t = [s EXCEPT !.pending = @ \ {p}] /\ left = s.pending \ {p}
  OBVIOUS
<1> HIDE DEF left
<1>3. t \in State /\ Apart(t, r) /\ t.pending = left /\ ButPending(s, t)
  BY <1>1, PassesParts, PutPending
<1> HIDE DEF t
<1>4. AttemptTorn(t, r) /\ ProcessTorn(t, r) /\ ScopeTorn(t, r) /\ LaunchTorn(t, r)
  BY <1>1, <1>3, PassesParts
  DEF ButPending, AttemptTorn, ProcessTorn, ScopeTorn, LaunchTorn, Dead,
      Waiting, Promised, Unsealed
<1> QED
  BY <1>2, <1>3, <1>4, PassesIntro

LEMMA HandledPasses ==
    ASSUME NEW r \in Runs, NEW s \in Passes(r), NEW e \in s.errors, e[1] = r
    PROVE  LET t == [s EXCEPT !.errors = @ \ {e}]
           IN  t \in Passes(r) /\ ButErrors(s, t)
<1> DEFINE left == s.errors \ {e}
           t == [s EXCEPT !.errors = left]
<1>1. /\ left \subseteq Runs \X Nat /\ left \subseteq s.errors
      /\ \A i \in Runs \X Nat : i[1] # r => (i \in left <=> i \in s.errors)
  BY PassesParts
<1>2. t = [s EXCEPT !.errors = @ \ {e}]
  OBVIOUS
<1> HIDE DEF left
<1>3. t \in State /\ Apart(t, r) /\ t.errors = left /\ ButErrors(s, t)
  BY <1>1, PassesParts, PutErrors
<1> HIDE DEF t
<1>4. AttemptTorn(t, r) /\ ProcessTorn(t, r) /\ ScopeTorn(t, r) /\ LaunchTorn(t, r)
  BY <1>1, <1>3, PassesParts
  DEF ButErrors, AttemptTorn, ProcessTorn, ScopeTorn, LaunchTorn, Dead,
      Waiting, Promised, Unsealed
<1> QED
  BY <1>2, <1>3, <1>4, PassesIntro

\* startRun() goes on: its run is active and watched, whatever has become of it.
LEMMA ActivatePasses ==
    ASSUME NEW r \in Runs, NEW s \in Passes(r), Steady(s, r), NEW k \in Nat,
           Credentials(s, r) => s.run[r].status \in {"starting", "active"}
    PROVE  LET t == Activate(s, r, k)
           IN  /\ t \in Passes(r) /\ Steady(t, r) /\ t.run[r].status = "active"
               /\ t.run[r].root = s.run[r].root /\ t.known[r] = k
               /\ t.att = s.att /\ t.slots = s.slots /\ t.pending = s.pending
               /\ t.procs = s.procs
<1> DEFINE v == [s.run[r] EXCEPT !.status = "active"]
           g == [s EXCEPT !.known[r] = k]
           t == [g EXCEPT !.run[r] = v]
<1>1. v \in Row /\ v.status = "active" /\ v.root = s.run[r].root /\ v.token = s.run[r].token
  BY PassesParts DEF Row
<1> HIDE DEF v
<1>2. g \in Passes(r) /\ ButKnown(s, g) /\ g.known[r] = k
  BY WatchPasses
<1>3. t = Activate(s, r, k)
  <2>1. g.run = s.run
    BY <1>2 DEF ButKnown
  <2> HIDE DEF g
  <2> QED
    BY <2>1 DEF Activate, SetStatus, v, g
<1> HIDE DEF g
<1>4. t \in State /\ Apart(t, r) /\ t.run[r] = v /\ ButRun(g, t)
  BY <1>1, <1>2, PassesParts, PutRun
<1> HIDE DEF t
<1>5. AttemptTorn(t, r) /\ ProcessTorn(t, r) /\ LaunchTorn(t, r)
  <2>1. AttemptTorn(g, r) /\ ProcessTorn(g, r) /\ LaunchTorn(g, r) /\ g.run = s.run
    BY <1>2, PassesParts DEF ButKnown
  <2>2. ~Waiting(t, r) /\ t.run[r].root = s.run[r].root
    BY <1>1, <1>4 DEF Waiting
  <2>3. \A i : Dead(g, r, i) => Dead(t, r, i)
    BY <1>4, <2>2 DEF ButRun, Dead
  <2> QED
    BY <1>4, <2>1, <2>2, <2>3 DEF ButRun, AttemptTorn, ProcessTorn, LaunchTorn
<1>6. ScopeTorn(t, r)
  BY <1>1, <1>2, <1>4, PassesParts
  DEF ButRun, ButKnown, ScopeTorn, Waiting, Promised, Unsealed
<1>7. Credentials(t, r) = Credentials(s, r) /\ Promised(t, r) = Promised(s, r)
  BY <1>1, <1>2, <1>4 DEF ButRun, ButKnown, Credentials, Promised
<1>8. Steady(t, r)
  BY <1>1, <1>2, <1>4, <1>7 DEF ButRun, ButKnown, Steady, Waiting
<1> QED
  BY <1>1, <1>2, <1>3, <1>4, <1>5, <1>6, <1>8, PassesIntro DEF ButRun, ButKnown

LEMMA ContinueGood ==
    ASSUME IInv, NEW p \in pending, NEW linked \in BOOLEAN, Continue(p, linked)
    PROVE  IInv'
<1> DEFINE r == p.run
           k == p.attempt
           s == [st EXCEPT !.pending = @ \ {p}]
           h == IF p.rejected THEN FailedLaunch(s, r, k, linked) ELSE <<Activate(s, r, k)>>
<1>1. service = "up" /\ Handle(h)
  BY DEF Continue
<1>2. p \in st.pending /\ r \in Runs /\ k \in Nat /\ p.rejected \in BOOLEAN
  BY StFields DEF IInv, TypeOK, Pending
<1>3. st \in Passes(r) /\ Up(st, r) /\ Launching(st, r)
  BY <1>1, <1>2, StPasses, StSettled, StFields DEF Settled, Launching
<1>4. s \in Passes(r) /\ ButPending(st, s) /\ s.pending = st.pending \ {p}
  BY <1>2, <1>3, TakenPasses
<1> HIDE DEF s
<1>5. /\ Steady(s, r)
      /\ Credentials(s, r) => s.run[r].status \in {"starting", "active"}
      /\ p.rejected => Dead(s, r, k)
  <2>1. Launching(s, r) => Launching(st, r)
    BY <1>4 DEF Launching
  <2>2. Waiting(s, r) = Waiting(st, r) /\ Credentials(s, r) = Credentials(st, r)
        /\ Promised(s, r) = Promised(st, r) /\ (Dead(st, r, k) => Dead(s, r, k))
    BY <1>4 DEF ButPending, Waiting, Credentials, Promised, Dead
  <2>3. p.rejected => Dead(st, r, k)
    BY <1>2, <1>3, PassesParts DEF LaunchTorn
  <2>4. s.run = st.run /\ s.att = st.att /\ s.known = st.known
    BY <1>4 DEF ButPending
  <2>5. Steady(s, r)
    BY <1>3, <2>1, <2>2, <2>4 DEF Up, Steady
  <2>6. Credentials(s, r) => s.run[r].status \in {"starting", "active"}
    <3>1. Credentials(st, r) => st.run[r].status \in {"starting", "active"}
      BY <1>3 DEF Up, Steady
    <3> QED
      BY <2>2, <2>4, <3>1
  <2>7. p.rejected => Dead(s, r, k)
    BY <2>2, <2>3
  <2> QED
    BY <2>5, <2>6, <2>7
<1>6. /\ Sound(st, r) /\ k > 0
      /\ s.att = st.att /\ s.known = st.known /\ s.slots = st.slots /\ s.procs = st.procs
      /\ s.run = st.run
      /\ s.att[r].open /\ s.run[r].status = "finished" => ~Launching(st, r)
  <2>1. Sound(st, r) /\ LaunchTorn(st, r)
    BY <1>2, <1>3, PassesParts DEF Up
  <2> QED
    BY <1>2, <1>4, <2>1 DEF ButPending, LaunchTorn, Sound
<1>7. Through(h, Passes(r)) /\ Up(LastOf(h), r)
  <2>1. CASE p.rejected
    <3>1. ASSUME Stale(s, r, k), s.att[r].open, s.known[r] = 0
          PROVE  \E w \in s.pending : w.run = r /\ w.attempt = s.att[r].n
      <4>1. PICK w \in st.pending : w.run = r /\ w.attempt = s.att[r].n
        BY <1>3, <1>6, <3>1 DEF Sound
      <4>2. w # p
        BY <3>1, <4>1 DEF Stale
      <4> QED
        BY <1>4, <4>1, <4>2
    <3>2. Launching(s, r) => Launching(st, r)
      BY <1>4 DEF Launching
    <3>3. Stale(s, r, k) => Sound(s, r)
      <4> SUFFICES ASSUME Stale(s, r, k) PROVE Sound(s, r)
        OBVIOUS
      <4>1. s.att[r].open => (s.known[r] # 0 \/ Launching(s, r))
        BY <3>1 DEF Launching
      <4>2. \A i : (\E w \in s.pending : w.run = r /\ w.attempt = i)
                   => \E w \in st.pending : w.run = r /\ w.attempt = i
        BY <1>4
      <4> QED
        BY <1>3, <1>6, <3>1, <3>2, <4>1, <4>2 DEF Sound
    <3> QED
      BY <1>2, <1>3, <1>4, <1>5, <1>6, <2>1, <3>2, <3>3, FailedLaunchPasses
  <2>2. CASE ~p.rejected
    <3> DEFINE t == Activate(s, r, k)
    <3>1. /\ t \in Passes(r) /\ Steady(t, r) /\ t.run[r].status = "active"
          /\ t.att = s.att /\ t.slots = s.slots /\ t.pending = s.pending /\ t.procs = s.procs
          /\ t.known[r] = k
      BY <1>2, <1>4, <1>5, ActivatePasses
    <3> HIDE DEF t
    <3>2. Sound(t, r)
      <4>1. r \in t.slots <=> t.att[r].open /\ t.known[r] # 0
        BY <1>3, <1>6, <3>1 DEF Sound
      <4>2. \A i : (t.known[r] = i \/ \E w \in t.pending : w.run = r /\ w.attempt = i)
                   => \E w \in st.pending : w.run = r /\ w.attempt = i
        BY <1>2, <1>4, <3>1
      <4>3. ASSUME NEW q \in t.procs, q.run = r,
                   t.known[r] = q.attempt \/ \E w \in t.pending :
                                                w.run = r /\ w.attempt = q.attempt
            PROVE  t.att[r].open /\ t.att[r].n = q.attempt
        BY <1>6, <3>1, <4>2, <4>3 DEF Sound
      <4> QED
        BY <1>6, <3>1, <4>1, <4>3 DEF Sound
    <3>3. Through(<<t>>, Passes(r)) /\ LastOf(<<t>>) = t
      BY <3>1, Tuple1
    <3> QED
      BY <2>2, <3>1, <3>2, <3>3 DEF Up, t
  <2> QED
    BY <2>1, <2>2
<1> HIDE DEF h, r
<1>8. LastOf(h).service = "up"
  BY <1>1, <1>7, LastPasses DEF Passes, Apart
<1> QED
  BY <1>1, <1>2, <1>7, <1>8, HandleGood DEF Settled

LEMMA SpawnErrorGood ==
    ASSUME IInv, NEW e \in errors, NEW linked \in BOOLEAN, SpawnError(e, linked)
    PROVE  IInv'
<1> DEFINE r == e[1]
           k == e[2]
           s == [st EXCEPT !.errors = @ \ {e}]
           h == FailedLaunch(s, r, k, linked)
<1>1. service = "up" /\ Handle(h)
  BY DEF SpawnError
<1>2. e \in st.errors /\ r \in Runs /\ k \in Nat
  BY StFields DEF IInv, TypeOK
<1>3. st \in Passes(r) /\ Up(st, r)
  BY <1>1, <1>2, StPasses, StSettled, StFields DEF Settled
<1>4. s \in Passes(r) /\ ButErrors(st, s)
  BY <1>2, <1>3, HandledPasses
<1> HIDE DEF s
<1>5. Dead(st, r, k)
  BY <1>2, <1>3, PassesParts DEF LaunchTorn
<1>6. /\ Steady(s, r) /\ Dead(s, r, k) /\ Sound(s, r)
      /\ s.att[r].open /\ s.run[r].status = "finished" => ~Launching(s, r)
  <2>1. /\ Waiting(s, r) = Waiting(st, r) /\ Credentials(s, r) = Credentials(st, r)
        /\ Promised(s, r) = Promised(st, r) /\ Launching(s, r) = Launching(st, r)
    BY <1>4 DEF ButErrors, Waiting, Credentials, Promised, Launching
  <2> QED
    BY <1>3, <1>4, <1>5, <2>1 DEF Up, Steady, Sound, Dead, ButErrors
<1>7. Through(h, Passes(r)) /\ Up(LastOf(h), r)
  BY <1>2, <1>4, <1>5, <1>6, FailedLaunchPasses
<1> HIDE DEF h, r
<1>8. LastOf(h).service = "up"
  BY <1>1, <1>7, LastPasses DEF Passes, Apart
<1> QED
  BY <1>1, <1>2, <1>7, <1>8, HandleGood DEF Settled

LEMMA DetachedExitGood == ASSUME IInv, NEW p \in procs, DetachedExit(p) PROVE IInv'
<1> DEFINE r == p.run
           t == [st EXCEPT !.procs = @ \ {p}]
<1>1. p \in st.procs /\ r \in Runs /\ Commit(t)
  BY StFields DEF DetachedExit, IInv, TypeOK, Process
<1>2. st \in Passes(r) /\ Settled(st, r)
  BY <1>1, StPasses, StSettled
<1>3. t \in Passes(r) /\ ButProcs(st, t) /\ \A q \in t.procs : q.run # r
  BY <1>1, <1>2, GonePasses
<1> HIDE DEF t, r
<1>4. Settled(t, r)
  <2>1. /\ Waiting(t, r) = Waiting(st, r) /\ Promised(t, r) = Promised(st, r)
        /\ Launching(t, r) = Launching(st, r) /\ Credentials(t, r) = Credentials(st, r)
    BY <1>3 DEF ButProcs, Waiting, Promised, Launching, Credentials
  <2>2. Sound(st, r) => Sound(t, r)
    BY <1>3, <2>1 DEF ButProcs, Sound
  <2> QED
    BY <1>2, <1>3, <2>1, <2>2 DEF Settled, ButProcs, Up, Steady, Down
<1> QED
  BY <1>1, <1>3, <1>4, CommitGood

LEMMA RegisterManifestGood == ASSUME IInv, NEW r \in Runs, RegisterManifest(r) PROVE IInv'
<1> DEFINE v == [st.man[r] EXCEPT !.status = "available"]
           t == [st EXCEPT !.man[r] = v]
<1>1. /\ service = "up" /\ st \in Passes(r) /\ Up(st, r) /\ Verifiable(r) /\ Commit(t)
  BY StPasses, StSettled, StFields DEF RegisterManifest, Quiet, Settled
<1>2. v \in Manifest
  BY <1>1, PassesParts DEF Manifest
<1> HIDE DEF v
<1>3. t \in State /\ Apart(t, r) /\ ButMan(st, t)
  BY <1>1, <1>2, PassesParts, PutMan
<1> HIDE DEF t
<1>4. ~Promised(t, r)
  BY <1>1, <1>3, StFields DEF Verifiable, Promised, ButMan
<1>5. AttemptTorn(t, r) /\ ProcessTorn(t, r) /\ ScopeTorn(t, r) /\ LaunchTorn(t, r)
  BY <1>1, <1>3, <1>4, PassesParts
  DEF ButMan, AttemptTorn, ProcessTorn, ScopeTorn, LaunchTorn, Dead, Waiting, Unsealed
<1>6. t \in Passes(r) /\ Settled(t, r)
  BY <1>1, <1>3, <1>4, <1>5, PassesIntro, StFields
  DEF ButMan, Settled, Up, Steady, Sound, Launching, Credentials, Waiting, Unsealed
<1> QED
  BY <1>1, <1>6, CommitGood

LEMMA UpdateAvailabilityGood ==
    ASSUME IInv, NEW r \in Runs, NEW status \in {"available", "deleted", "expired"},
           UpdateAvailability(r, status)
    PROVE  IInv'
<1> DEFINE v == [st.man[r] EXCEPT !.status = status, !.reason = "client"]
           t == [st EXCEPT !.man[r] = v]
<1>1. /\ service = "up" /\ st \in Passes(r) /\ Up(st, r) /\ Commit(t)
  <2>1. t = [st EXCEPT !.man[r].status = status, !.man[r].reason = "client"]
    OBVIOUS
  <2> HIDE DEF t
  <2> QED
    BY <2>1, StPasses, StSettled, StFields DEF UpdateAvailability, Quiet, Settled
<1>2. v \in Manifest /\ v.reason = "client"
  BY <1>1, PassesParts DEF Manifest
<1> HIDE DEF v
<1>3. t \in State /\ Apart(t, r) /\ t.man[r] = v /\ ButMan(st, t)
  BY <1>1, <1>2, PassesParts, PutMan
<1> HIDE DEF t
<1>4. ~Promised(t, r)
  BY <1>2, <1>3 DEF Promised
<1>5. AttemptTorn(t, r) /\ ProcessTorn(t, r) /\ ScopeTorn(t, r) /\ LaunchTorn(t, r)
  BY <1>1, <1>3, <1>4, PassesParts
  DEF ButMan, AttemptTorn, ProcessTorn, ScopeTorn, LaunchTorn, Dead, Waiting, Unsealed
<1>6. t \in Passes(r) /\ Settled(t, r)
  BY <1>1, <1>3, <1>4, <1>5, PassesIntro, StFields
  DEF ButMan, Settled, Up, Steady, Sound, Launching, Credentials, Waiting, Unsealed
<1> QED
  BY <1>1, <1>6, CommitGood

-----------------------------------------------------------------------------
(* The sweep *)

\* The workspace of r has expired: an isolated run of it is over.
LEMMA ExpiredParts ==
    ASSUME IInv, NEW r \in Expired(st)
    PROVE  /\ r \in Runs
           /\ PreparationIsSafe /\ r \in Isolated /\ st.run[r].root = "scratch"
                 => ~Waiting(st, r) /\ ~st.att[r].open
           /\ Waiting(st, r) => st.att[r].n # 0
<1>1. r \in Runs /\ st.ws[r].state \in {"sealed", "cleanup_failed"}
  BY DEF Expired
<1>2. Torn(st, r) /\ Settled(st, r)
  BY <1>1, StSettled
<1> QED
  BY <1>1, <1>2 DEF Torn, ScopeTorn, Unsealed

\* What the sweep leaves as it was keeps the run settled.
LEMMA SweptSettled ==
    ASSUME IInv, NEW r \in Expired(st), NEW t, ~Promised(t, r),
           t.run = st.run, t.att = st.att, t.known = st.known, t.slots = st.slots,
           t.grants = st.grants, t.procs = st.procs, t.pending = st.pending,
           t.service = st.service
    PROVE  Settled(t, r)
<1>1. r \in Runs /\ Settled(st, r)
  BY ExpiredParts, StSettled
<1>2. /\ Waiting(t, r) = Waiting(st, r) /\ Launching(t, r) = Launching(st, r)
      /\ Credentials(t, r) = Credentials(st, r)
  BY DEF Waiting, Launching, Credentials
<1>3. Steady(st, r) => Steady(t, r)
  BY <1>2 DEF Steady
<1>4. Sound(st, r) => Sound(t, r)
  BY <1>2 DEF Sound
<1> QED
  BY <1>1, <1>2, <1>3, <1>4 DEF Settled, Up, Down

\* Where a turn of the sweep begins: as it was, or with r looked at.
Swept(s, r) ==
    /\ s \in State /\ Apart(s, r) /\ ButUnswept(st, s)
    /\ s.service = "up" => s.unswept = st.unswept

LEMMA SweepGood ==
    ASSUME IInv, NEW r \in Expired(st), NEW s, Swept(s, r), Handle(Sweep(s, r, FALSE))
    PROVE  IInv'
<1> DEFINE d == RemoveDirectory(s, r)
           e == ExpireLocalOutputs(d, r)
           v == [e.ws[r] EXCEPT !.state = "cleaned"]
           t == [e EXCEPT !.ws[r] = v]
<1>1. /\ r \in Runs /\ s \in State /\ Apart(s, r) /\ ButUnswept(st, s)
      /\ s.ws[r].state \in {"sealed", "cleanup_failed"} /\ s.ws[r].left = 0
      /\ AttemptTorn(s, r) /\ ProcessTorn(s, r) /\ ScopeTorn(s, r) /\ LaunchTorn(s, r)
  <2>1. r \in Runs /\ st.ws[r].state \in {"sealed", "cleanup_failed"} /\ st.ws[r].left = 0
    BY DEF Expired
  <2>2. Torn(st, r)
    BY <2>1, StSettled
  <2> QED
    BY <2>1, <2>2
    DEF Swept, ButUnswept, Torn, AttemptTorn, ProcessTorn, ScopeTorn, LaunchTorn, Dead,
        Waiting, Promised, Unsealed
<1>2. s.man[r] \in Manifest /\ s.ws[r] \in Workspace
  BY <1>1 DEF State
<1>3. d \in State /\ Apart(d, r) /\ d.dir[r] = "absent" /\ ButDir(s, d)
  <2>1. "absent" \in Directory
    BY DEF Directory
  <2> QED
    BY <1>1, <2>1, PutDir DEF RemoveDirectory
<1>4. Sweep(s, r, FALSE) = <<d, e, t>>
  BY DEF Sweep, MarkCleaned
<1> HIDE DEF d
<1>5. AttemptTorn(d, r) /\ ProcessTorn(d, r) /\ ScopeTorn(d, r) /\ LaunchTorn(d, r)
  BY <1>1, <1>3 DEF ButDir, AttemptTorn, ProcessTorn, ScopeTorn, LaunchTorn, Dead,
      Waiting, Promised, Unsealed
<1>6. e \in State /\ Apart(e, r) /\ ButMan(d, e) /\ ~Promised(e, r)
  <2>1. CASE d.man[r].status \in {"none", "expired"}
    BY <1>3, <2>1 DEF ExpireLocalOutputs, ButMan, Promised
  <2>2. CASE d.man[r].status \notin {"none", "expired"}
    <3> DEFINE m == [d.man[r] EXCEPT
                        !.status = "expired",
                        !.reason = IF @ = "none" THEN "run_workspace_expired" ELSE @]
               f == [d EXCEPT !.man[r] = m]
    <3>1. m \in Manifest /\ m.status = "expired"
      BY <1>2, <1>3 DEF ButDir, Manifest
    <3>2. e = f
      BY <2>2 DEF ExpireLocalOutputs
    <3> HIDE DEF m
    <3>3. f \in State /\ Apart(f, r) /\ f.man[r] = m /\ ButMan(d, f)
      BY <1>1, <1>3, <3>1, PutMan
    <3> HIDE DEF f, e
    <3> QED
      BY <3>1, <3>2, <3>3 DEF Promised
  <2> QED
    BY <2>1, <2>2
<1> HIDE DEF e
<1>7. AttemptTorn(e, r) /\ ProcessTorn(e, r) /\ ScopeTorn(e, r) /\ LaunchTorn(e, r)
  BY <1>5, <1>6
  DEF ButMan, AttemptTorn, ProcessTorn, ScopeTorn, LaunchTorn, Dead, Waiting, Unsealed
<1>8. v \in Workspace /\ v.state = "cleaned"
  BY <1>2, <1>3, <1>6 DEF ButDir, ButMan, Workspace
<1> HIDE DEF v
<1>9. t \in State /\ Apart(t, r) /\ t.ws[r] = v /\ ButWs(e, t)
  BY <1>1, <1>6, <1>8, PutWs
<1> HIDE DEF t
<1>10. /\ t.run = st.run /\ t.att = st.att /\ t.known = st.known /\ t.slots = st.slots
       /\ t.grants = st.grants /\ t.procs = st.procs /\ t.pending = st.pending
       /\ t.service = st.service
  BY <1>1, <1>3, <1>6, <1>9 DEF ButUnswept, ButDir, ButMan, ButWs
<1>11. ~Promised(t, r)
  BY <1>6, <1>9 DEF Promised, ButWs
<1>12. AttemptTorn(t, r) /\ ProcessTorn(t, r) /\ ScopeTorn(t, r) /\ LaunchTorn(t, r)
  <2>1. AttemptTorn(t, r) /\ ProcessTorn(t, r) /\ LaunchTorn(t, r)
    BY <1>7, <1>9 DEF ButWs, AttemptTorn, ProcessTorn, LaunchTorn, Dead, Waiting
  <2> QED
    BY <1>10, <1>11, <2>1, ExpiredParts DEF ScopeTorn, Waiting
<1>13. Settled(t, r)
  BY <1>10, <1>11, SweptSettled
<1>14. d \in Passes(r) /\ e \in Passes(r) /\ t \in Passes(r)
  BY <1>1, <1>3, <1>5, <1>6, <1>7, <1>9, <1>12, PassesIntro
<1>15. Through(<<d, e, t>>, Passes(r)) /\ LastOf(<<d, e, t>>) = t
  BY <1>14, Tuple3
<1> QED
  BY <1>1, <1>4, <1>13, <1>15, HandleGood

LEMMA SweepFails ==
    ASSUME IInv, NEW r \in Expired(st), NEW s, Swept(s, r), s.dir[r] # "absent",
           faults < MaxFaults, Handle(Sweep(s, r, TRUE))
    PROVE  IInv'
<1> DEFINE v == [s.ws[r] EXCEPT !.state = "cleanup_failed"]
           u == [s EXCEPT !.ws[r] = v]
           t == [u EXCEPT !.faults = s.faults + 1]
<1>1. /\ r \in Runs /\ s \in State /\ Apart(s, r) /\ ButUnswept(st, s)
      /\ AttemptTorn(s, r) /\ ProcessTorn(s, r) /\ LaunchTorn(s, r)
  <2>1. r \in Runs
    BY DEF Expired
  <2>2. Torn(st, r)
    BY <2>1, StSettled
  <2> QED
    BY <2>1, <2>2
    DEF Swept, ButUnswept, Torn, AttemptTorn, ProcessTorn, LaunchTorn, Dead, Waiting
<1>2. v \in Workspace
  BY <1>1 DEF State, Workspace
<1>3. Sweep(s, r, TRUE) = <<[s EXCEPT !.ws[r].state = "cleanup_failed", !.faults = @ + 1]>>
  BY DEF Sweep
<1>4. [s EXCEPT !.ws[r].state = "cleanup_failed", !.faults = @ + 1] = t
  BY DEF v
<1> HIDE DEF v
<1>5. u \in State /\ Apart(u, r) /\ u.ws[r] = v /\ ButWs(s, u)
  BY <1>1, <1>2, PutWs
<1> HIDE DEF u
<1>6. t \in State /\ t.faults = s.faults + 1 /\ ButFaults(u, t)
  <2>1. s.faults + 1 \in Nat
    BY <1>1 DEF State
  <2> QED
    BY <1>5, <2>1, SetFaults
<1> HIDE DEF t
<1>7. Commit(t)
  <2> DEFINE h == <<t>>
  <2>1. Sweep(s, r, TRUE) = h
    BY <1>3, <1>4
  <2>2. Len(h) = 1 /\ h[1] = t
    OBVIOUS
  <2> HIDE DEF h
  <2>3. Handle(h)
    BY <2>1
  <2> QED
    BY <2>2, <2>3 DEF Handle, LastOf
<1>8. t.faults \in 0..MaxFaults
  BY <1>1, <1>6, NumberAssumption DEF Apart, IInv, TypeOK
<1>9. /\ u.run = st.run /\ u.att = st.att /\ u.known = st.known /\ u.slots = st.slots
      /\ u.grants = st.grants /\ u.procs = st.procs /\ u.pending = st.pending
      /\ u.service = st.service /\ u.dir[r] # "absent"
  BY <1>1, <1>5 DEF ButUnswept, ButWs
<1>10. ~Promised(u, r)
  BY <1>9 DEF Promised
<1>11. AttemptTorn(u, r) /\ ProcessTorn(u, r) /\ ScopeTorn(u, r) /\ LaunchTorn(u, r)
  <2>1. AttemptTorn(u, r) /\ ProcessTorn(u, r) /\ LaunchTorn(u, r)
    BY <1>1, <1>5 DEF ButWs, AttemptTorn, ProcessTorn, LaunchTorn, Dead, Waiting
  <2> QED
    BY <1>9, <1>10, <2>1, ExpiredParts DEF ScopeTorn, Waiting
<1>12. u \in Passes(r) /\ Settled(u, r)
  <2>1. u \in Passes(r)
    BY <1>1, <1>5, <1>11, PassesIntro
  <2>2. Settled(u, r)
    BY <1>9, <1>10, SweptSettled
  <2> QED
    BY <2>1, <2>2
<1> QED
  BY <1>1, <1>6, <1>7, <1>8, <1>12, CountedGood

LEMMA SweepExpiredGood ==
    ASSUME IInv, NEW r \in Runs, NEW failed \in BOOLEAN, SweepExpired(r, failed)
    PROVE  IInv'
<1>1. /\ r \in Expired(st) /\ Handle(Sweep(st, r, failed))
      /\ failed => faults < MaxFaults /\ st.dir[r] # "absent"
  BY StFields DEF SweepExpired
<1>2. Swept(st, r)
  BY StPasses, PassesParts DEF Swept, ButUnswept
<1> QED
  BY <1>1, <1>2, SweepGood, SweepFails

LEMMA SweepOnStartupGood ==
    ASSUME IInv, NEW r \in Runs, NEW failed \in BOOLEAN, SweepOnStartup(r, failed)
    PROVE  IInv'
<1> DEFINE left == st.unswept \ {r}
           s == [st EXCEPT !.unswept = left]
<1>1. /\ r \in Expired(st) /\ Handle(Sweep(s, r, failed)) /\ service = "down"
      /\ failed => faults < MaxFaults /\ st.dir[r] # "absent"
  BY StFields DEF SweepOnStartup
<1>2. st \in State /\ Apart(st, r) /\ st.unswept \subseteq Runs
  BY StPasses, PassesParts
<1>3. left \subseteq Runs /\ \A q \in Runs \ {r} : q \in left <=> q \in st.unswept
  BY <1>2
<1> HIDE DEF left
<1>4. s \in State /\ Apart(s, r) /\ ButUnswept(st, s)
  BY <1>2, <1>3, PutUnswept
<1> HIDE DEF s
<1>5. Swept(s, r) /\ s.dir = st.dir
  BY <1>1, <1>4, StFields DEF Swept, ButUnswept
<1> QED
  BY <1>1, <1>5, SweepGood, SweepFails
-----------------------------------------------------------------------------
(* The clock, a crash and a startup *)

LEMMA TickGood == ASSUME IInv, Tick PROVE IInv'
<1>1. /\ \A r \in Runs : ws[r] \in Workspace
      /\ ws' = [r \in Runs |-> IF ws[r].left > 0 THEN [ws[r] EXCEPT !.left = @ - 1] ELSE ws[r]]
      /\ UNCHANGED <<run, att, slots, grants, man, dir, known, pending, errors, procs, service,
                     unswept, faults>>
  BY DEF Tick, IInv, TypeOK
<1>2. ASSUME NEW r \in Runs
      PROVE  /\ ws'[r] \in Workspace /\ ws'[r].state = ws[r].state
             /\ ws[r].left = 0 => ws'[r].left = 0
  <2>1. CASE ws[r].left > 0
    <3> DEFINE v == [ws[r] EXCEPT !.left = ws[r].left - 1]
    <3>1. ws[r] \in Workspace /\ ws[r].left \in 1..Window
      BY <1>1, <2>1, NumberAssumption DEF Workspace, Null
    <3>2. ws[r].left - 1 \in 0..Window
      BY <3>1, NumberAssumption
    <3>3. v \in Workspace /\ v.state = ws[r].state
      BY <3>1, <3>2 DEF Workspace
    <3>4. ws'[r] = v
      BY <1>1, <2>1
    <3> QED
      BY <2>1, <3>1, <3>3, <3>4, NumberAssumption
  <2>2. CASE ~(ws[r].left > 0)
    BY <1>1, <2>2
  <2> QED
    BY <2>1, <2>2
<1>3. ws' \in [Runs -> Workspace]
  BY <1>1, <1>2
<1>4. TypeOK'
  BY <1>1, <1>3 DEF IInv, TypeOK
<1>5. /\ st'.run = st.run /\ st'.att = st.att /\ st'.slots = st.slots /\ st'.ws = ws'
      /\ st'.grants = st.grants /\ st'.man = st.man /\ st'.dir = st.dir
      /\ st'.known = st.known /\ st'.procs = st.procs /\ st'.service = st.service
      /\ st'.pending = st.pending /\ st'.errors = st.errors
      /\ st'.unswept = st.unswept
  BY <1>1 DEF st
<1>6. ASSUME NEW r \in Runs PROVE Good(st', r)
  <2>1. Torn(st, r) /\ Settled(st, r)
    BY StSettled
  <2>2. st'.ws[r].state = st.ws[r].state /\ (st.ws[r].left = 0 => st'.ws[r].left = 0)
    BY <1>2, <1>5, StFields
  <2>3. /\ Waiting(st', r) = Waiting(st, r) /\ Promised(st', r) = Promised(st, r)
        /\ Unsealed(st', r) = Unsealed(st, r) /\ Launching(st', r) = Launching(st, r)
        /\ Credentials(st', r) = Credentials(st, r)
    BY <1>5, <2>2 DEF Waiting, Promised, Unsealed, Launching, Credentials
  <2>4. Torn(st', r)
    BY <1>5, <2>1, <2>2, <2>3
    DEF Torn, AttemptTorn, ProcessTorn, ScopeTorn, LaunchTorn, Dead
  <2>5. Settled(st', r)
    BY <1>5, <2>1, <2>3 DEF Settled, Up, Steady, Sound, Down
  <2> QED
    BY <2>4, <2>5 DEF Good, Settled
<1> QED
  BY <1>4, <1>6 DEF IInv

LEMMA CrashGood == ASSUME IInv, Crash PROVE IInv'
<1>1. st \in State /\ st.faults = faults
  BY StState, StFields DEF IInv
<1>2. \A r \in Runs : Torn(st, r)
  BY StSettled
<1> QED
  BY <1>1, <1>2, CrashedGood DEF Crash

LEMMA LoseRunGood ==
    ASSUME IInv, NEW r \in Runs, NEW linked \in BOOLEAN, LoseRun(r, linked)
    PROVE  IInv'
<1> DEFINE a == FinishAttempt(st, r)
           e == SetStatus(a, r, "finished")
           ending == FinishTerminalRun(e, r, linked)
           t == LastOf(ending)
<1>1. /\ service = "down" /\ r \in Lost /\ Handle(<<a, e>> \o ending)
  BY DEF LoseRun
<1>2. st \in Passes(r) /\ Down(st, r) /\ ~Waiting(st, r)
  BY <1>1, StPasses, StSettled, StFields DEF Settled, Lost, Waiting
<1>3. a \in Passes(r) /\ ButAtt(st, a) /\ a.att[r].open = FALSE
  BY <1>2, FinishAttemptPasses
<1> HIDE DEF a
<1>4. /\ e \in Passes(r) /\ ButRun(a, e)
      /\ e.run[r].status = "finished" /\ e.run[r].root = a.run[r].root
  BY <1>3, EndPasses
<1> HIDE DEF e
<1>5. /\ Through(ending, Passes(r)) /\ t \in Passes(r)
      /\ t.run[r].root = e.run[r].root /\ t.man = e.man /\ t.known = e.known
      /\ t.pending = e.pending /\ t.unswept = e.unswept /\ (t.dir[r] = "absent" <=> e.dir[r] = "absent")
  <2>1. e.att = a.att
    BY <1>4 DEF ButRun
  <2>2. ~e.att[r].open
    BY <1>3, <2>1
  <2> QED
    BY <1>4, <2>2, FinishTerminalRunPasses
<1> HIDE DEF ending
<1>6. Through(<<a, e>>, Passes(r))
  BY <1>3, <1>4, Tuple2
<1>7. Through(<<a, e>> \o ending, Passes(r)) /\ LastOf(<<a, e>> \o ending) = t
  BY <1>5, <1>6, Chain
<1>8. t.service = "down"
  BY <1>1, <1>5 DEF Passes, Apart
<1> HIDE DEF t
<1>9. Settled(t, r)
  BY <1>2, <1>3, <1>4, <1>5, <1>8 DEF Settled, Down, Launching, Promised, ButAtt, ButRun
<1> QED
  BY <1>1, <1>7, <1>9, HandleGood

LEMMA OpenServiceGood == ASSUME IInv, OpenService PROVE IInv'
<1> DEFINE a == [st EXCEPT !.slots = {}]
           b == [a EXCEPT !.unswept = {}]
           t == [b EXCEPT !.service = "up"]
<1>1. service = "down" /\ Lost = {} /\ Expired(st) \cap unswept = {} /\ Commit(t)
  <2>1. t = [st EXCEPT !.slots = {}, !.unswept = {}, !.service = "up"]
    OBVIOUS
  <2> HIDE DEF t
  <2> QED
    BY <2>1 DEF OpenService
<1>2. st \in State
  BY StState DEF IInv
<1>3. a \in State /\ a.slots = {} /\ ButSlots(st, a)
  BY <1>2, SetSlots
<1> HIDE DEF a
<1>4. b \in State /\ b.unswept = {} /\ ButUnswept(a, b)
  BY <1>3, SetUnswept
<1> HIDE DEF b
<1>5. t \in State /\ t.service = "up" /\ ButService(b, t)
  BY <1>4, SetService
<1> HIDE DEF t
<1>6. /\ t.run = st.run /\ t.att = st.att /\ t.slots = {} /\ t.ws = st.ws
      /\ t.grants = st.grants /\ t.man = st.man /\ t.dir = st.dir /\ t.known = st.known
      /\ t.pending = st.pending /\ t.errors = st.errors
      /\ t.procs = st.procs /\ t.service = "up" /\ t.unswept = {} /\ t.faults = st.faults
  BY <1>3, <1>4, <1>5 DEF ButSlots, ButUnswept, ButService
<1>7. TypeOK'
  BY <1>1, <1>5, <1>6, StFields, CommitState DEF IInv, TypeOK
<1>8. ASSUME NEW r \in Runs PROVE Good(t, r)
  <2>1. Torn(st, r) /\ Down(st, r)
    BY <1>1, StSettled, StFields DEF Settled
  <2>2. /\ Waiting(t, r) = Waiting(st, r) /\ Promised(t, r) = Promised(st, r)
        /\ Unsealed(t, r) = Unsealed(st, r) /\ Launching(t, r) = Launching(st, r)
    BY <1>6 DEF Waiting, Promised, Unsealed, Launching
  <2>3. Torn(t, r)
    BY <1>6, <2>1, <2>2 DEF Torn, AttemptTorn, ProcessTorn, ScopeTorn, LaunchTorn, Dead
  <2>4. t.run[r].status \notin {"starting", "active"}
    BY <1>1, <1>6, StFields DEF Lost
  <2>5. ~Promised(t, r)
    <3>1. Promised(st, r) => r \in Expired(st) \cap unswept
      BY <2>1, StFields DEF Torn, ScopeTorn, Down, Expired
    <3> QED
      BY <1>1, <2>2, <3>1
  <2>6. Steady(t, r)
    BY <1>6, <2>1, <2>2, <2>4, <2>5 DEF Steady, Down
  <2>7. Sound(t, r)
    <3>1. t.known[r] = 0 /\ ~Launching(t, r)
      BY <1>6, <2>1, <2>2 DEF Down
    <3>2. \A p \in t.procs : p.run = r => p.attempt # 0
      BY <1>6, <2>1 DEF Torn, ProcessTorn
    <3> QED
      BY <1>6, <3>1, <3>2 DEF Sound, Launching
  <2> QED
    BY <1>6, <2>3, <2>6, <2>7 DEF Good, Up
<1>9. ASSUME NEW r \in Runs PROVE Good(st', r)
  BY <1>1, <1>8, CommitFields, SameParts
<1> QED
  BY <1>7, <1>9 DEF IInv

-----------------------------------------------------------------------------
(* The invariant *)

LEMMA InitGood == Init => IInv
<1> SUFFICES ASSUME Init PROVE IInv
  OBVIOUS
<1>1. TypeOK
  BY NumberAssumption DEF Init, TypeOK, Row, Attempt, Workspace, Grants, Manifest, NoManifest
<1>2. ASSUME NEW r \in Runs PROVE Good(st, r)
  <2>1. /\ st.run[r].status = "none" /\ st.run[r].root = "none"
        /\ st.att[r].n = 0 /\ st.att[r].open = FALSE /\ st.slots = {} /\ st.procs = {}
        /\ st.ws[r].state = "none" /\ st.grants[r].live = {} /\ st.man[r].status = "none"
        /\ st.known[r] = 0 /\ st.pending = {} /\ st.errors = {} /\ st.service = "up"
    BY StFields DEF Init, NoManifest
  <2>2. Torn(st, r)
    BY <2>1
    DEF Torn, AttemptTorn, ProcessTorn, ScopeTorn, LaunchTorn, Promised, Waiting, Unsealed
  <2>3. Up(st, r)
    BY <2>1 DEF Up, Steady, Sound, Launching, Promised, Waiting
  <2> QED
    BY <2>1, <2>2, <2>3 DEF Good
<1> QED
  BY <1>1, <1>2 DEF IInv

LEMMA StutterGood == ASSUME IInv, UNCHANGED vars PROVE IInv'
<1>1. TypeOK'
  BY DEF IInv, TypeOK, vars
<1>2. st' = st
  BY DEF st, vars
<1> QED
  BY <1>1, <1>2 DEF IInv

LEMMA NextGood == IInv /\ [Next]_vars => IInv'
<1> SUFFICES ASSUME IInv, [Next]_vars PROVE IInv'
  OBVIOUS
<1>1. ASSUME NEW r \in Runs, Create(r) PROVE IInv'
  BY <1>1, CreateGood
<1>2. ASSUME NEW r \in Runs, Stop(r) PROVE IInv'
  BY <1>2, StopGood
<1>3. ASSUME NEW r \in Runs, BackoffElapses(r) PROVE IInv'
  BY <1>3, BackoffElapsesGood
<1>4. ASSUME NEW r \in Runs, NEW mounted \in BOOLEAN, NEW how \in Launches,
             NEW linked \in BOOLEAN, Start(r, mounted, how, linked)
      PROVE  IInv'
  BY <1>4, StartGood
<1>5. ASSUME NEW r \in Runs, NEW linked \in BOOLEAN, LoseRun(r, linked) PROVE IInv'
  BY <1>5, LoseRunGood
<1>6. ASSUME NEW r \in Runs, NEW failed \in BOOLEAN,
             SweepExpired(r, failed) \/ SweepOnStartup(r, failed)
      PROVE  IInv'
  BY <1>6, SweepExpiredGood, SweepOnStartupGood
<1>7. ASSUME NEW r \in Runs, RegisterManifest(r) PROVE IInv'
  BY <1>7, RegisterManifestGood
<1>8. ASSUME NEW r \in Runs, NEW status \in {"available", "deleted", "expired"},
             UpdateAvailability(r, status)
      PROVE  IInv'
  BY <1>8, UpdateAvailabilityGood
<1>9. ASSUME NEW p \in procs, DetachedExit(p) PROVE IInv'
  BY <1>9, DetachedExitGood
<1>10. ASSUME NEW p \in procs, NEW clean \in BOOLEAN, NEW linked \in BOOLEAN,
              ProcessExit(p, clean, linked)
       PROVE  IInv'
  BY <1>10, ProcessExitGood
<1>11. CASE Tick
  BY <1>11, TickGood
<1>12. CASE Crash
  BY <1>12, CrashGood
<1>13. CASE OpenService
  BY <1>13, OpenServiceGood
<1>14. CASE EventLoop
  BY <1>14, ContinueGood, SpawnErrorGood DEF EventLoop
<1>15. CASE UNCHANGED vars
  BY <1>15, StutterGood
<1> QED
  BY <1>1, <1>2, <1>3, <1>4, <1>5, <1>6, <1>7, <1>8, <1>9, <1>10, <1>11, <1>12, <1>13, <1>14,
     <1>15
  DEF Next

LEMMA Invariance == Spec => []IInv
BY InitGood, NextGood, PTL DEF Spec

-----------------------------------------------------------------------------
(* What follows *)

\* A run never has two live processes, however its launches go and wherever the handlers of
\* startRun(), handleProcessExit(), handleProcessError() and stopRun() are torn by a crash.
THEOREM OneProcessAtATime == Spec => []OneProcessPerRun
<1>1. ASSUME IInv PROVE OneProcessPerRun
  <2> SUFFICES ASSUME NEW p \in procs, NEW q \in procs, p.run = q.run PROVE p = q
    BY DEF OneProcessPerRun
  <2>1. p.run \in Runs
    BY <1>1 DEF IInv, TypeOK, Process
  <2>2. ProcessTorn(st, p.run)
    BY <1>1, <2>1, StSettled DEF Torn
  <2> QED
    BY <2>2, StFields DEF ProcessTorn
<1> QED
  BY <1>1, Invariance, PTL

\* What a run holds, however its launches go: its rows have their types, it never has two
\* live processes, and while the service is up a slot is held exactly by a run whose open
\* attempt it watches or whose launch it awaits, wherever the handlers of startRun(),
\* handleProcessExit(), handleProcessError(), stopRun() and markLostRunsOnStartup() were torn
\* by a crash, and whether an 'error' event is handled before the continuation of startRun()
\* or after it.
THEOREM RunsHoldWhatTheyShould == Spec => []HoldingsInv
<1>1. ASSUME IInv PROVE SlotHeldWhileRunning
  <2> SUFFICES ASSUME service = "up"
               PROVE  slots = {r \in Runs : /\ att[r].open
                                            /\ known[r] # 0 \/ \E p \in pending : p.run = r}
    BY DEF SlotHeldWhileRunning
  <2>1. ASSUME NEW r \in Runs
        PROVE  r \in slots <=> att[r].open /\ (known[r] # 0 \/ \E p \in pending : p.run = r)
    <3>1. Sound(st, r)
      BY <1>1, StSettled, StFields DEF Settled, Up
    <3> QED
      BY <3>1, StFields DEF Sound, Launching
  <2>2. slots \subseteq Runs
    BY <1>1 DEF IInv, TypeOK
  <2> QED
    BY <2>1, <2>2
<1>2. IInv => TypeOK /\ SlotHeldWhileRunning
  BY <1>1 DEF IInv
<1> QED
  BY <1>2, Invariance, OneProcessAtATime, PTL DEF HoldingsInv

\* A run token and the external MCP grants are good for the attempt that is open: whatever
\* was retried, stopped or lost, no token and no grant of an earlier attempt is accepted,
\* because revokeRunToken() runs on every way out of an attempt, the torn ones included, and
\* on the way that the continuation of startRun() then overwrites with markRunActive().
THEOREM NoCredentialOutlivesItsAttempt == Spec => []CredentialsOfTheAttempt
<1>1. ASSUME IInv PROVE CredentialsOfTheAttempt
  <2> SUFFICES ASSUME service = "up", NEW r \in Runs,
                      NEW k \in grants[r].issued \cup {run[r].token}, Accepted(r, k)
               PROVE  k = att[r].n /\ att[r].open
    BY DEF CredentialsOfTheAttempt
  <2>1. AttemptTorn(st, r) /\ Steady(st, r)
    BY <1>1, StSettled, StFields DEF Settled, Torn, Up
  <2>2. /\ run[r].status \in {"starting", "active"} /\ Credentials(st, r)
        /\ k \in grants[r].live \/ (k = run[r].token /\ k # 0)
    BY StFields DEF Accepted, Credentials
  <2>3. att[r].open /\ run[r].token \in {0, att[r].n}
    BY <2>1, <2>2, StFields DEF Steady
  <2> QED
    BY <2>1, <2>2, <2>3, StFields DEF AttemptTorn
<1> QED
  BY <1>1, Invariance, PTL

\* A local output that its registration calls available has its file: the sweep of
\* sweepExpiredRunScopes() removes the directory before it expires the output, but a crash
\* between the two is mended by the sweep of the startup before the API opens.
THEOREM NoOutputIsPromisedInVain == Spec => []AvailableFileExists
<1>1. ASSUME IInv PROVE AvailableFileExists
  BY <1>1, StSettled, StFields DEF AvailableFileExists, Settled, Up, Steady, Promised
<1> QED
  BY <1>1, Invariance, PTL

\* An isolated process works in its scratch, and the scratch stays writable as long as the
\* service watches the process, if no isolated run has a preparation that may fail: the catch
\* of startRun() seals the scratch of a run that stays queued.
THEOREM IsolatedProcessKeepsItsScratch ==
    PreparationIsSafe => (Spec => []ScratchOfLiveProcess)
<1> SUFFICES ASSUME PreparationIsSafe PROVE Spec => []ScratchOfLiveProcess
  OBVIOUS
<1>1. ASSUME IInv PROVE ScratchOfLiveProcess
  <2> SUFFICES ASSUME NEW p \in procs, p.run \in Isolated, known[p.run] = p.attempt
               PROVE  /\ p.root = "scratch" /\ dir[p.run] = "writable"
                      /\ ws[p.run].state = "active"
    BY DEF ScratchOfLiveProcess
  <2>1. p.run \in Runs
    BY <1>1 DEF IInv, TypeOK, Process
  <2>2. ProcessTorn(st, p.run) /\ ScopeTorn(st, p.run) /\ Settled(st, p.run)
    BY <1>1, <2>1, StSettled DEF Torn
  <2>3. p.root = "scratch" /\ run[p.run].root = "scratch" /\ known[p.run] # 0
    BY <2>2, StFields DEF ProcessTorn
  <2>4. att[p.run].open
    BY <2>2, <2>3, StFields DEF Settled, Up, Sound, Down
  <2> QED
    BY <2>2, <2>3, <2>4, StFields DEF ScopeTorn, Unsealed
<1> QED
  BY <1>1, Invariance, PTL
=============================================================================
