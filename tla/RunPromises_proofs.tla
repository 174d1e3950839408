------------------------- MODULE RunPromises_proofs -------------------------
(***************************************************************************)
(* What the clients of the run manager can rely on: the contract with an   *)
(* integration, and a dispatcher that loses no wake-up.  Both are proved   *)
(* the way RunGuarantees_proofs proves what is internal: a handler writes  *)
(* one run (its head) and then offers the slot, which starts at most one   *)
(* more; a lemma for each action says what its head does.                  *)
(***************************************************************************)
EXTENDS RunGuarantees_proofs, WellFoundedInduction

-----------------------------------------------------------------------------
(* Which requests and launches a promise is about *)

\* The runner starts a process or rejects, and nothing fails before that.
PlainLaunches == Launches \subseteq {"spawned", "reject"}

\* The runs of an integration are ended by their process or by the integration.
OperatorsLeaveRunsAlone == Requests \cap {"stop", "close", "review", "cancel"} = {}

\* Such launches cannot fail late.
LEMMA PlainIsCalm ==
    ASSUME PlainLaunches
    PROVE  NoEvent /\ \A launch \in Launches : launch \notin {"mcp", "throw"}
BY DEF PlainLaunches, NoEvent

-----------------------------------------------------------------------------
(* One turn of the dispatcher *)

\* The run a turn of the dispatcher takes is the oldest one that is due.
Takes(s, t, m, r, caller) ==
    /\ MonOf[r] = m /\ IsOldestQueued(s, r)
    /\ \/ t = s /\ ~CanReserve(s, r)
       \/ CanReserve(s, r) /\ Begun(s, t, r, caller)

\* It finds none, or starts it unless the Mon is full.
LEMMA DispatchTakes ==
    ASSUME PlainLaunches, NEW s, Sound(s), s.pending = {},
           NEW m, NEW launch \in Launches, NEW caller \in Caller, NEW reserved \in Runs \cup {0},
           NEW t, t = Dispatch(s, m, launch, caller, reserved)
    PROVE  \/ t = s /\ OldestQueued(s, m) = {}
           \/ \E r \in Runs : Takes(s, t, m, r, caller)
<1>1. CASE OldestQueued(s, m) = {}
  BY <1>1 DEF Dispatch
<1>2. CASE OldestQueued(s, m) # {}
  <2> DEFINE r == CHOOSE r \in OldestQueued(s, m) : TRUE
             u == StartRun(s, r, launch, caller, reserved)
  <2>1. r \in Runs /\ MonOf[r] = m /\ IsOldestQueued(s, r)
    BY <1>2 DEF OldestQueued
  <2>2. t = IF Throws(s, r, launch) THEN Rejected(u, caller, reserved) ELSE u
    BY <1>2 DEF Dispatch
  <2>3. launch \notin {"mcp", "throw"}
    BY PlainIsCalm
  <2> HIDE DEF r
  <2>4. t = u
    BY <2>2, <2>3 DEF Throws
  <2>5. \/ t = s /\ ~(IsOldestQueued(s, r) /\ CanReserve(s, r))
        \/ Begun(s, t, r, caller)
    <3>1. t = StartRun(s, r, launch, caller, reserved)
      BY <2>4
    <3>. QED BY <2>1, <2>3, <3>1, StartRunSound
  <2>6. ~CanReserve(s, r) => t = s
    BY <2>4 DEF StartRun
  <2>7. Takes(s, t, m, r, caller)
    <3>1. CASE ~CanReserve(s, r)
      BY <2>1, <2>6, <3>1 DEF Takes
    <3>2. CASE CanReserve(s, r)
      BY <2>1, <2>5, <3>2 DEF Takes
    <3>. QED BY <3>1, <3>2
  <2>. QED BY <2>1, <2>7
<1>. QED BY <1>1, <1>2

-----------------------------------------------------------------------------
(* The heads of the handlers that are not written out in RunGuarantees_proofs *)

\* State u is s but for an event of run r that was taken from its queue, and m is what the
\* handler of the event makes of it before it offers the slot.
Halts(s, u, m, r) ==
    /\ u.run = s.run /\ u.att = s.att /\ u.ext = s.ext /\ u.slots = s.slots
    /\ u.running = s.running
    /\ u.timers = s.timers /\ u.resume = s.resume /\ u.service = s.service
    /\ Others(s, u, r)
    /\ Over(u, r) /\ Ended(u, m, r)

\* A process exits.
LEMMA ProcessExitHead ==
    ASSUME PlainLaunches, Sound(st), NEW r \in Runs, NEW k, NEW exit \in Exit, NEW sign,
           NEW launch \in Launches, ProcessExit(r, k, exit, sign, launch)
    PROVE  \E u, m : Halts(st, u, m, r) /\ Commit(DispatchMonOf(m, r, launch))
<1> DEFINE u == [st EXCEPT !.procs = st.procs \ {<<r, k>>}]
           t == HandleProcessExit(u, r, k, exit, sign, launch)
<1>1. st \in State /\ <<r, k>> \in st.procs /\ st.pending = {} /\ Fine(st, r)
  BY StFields DEF Sound, ProcessExit, Quiet
<1>2. /\ u \in State /\ u.run = st.run /\ u.att = st.att /\ u.ext = st.ext /\ u.asg = st.asg
      /\ u.running = st.running /\ u.slots = st.slots /\ u.service = st.service
      /\ u.procs = st.procs \ {<<r, k>>} /\ u.errors = st.errors /\ u.pending = {}
      /\ u.timers = st.timers /\ u.resume = st.resume
  BY <1>1 DEF State
<1>3. Commit(t)
  BY DEF ProcessExit
<1> HIDE DEF u
<1>4. Others(st, u, r)
  BY <1>1, <1>2 DEF Others, Same
<1>5. IsOpen(st, r, k)
  BY <1>1 DEF Fine, Known
<1>6. \A j : <<r, j>> \in u.procs <=> <<r, j>> \in st.procs /\ j # k
  BY <1>2
<1>7. ~Stale(u, r, k) /\ Over(u, r)
  <2>1. /\ ~Stale(u, r, k) => Over(u, r)
        /\ Stale(u, r, k) => ~NoEvent
    BY <1>1, <1>2, <1>4, <1>5, <1>6, EventTaken
  <2>. QED BY <2>1, PlainIsCalm
<1>8. t = HandleProcessExit(u, r, k, exit, sign, launch)
  OBVIOUS
<1> HIDE DEF t
<1>9. PICK m : Ended(u, m, r) /\ t = DispatchMonOf(m, r, launch)
  BY <1>7, <1>8, ExitEnds
<1>10. Halts(st, u, m, r)
  BY <1>2, <1>4, <1>7, <1>9 DEF Halts
<1>. QED BY <1>3, <1>9, <1>10

\* The runner rejects a launch.
LEMMA RejectionHead ==
    ASSUME PlainLaunches, Good(st), Sound(st), NEW w \in st.pending, w.rejected, NEW sign,
           NEW launch \in Launches, Continue(w, sign, launch)
    PROVE  /\ w.run \in Runs /\ st.run[w.run].status = "starting"
           /\ \E u, m : /\ Halts(st, u, m, w.run) /\ LastIs(m, w.run, "failed")
                        /\ Commit(DispatchMonOf(m, w.run, launch))
<1> DEFINE r == w.run
           k == w.attempt
           u == [st EXCEPT !.pending = st.pending \ {w}]
           t == HandleProcessError(u, r, k, sign, launch)
<1>1. st \in State /\ w \in Pending /\ r \in Runs /\ Fine(st, r)
  BY DEF Sound, State, Pending
<1>2. /\ u \in State /\ u.run = st.run /\ u.att = st.att /\ u.ext = st.ext /\ u.asg = st.asg
      /\ u.running = st.running /\ u.slots = st.slots /\ u.service = st.service
      /\ u.procs = st.procs /\ u.errors = st.errors /\ u.pending = st.pending \ {w}
      /\ u.timers = st.timers /\ u.resume = st.resume
  BY <1>1 DEF State
<1>3. Commit(t)
  BY DEF Continue
<1>a. \A v : v.run = r /\ v.attempt # k /\ v \in st.pending => v \in u.pending
  BY <1>2
<1>b. \A q \in Runs : q # r => \A v : v.run = q => (v \in u.pending <=> v \in st.pending)
  BY <1>2
<1> HIDE DEF u
<1>4. Others(st, u, r)
  BY <1>1, <1>2, <1>b DEF Others, Same
<1>5. IsOpen(st, r, k) /\ st.run[r].status = "starting"
  BY <1>1, PlainIsCalm DEF Fine, Calm
<1>6. \A j : <<r, j>> \in u.procs <=> <<r, j>> \in st.procs /\ j # k
  BY <1>1, <1>2 DEF Good, GoodBut, ProcessOwned
<1>c. u.pending = {}
  BY <1>2, PlainIsCalm DEF Sound
<1> HIDE DEF r, k
<1>7. ~Stale(u, r, k) /\ Over(u, r)
  <2>1. /\ ~Stale(u, r, k) => Over(u, r)
        /\ Stale(u, r, k) => ~NoEvent
    BY <1>1, <1>2, <1>4, <1>5, <1>6, <1>a, <1>c, EventTaken
  <2>. QED BY <2>1, PlainIsCalm
<1>8. t = HandleProcessError(u, r, k, sign, launch) /\ u.run[r].status # "finished"
  BY <1>2, <1>5
<1> HIDE DEF t
<1>9. PICK m : Ended(u, m, r) /\ LastIs(m, r, "failed") /\ t = DispatchMonOf(m, r, launch)
  BY <1>1, <1>7, <1>8, LaunchFailureEnds
<1>10. Halts(st, u, m, r)
  BY <1>2, <1>4, <1>7, <1>9 DEF Halts
<1>. QED BY <1>1, <1>3, <1>5, <1>9, <1>10 DEF r

\* The head leaves the invariant intact, and other runs alone.
LEMMA HaltsSound ==
    ASSUME PlainLaunches, NEW s, NEW u, NEW m, NEW r \in Runs, Halts(s, u, m, r)
    PROVE  /\ Sound(m) /\ m.pending = {} /\ Others(s, m, r) /\ Dead(m, r)
           /\ m.resume = s.resume /\ m.service = s.service
<1>1. Sound(m) /\ m.pending = {}
  BY EndedSound, PlainIsCalm DEF Halts
<1>2. Wrote(u, m, r, AllFields) /\ Dead(u, r) /\ Others(s, u, r)
  BY DEF Halts, Ended, Over
<1>3. Others(s, m, r)
  BY <1>2 DEF Wrote, Others, Same
<1>. QED BY <1>1, <1>2, <1>3 DEF Halts, Wrote, Dead

\* A launch goes on after its await.
LEMMA ContinueHead ==
    ASSUME PlainLaunches, Sound(st), NEW w \in st.pending, ~w.rejected, NEW sign, NEW launch,
           Continue(w, sign, launch)
    PROVE  /\ w.run \in Runs /\ st.run[w.run].status = "starting"
           /\ \E u, m :
                 /\ u.run = st.run /\ u.att = st.att /\ u.ext = st.ext /\ u.slots = st.slots
                 /\ u.procs = st.procs /\ u.timers = st.timers /\ u.resume = st.resume
                 /\ u.service = st.service /\ u.pending = {}
                 /\ Others(st, u, w.run) /\ Activated(u, m, w.run, w.attempt)
                 /\ Sound(m) /\ m.pending = {}
                 /\ Commit(IF w.caller = "start" THEN m
                           ELSE Dispatch(m, MonOf[w.run], launch, w.caller, w.reserved))
<1> DEFINE u == [st EXCEPT !.pending = st.pending \ {w}]
           m == Activate(u, w.run, w.attempt)
<1>1. st \in State /\ w \in Pending /\ w.run \in Runs /\ w.attempt \in Nat /\ Fine(st, w.run)
  BY DEF Sound, State, Pending
<1>2. st.run[w.run].status = "starting"
  BY <1>1, PlainIsCalm DEF Fine, Calm
<1>3. Commit(IF w.caller = "start" THEN m
             ELSE Dispatch(m, MonOf[w.run], launch, w.caller, w.reserved))
  BY DEF Continue
<1>4. Sound(m) /\ m.pending = {}
  <2>1. m = Activate([st EXCEPT !.pending = st.pending \ {w}], w.run, w.attempt)
    OBVIOUS
  <2> HIDE DEF m
  <2>. QED BY <2>1, ActivateSound, PlainIsCalm
<1>5. /\ u \in State /\ u.run = st.run /\ u.att = st.att /\ u.ext = st.ext /\ u.asg = st.asg
      /\ u.running = st.running /\ u.slots = st.slots /\ u.service = st.service
      /\ u.procs = st.procs /\ u.errors = st.errors /\ u.pending = st.pending \ {w}
      /\ u.timers = st.timers /\ u.resume = st.resume
  BY <1>1 DEF State
<1>6. u.pending = {}
  BY <1>5, PlainIsCalm DEF Sound
<1>7. m = Activate(u, w.run, w.attempt)
  OBVIOUS
<1> HIDE DEF u, m
<1>8. Others(st, u, w.run)
  BY <1>5 DEF Others, Same
<1>9. EarlierFailed(u, w.run)
  BY <1>1, <1>5 DEF Fine, Book, EarlierFailed
<1>10. Activated(u, m, w.run, w.attempt)
  BY <1>1, <1>5, <1>7, <1>9, ActivateWrites
<1>. QED BY <1>1, <1>2, <1>3, <1>4, <1>5, <1>6, <1>8, <1>10

\* A retry timer fires.
LEMMA RetryWakeHead ==
    ASSUME PlainLaunches, Sound(st), NEW r \in Runs, NEW launch, RetryWake(r, launch)
    PROVE  \E m : /\ Sound(m) /\ m.pending = {} /\ Wrote(st, m, r, {"timers"}) /\ r \notin m.timers
                  /\ Commit(Dispatch(m, MonOf[r], launch, "caught", 0))
<1> DEFINE m == ClearRetryTimer(st, r)
<1>1. Commit(Dispatch(m, MonOf[r], launch, "caught", 0)) /\ Quiet
  BY DEF RetryWake
<1>2. st \in State /\ st.pending = {}
  BY <1>1, QuietFields
<1>3. Wrote(st, m, r, {"timers"}) /\ r \notin m.timers
  BY <1>2, ClearTimerWrites
<1> HIDE DEF m
<1>4. /\ m.run = st.run /\ m.att = st.att /\ m.ext = st.ext /\ m.asg = st.asg
      /\ m.running = st.running /\ m.slots = st.slots /\ m.procs = st.procs
      /\ m.pending = st.pending /\ m.errors = st.errors /\ m.service = st.service
  BY <1>2 DEF m, ClearRetryTimer, State
<1>5. Sound(m)
  BY <1>3, <1>4, UnseenSound DEF Sound, Wrote
<1>. QED BY <1>1, <1>2, <1>3, <1>4, <1>5

\* A Mon of the list made on startup is dispatched.
LEMMA ResumeMonHead ==
    ASSUME Sound(st), NEW mon \in Mons, NEW launch, ResumeMon(mon, launch)
    PROVE  \E m : /\ Sound(m) /\ m.pending = {} /\ m.resume = st.resume \ {mon}
                  /\ m.timers = st.timers /\ m.service = st.service
                  /\ \A q \in Runs : Same(st, m, q)
                  /\ Commit(Dispatch(m, mon, launch, "caught", 0))
<1> DEFINE m == [st EXCEPT !.resume = st.resume \ {mon}]
<1>1. st \in State /\ st.pending = {} /\ Commit(Dispatch(m, mon, launch, "caught", 0))
  BY StFields DEF ResumeMon, Sound
<1>2. /\ m \in State /\ m.run = st.run /\ m.att = st.att /\ m.ext = st.ext /\ m.asg = st.asg
      /\ m.running = st.running /\ m.slots = st.slots /\ m.procs = st.procs
      /\ m.pending = {} /\ m.errors = st.errors /\ m.service = st.service
      /\ m.timers = st.timers /\ m.resume = st.resume \ {mon}
  BY <1>1 DEF State
<1> HIDE DEF m
<1>3. Sound(m)
  BY <1>1, <1>2, UnseenSound DEF Sound
<1>4. \A q \in Runs : Same(st, m, q)
  BY <1>1, <1>2 DEF Same
<1>. QED BY <1>1, <1>2, <1>3, <1>4

\* A run of an integration is inserted with its execution.
LEMMA ReserveHead ==
    ASSUME Sound(st), NEW r \in Runs, NEW launch, ReserveExternalRun(r, launch)
    PROVE  \E m : /\ Sound(m) /\ m.pending = {} /\ Wrote(st, m, r, {"run", "ext"})
                  /\ st.run[r].status = "none" /\ st.pending = {}
                  /\ m.run[r] = QueuedRow /\ m.ext[r] = [NoExt EXCEPT !.phase = "queued"]
                  /\ Commit(Dispatch(m, MonOf[r], launch, "reserve", r))
<1> DEFINE s == Inserted(r)
           row == [s.ext[r] EXCEPT !.phase = "queued"]
           m == [s EXCEPT !.ext[r] = row]
<1>1. Quiet /\ Insertable(r) /\ r \in External /\ Commit(Dispatch(m, MonOf[r], launch, "reserve", r))
  BY DEF ReserveExternalRun
<1>2. Wrote(st, s, r, {"run"}) /\ s.run[r] = QueuedRow /\ s \in State
  BY InsertedWrites
<1> HIDE DEF s
<1>3. row \in ExtRow
  BY <1>2, ExtRowOf, ExtFields DEF Phase
<1>a. row = [st.ext[r] EXCEPT !.phase = "queued"]
  BY <1>2 DEF Wrote
<1> HIDE DEF row
<1>4. LET u == [s EXCEPT !.ext[r] = row]
      IN  Wrote(s, u, r, {"ext"}) /\ u.ext[r] = row
  BY <1>2, <1>3, WriteExt
<1>5. Wrote(s, m, r, {"ext"}) /\ m.ext[r] = row
  BY <1>4
<1> HIDE DEF m
<1>6. Wrote(st, m, r, {"run", "ext"})
  BY <1>2, <1>5, WroteTwice
<1>7. /\ m.run[r] = QueuedRow /\ m.att[r] = st.att[r] /\ m.running[r] = st.running[r]
      /\ m.asg[r] = st.asg[r] /\ (r \in m.slots <=> r \in st.slots)
  BY <1>2, <1>5, <1>6 DEF Wrote
<1>8. Sound(m) /\ m.pending = {}
  BY <1>1, <1>a, <1>5, <1>6, <1>7, InsertedKeeps
<1>9. st.run[r].status = "none" /\ st.ext[r] = NoExt /\ st.pending = {}
  BY <1>1, QuietFields DEF Insertable, Book
<1>. QED BY <1>1, <1>a, <1>5, <1>6, <1>7, <1>8, <1>9

\* An operator creates a run: where another runs, the dispatcher is asked, and else the run
\* itself is started.
LEMMA CreateHead ==
    ASSUME Sound(st), NEW r \in Runs, NEW launch, CreateOperatorRun(r, launch)
    PROVE  \E m : /\ r \notin External /\ Sound(m) /\ m.pending = {} /\ Wrote(st, m, r, {"run"})
                  /\ st.run[r].status = "none" /\ m.run[r] = QueuedRow
                  /\ \/ Commit(Dispatch(m, MonOf[r], launch, "caught", 0))
                     \/ Commit(StartRun(m, r, launch, "start", 0))
<1> DEFINE m == Inserted(r)
<1>1. /\ Quiet /\ Insertable(r) /\ r \notin External
      /\ \/ Commit(Dispatch(m, MonOf[r], launch, "caught", 0))
         \/ Commit(StartRun(m, r, launch, "start", 0))
  BY DEF CreateOperatorRun
<1>2. Wrote(st, m, r, {"run"}) /\ m.run[r] = QueuedRow
  BY InsertedWrites
<1> HIDE DEF m
<1>3. Sound(m) /\ m.pending = {}
  <2>1. /\ m.att[r] = st.att[r] /\ m.running[r] = st.running[r] /\ m.asg[r] = st.asg[r]
        /\ m.ext[r] = st.ext[r] /\ (r \in m.slots <=> r \in st.slots)
    BY <1>2 DEF Wrote
  <2>. QED BY <1>1, <1>2, <2>1, InsertedKeeps
<1>4. st.run[r].status = "none"
  BY <1>1, QuietFields DEF Insertable
<1>. QED BY <1>1, <1>2, <1>3, <1>4

-----------------------------------------------------------------------------
(* The contract with an integration, run by run *)

\* What the rows of the run and of the execution of one key say of each other.
Waiting(s, r) ==
    s.ext[r].phase = "queued" /\ s.ext[r].cancellation_state = "none"

AtWork(s, r) ==
    \/ s.ext[r].phase = "active" /\ s.ext[r].cancellation_state = "none"
    \/ s.ext[r].phase = "cancelling" /\ CancellationAsked(s, r)

Verdict(s, r) ==
    \/ /\ s.ext[r].phase = "awaiting_completion" /\ s.ext[r].cancellation_state = "none"
       /\ s.ext[r].exited_clean
    \/ /\ s.ext[r].phase = "terminal"
       /\ \/ /\ s.ext[r].outcome = "succeeded" /\ s.ext[r].cancellation_state = "none"
             /\ s.run[r].outcome = "completed"
          \/ /\ s.ext[r].outcome = "cancelled" /\ s.ext[r].cancellation_state # "none"
             /\ s.run[r].outcome = "canceled"
          \/ s.ext[r].outcome = "failed" /\ s.run[r].outcome \in {"failed", "interrupted"}

Story(s, r) ==
    /\ s.run[r].status = "none" => s.ext[r] = NoExt
    /\ s.run[r].status = "queued" => Waiting(s, r)
    /\ s.run[r].status = "starting" =>
          s.ext[r].phase = "starting" /\ s.ext[r].cancellation_state = "none"
    /\ s.run[r].status = "active" => AtWork(s, r)
    /\ s.run[r].status = "finished" => Dead(s, r) /\ Verdict(s, r)
    /\ s.run[r].status # "finished" => ~s.ext[r].exited_clean /\ s.ext[r].outcome = "none"

\* What the snapshot of a key shows, and whether its cancellation was recorded.
Shown(s, r) ==
    IF s.ext[r].phase = "none" THEN "absent"
    ELSE IF s.ext[r].phase = "terminal" THEN s.ext[r].outcome
    ELSE IF s.ext[r].phase \in {"queued", "starting"} THEN "pending"
    ELSE "running"

Asked(s, r) == s.ext[r].cancellation_state # "none"

\* The steps of IntegrationContract, for one key.
Unseen(s, t, r) ==
    /\ Shown(t, r) = Shown(s, r) /\ (Asked(t, r) <=> Asked(s, r)) /\ (Dead(t, r) <=> Dead(s, r))

Reserves(s, t, r) ==
    Shown(s, r) = "absent" /\ Shown(t, r) = "pending" /\ (Asked(t, r) <=> Asked(s, r))

Starts(s, t, r) ==
    /\ Shown(s, r) = "pending" /\ Dead(s, r) /\ ~Asked(s, r)
    /\ Shown(t, r) = "pending" /\ ~Dead(t, r) /\ ~Asked(t, r)

Works(s, t, r) ==
    /\ Shown(s, r) = "pending" /\ ~Dead(s, r)
    /\ Shown(t, r) = "running" /\ ~Dead(t, r) /\ (Asked(t, r) <=> Asked(s, r))

Retries(s, t, r) ==
    /\ Shown(s, r) \in {"pending", "running"} /\ ~Asked(s, r)
    /\ Shown(t, r) = "pending" /\ ~Asked(t, r)

Loses(s, t, r) ==
    /\ ~Dead(s, r) /\ Dead(t, r)
    /\ Shown(t, r) = Shown(s, r) /\ (Asked(t, r) <=> Asked(s, r))

IsAsked(s, t, r) ==
    /\ Shown(s, r) = "running" /\ Shown(t, r) = "running"
    /\ Asked(t, r) /\ (Dead(t, r) <=> Dead(s, r))

IsSettled(s, t, r) ==
    /\ Shown(s, r) \in {"pending", "running"}
    /\ Shown(t, r) \in {"succeeded", "failed", "cancelled"}
    /\ Dead(t, r)
    /\ Asked(s, r) => Asked(t, r)
    /\ Shown(t, r) = "cancelled" => Asked(t, r)
    /\ Shown(t, r) = "succeeded" => Shown(s, r) = "running" /\ ~Asked(t, r)

Fulfils(s, t, r) ==
    \/ Unseen(s, t, r) \/ Reserves(s, t, r) \/ Starts(s, t, r) \/ Works(s, t, r)
    \/ Retries(s, t, r) \/ Loses(s, t, r) \/ IsAsked(s, t, r) \/ IsSettled(s, t, r)

\* What a step owes to one key, and to all.
Told(s, t, r) == Story(t, r) /\ Fulfils(s, t, r)

Tells(s, t) == \A q \in External : Told(s, t, q)

\* A run whose rows and processes are as they were.
LEMMA UnseenTold ==
    ASSUME NEW s, NEW t, NEW q, Story(s, q), t.ext[q] = s.ext[q],
           t.run[q].status = s.run[q].status, t.run[q].outcome = s.run[q].outcome,
           Dead(t, q) <=> Dead(s, q)
    PROVE  Told(s, t, q)
<1>1. Story(t, q)
  BY DEF Story, Waiting, AtWork, Verdict, CancellationAsked
<1>2. Unseen(s, t, q)
  BY DEF Unseen, Shown, Asked
<1>. QED BY <1>1, <1>2 DEF Told, Fulfils

LEMMA SameTold ==
    ASSUME NEW s, NEW t, NEW q, Story(s, q), Same(s, t, q)
    PROVE  Told(s, t, q)
BY UnseenTold DEF Same, Dead

\* The head of a handler has to be judged for the run it writes.
LEMMA OthersTell ==
    ASSUME NEW s, NEW t, NEW r, \A q \in External : Story(s, q), Others(s, t, r),
           r \in External => Told(s, t, r)
    PROVE  Tells(s, t)
<1> SUFFICES ASSUME NEW q \in External PROVE Told(s, t, q)
  BY DEF Tells
<1>1. CASE q = r
  BY <1>1
<1>2. CASE q # r
  BY <1>2, KindAssumption, SameTold DEF Others
<1>. QED BY <1>1, <1>2

\* A launch that follows in the same step: the key was pending when it began.
LEMMA BegunTold ==
    ASSUME NEW s, NEW m, NEW t, NEW q \in Runs, NEW caller, Told(s, m, q), Known(m, q),
           Begun(m, t, q, caller)
    PROVE  Told(s, t, q)
<1>1. /\ m.run[q].status = "queued" /\ t.run[q].status = "starting"
      /\ ClaimedExt(m.ext[q], t.ext[q])
  BY DEF Begun, Launched
<1>2. /\ Dead(m, q) /\ m.ext[q].phase = "queued" /\ m.ext[q].cancellation_state = "none"
      /\ ~m.ext[q].exited_clean
  BY <1>1 DEF Known, Told, Story, Waiting
<1>3. /\ t.ext[q].phase = "starting" /\ t.ext[q].cancellation_state = "none"
      /\ ~t.ext[q].exited_clean /\ t.ext[q].outcome = "none"
  BY <1>1, <1>2 DEF ClaimedExt
<1>4. Story(t, q)
  BY <1>1, <1>3 DEF Story
<1>5. Shown(m, q) = "pending" /\ ~Asked(m, q) /\ Shown(t, q) = "pending" /\ ~Asked(t, q)
  BY <1>2, <1>3 DEF Shown, Asked
<1>6. \/ Unseen(s, t, q) \/ Reserves(s, t, q) \/ Starts(s, t, q) \/ Retries(s, t, q)
  BY <1>2, <1>5
     DEF Told, Fulfils, Unseen, Reserves, Starts, Works, Retries, Loses, IsAsked, IsSettled
<1>. QED BY <1>4, <1>6 DEF Told, Fulfils

LEMMA BegunTells ==
    ASSUME NEW s, NEW m, NEW t, NEW r \in Runs, NEW caller, Tells(s, m), Sound(m),
           Begun(m, t, r, caller)
    PROVE  Tells(s, t)
<1> SUFFICES ASSUME NEW q \in External PROVE Told(s, t, q)
  BY DEF Tells
<1>1. Told(s, m, q) /\ q \in Runs /\ Known(m, r)
  BY KindAssumption DEF Tells, Sound, Fine
<1>2. CASE q = r
  BY <1>1, <1>2, BegunTold
<1>3. CASE q # r
  <2>1. Same(m, t, q)
    BY <1>1, <1>3 DEF Begun, Launched, Others
  <2>2. /\ t.run[q] = m.run[q] /\ t.ext[q] = m.ext[q] /\ (Dead(t, q) <=> Dead(m, q))
    BY <2>1 DEF Same, Dead
  <2>3. Story(t, q)
    BY <1>1, <2>1, SameTold DEF Told
  <2>4. Shown(t, q) = Shown(m, q) /\ (Asked(t, q) <=> Asked(m, q))
    BY <2>2 DEF Shown, Asked
  <2>5. Fulfils(s, t, q)
    BY <1>1, <2>2, <2>4
       DEF Told, Fulfils, Unseen, Reserves, Starts, Works, Retries, Loses, IsAsked, IsSettled
  <2>. QED BY <2>3, <2>5 DEF Told
<1>. QED BY <1>2, <1>3

\* A turn of the dispatcher keeps what the head of the handler told.
LEMMA DispatchTells ==
    ASSUME PlainLaunches, NEW s, NEW m, Tells(s, m), Sound(m), m.pending = {},
           NEW mon, NEW launch \in Launches, NEW caller \in Caller, NEW reserved \in Runs \cup {0}
    PROVE  Tells(s, Dispatch(m, mon, launch, caller, reserved))
<1> DEFINE t == Dispatch(m, mon, launch, caller, reserved)
<1>1. \/ t = m
      \/ \E r \in Runs : Takes(m, t, mon, r, caller)
  BY DispatchTakes
<1> HIDE DEF t
<1>2. ASSUME NEW r \in Runs, Takes(m, t, mon, r, caller)
      PROVE  Tells(s, t)
  BY <1>2, BegunTells DEF Takes
<1>3. Tells(s, t)
  BY <1>1, <1>2
<1>. QED BY <1>3 DEF t

\* So does the start of one run.
LEMMA StartTells ==
    ASSUME PlainLaunches, NEW s, NEW m, Tells(s, m), Sound(m), m.pending = {},
           NEW r \in Runs, NEW launch \in Launches
    PROVE  Tells(s, StartRun(m, r, launch, "start", 0))
<1> DEFINE t == StartRun(m, r, launch, "start", 0)
<1>1. "start" \in Caller /\ launch \notin {"mcp", "throw"}
  BY PlainIsCalm DEF Caller
<1>2. t = m \/ Begun(m, t, r, "start")
  <2>1. t = StartRun(m, r, launch, "start", 0)
    OBVIOUS
  <2> HIDE DEF t
  <2>. QED BY <1>1, <2>1, StartRunSound
<1> HIDE DEF t
<1>3. Tells(s, t)
  BY <1>2, BegunTells
<1>. QED BY <1>3 DEF t

\* What the next state tells is what the committed record tells.
LEMMA CommitTells ==
    ASSUME NEW t, Commit(t), Tells(st, t)
    PROVE  Tells(st, st')
BY StPrimed DEF Commit, Tells, Told, Story, Waiting, AtWork, Verdict, CancellationAsked, Fulfils,
                Unseen, Reserves, Starts, Works, Retries, Loses, IsAsked, IsSettled,
                Shown, Asked, Dead

-----------------------------------------------------------------------------
(* What each handler tells *)

\* The invariant, besides GInv.
Stories(s) == \A q \in External : Story(s, q)

\* An attempt ends: the run is settled, awaits its receipt or is queued again.
LEMMA HaltsTold ==
    ASSUME PlainLaunches, NEW s, NEW u, NEW m, NEW r \in Runs, Halts(s, u, m, r), Story(s, r),
           \/ s.run[r].status = "active" /\ ~Dead(s, r)
           \/ s.run[r].status = "starting" /\ LastIs(m, r, "failed")
    PROVE  Told(s, m, r)
<1> DEFINE asked == CancellationAsked(s, r)
           row == m.run[r]
           x == m.ext[r]
<1>1. Book(m, r) /\ Dead(m, r)
  BY HaltsSound DEF Halts, Ended
<1>2. \/ /\ s.run[r].status = "active" /\ ~Dead(s, r) /\ AtWork(s, r) /\ Shown(s, r) = "running"
      \/ /\ s.run[r].status = "starting" /\ LastIs(m, r, "failed") /\ Shown(s, r) = "pending"
         /\ ~Asked(s, r) /\ ~asked
  BY DEF Story, AtWork, Shown, Asked, CancellationAsked
<1>3. ExtOpen(s, r) /\ s.run[r].status # "finished" /\ (asked => s.ext[r].phase = "cancelling")
  BY <1>2 DEF Story, AtWork, ExtOpen, CancellationAsked
<1>4. ~asked <=> ~Asked(s, r)
  BY <1>2 DEF AtWork, Asked, CancellationAsked
<1>5. \/ /\ asked /\ row.status = "finished" /\ row.outcome = "canceled"
         /\ x.phase = "terminal" /\ x.outcome = "cancelled" /\ x.cancellation_state # "none"
      \/ /\ x.cancellation_state = s.ext[r].cancellation_state
         /\ \/ /\ row.status = "finished"
               /\ \/ /\ x.phase = "terminal" /\ x.outcome = "succeeded"
                     /\ row.outcome = "completed" /\ ~asked
                  \/ /\ x.phase = "terminal" /\ x.outcome = "failed"
                     /\ row.outcome \in {"failed", "interrupted"}
                  \/ /\ x.phase = "awaiting_completion" /\ x.outcome = "none"
                     /\ x.exited_clean /\ ~asked
            \/ /\ row.status = "queued" /\ ~asked
               /\ s.ext[r].cancellation_state = "none" =>
                     /\ x.phase = "queued" /\ x.outcome = "none"
                     /\ x.exited_clean = s.ext[r].exited_clean
  <2>1. u.run = s.run /\ u.ext = s.ext /\ Settles(u, r, row, x)
    BY DEF Halts, Ended
  <2>2. ExtOpen(u, r) /\ (CancellationAsked(u, r) <=> asked)
    BY <1>3, <2>1 DEF ExtOpen, CancellationAsked
  <2>3. u.run[r].status # "finished" /\ (CancellationAsked(u, r) => u.ext[r].phase = "cancelling")
        /\ u.ext[r].exited_clean = s.ext[r].exited_clean
        /\ u.ext[r].cancellation_state = s.ext[r].cancellation_state
    BY <1>3, <2>1, <2>2
  <2> HIDE DEF row, x, asked
  <2>. QED BY <2>1, <2>2, <2>3 DEF Settles
<1>6. /\ s.run[r].status = "starting" => /\ ~(x.phase = "terminal" /\ x.outcome = "succeeded")
                                         /\ ~(x.phase = "awaiting_completion" /\ x.exited_clean)
  BY <1>1, <1>2 DEF Book, LastIs, ExtOpen
<1>7. ~s.ext[r].exited_clean
  BY <1>3 DEF Story
<1>8. Asked(m, r) <=> x.cancellation_state # "none"
  BY DEF Asked
<1>9. /\ x.phase = "terminal" => Shown(m, r) = x.outcome
      /\ x.phase = "awaiting_completion" => Shown(m, r) = "running"
      /\ x.phase = "queued" => Shown(m, r) = "pending"
  BY DEF Shown
<1>10. Asked(s, r) <=> s.ext[r].cancellation_state # "none"
  BY DEF Asked
<1>11. Story(m, r)
  <2>1. row.status = "finished" => Verdict(m, r)
    BY <1>4, <1>5, <1>10 DEF Verdict
  <2>2. row.status = "queued" =>
            Waiting(m, r) /\ ~x.exited_clean /\ x.outcome = "none"
    BY <1>4, <1>5, <1>7, <1>10 DEF Waiting
  <2>. QED BY <1>1, <1>5, <2>1, <2>2 DEF Story
<1>12. Fulfils(s, m, r)
  <2> HIDE DEF asked, row, x
  <2>1. CASE x.phase = "terminal"
    <3>1. IsSettled(s, m, r)
      BY <1>1, <1>2, <1>4, <1>5, <1>6, <1>8, <1>9, <1>10, <2>1 DEF IsSettled
    <3>. QED BY <3>1 DEF Fulfils
  <2>2. CASE x.phase = "awaiting_completion" /\ x.exited_clean
    <3>1. Loses(s, m, r)
      BY <1>1, <1>2, <1>5, <1>6, <1>8, <1>9, <1>10, <2>2 DEF Loses
    <3>. QED BY <3>1 DEF Fulfils
  <2>3. CASE x.phase = "queued"
    <3>1. Retries(s, m, r)
      BY <1>2, <1>4, <1>5, <1>8, <1>9, <1>10, <2>3 DEF Retries
    <3>. QED BY <3>1 DEF Fulfils
  <2>. QED BY <1>4, <1>5, <1>10, <2>1, <2>2, <2>3
<1>. QED BY <1>11, <1>12 DEF Told

LEMMA ProcessExitTells ==
    ASSUME PlainLaunches, Sound(st), Stories(st), NEW r \in Runs, NEW k, NEW exit \in Exit,
           NEW sign, NEW launch \in Launches, ProcessExit(r, k, exit, sign, launch)
    PROVE  Tells(st, st')
<1>1. PICK u, m : Halts(st, u, m, r) /\ Commit(DispatchMonOf(m, r, launch))
  BY ProcessExitHead
<1>2. Sound(m) /\ m.pending = {} /\ Others(st, m, r)
  BY <1>1, HaltsSound
<1>3. /\ Quiet /\ <<r, k>> \in st.procs /\ st.pending = {} /\ st \in State
      /\ Known(st, r) /\ Calm(st, r)
  BY StFields, PlainIsCalm DEF ProcessExit, Sound, Fine, Quiet
<1>4. r \in External => st.run[r].status = "active" /\ ~Dead(st, r) /\ Story(st, r)
  <2>1. ~Dead(st, r)
    BY <1>3 DEF Dead
  <2>2. st.run[r].status \in RunStatus
    BY <1>3 DEF State, RunRow
  <2>. QED BY <1>3, <2>1, <2>2 DEF Stories, Story, Known, Calm, RunStatus
<1>5. r \in External => Told(st, m, r)
  BY <1>1, <1>4, HaltsTold
<1>6. Tells(st, m)
  BY <1>2, <1>5, OthersTell DEF Stories
<1>7. Tells(st, DispatchMonOf(m, r, launch))
  BY <1>2, <1>6, DispatchTells DEF DispatchMonOf, Caller
<1>. QED BY <1>1, <1>7, CommitTells

LEMMA RejectionTells ==
    ASSUME PlainLaunches, Good(st), Sound(st), Stories(st), NEW w \in st.pending, w.rejected,
           NEW sign, NEW launch \in Launches, Continue(w, sign, launch)
    PROVE  Tells(st, st')
<1> DEFINE r == w.run
<1>1. r \in Runs /\ st.run[r].status = "starting"
  BY RejectionHead
<1>2. PICK u, m : /\ Halts(st, u, m, r) /\ LastIs(m, r, "failed")
                  /\ Commit(DispatchMonOf(m, r, launch))
  BY RejectionHead
<1> HIDE DEF r
<1>3. Sound(m) /\ m.pending = {} /\ Others(st, m, r)
  BY <1>1, <1>2, HaltsSound
<1>4. r \in External => Told(st, m, r)
  BY <1>1, <1>2, HaltsTold DEF Stories
<1>5. Tells(st, m)
  BY <1>3, <1>4, OthersTell DEF Stories
<1>6. Tells(st, DispatchMonOf(m, r, launch))
  BY <1>3, <1>5, DispatchTells DEF DispatchMonOf, Caller
<1>. QED BY <1>2, <1>6, CommitTells

LEMMA ActivationTells ==
    ASSUME PlainLaunches, Sound(st), Stories(st), NEW w \in st.pending, ~w.rejected,
           NEW sign, NEW launch \in Launches, Continue(w, sign, launch)
    PROVE  Tells(st, st')
<1> DEFINE r == w.run
<1>1. /\ r \in Runs /\ st.run[r].status = "starting" /\ Calm(st, r) /\ st \in State
      /\ w.caller \in Caller /\ w.reserved \in Runs \cup {0}
  BY PlainIsCalm, ContinueHead DEF Sound, Fine, State, Pending
<1>2. PICK u, m :
         /\ u.run = st.run /\ u.att = st.att /\ u.ext = st.ext /\ u.slots = st.slots
         /\ u.procs = st.procs /\ u.timers = st.timers /\ u.resume = st.resume
         /\ u.service = st.service /\ u.pending = {}
         /\ Others(st, u, r) /\ Activated(u, m, r, w.attempt)
         /\ Sound(m) /\ m.pending = {}
         /\ Commit(IF w.caller = "start" THEN m
                   ELSE Dispatch(m, MonOf[r], launch, w.caller, w.reserved))
  BY ContinueHead
<1>3. ~Dead(st, r)
  BY <1>1 DEF Calm, Dead
<1> HIDE DEF r
<1>4. Others(st, m, r) /\ m.procs = st.procs /\ m.run[r].status = "active"
  BY <1>2 DEF Activated, Wrote, Others, Same
<1>5. r \in External => Told(st, m, r)
  <2> SUFFICES ASSUME r \in External PROVE Told(st, m, r)
    OBVIOUS
  <2>1. /\ st.ext[r].phase = "starting" /\ st.ext[r].cancellation_state = "none"
        /\ ~st.ext[r].exited_clean /\ st.ext[r].outcome = "none" /\ st.ext[r] \in ExtRow
    BY <1>1, ExtRowOf DEF Stories, Story
  <2>2. m.ext[r] = [st.ext[r] EXCEPT !.phase = "active"]
    BY <1>2, <2>1 DEF Activated, ExtOpen
  <2>3. /\ m.ext[r].phase = "active" /\ m.ext[r].cancellation_state = "none"
        /\ ~m.ext[r].exited_clean /\ m.ext[r].outcome = "none"
    BY <2>1, <2>2 DEF ExtRow
  <2>4. Story(m, r)
    BY <1>4, <2>3 DEF Story, AtWork
  <2>5. Works(st, m, r)
    BY <1>3, <1>4, <2>1, <2>3 DEF Works, Shown, Asked, Dead
  <2>. QED BY <2>4, <2>5 DEF Told, Fulfils
<1>6. Tells(st, m)
  BY <1>4, <1>5, OthersTell DEF Stories
<1>7. CASE w.caller = "start"
  BY <1>2, <1>6, <1>7, CommitTells
<1>8. CASE w.caller # "start"
  <2>1. Tells(st, Dispatch(m, MonOf[r], launch, w.caller, w.reserved))
    BY <1>1, <1>2, <1>6, DispatchTells
  <2>. QED BY <1>2, <1>8, <2>1, CommitTells
<1>. QED BY <1>7, <1>8

\* A write that the snapshot does not show.
LEMMA UnseenWrite ==
    ASSUME NEW s, NEW t, NEW r, NEW F, Stories(s), Wrote(s, t, r, F),
           r \in External => /\ t.run[r] = s.run[r] \/ "run" \notin F
                             /\ t.ext[r] = s.ext[r] \/ "ext" \notin F
    PROVE  Tells(s, t)
<1>1. Others(s, t, r) /\ (Dead(t, r) <=> Dead(s, r))
  BY DEF Wrote, Dead
<1>2. r \in External => Told(s, t, r)
  <2>1. r \in External => t.run[r] = s.run[r] /\ t.ext[r] = s.ext[r] /\ Story(s, r)
    BY DEF Wrote, Stories
  <2>. QED BY <1>1, <2>1, UnseenTold
<1>. QED BY <1>1, <1>2, OthersTell DEF Stories

LEMMA RetryWakeTells ==
    ASSUME PlainLaunches, Sound(st), Stories(st), NEW r \in Runs, NEW launch \in Launches,
           RetryWake(r, launch)
    PROVE  Tells(st, st')
<1>1. PICK m : /\ Sound(m) /\ m.pending = {} /\ Wrote(st, m, r, {"timers"})
               /\ Commit(Dispatch(m, MonOf[r], launch, "caught", 0))
  BY RetryWakeHead
<1>2. Tells(st, m)
  BY <1>1, UnseenWrite
<1>3. Tells(st, Dispatch(m, MonOf[r], launch, "caught", 0))
  BY <1>1, <1>2, DispatchTells DEF Caller
<1>. QED BY <1>1, <1>3, CommitTells

LEMMA ResumeMonTells ==
    ASSUME PlainLaunches, Sound(st), Stories(st), NEW mon \in Mons, NEW launch \in Launches,
           ResumeMon(mon, launch)
    PROVE  Tells(st, st')
<1>1. PICK m : /\ Sound(m) /\ m.pending = {} /\ \A q \in Runs : Same(st, m, q)
               /\ Commit(Dispatch(m, mon, launch, "caught", 0))
  BY ResumeMonHead
<1>2. Tells(st, m)
  BY <1>1, SameTold, KindAssumption DEF Tells, Stories
<1>3. Tells(st, Dispatch(m, mon, launch, "caught", 0))
  BY <1>1, <1>2, DispatchTells DEF Caller
<1>. QED BY <1>1, <1>3, CommitTells

LEMMA CreateTells ==
    ASSUME PlainLaunches, Sound(st), Stories(st), NEW r \in Runs, NEW launch \in Launches,
           CreateOperatorRun(r, launch)
    PROVE  Tells(st, st')
<1>1. PICK m : /\ r \notin External /\ Sound(m) /\ m.pending = {} /\ Wrote(st, m, r, {"run"})
               /\ \/ Commit(Dispatch(m, MonOf[r], launch, "caught", 0))
                  \/ Commit(StartRun(m, r, launch, "start", 0))
  BY CreateHead
<1>2. Tells(st, m)
  BY <1>1, UnseenWrite
<1>3. Tells(st, Dispatch(m, MonOf[r], launch, "caught", 0))
  BY <1>1, <1>2, DispatchTells DEF Caller
<1>4. Tells(st, StartRun(m, r, launch, "start", 0))
  BY <1>1, <1>2, StartTells
<1>. QED BY <1>1, <1>3, <1>4, CommitTells

LEMMA StartRequestTells ==
    ASSUME PlainLaunches, Sound(st), Stories(st), NEW r \in Runs, NEW launch \in Launches,
           StartRequest(r, launch)
    PROVE  Tells(st, st')
<1>1. Quiet /\ Commit(StartRun(st, r, launch, "start", 0))
  BY DEF StartRequest
<1>2. st.pending = {}
  BY <1>1, QuietFields
<1>3. Tells(st, st)
  BY UnseenTold DEF Tells, Stories
<1>4. Tells(st, StartRun(st, r, launch, "start", 0))
  BY <1>2, <1>3, StartTells
<1>. QED BY <1>1, <1>4, CommitTells

LEMMA ReserveTells ==
    ASSUME PlainLaunches, Sound(st), Stories(st), NEW r \in Runs, NEW launch \in Launches,
           ReserveExternalRun(r, launch)
    PROVE  Tells(st, st')
<1>1. PICK m : /\ Sound(m) /\ m.pending = {} /\ Wrote(st, m, r, {"run", "ext"})
               /\ st.run[r].status = "none" /\ st.pending = {}
               /\ m.run[r] = QueuedRow /\ m.ext[r] = [NoExt EXCEPT !.phase = "queued"]
               /\ Commit(Dispatch(m, MonOf[r], launch, "reserve", r))
  BY ReserveHead
<1>2. /\ m.run[r].status = "queued" /\ m.ext[r].phase = "queued" /\ m.ext[r].outcome = "none"
      /\ m.ext[r].cancellation_state = "none" /\ ~m.ext[r].exited_clean
  BY <1>1 DEF QueuedRow, NoRow, NoExt
<1>3. r \in External => Told(st, m, r)
  <2> SUFFICES ASSUME r \in External PROVE Told(st, m, r)
    OBVIOUS
  <2>1. st.ext[r].phase = "none" /\ st.ext[r].cancellation_state = "none"
    BY <1>1 DEF Stories, Story, NoExt
  <2>2. Story(m, r)
    BY <1>2 DEF Story, Waiting
  <2>3. Reserves(st, m, r)
    BY <1>2, <2>1 DEF Reserves, Shown, Asked
  <2>. QED BY <2>2, <2>3 DEF Told, Fulfils
<1>4. Tells(st, m)
  BY <1>1, <1>3, OthersTell DEF Stories, Wrote
<1>5. Tells(st, Dispatch(m, MonOf[r], launch, "reserve", r))
  BY <1>1, <1>4, DispatchTells DEF Caller
<1>. QED BY <1>1, <1>5, CommitTells

LEMMA ActivatePlanTells ==
    ASSUME Sound(st), Stories(st), NEW r \in Runs, ActivatePlan(r)
    PROVE  Tells(st, st')
<1> DEFINE t == [Inserted(r) EXCEPT !.asg[r] = "queued"]
<1>1. r \in PlanRuns /\ Commit(t)
  BY DEF ActivatePlan
<1>2. t.run = [st.run EXCEPT ![r] = QueuedRow] /\ t.ext = st.ext /\ t.procs = st.procs
      /\ st \in State
  BY DEF Inserted, Sound, State
<1> HIDE DEF t
<1>3. ASSUME NEW q \in External
      PROVE  Told(st, t, q)
  <2>1. q \in Runs /\ q # r /\ Story(st, q)
    BY <1>1, KindAssumption DEF Stories
  <2>2. t.run[q] = st.run[q] /\ t.ext[q] = st.ext[q] /\ (Dead(t, q) <=> Dead(st, q))
    BY <1>2, <2>1 DEF State, Dead
  <2>. QED BY <2>1, <2>2, UnseenTold
<1>. QED BY <1>1, <1>3, CommitTells DEF Tells

\* A verdict given to an execution whose process has ended, or has not begun.
LEMMA SettledTells ==
    ASSUME NEW s, NEW t, NEW r, NEW F, Stories(s), Wrote(s, t, r, F), Dead(s, r),
           r \in External =>
              /\ s.ext[r].phase \notin {"none", "terminal"} /\ t.run[r].status = "finished"
              /\ t.ext[r].phase = "terminal" /\ Verdict(t, r) /\ (Asked(s, r) => Asked(t, r))
              /\ t.ext[r].outcome = "succeeded" => Shown(s, r) = "running"
    PROVE  Tells(s, t)
<1>1. Others(s, t, r) /\ Dead(t, r)
  BY DEF Wrote, Dead
<1>2. r \in External => Told(s, t, r)
  <2> SUFFICES ASSUME r \in External PROVE Told(s, t, r)
    OBVIOUS
  <2>1. Story(t, r)
    BY <1>1 DEF Story
  <2>2. Shown(s, r) \in {"pending", "running"} /\ Shown(t, r) = t.ext[r].outcome
    BY DEF Shown
  <2>3. t.ext[r].outcome \in {"succeeded", "failed", "cancelled"}
        /\ (t.ext[r].outcome = "cancelled" => Asked(t, r))
        /\ (t.ext[r].outcome = "succeeded" => ~Asked(t, r))
    BY DEF Verdict, Asked
  <2>4. IsSettled(s, t, r)
    BY <1>1, <2>2, <2>3 DEF IsSettled
  <2>. QED BY <2>1, <2>4 DEF Told, Fulfils
<1>. QED BY <1>1, <1>2, OthersTell DEF Stories

LEMMA ExpireTells ==
    ASSUME Sound(st), Stories(st), NEW r \in Runs, ExpireCompletion(r)
    PROVE  Tells(st, st')
<1> DEFINE s == MarkFailedByRun(st, r, "keep")
           row == [s.run[r] EXCEPT !.outcome = "failed", !.outcome_state = "failed",
                                   !.runtime_state = "failed"]
           t == [s EXCEPT !.run[r] = row]
<1>1. /\ Quiet /\ ExtOpen(st, r) /\ Commit(t) /\ st \in State
      /\ st.ext[r].phase = "awaiting_completion"
  BY StFields DEF ExpireCompletion, ExtOpen, Sound
<1>2. Wrote(st, s, r, {"ext"}) /\ s.ext[r] = FailedRow(st, r, "keep")
  BY <1>1, MarkFailedWrites DEF WroteOpenExt
<1> HIDE DEF s
<1>3. row \in RunRow /\ row.status = st.run[r].status /\ row.outcome = "failed"
  <2>1. s.run[r] \in RunRow /\ s.run[r] = st.run[r]
    BY <1>2, WroteState DEF Wrote
  <2>. QED BY <2>1 DEF RunRow, RunOutcome, OutcomeState, RuntimeState
<1> HIDE DEF row
<1>4. LET u == [s EXCEPT !.run[r] = row]
      IN  Wrote(s, u, r, {"run"}) /\ u.run[r] = row
  BY <1>2, <1>3, WriteRun DEF Wrote
<1>5. Wrote(s, t, r, {"run"}) /\ t.run[r] = row
  BY <1>4
<1> HIDE DEF t
<1>6. Wrote(st, t, r, {"ext", "run"})
  BY <1>2, <1>5, WroteTwice
<1>7. /\ t.ext[r].phase = "terminal" /\ t.ext[r].outcome = "failed"
      /\ t.ext[r].cancellation_state = st.ext[r].cancellation_state
  <2>1. t.ext[r] = FailedRow(st, r, "keep")
    BY <1>2, <1>5 DEF Wrote
  <2>. QED BY <1>1, <2>1, FailedFields
<1>8. /\ r \in External => st.run[r].status = "finished" /\ Dead(st, r)
      /\ st.run[r].status # "finished" => r \notin External
  <2>1. st.run[r].status \in RunStatus
    BY <1>1 DEF State, RunRow
  <2>. QED BY <1>1, <2>1 DEF Stories, Story, Waiting, AtWork, RunStatus, NoExt
<1>9. r \in External => Tells(st, t)
  <2>1. r \in External => Verdict(t, r) /\ (Asked(st, r) => Asked(t, r))
    BY <1>3, <1>5, <1>7 DEF Verdict, Asked
  <2>. QED BY <1>1, <1>3, <1>5, <1>6, <1>7, <1>8, <2>1, SettledTells
<1>10. r \notin External => Tells(st, t)
  BY <1>6, UnseenWrite
<1>. QED BY <1>1, <1>9, <1>10, CommitTells

LEMMA CancelExternalTells ==
    ASSUME PlainLaunches, Sound(st), Stories(st), NEW r \in Runs, NEW launch \in Launches,
           CancelExternalExecution(r, launch)
    PROVE  Tells(st, st')
<1>1. /\ Quiet /\ st.run[r].status # "none" /\ st.ext[r].phase # "none"
      /\ \/ CancelledQueued(st, r, launch)
         \/ \E t : /\ Commit(t)
                   /\ \/ CancelledAwaiting(st, t, r)
                      \/ CancelledAlready(st, t, r)
                      \/ CancelledRunning(st, t, r)
  BY CancelExternalWrites
<1>2. /\ st \in State /\ st.pending = {} /\ Known(st, r) /\ Calm(st, r)
      /\ r \in External => Story(st, r)
      /\ st.run[r].status \in RunStatus
  BY <1>1, QuietFields, PlainIsCalm DEF Fine, Stories, State, RunRow
<1>3. CASE CancelledQueued(st, r, launch)
  <2>1. PICK a : /\ Wrote(st, a, r, {"ext"}) /\ Commit(CancelRun(a, r, launch))
                 /\ \/ ~ExtOpen(st, r) /\ a.ext[r] = st.ext[r]
                    \/ /\ ExtOpen(st, r) /\ a.ext[r].phase = "terminal"
                       /\ a.ext[r].outcome = "cancelled"
                       /\ a.ext[r].cancellation_state = "acknowledged"
    BY <1>3 DEF CancelledQueued
  <2>2. a \in State
    BY <2>1 DEF Wrote
  <2>3. PICK m : /\ CancelRun(a, r, launch) = Dispatch(m, MonOf[r], launch, "void", 0)
                 /\ Wrote(a, m, r, {"run", "slots", "asg", "timers"})
                 /\ m.run[r].status = "finished" /\ m.run[r].outcome = "canceled"
                 /\ r \notin m.slots
                 /\ m.asg[r] = Assigned(a.asg[r], AssignmentStatusFor(m.run[r]))
    BY <2>2, CancelRunWrites
  <2>4. Wrote(st, m, r, {"ext", "run", "slots", "asg", "timers"})
    BY <2>1, <2>3, WroteTwice
  <2>5. /\ m.ext[r] = a.ext[r] /\ m.att[r] = st.att[r] /\ m.running[r] = st.running[r]
        /\ a.asg[r] = st.asg[r]
    BY <2>1, <2>3 DEF Wrote
  <2>6. Sound(m) /\ m.pending = {}
    <3>1. \/ m.ext[r] = st.ext[r]
          \/ /\ ExtOpen(st, r) /\ m.ext[r].phase = "terminal"
             /\ m.ext[r].outcome # "succeeded"
      BY <2>1, <2>5
    <3>. QED BY <1>1, <2>3, <2>4, <2>5, <3>1, FinishedKeeps
  <2>7. Tells(st, m)
    <3>1. st.run[r].status = "queued" /\ Dead(st, r)
      BY <1>2, <1>3 DEF CancelledQueued, Known
    <3>2. r \in External => st.ext[r].phase = "queued" /\ ~Asked(st, r)
      BY <1>2, <3>1 DEF Story, Waiting, Asked
    <3>3. r \in External => /\ m.ext[r].phase = "terminal" /\ m.ext[r].outcome = "cancelled"
                            /\ m.ext[r].cancellation_state # "none"
      BY <2>1, <2>5, <3>2 DEF ExtOpen
    <3>4. r \in External => Verdict(m, r)
      BY <2>3, <3>3 DEF Verdict
    <3>. QED BY <2>3, <2>4, <3>1, <3>2, <3>3, <3>4, SettledTells
  <2>8. Tells(st, Dispatch(m, MonOf[r], launch, "void", 0))
    BY <2>6, <2>7, DispatchTells DEF Caller
  <2>. QED BY <2>1, <2>3, <2>8, CommitTells
<1>4. ASSUME NEW t, Commit(t), CancelledAwaiting(st, t, r)
      PROVE  Tells(st, st')
  <2>1. /\ st.run[r].status = "finished" /\ st.ext[r].phase = "awaiting_completion"
        /\ Wrote(st, t, r, {"ext", "run"})
        /\ t.run[r].status = "finished" /\ t.run[r].outcome = "canceled"
        /\ t.ext[r].phase = "terminal" /\ t.ext[r].outcome = "cancelled"
        /\ t.ext[r].cancellation_state = "acknowledged"
    BY <1>4 DEF CancelledAwaiting
  <2>2. Verdict(t, r) /\ Asked(t, r)
    BY <2>1 DEF Verdict, Asked
  <2>3. r \in External => Dead(st, r)
    BY <1>2, <2>1 DEF Story
  <2>4. r \in External => Tells(st, t)
    BY <2>1, <2>2, <2>3, SettledTells
  <2>5. r \notin External => Tells(st, t)
    BY <2>1, UnseenWrite
  <2>. QED BY <1>4, <2>4, <2>5, CommitTells
<1>5. ASSUME NEW t, Commit(t), CancelledAlready(st, t, r)
      PROVE  Tells(st, st')
  <2>1. Tells(st, t)
    BY <1>5, UnseenWrite DEF CancelledAlready
  <2>. QED BY <1>5, <2>1, CommitTells
<1>6. ASSUME NEW t, Commit(t), CancelledRunning(st, t, r)
      PROVE  Tells(st, st')
  <2>1. /\ st.run[r].status # "queued" /\ ExtOpen(st, r)
        /\ ~(st.run[r].status = "finished" /\ st.ext[r].phase = "awaiting_completion")
        /\ Wrote(st, t, r, {"ext", "running", "run"})
        /\ t.run[r].status = st.run[r].status
        /\ \/ /\ t.ext[r].phase = "cancelling" /\ t.ext[r].outcome = "none"
              /\ t.ext[r].exited_clean = st.ext[r].exited_clean /\ CancellationAsked(t, r)
           \/ st.running[r].attempt = 0
    BY <1>6 DEF CancelledRunning
  <2>2. r \in External => Told(st, t, r)
    <3> SUFFICES ASSUME r \in External PROVE Told(st, t, r)
      OBVIOUS
    <3>1. st.run[r].status = "active"
      BY <1>1, <1>2, <2>1 DEF Story, Verdict, Calm, RunStatus, ExtOpen
    <3>2. st.running[r].attempt # 0
      BY <1>2, <3>1 DEF Calm
    <3>3. Story(t, r)
      BY <1>2, <2>1, <3>1, <3>2 DEF Story, AtWork
    <3>4. IsAsked(st, t, r)
      <4>1. Dead(t, r) <=> Dead(st, r)
        BY <2>1 DEF Wrote, Dead
      <4>2. Shown(st, r) = "running"
        BY <1>2, <3>1 DEF Story, AtWork, Shown
      <4>3. Shown(t, r) = "running" /\ Asked(t, r)
        BY <2>1, <3>2 DEF Shown, Asked, CancellationAsked
      <4>. QED BY <4>1, <4>2, <4>3 DEF IsAsked
    <3>. QED BY <3>3, <3>4 DEF Told, Fulfils
  <2>3. Tells(st, t)
    BY <2>1, <2>2, OthersTell DEF Stories, Wrote
  <2>. QED BY <1>6, <2>3, CommitTells
<1>. QED BY <1>1, <1>3, <1>4, <1>5, <1>6

LEMMA CompleteTells ==
    ASSUME PlainLaunches, Sound(st), Stories(st), NEW r \in Runs, NEW digest \in Digests,
           CompleteExternalExecution(r, digest)
    PROVE  Tells(st, st')
<1> DEFINE s == RecordCompletion(st, r, digest)
           row == [s.run[r] EXCEPT !.outcome = "completed",
                     !.outcome_state = "succeeded", !.runtime_state = "closed"]
           t == [s EXCEPT !.run[r] = row]
<1>1. /\ Quiet /\ ext[r].phase # "none" /\ ~CompletionConflicts(st, r, digest)
      /\ \/ s.ext[r].outcome # "succeeded" /\ Commit(s)
         \/ s.ext[r].outcome = "succeeded" /\ Commit(t)
  BY DEF CompleteExternalExecution
<1>2. /\ st \in State /\ st.ext[r] = ext[r] /\ st.ext[r] \in ExtRow
      /\ Known(st, r) /\ st.run[r].status \in RunStatus
      /\ r \in External => Story(st, r)
  BY <1>1, QuietFields, ExtRowOf DEF Fine, Stories, State, RunRow
<1>3. /\ Wrote(st, s, r, {"ext"})
      /\ st.ext[r].completion_digest # "none" => s.ext[r] = st.ext[r]
      /\ st.ext[r].completion_digest = "none" => s.ext[r] = CompletedRow(st, r, digest)
  BY <1>2, CompletionWrites
<1> HIDE DEF s
<1>4. row \in RunRow /\ row.status = st.run[r].status /\ row.outcome = "completed"
  <2>1. s.run[r] \in RunRow /\ s.run[r] = st.run[r]
    BY <1>3, WroteState DEF Wrote
  <2>. QED BY <2>1 DEF RunRow, RunOutcome, OutcomeState, RuntimeState
<1> HIDE DEF row
<1>5. LET u == [s EXCEPT !.run[r] = row]
      IN  Wrote(s, u, r, {"run"}) /\ u.run[r] = row
  BY <1>3, <1>4, WriteRun DEF Wrote
<1>6. Wrote(s, t, r, {"run"}) /\ t.run[r] = row
  BY <1>5
<1> HIDE DEF t
<1>7. Wrote(st, t, r, {"ext", "run"}) /\ t.ext[r] = s.ext[r]
  <2>1. Wrote(st, t, r, {"ext", "run"})
    BY <1>3, <1>6, WroteTwice
  <2>. QED BY <1>6, <2>1 DEF Wrote
<1>8. CASE st.ext[r].completion_digest # "none"
  <2>1. s.ext[r] = st.ext[r]
    BY <1>3, <1>8
  <2>2. Tells(st, s)
    BY <1>3, <2>1, UnseenWrite
  <2>3. s.ext[r].outcome = "succeeded" => Tells(st, t)
    <3> SUFFICES ASSUME s.ext[r].outcome = "succeeded" PROVE Tells(st, t)
      OBVIOUS
    <3>1. r \in External => st.run[r].outcome = "completed"
      BY <1>2, <2>1 DEF Story, Verdict, RunStatus, NoExt, Sound, Fine, Book
    <3>2. Others(st, t, r) /\ (Dead(t, r) <=> Dead(st, r))
      BY <1>7 DEF Wrote, Dead
    <3>3. r \in External => Told(st, t, r)
      BY <1>2, <1>4, <1>6, <1>7, <2>1, <3>1, <3>2, UnseenTold
    <3>. QED BY <3>2, <3>3, OthersTell DEF Stories
  <2>. QED BY <1>1, <2>2, <2>3, CommitTells
<1>9. CASE st.ext[r].completion_digest = "none"
  <2> DEFINE phase == IF st.ext[r].exited_clean THEN "terminal" ELSE st.ext[r].phase
             outcome == IF st.ext[r].exited_clean THEN "succeeded" ELSE st.ext[r].outcome
  <2>1. st.ext[r].phase \notin {"none", "terminal"}
    BY <1>1, <1>2, <1>9 DEF CompletionConflicts
  <2>2. s.ext[r] = [st.ext[r] EXCEPT !.completion_digest = digest, !.phase = phase,
                                     !.outcome = outcome]
    BY <1>3, <1>9 DEF CompletedRow
  <2>3. /\ st.ext[r].exited_clean => phase = "terminal" /\ outcome = "succeeded"
        /\ ~st.ext[r].exited_clean => phase = st.ext[r].phase /\ outcome = st.ext[r].outcome
    OBVIOUS
  <2> HIDE DEF phase, outcome
  <2>4. /\ s.ext[r].phase = phase /\ s.ext[r].outcome = outcome
        /\ s.ext[r].cancellation_state = st.ext[r].cancellation_state
        /\ s.ext[r].exited_clean = st.ext[r].exited_clean
    BY <1>2, <2>2 DEF ExtRow
  <2>5. CASE r \notin External
    <3>1. Tells(st, s) /\ Tells(st, t)
      BY <1>3, <1>7, <2>5, UnseenWrite
    <3>. QED BY <1>1, <3>1, CommitTells
  <2>6. CASE r \in External /\ st.ext[r].exited_clean
    <3>1. /\ st.run[r].status = "finished" /\ Dead(st, r)
          /\ st.ext[r].phase = "awaiting_completion" /\ st.ext[r].cancellation_state = "none"
      BY <1>2, <2>1, <2>6 DEF Story, Verdict
    <3>2. /\ t.ext[r].phase = "terminal" /\ t.ext[r].outcome = "succeeded"
          /\ t.ext[r].cancellation_state = "none"
          /\ t.run[r].status = "finished" /\ t.run[r].outcome = "completed"
      BY <1>4, <1>6, <1>7, <2>3, <2>4, <2>6, <3>1
    <3>3. Verdict(t, r) /\ ~Asked(st, r) /\ Shown(st, r) = "running"
      BY <3>1, <3>2 DEF Verdict, Asked, Shown
    <3>4. Tells(st, t)
      BY <1>7, <2>1, <3>1, <3>2, <3>3, SettledTells
    <3>. QED BY <1>1, <1>7, <3>2, <3>4, CommitTells
  <2>7. CASE r \in External /\ ~st.ext[r].exited_clean
    <3>1. /\ st.run[r].status # "finished" /\ st.ext[r].outcome = "none"
      BY <1>2, <2>1, <2>7 DEF Story, Verdict
    <3>2. /\ s.ext[r].phase = st.ext[r].phase /\ s.ext[r].outcome = st.ext[r].outcome
          /\ s.run[r] = st.run[r] /\ Others(st, s, r) /\ (Dead(s, r) <=> Dead(st, r))
      BY <1>3, <2>3, <2>4, <2>7 DEF Wrote, Dead
    <3>3. Story(s, r)
      <4>1. st.run[r].status # "none"
        BY <1>2, <2>1, <2>7 DEF Story, NoExt
      <4>2. Waiting(s, r) <=> Waiting(st, r)
        BY <2>4, <3>2 DEF Waiting
      <4>3. AtWork(s, r) <=> AtWork(st, r)
        BY <2>4, <3>2 DEF AtWork, CancellationAsked
      <4>. QED BY <1>2, <2>4, <2>7, <3>1, <3>2, <4>1, <4>2, <4>3 DEF Story
    <3>4. Unseen(st, s, r)
      BY <2>4, <3>2 DEF Unseen, Shown, Asked
    <3>5. Tells(st, s)
      BY <3>2, <3>3, <3>4, OthersTell DEF Told, Fulfils, Stories
    <3>. QED BY <1>1, <3>1, <3>2, <3>5, CommitTells
  <2>. QED BY <2>5, <2>6, <2>7
<1>. QED BY <1>8, <1>9

\* Steps that touch neither rows nor processes.
LEMMA SilentTells ==
    ASSUME Stories(st), UNCHANGED <<run, ext, procs>>
    PROVE  Tells(st, st')
<1> SUFFICES ASSUME NEW q \in External PROVE Told(st, st', q)
  BY DEF Tells
<1>1. st'.run = st.run /\ st'.ext = st.ext /\ st'.procs = st.procs
  BY StPrimed, StFields
<1>2. Dead(st', q) <=> Dead(st, q)
  BY <1>1 DEF Dead
<1>. QED BY <1>1, <1>2, UnseenTold DEF Stories

LEMMA CrashTells ==
    ASSUME Stories(st), Crash
    PROVE  Tells(st, st')
<1> SUFFICES ASSUME NEW q \in External PROVE Told(st, st', q)
  BY DEF Tells
<1>1. st'.run = st.run /\ st'.ext = st.ext /\ st'.procs = {}
  BY StPrimed, StFields DEF Crash, db
<1>2. Dead(st', q) /\ Story(st, q)
  BY <1>1 DEF Dead, Stories
<1>3. Story(st', q)
  BY <1>1, <1>2 DEF Story, Waiting, AtWork, Verdict, CancellationAsked
<1>4. Unseen(st, st', q) \/ Loses(st, st', q)
  BY <1>1, <1>2 DEF Unseen, Loses, Shown, Asked
<1>. QED BY <1>3, <1>4 DEF Told, Fulfils

LEMMA RestartTells ==
    ASSUME Guaranteed(st), Stories(st), Restart
    PROVE  Tells(st, st')
<1> SUFFICES ASSUME NEW q \in External PROVE Told(st, st', q)
  BY DEF Tells
<1>1. /\ st \in State /\ Forgotten(st) /\ ~Sheltered /\ Book(st, q) /\ Kept(st, q)
      /\ q \in Runs /\ Story(st, q)
  BY StFields, KindAssumption DEF Restart, Guaranteed, Good, GoodBut, Stories
<1> DEFINE lost == {r \in Runs : run[r].status \in ProcessBacked}
           u == LoseRun(st, q)
<1>2. /\ st'.procs = st.procs
      /\ q \in lost => st'.run[q] = u.run[q] /\ st'.ext[q] = u.ext[q]
      /\ q \notin lost => st'.run[q] = st.run[q] /\ st'.ext[q] = st.ext[q]
  <2> DEFINE rows == [r \in Runs |-> IF r \in lost THEN LoseRun(st, r).run[r] ELSE st.run[r]]
             atts == [r \in Runs |-> IF r \in lost THEN LoseRun(st, r).att[r] ELSE st.att[r]]
             exts == [r \in Runs |-> IF r \in lost THEN LoseRun(st, r).ext[r] ELSE st.ext[r]]
             recovered == [st EXCEPT !.run = rows, !.att = atts, !.ext = exts,
                                     !.service = "booting"]
  <2>1. Commit(ReleaseOrphans(recovered))
    BY DEF Restart
  <2>2. /\ q \in lost => rows[q] = u.run[q] /\ exts[q] = u.ext[q]
        /\ q \notin lost => rows[q] = st.run[q] /\ exts[q] = st.ext[q]
    BY <1>1
  <2> HIDE DEF rows, atts, exts, lost, u
  <2>3. run' = rows /\ ext' = exts /\ procs' = st.procs
    BY <1>1, <2>1 DEF Commit, ReleaseOrphans, State
  <2>. QED BY <2>2, <2>3, StPrimed
<1>3. Dead(st', q) /\ Dead(st, q)
  BY <1>1, <1>2 DEF Dead, Forgotten
<1>4. CASE q \in lost
  <2>1. st.run[q].status \in ProcessBacked /\ u = LoseRun(st, q)
    BY <1>4, StFields
  <2>2. ExtOpen(st, q) /\ Shown(st, q) \in {"pending", "running"}
    BY <1>1, <2>1 DEF Story, AtWork, ExtOpen, Shown, ProcessBacked
  <2> HIDE DEF u
  <2>3. /\ u.run[q].status = "finished" /\ u.run[q].outcome = "interrupted"
        /\ u.ext[q].phase = "terminal" /\ u.ext[q].outcome = "failed"
        /\ u.ext[q].cancellation_state # "none" <=> st.ext[q].cancellation_state # "none"
    BY <1>1, <2>1, <2>2, LoseRunKeeps
  <2>4. st'.run[q] = u.run[q] /\ st'.ext[q] = u.ext[q]
    BY <1>2, <1>4
  <2>5. Story(st', q)
    BY <1>3, <2>3, <2>4 DEF Story, Verdict
  <2>6. IsSettled(st, st', q)
    <3>1. Shown(st', q) = "failed" /\ (Asked(st', q) <=> Asked(st, q))
      BY <2>3, <2>4 DEF Shown, Asked
    <3>. QED BY <1>3, <2>2, <3>1 DEF IsSettled
  <2>. QED BY <2>5, <2>6 DEF Told, Fulfils
<1>5. CASE q \notin lost
  BY <1>1, <1>2, <1>3, <1>5, UnseenTold
<1>. QED BY <1>4, <1>5

\* Every step of the run manager tells every key what the contract allows.
LEMMA UpTells ==
    ASSUME PlainLaunches, OperatorsLeaveRunsAlone, Guaranteed(st), Stories(st), Next,
           st.service # "down"
    PROVE  Tells(st, st')
<1>1. Good(st) /\ Sound(st) /\ st.pending = pending
  BY StFields DEF Guaranteed
<1>2. \A launch : LaunchAllowed(launch) => launch \in Launches
  BY DEF LaunchAllowed
<1>3. CASE ServiceStep
  <2>1. ASSUME NEW p \in pending, NEW sign \in Signs, NEW launch \in Launches,
               Continue(p, sign, launch)
        PROVE  Tells(st, st')
    BY <1>1, <2>1, RejectionTells, ActivationTells
  <2>2. CASE \E m \in Mons, launch \in Launches : LaunchAllowed(launch) /\ ResumeMon(m, launch)
    BY <1>1, <2>2, ResumeMonTells
  <2>3. CASE ResumeQueuedRuns
    BY <2>3, SilentTells DEF ResumeQueuedRuns, db
  <2>4. CASE Crash
    BY <2>4, CrashTells
  <2>5. CASE Restart
    BY <2>5, RestartTells
  <2>. QED BY <1>3, <2>1, <2>2, <2>3, <2>4, <2>5 DEF ServiceStep
<1>4. ASSUME NEW r \in Runs, RunStep(r)
      PROVE  Tells(st, st')
  <2>1. ~\E k \in DOMAIN att[r], sign \in Signs, launch \in Launches :
                LaunchAllowed(launch) /\ SpawnError(r, k, sign, launch)
    BY <1>1, PlainIsCalm, StFields DEF SpawnError, Sound, Fine, Calm
  <2>2. CASE \E k \in DOMAIN att[r], sign \in Signs, launch \in Launches, exit \in Exit :
                LaunchAllowed(launch) /\ ProcessExit(r, k, exit, sign, launch)
    BY <1>1, <2>2, ProcessExitTells
  <2>3. CASE \E launch \in Launches : LaunchAllowed(launch) /\ RetryWake(r, launch)
    BY <1>1, <2>3, RetryWakeTells
  <2>4. CASE AttemptTimeout(r) \/ KillTimer(r)
    BY <2>4, SilentTells DEF AttemptTimeout, KillTimer, db
  <2>5. CASE BackoffElapses(r)
    BY <2>5, SilentTells DEF BackoffElapses
  <2>6. CASE ExpireCompletion(r)
    BY <1>1, <2>6, ExpireTells
  <2>. QED BY <1>4, <2>1, <2>2, <2>3, <2>4, <2>5, <2>6 DEF RunStep
<1>5. ASSUME NEW r \in Runs, Request(r)
      PROVE  Tells(st, st')
  <2>1. ASSUME NEW launch \in Launches,
               \/ CreateOperatorRun(r, launch)
               \/ ReserveExternalRun(r, launch)
               \/ StartRequest(r, launch)
               \/ CancelRequest(r, launch)
               \/ CancelExternalExecution(r, launch)
        PROVE  Tells(st, st')
    <3>1. ~CancelRequest(r, launch)
      BY DEF OperatorsLeaveRunsAlone, CancelRequest
    <3>. QED BY <1>1, <2>1, <3>1, CreateTells, ReserveTells, StartRequestTells, CancelExternalTells
  <2>2. CASE ActivatePlan(r)
    BY <1>1, <2>2, ActivatePlanTells
  <2>3. ~StopRequest(r)
    BY DEF OperatorsLeaveRunsAlone, StopRequest
  <2>4. ASSUME NEW outcome \in {"completed", "failed", "stopped"}
        PROVE  ~(CloseRequest(r, outcome) \/ ReviewRequest(r, outcome))
    BY DEF OperatorsLeaveRunsAlone, CloseRequest, ReviewRequest
  <2>5. ASSUME NEW digest \in Digests, CompleteExternalExecution(r, digest)
        PROVE  Tells(st, st')
    BY <1>1, <2>5, CompleteTells
  <2>. QED BY <1>5, <2>1, <2>2, <2>3, <2>4, <2>5 DEF Request
<1>. QED BY <1>3, <1>4, <1>5 DEF Next

LEMMA NextTells ==
    ASSUME PlainLaunches, OperatorsLeaveRunsAlone, GInv, Stories(st), [Next]_vars
    PROVE  Tells(st, st')
<1>1. Guaranteed(st)
  BY DEF GInv
<1>2. CASE UNCHANGED vars
  BY <1>2, SilentTells DEF vars, db
<1>3. CASE Next /\ st.service # "down"
  BY <1>1, <1>3, UpTells
<1>4. CASE Next /\ st.service = "down"
  <2>1. CASE Restart
    BY <1>1, <2>1, RestartTells
  <2>2. ASSUME NEW r \in Runs, BackoffElapses(r)
        PROVE  Tells(st, st')
    BY <2>2, SilentTells DEF BackoffElapses
  <2>. QED BY <1>4, <2>1, <2>2, DownSteps
<1>. QED BY <1>2, <1>3, <1>4

-----------------------------------------------------------------------------
(* The contract with an integration: theorems *)

SInv == Stories(st)

\* Before anything is reserved there is nothing to tell.
LEMMA InitStories == Init => SInv
<1> SUFFICES ASSUME Init, NEW q \in External PROVE Story(st, q)
  BY DEF SInv, Stories
<1>1. st.run[q] = NoRow /\ st.ext[q] = NoExt
  BY StFields, KindAssumption DEF Init
<1>. QED BY <1>1 DEF Story, NoRow, NoExt

LEMMA StoriesKept ==
    ASSUME PlainLaunches, OperatorsLeaveRunsAlone, GInv, SInv, [Next]_vars
    PROVE  SInv' /\ Tells(st, st')
<1>1. Tells(st, st')
  BY NextTells DEF SInv
<1>2. SInv'
  BY <1>1 DEF SInv, Stories, Tells, Told
<1>. QED BY <1>1, <1>2

\* The two records of a key relate as the parts of ExternalInv say.
LEMMA StoryTellsAll ==
    ASSUME GInv, SInv
    PROVE  ExternalInv
<1>1. ASSUME NEW r \in External
      PROVE  /\ r \in Runs /\ st.run[r] = run[r] /\ st.ext[r] = ext[r] /\ Story(st, r)
             /\ run[r].status \in RunStatus
             /\ Alone(r) <=> Dead(st, r)
  <2>1. st \in State /\ r \in Runs
    BY KindAssumption DEF GInv, Guaranteed, Good, GoodBut
  <2>2. procs \subseteq Runs \X Nat /\ st.procs = procs
    BY <2>1, StFields DEF State
  <2>3. Alone(r) <=> Dead(st, r)
    BY <2>2 DEF Alone, ProcessesOf, Dead
  <2>. QED BY <2>1, <2>3, StFields DEF SInv, Stories, State, RunRow
<1>2. TerminalMeansStopped
  BY <1>1 DEF TerminalMeansStopped, Story, Waiting, AtWork, RunStatus, NoExt
<1>3. EndedRunSettlesExternal
  BY <1>1 DEF EndedRunSettlesExternal, Story, Verdict
<1>4. ASSUME NEW r \in External, ext[r].phase = "terminal"
      PROVE  CASE ext[r].outcome = "succeeded" -> run[r].outcome = "completed"
               [] ext[r].outcome = "cancelled" -> run[r].outcome = "canceled"
               [] OTHER -> run[r].outcome \in {"failed", "interrupted"}
  <2>1. \/ ext[r].outcome = "succeeded" /\ run[r].outcome = "completed"
        \/ ext[r].outcome = "cancelled" /\ run[r].outcome = "canceled"
        \/ ext[r].outcome = "failed" /\ run[r].outcome \in {"failed", "interrupted"}
    BY <1>1, <1>4 DEF Story, Waiting, AtWork, Verdict, RunStatus, NoExt
  <2>2. CASE ext[r].outcome = "succeeded"
    BY <2>1, <2>2, ZenonT(30)
  <2>3. CASE ext[r].outcome = "cancelled"
    BY <2>1, <2>3, ZenonT(30)
  <2>4. CASE ext[r].outcome = "failed"
    BY <2>1, <2>4, ZenonT(30)
  <2>. QED BY <2>1, <2>2, <2>3, <2>4, Zenon
<1>5. OutcomesAgree
  BY <1>4, Zenon DEF OutcomesAgree
<1>. QED BY <1>2, <1>3, <1>5 DEF ExternalInv

\* run-model.md:205 "Optional External Completion": a caller that saw the end of its work
\* never sees it write again, the two records of it tell the same story, and an execution
\* whose run has ended is settled or awaits its receipt; through every retry, crash,
\* cancellation, expiry and completion, for every number of runs.  Operators who stop,
\* close, review or cancel such a run by hand are outside the promise.
THEOREM ExternalRecordsAgree ==
    ASSUME PlainLaunches, OperatorsLeaveRunsAlone
    PROVE  Spec => []ExternalInv
<1>1. Init => SInv
  BY InitStories
<1>2. GInv /\ SInv /\ [Next]_vars => SInv'
  BY StoriesKept
<1>3. GInv /\ SInv => ExternalInv
  BY StoryTellsAll
<1>. QED BY <1>1, <1>2, <1>3, EveryStateIsGuaranteed, PTL DEF Spec

\* The snapshot shows what Shown says.
LEMMA SnapshotShown == \A r : SnapshotStatus(r) = Shown(st, r)
<1> SUFFICES ASSUME NEW r PROVE SnapshotStatus(r) = Shown(st, r)
  OBVIOUS
<1>1. st.ext = ext
  BY StFields
<1>2. CASE ext[r].phase = "none"
  BY <1>1, <1>2, ZenonT(30) DEF SnapshotStatus, Shown
<1>3. CASE ext[r].phase = "terminal"
  BY <1>1, <1>3, ZenonT(30) DEF SnapshotStatus, Shown
<1>4. CASE ext[r].phase \in {"queued", "starting"}
  BY <1>1, <1>4, ZenonT(30) DEF SnapshotStatus, Shown
<1>5. CASE ext[r].phase \notin {"none", "terminal", "queued", "starting"}
  BY <1>1, <1>5, ZenonT(30) DEF SnapshotStatus, Shown
<1>. QED BY <1>2, <1>3, <1>4, <1>5

\* The variables of the contract are what the records and processes show.
LEMMA ContractView ==
    ASSUME GInv
    PROVE  \A k \in External : /\ SnapshotStatus(k) = Shown(st, k)
                               /\ ext[k].cancellation_state # "none" <=> Asked(st, k)
                               /\ Alone(k) <=> Dead(st, k)
<1>1. ASSUME NEW k \in External
      PROVE  Alone(k) <=> Dead(st, k)
  <2>1. st \in State
    BY DEF GInv, Guaranteed, Good, GoodBut
  <2>2. procs \subseteq Runs \X Nat /\ st.procs = procs
    BY <2>1, StFields DEF State
  <2>. QED BY <2>2 DEF Alone, ProcessesOf, Dead
<1>. QED BY <1>1, SnapshotShown, StFields DEF Asked

LEMMA ContractViewNext == GInv' =>
    \A k \in External : /\ SnapshotStatus(k)' = Shown(st', k)
                        /\ ext'[k].cancellation_state # "none" <=> Asked(st', k)
                        /\ ~Alone(k)' <=> ~Dead(st', k)
<1>1. GInv => \A k \in External : /\ SnapshotStatus(k) = Shown(st, k)
                                  /\ ext[k].cancellation_state # "none" <=> Asked(st, k)
                                  /\ Alone(k) <=> Dead(st, k)
  BY ContractView
<1>2. GInv' => (\A k \in External : /\ SnapshotStatus(k) = Shown(st, k)
                                    /\ ext[k].cancellation_state # "none" <=> Asked(st, k)
                                    /\ Alone(k) <=> Dead(st, k))'
  BY <1>1, PTL
<1>3. ASSUME NEW k
      PROVE  /\ Shown(st, k)' = Shown(st', k) /\ (Asked(st, k)' <=> Asked(st', k))
             /\ Dead(st, k)' <=> Dead(st', k)
  BY DEF Shown, Asked, Dead
<1>. QED BY <1>2, <1>3

LEMMA InitContract == Init => Contract!Init
<1> SUFFICES ASSUME Init PROVE Contract!Init
  OBVIOUS
<1>1. ASSUME NEW k \in External
      PROVE  SnapshotStatus(k) = "absent" /\ ext[k].cancellation_state = "none" /\ Alone(k)
  <2>1. ext[k] = NoExt /\ procs = {}
    BY KindAssumption DEF Init
  <2>2. ext[k].phase = "none" /\ ext[k].cancellation_state = "none"
    BY <2>1 DEF NoExt
  <2>3. SnapshotStatus(k) = "absent"
    BY <2>2, SnapshotShown, StFields DEF Shown
  <2>. QED BY <2>1, <2>2, <2>3 DEF Alone, ProcessesOf
<1>. QED BY <1>1 DEF Contract!Init

\* What a key is told is a step of the contract for it.
LEMMA ToldIsContract ==
    ASSUME GInv, GInv', Tells(st, st'), NEW k \in External
    PROVE  \/ Contract!Same(k) \/ Contract!Reserve(k) \/ Contract!Launch(k) \/ Contract!Run(k)
           \/ Contract!Retry(k) \/ Contract!Lose(k) \/ Contract!AskCancel(k) \/ Contract!Settle(k)
<1> DEFINE status == [r \in External |-> SnapshotStatus(r)]
           asked == {r \in External : ext[r].cancellation_state # "none"}
           working == {r \in External : ~Alone(r)}
<1>1. /\ status[k] = Shown(st, k) /\ (k \in asked <=> Asked(st, k))
      /\ k \in working <=> ~Dead(st, k)
  BY ContractView
<1>2. /\ status'[k] = Shown(st', k) /\ (k \in asked' <=> Asked(st', k))
      /\ k \in working' <=> ~Dead(st', k)
  BY ContractViewNext
<1>3. Fulfils(st, st', k)
  BY DEF Tells, Told
<1> HIDE DEF status, asked, working
<1>4. CASE Unseen(st, st', k)
  BY <1>1, <1>2, <1>4
     DEF Unseen, Contract!Same, Contract!Become, status, asked, working
<1>5. CASE Reserves(st, st', k)
  BY <1>1, <1>2, <1>5
     DEF Reserves, Contract!Reserve, Contract!Become, status, asked, working
<1>6. CASE Starts(st, st', k)
  BY <1>1, <1>2, <1>6
     DEF Starts, Contract!Launch, Contract!Become, status, asked, working
<1>7. CASE Works(st, st', k)
  BY <1>1, <1>2, <1>7
     DEF Works, Contract!Run, Contract!Become, status, asked, working
<1>8. CASE Retries(st, st', k)
  BY <1>1, <1>2, <1>8
     DEF Retries, Contract!Retry, Contract!Become, status, asked, working
<1>9. CASE Loses(st, st', k)
  BY <1>1, <1>2, <1>9
     DEF Loses, Contract!Lose, Contract!Become, status, asked, working
<1>10. CASE IsAsked(st, st', k)
  BY <1>1, <1>2, <1>10
     DEF IsAsked, Contract!AskCancel, status, asked, working
<1>11. CASE IsSettled(st, st', k)
  BY <1>1, <1>2, <1>11
     DEF IsSettled, Contract!Settle, Contract!Verdicts, status, asked, working
<1>. QED BY <1>3, <1>4, <1>5, <1>6, <1>7, <1>8, <1>9, <1>10, <1>11 DEF Fulfils

LEMMA StepContract ==
    ASSUME PlainLaunches, OperatorsLeaveRunsAlone, GInv, SInv, [Next]_vars
    PROVE  Contract!Next
<1>1. GInv' /\ Tells(st, st')
  BY StepIsGuaranteed, StoriesKept
<1>2. ASSUME NEW k \in External
      PROVE  \/ Contract!Same(k) \/ Contract!Reserve(k) \/ Contract!Launch(k) \/ Contract!Run(k)
             \/ Contract!Retry(k) \/ Contract!Lose(k) \/ Contract!AskCancel(k)
             \/ Contract!Settle(k)
  BY <1>1, ToldIsContract
<1>. QED BY <1>2 DEF Contract!Next

\* The run manager refines IntegrationContract: whatever it does inside, the snapshot of a
\* key moves only as the contract says, a process works for it only between a launch and a
\* verdict, and a recorded cancellation is never followed by a success; for every number of
\* keys, runs and Mons.
THEOREM IntegrationsKeepContract ==
    ASSUME PlainLaunches, OperatorsLeaveRunsAlone
    PROVE  Spec => ContractKept
<1>1. Init => SInv /\ Contract!Init
  BY InitStories, InitContract
<1>2. GInv /\ SInv /\ [Next]_vars => SInv' /\ Contract!Next
  BY StoriesKept, StepContract
<1>. QED BY <1>1, <1>2, EveryStateIsGuaranteed, PTL DEF Spec, ContractKept, Contract!Spec

-----------------------------------------------------------------------------
(* The dispatcher loses no wake-up *)

\* Nobody starts a run past the dispatcher, and retry timers fire when they are due.
DispatcherStarts == Requests \cap {"start", "plan"} = {} /\ ~EarlyWake

Holds(s, r) == r \in s.slots \/ s.run[r].status \in ProcessBacked

\* A Mon is full, or something is under way that will dispatch its queue, or there is
\* nothing to dispatch.
Full(s, m) == ~(Cardinality(ActiveRunIds(s, m)) < Limit[m])

Awaited(s, m) ==
    \/ \E q \in s.timers : MonOf[q] = m
    \/ m \in s.resume
    \/ \E w \in s.pending : MonOf[w.run] = m /\ (w.caller # "start" \/ w.rejected)

Served(s, m) == Full(s, m) \/ Awaited(s, m) \/ \A r \in Runs : MonOf[r] = m => ~Runnable(s, r)

\* Only a queued run, or one that has been closed since, has a timer, and a run that is
\* backing off has one.
Woken(s, r) ==
    /\ r \in s.timers => s.run[r].status \in {"queued", "finished"}
    /\ s.service = "up" /\ s.run[r].status = "queued" /\ InBackoff(s, r) => r \in s.timers

AllWoken(s) == \A r \in Runs : Woken(s, r)

Wakeful(s) == AllWoken(s) /\ (s.service = "up" => \A m \in Mons : Served(s, m))

\* What is left to show where Mon m is about to be dispatched.
WakefulBut(s, m) ==
    AllWoken(s) /\ (s.service = "up" => \A n \in Mons : n # m => Served(s, n))

\* A set of numbers has a least one.
LEMMA LeastNumber ==
    ASSUME NEW T \in SUBSET Nat, T # {}
    PROVE  \E n \in T : \A m \in T : n <= m
<1> DEFINE Less == {p \in Nat \X Nat : p[1] < p[2]}
<1>1. IsWellFoundedOn(Less, Nat)
  BY NatLessThanWellFounded DEF OpToRel
<1>2. \A x, y \in Nat : <<y, x>> \in Less <=> y < x
  OBVIOUS
<1> HIDE DEF Less
<1>3. \E x \in T : \A y \in T : ~(<<y, x>> \in Less)
  BY <1>1, WFMin
<1>4. PICK n \in T : \A y \in T : ~(<<y, n>> \in Less)
  BY <1>3
<1>5. ASSUME NEW y \in T
      PROVE  n <= y
  <2>1. ~(y < n)
    BY <1>2, <1>4
  <2>. QED BY <2>1
<1>. QED BY <1>5

\* So a runnable run means that there is an oldest one.
LEMMA OldestExists ==
    ASSUME NEW s, NEW m, OldestQueued(s, m) = {}
    PROVE  \A r \in Runs : MonOf[r] = m => ~Runnable(s, r)
<1> DEFINE T == {r \in Runs : MonOf[r] = m /\ Runnable(s, r)}
<1>1. SUFFICES ASSUME T # {} PROVE FALSE
  OBVIOUS
<1>2. T \in SUBSET Nat
  BY RunsAssumption
<1>3. PICK r \in T : \A q \in T : r <= q
  BY <1>1, <1>2, LeastNumber
<1>4. r \in OldestQueued(s, m)
  BY <1>3 DEF OldestQueued, IsOldestQueued
<1>. QED BY <1>4

\* The runs of another Mon say of it what they said.
LEMMA ServedElsewhere ==
    ASSUME NEW s \in State, NEW t \in State, NEW r \in Runs, Others(s, t, r),
           NEW n, n # MonOf[r], n \in t.resume <=> n \in s.resume, Served(s, n)
    PROVE  Served(t, n)
<1>1. ASSUME NEW q \in Runs, MonOf[q] = n
      PROVE  /\ t.run[q] = s.run[q] /\ t.att[q] = s.att[q] /\ (q \in t.slots <=> q \in s.slots)
             /\ q \in t.timers <=> q \in s.timers
             /\ \A w : w.run = q => (w \in t.pending <=> w \in s.pending)
  BY <1>1 DEF Others, Same
<1>2. ActiveRunIds(t, n) = ActiveRunIds(s, n)
  BY <1>1 DEF ActiveRunIds
<1>3. Full(s, n) => Full(t, n)
  BY <1>2 DEF Full
<1>4. Awaited(s, n) => Awaited(t, n)
  <2>1. s.timers \subseteq Runs /\ \A w \in s.pending : w.run \in Runs
    BY DEF State, Pending
  <2>. QED BY <1>1, <2>1 DEF Awaited
<1>5. \A q \in Runs : MonOf[q] = n => (Runnable(t, q) <=> Runnable(s, q))
  BY <1>1 DEF Runnable, InBackoff
<1>. QED BY <1>3, <1>4, <1>5 DEF Served

LEMMA WokenElsewhere ==
    ASSUME NEW s, NEW t, NEW r, AllWoken(s), Others(s, t, r), t.service = s.service, Woken(t, r)
    PROVE  AllWoken(t)
BY DEF AllWoken, Woken, Others, Same, InBackoff

\* The head of a handler that writes run r and goes on to dispatch its Mon.
LEMMA HeadWakeful ==
    ASSUME NEW s \in State, NEW t \in State, NEW r \in Runs, Wakeful(s), Others(s, t, r),
           t.service = s.service, t.resume = s.resume, Woken(t, r)
    PROVE  WakefulBut(t, MonOf[r])
<1>1. AllWoken(t)
  BY WokenElsewhere DEF Wakeful
<1>2. ASSUME t.service = "up", NEW n \in Mons, n # MonOf[r]
      PROVE  Served(t, n)
  BY <1>2, ServedElsewhere DEF Wakeful
<1>. QED BY <1>1, <1>2 DEF WakefulBut

\* The dispatch itself: it finds nothing, or a full Mon, or leaves a launch that will go on.
LEMMA DispatchWakeful ==
    ASSUME PlainLaunches, NEW s, Sound(s), s.pending = {}, NEW m, WakefulBut(s, m),
           NEW launch \in Launches, NEW caller \in Caller \ {"start"},
           NEW reserved \in Runs \cup {0}, NEW t, t = Dispatch(s, m, launch, caller, reserved)
    PROVE  t \in State /\ Wakeful(t)
<1>1. \/ t = s /\ OldestQueued(s, m) = {}
      \/ \E r \in Runs : Takes(s, t, m, r, caller)
  BY DispatchTakes
<1>2. ASSUME t = s, OldestQueued(s, m) = {}
      PROVE  Wakeful(t)
  <2>1. Served(t, m)
    BY <1>2, OldestExists DEF Served
  <2>. QED BY <1>2, <2>1 DEF WakefulBut, Wakeful
<1>3. ASSUME NEW r \in Runs, Takes(s, t, m, r, caller)
      PROVE  Wakeful(t)
  <2>1. MonOf[r] = m
    BY <1>3 DEF Takes
  <2>2. CASE t = s /\ ~CanReserve(s, r)
    <3>1. Served(t, m)
      BY <2>1, <2>2 DEF CanReserve, Full, Served
    <3>. QED BY <2>2, <3>1 DEF WakefulBut, Wakeful
  <2>3. CASE Begun(s, t, r, caller)
    <3>1. /\ t \in State /\ s \in State /\ t.service = s.service /\ t.resume = s.resume
          /\ Others(s, t, r) /\ t.run[r].status = "starting" /\ r \notin t.timers
      BY <2>3 DEF Begun, Launched, Sound
    <3>2. AllWoken(t)
      <4>1. Woken(t, r)
        BY <3>1 DEF Woken
      <4>. QED BY <3>1, <4>1, WokenElsewhere DEF WakefulBut
    <3>3. Served(t, m)
      BY <2>1, <2>3 DEF Begun, Served, Awaited
    <3>4. ASSUME t.service = "up", NEW n \in Mons, n # m
          PROVE  Served(t, n)
      BY <2>1, <3>1, <3>4, ServedElsewhere DEF WakefulBut
    <3>. QED BY <3>2, <3>3, <3>4 DEF Wakeful
  <2>. QED BY <1>3, <2>2, <2>3 DEF Takes
<1>4. t \in State
  BY <1>1 DEF Takes, Begun, Launched, Sound
<1>. QED BY <1>1, <1>2, <1>3, <1>4

\* A write to run r after which nobody dispatches: it gives no slot away, disarms no timer
\* and makes no run runnable that has none.
LEMMA WriteWakeful ==
    ASSUME NEW s \in State, NEW t \in State, NEW r \in Runs, Wakeful(s), Others(s, t, r),
           t.service = s.service, t.resume = s.resume,
           \A w \in s.pending : w.caller # "start" \/ w.rejected => w \in t.pending,
           Holds(t, r) <=> Holds(s, r),
           r \in s.timers => r \in t.timers,
           s.service = "up" /\ Runnable(t, r) => Runnable(s, r) \/ r \in t.timers,
           Woken(t, r)
    PROVE  Wakeful(t)
<1>1. AllWoken(t)
  BY WokenElsewhere DEF Wakeful
<1> SUFFICES ASSUME t.service = "up", NEW m \in Mons
             PROVE  Served(t, m)
  BY <1>1 DEF Wakeful
<1>2. Served(s, m)
  BY DEF Wakeful
<1>3. CASE m # MonOf[r]
  BY <1>2, <1>3, ServedElsewhere
<1>4. CASE m = MonOf[r]
  <2>1. ActiveRunIds(t, m) = ActiveRunIds(s, m)
    <3>1. \A q \in Runs : Holds(t, q) <=> Holds(s, q)
      BY DEF Others, Same, Holds
    <3>. QED BY <3>1 DEF ActiveRunIds, Holds
  <2>2. Full(s, m) => Full(t, m)
    BY <2>1 DEF Full
  <2>3. Awaited(s, m) => Awaited(t, m)
    <3>1. s.timers \subseteq t.timers
      BY DEF Others, State
    <3>. QED BY <3>1 DEF Awaited
  <2>4. ASSUME \A q \in Runs : MonOf[q] = m => ~Runnable(s, q), ~Awaited(t, m)
        PROVE  \A q \in Runs : MonOf[q] = m => ~Runnable(t, q)
    <3>1. ~Runnable(t, r)
      BY <1>4, <2>4 DEF Awaited
    <3>2. ASSUME NEW q \in Runs, q # r, MonOf[q] = m
          PROVE  ~Runnable(t, q)
      BY <2>4, <3>2 DEF Others, Same, Runnable, InBackoff
    <3>. QED BY <3>1, <3>2
  <2>. QED BY <1>2, <2>2, <2>3, <2>4 DEF Served
<1>. QED BY <1>3, <1>4

\* A handler that keeps the status, the attempts, the slot and the timer of its run.
LEMMA StatusWakeful ==
    ASSUME NEW s \in State, NEW t, NEW r \in Runs, NEW F, Wakeful(s), Wrote(s, t, r, F),
           F \cap {"att", "slots", "timers"} = {}, t.run[r].status = s.run[r].status
    PROVE  Wakeful(t)
<1>1. /\ t \in State /\ t.service = s.service /\ t.resume = s.resume /\ Others(s, t, r)
      /\ t.pending = s.pending /\ t.att[r] = s.att[r]
      /\ (r \in t.slots <=> r \in s.slots) /\ (r \in t.timers <=> r \in s.timers)
  BY DEF Wrote
<1>2. Woken(s, r)
  BY DEF Wakeful, AllWoken
<1>3. Woken(t, r)
  BY <1>1, <1>2 DEF Woken, InBackoff
<1>4. (Holds(t, r) <=> Holds(s, r)) /\ (Runnable(t, r) <=> Runnable(s, r))
  BY <1>1 DEF Holds, Runnable, InBackoff
<1>. QED BY <1>1, <1>3, <1>4, WriteWakeful

\* The next state is the committed one.
LEMMA CommitWakeful ==
    ASSUME NEW t \in State, Commit(t), Wakeful(t)
    PROVE  Wakeful(st')
<1>1. st' = t
  BY DEF State, Commit, st
<1>. QED BY <1>1

\* So a handler whose head leaves only its own Mon in doubt, and that then dispatches it,
\* loses no wake-up.
LEMMA DispatchedWakeful ==
    ASSUME PlainLaunches, NEW s, Sound(s), s.pending = {}, NEW m, WakefulBut(s, m),
           NEW launch \in Launches, NEW caller \in Caller \ {"start"},
           NEW reserved \in Runs \cup {0}, Commit(Dispatch(s, m, launch, caller, reserved))
    PROVE  Wakeful(st')
<1> DEFINE t == Dispatch(s, m, launch, caller, reserved)
<1>1. t = Dispatch(s, m, launch, caller, reserved) /\ Commit(t)
  OBVIOUS
<1> HIDE DEF t
<1>. QED BY <1>1, DispatchWakeful, CommitWakeful

-----------------------------------------------------------------------------
(* What each handler leaves to be woken *)

\* The end of an attempt leaves its run finished, or waiting for its timer.
LEMMA HaltsWakeful ==
    ASSUME PlainLaunches, NEW s \in State, Wakeful(s), NEW u, NEW m, NEW r \in Runs,
           Halts(s, u, m, r), NEW launch \in Launches, Commit(DispatchMonOf(m, r, launch))
    PROVE  Wakeful(st')
<1>1. /\ Sound(m) /\ m.pending = {} /\ Others(s, m, r) /\ m \in State
      /\ m.resume = s.resume /\ m.service = s.service
  BY HaltsSound DEF Sound
<1>2. Woken(m, r)
  BY DEF Halts, Ended, Woken
<1>3. WakefulBut(m, MonOf[r])
  BY <1>1, <1>2, HeadWakeful
<1>4. Commit(Dispatch(m, MonOf[r], launch, "void", 0)) /\ "void" \in Caller \ {"start"}
  BY DEF DispatchMonOf, Caller
<1>. QED BY <1>1, <1>3, <1>4, DispatchedWakeful

LEMMA ProcessExitWakeful ==
    ASSUME PlainLaunches, Sound(st), Wakeful(st), NEW r \in Runs, NEW k, NEW exit \in Exit,
           NEW sign, NEW launch \in Launches, ProcessExit(r, k, exit, sign, launch)
    PROVE  Wakeful(st')
<1>1. PICK u, m : Halts(st, u, m, r) /\ Commit(DispatchMonOf(m, r, launch))
  BY ProcessExitHead
<1>. QED BY <1>1, HaltsWakeful DEF Sound

LEMMA RejectionWakeful ==
    ASSUME PlainLaunches, Good(st), Sound(st), Wakeful(st), NEW w \in st.pending, w.rejected,
           NEW sign, NEW launch \in Launches, Continue(w, sign, launch)
    PROVE  Wakeful(st')
<1>1. PICK u, m : /\ w.run \in Runs /\ Halts(st, u, m, w.run)
                  /\ Commit(DispatchMonOf(m, w.run, launch))
  BY RejectionHead
<1>. QED BY <1>1, HaltsWakeful DEF Sound

\* A launch that goes on writes a run that keeps its slot; unless a request started the run
\* by name, the loop that launched it takes its next turn.
LEMMA ActivationWakeful ==
    ASSUME PlainLaunches, Sound(st), Wakeful(st), NEW w \in st.pending, ~w.rejected,
           NEW sign, NEW launch \in Launches, Continue(w, sign, launch)
    PROVE  Wakeful(st')
<1> DEFINE r == w.run
<1>1. /\ r \in Runs /\ st.run[r].status = "starting" /\ st \in State
      /\ w.caller \in Caller /\ w.reserved \in Runs \cup {0}
  BY ContinueHead DEF Sound, State, Pending
<1>2. PICK u, m :
         /\ u.run = st.run /\ u.att = st.att /\ u.ext = st.ext /\ u.slots = st.slots
         /\ u.procs = st.procs /\ u.timers = st.timers /\ u.resume = st.resume
         /\ u.service = st.service /\ u.pending = {}
         /\ Others(st, u, r) /\ Activated(u, m, r, w.attempt)
         /\ Sound(m) /\ m.pending = {}
         /\ Commit(IF w.caller = "start" THEN m
                   ELSE Dispatch(m, MonOf[r], launch, w.caller, w.reserved))
  BY ContinueHead
<1>a. \A v \in st.pending : v = w
  BY PlainIsCalm DEF Sound
<1> HIDE DEF r
<1>3. /\ Others(st, m, r) /\ m.run[r].status = "active" /\ m \in State
      /\ m.resume = st.resume /\ m.service = st.service
      /\ (r \in m.slots <=> r \in st.slots) /\ (r \in m.timers <=> r \in st.timers)
  BY <1>2 DEF Activated, Wrote, Others, Same
<1>4. r \notin m.timers /\ Woken(m, r)
  BY <1>1, <1>3 DEF Wakeful, AllWoken, Woken
<1>5. CASE w.caller = "start"
  <2>1. Holds(m, r) /\ Holds(st, r) /\ ~Runnable(m, r)
    BY <1>1, <1>3 DEF Holds, ProcessBacked, Runnable
  <2>2. Wakeful(m)
    BY <1>1, <1>3, <1>4, <1>5, <1>a, <2>1, WriteWakeful
  <2>. QED BY <1>2, <1>3, <1>5, <2>2, CommitWakeful
<1>6. CASE w.caller # "start"
  <2>1. WakefulBut(m, MonOf[r])
    BY <1>1, <1>3, <1>4, HeadWakeful
  <2>2. Commit(Dispatch(m, MonOf[r], launch, w.caller, w.reserved))
    BY <1>2, <1>6
  <2>. QED BY <1>1, <1>2, <1>6, <2>1, <2>2, DispatchedWakeful
<1>. QED BY <1>5, <1>6

\* A timer that fires is not armed any more, and the run is due.
LEMMA RetryWakeWakeful ==
    ASSUME PlainLaunches, ~EarlyWake, Sound(st), Wakeful(st), NEW r \in Runs,
           NEW launch \in Launches, RetryWake(r, launch)
    PROVE  Wakeful(st')
<1>1. PICK m : /\ Sound(m) /\ m.pending = {} /\ Wrote(st, m, r, {"timers"}) /\ r \notin m.timers
               /\ Commit(Dispatch(m, MonOf[r], launch, "caught", 0))
  BY RetryWakeHead
<1>2. /\ st \in State /\ m \in State /\ Others(st, m, r) /\ m.att[r] = st.att[r]
      /\ m.resume = st.resume /\ m.service = st.service
  BY <1>1 DEF Sound, Wrote
<1>3. ~InBackoff(m, r)
  <2>1. ~InBackoff(st, r)
    BY DEF RetryWake
  <2>. QED BY <1>2, <2>1 DEF InBackoff
<1>4. WakefulBut(m, MonOf[r])
  BY <1>1, <1>2, <1>3, HeadWakeful DEF Woken
<1>. QED BY <1>1, <1>4, DispatchedWakeful DEF Caller

\* A Mon that leaves the list made on startup is dispatched.
LEMMA ResumeMonWakeful ==
    ASSUME PlainLaunches, Sound(st), Wakeful(st), NEW mon \in Mons, NEW launch \in Launches,
           ResumeMon(mon, launch)
    PROVE  Wakeful(st')
<1>1. PICK m : /\ Sound(m) /\ m.pending = {} /\ m.resume = st.resume \ {mon}
               /\ m.timers = st.timers /\ m.service = st.service
               /\ \A q \in Runs : Same(st, m, q)
               /\ Commit(Dispatch(m, mon, launch, "caught", 0))
  BY ResumeMonHead
<1>2. AllWoken(m)
  BY <1>1 DEF Wakeful, AllWoken, Woken, InBackoff, Same
<1>3. ASSUME m.service = "up", NEW n \in Mons, n # mon
      PROVE  Served(m, n)
  <2>1. Served(st, n)
    BY <1>1, <1>3 DEF Wakeful
  <2>2. ActiveRunIds(m, n) = ActiveRunIds(st, n)
    BY <1>1 DEF ActiveRunIds, Same
  <2>3. Awaited(st, n) => Awaited(m, n)
    <3>1. \A w \in st.pending : w.run \in Runs
      BY DEF Sound, State, Pending
    <3>. QED BY <1>1, <1>3, <3>1 DEF Awaited, Same
  <2>4. \A q \in Runs : Runnable(m, q) <=> Runnable(st, q)
    BY <1>1 DEF Runnable, InBackoff, Same
  <2>. QED BY <2>1, <2>2, <2>3, <2>4 DEF Served, Full
<1>4. WakefulBut(m, mon)
  BY <1>2, <1>3 DEF WakefulBut
<1>. QED BY <1>1, <1>4, DispatchedWakeful DEF Caller

\* A run that is inserted has no attempt, no slot and no timer; its own Mon may need a
\* dispatch for it.
LEMMA InsertedWakeful ==
    ASSUME PlainLaunches, Sound(st), Wakeful(st), NEW r \in Runs, NEW m, NEW F,
           F \subseteq {"run", "ext"}, Sound(m), Wrote(st, m, r, F),
           st.run[r].status = "none", m.run[r] = QueuedRow, st.pending = {}
    PROVE  /\ WakefulBut(m, MonOf[r]) /\ Woken(m, r) /\ Runnable(m, r)
           /\ r \notin m.timers /\ r \notin m.slots
           /\ ActiveRunIds(m, MonOf[r]) = ActiveRunIds(st, MonOf[r])
<1>1. /\ st \in State /\ m \in State /\ Others(st, m, r) /\ m.att[r] = st.att[r]
      /\ m.resume = st.resume /\ m.service = st.service
      /\ (r \in m.slots <=> r \in st.slots) /\ (r \in m.timers <=> r \in st.timers)
      /\ m.run[r].status = "queued"
  BY DEF Sound, Wrote, QueuedRow, NoRow
<1>2. m.att[r] = << >> /\ r \notin st.slots
  <2>1. Book(st, r) /\ Known(st, r) /\ Calm(st, r)
    BY PlainIsCalm DEF Sound, Fine
  <2>2. Dead(st, r)
    BY <2>1 DEF Known
  <2>. QED BY <1>1, <2>1, <2>2 DEF Book, Calm
<1>3. r \notin m.timers
  BY <1>1 DEF Wakeful, AllWoken, Woken
<1>4. Woken(m, r) /\ Runnable(m, r)
  BY <1>1, <1>2, <1>3 DEF Woken, Runnable, InBackoff
<1>5. WakefulBut(m, MonOf[r])
  BY <1>1, <1>4, HeadWakeful
<1>6. ActiveRunIds(m, MonOf[r]) = ActiveRunIds(st, MonOf[r])
  <2>1. \A q \in Runs : Holds(m, q) <=> Holds(st, q)
    BY <1>1 DEF Others, Same, Holds, ProcessBacked
  <2>. QED BY <2>1 DEF ActiveRunIds, Holds
<1>. QED BY <1>1, <1>2, <1>3, <1>4, <1>5, <1>6

LEMMA ReserveWakeful ==
    ASSUME PlainLaunches, Sound(st), Wakeful(st), NEW r \in Runs, NEW launch \in Launches,
           ReserveExternalRun(r, launch)
    PROVE  Wakeful(st')
<1>1. PICK m : /\ Sound(m) /\ m.pending = {} /\ Wrote(st, m, r, {"run", "ext"})
               /\ st.run[r].status = "none" /\ st.pending = {}
               /\ m.run[r] = QueuedRow
               /\ Commit(Dispatch(m, MonOf[r], launch, "reserve", r))
  BY ReserveHead
<1>2. WakefulBut(m, MonOf[r])
  BY <1>1, InsertedWakeful
<1>. QED BY <1>1, <1>2, DispatchedWakeful DEF Caller

\* The start of a run that has just been inserted: it is declined because its Mon is full or
\* because an older run is due, for which something was under way already.
LEMMA StartWakeful ==
    ASSUME PlainLaunches, Sound(st), Wakeful(st), NEW r \in Runs, NEW m,
           Sound(m), m.pending = {}, Wrote(st, m, r, {"run"}),
           st.run[r].status = "none", m.run[r] = QueuedRow, NEW launch \in Launches,
           NEW t, t = StartRun(m, r, launch, "start", 0)
    PROVE  t \in State /\ Wakeful(t)
<1> DEFINE mon == MonOf[r]
<1>1. /\ WakefulBut(m, mon) /\ Runnable(m, r) /\ r \notin m.timers /\ r \notin m.slots
      /\ ActiveRunIds(m, mon) = ActiveRunIds(st, mon)
      /\ Others(st, m, r) /\ m.resume = st.resume /\ m.service = st.service
      /\ m \in State /\ st \in State /\ mon \in Mons /\ st.pending = {}
  <2>1. /\ Others(st, m, r) /\ m.resume = st.resume /\ m.service = st.service
        /\ m \in State /\ st \in State /\ st.pending = {}
    BY DEF Wrote, Sound
  <2>2. mon \in Mons
    BY MonAssumption
  <2>3. {"run"} \subseteq {"run", "ext"}
    OBVIOUS
  <2>. QED BY <2>1, <2>2, <2>3, InsertedWakeful
<1>2. \/ t = m /\ ~(IsOldestQueued(m, r) /\ CanReserve(m, r))
      \/ Begun(m, t, r, "start")
  BY StartRunSound, PlainIsCalm DEF Caller
<1>3. m.service = "up" => Served(st, mon)
  BY <1>1 DEF Wakeful
<1>4. Awaited(st, mon) => \/ \E q \in m.timers \ {r} : MonOf[q] = mon
                          \/ mon \in m.resume
  <2>1. st.timers \subseteq Runs /\ r \notin st.timers
    BY <1>1 DEF State, Wakeful, AllWoken, Woken
  <2>. QED BY <1>1, <2>1 DEF Awaited, Others
<1>5. \A q \in Runs : q # r => (Runnable(m, q) <=> Runnable(st, q))
  BY <1>1 DEF Others, Same, Runnable, InBackoff
<1>6. CASE ~CanReserve(m, r)
  <2>1. t = m
    BY <1>6 DEF StartRun
  <2>2. Served(m, mon)
    BY <1>6 DEF CanReserve, Full, Served
  <2>. QED BY <1>1, <2>1, <2>2 DEF WakefulBut, Wakeful
<1>7. CASE CanReserve(m, r) /\ t = m /\ ~IsOldestQueued(m, r)
  <2>1. m.service = "up" => Served(m, mon)
    <3>1. PICK q \in Runs : MonOf[q] = mon /\ Runnable(m, q) /\ ~(r <= q)
      BY <1>1, <1>7 DEF IsOldestQueued
    <3>2. q # r
      BY <3>1, RunsAssumption
    <3>3. Runnable(st, q)
      BY <1>5, <3>1, <3>2
    <3>4. Full(st, mon) => Full(m, mon)
      BY <1>1 DEF Full
    <3>5. Awaited(st, mon) => Awaited(m, mon)
      BY <1>4 DEF Awaited
    <3>. QED BY <1>3, <3>1, <3>3, <3>4, <3>5 DEF Served
  <2>. QED BY <1>1, <1>7, <2>1 DEF WakefulBut, Wakeful
<1>8. CASE CanReserve(m, r) /\ Begun(m, t, r, "start")
  <2>1. /\ t \in State /\ t.service = m.service /\ t.resume = m.resume /\ Others(m, t, r)
        /\ t.run[r].status = "starting" /\ r \notin t.timers
    BY <1>8 DEF Begun, Launched
  <2>2. AllWoken(t)
    <3>1. Woken(t, r)
      BY <2>1 DEF Woken
    <3>. QED BY <1>1, <2>1, <3>1, WokenElsewhere DEF WakefulBut
  <2>3. ASSUME t.service = "up", NEW n \in Mons, n # mon
        PROVE  Served(t, n)
    BY <1>1, <2>1, <2>3, ServedElsewhere DEF WakefulBut
  <2>4. t.service = "up" => Served(t, mon)
    <3>1. ~Full(st, mon)
      BY <1>1, <1>8 DEF CanReserve, Full
    <3>2. Awaited(st, mon) => Awaited(t, mon)
      <4>1. m.timers \subseteq Runs
        BY <1>1 DEF State
      <4>. QED BY <1>4, <2>1, <4>1 DEF Awaited, Others
    <3>3. ~Runnable(t, r)
      BY <2>1 DEF Runnable
    <3>4. \A q \in Runs : q # r => (Runnable(t, q) <=> Runnable(m, q))
      BY <2>1 DEF Others, Same, Runnable, InBackoff
    <3>. QED BY <1>3, <1>5, <2>1, <3>1, <3>2, <3>3, <3>4 DEF Served
  <2>. QED BY <2>1, <2>2, <2>3, <2>4 DEF Wakeful
<1>. QED BY <1>2, <1>6, <1>7, <1>8

LEMMA CreateWakeful ==
    ASSUME PlainLaunches, Sound(st), Wakeful(st), NEW r \in Runs, NEW launch \in Launches,
           CreateOperatorRun(r, launch)
    PROVE  Wakeful(st')
<1>1. PICK m : /\ r \notin External /\ Sound(m) /\ m.pending = {} /\ Wrote(st, m, r, {"run"})
               /\ st.run[r].status = "none" /\ m.run[r] = QueuedRow
               /\ \/ Commit(Dispatch(m, MonOf[r], launch, "caught", 0))
                  \/ Commit(StartRun(m, r, launch, "start", 0))
  BY CreateHead
<1>2. CASE Commit(Dispatch(m, MonOf[r], launch, "caught", 0))
  <2>1. st.pending = {} /\ {"run"} \subseteq {"run", "ext"}
    BY <1>1 DEF Wrote
  <2>2. WakefulBut(m, MonOf[r])
    BY <1>1, <2>1, InsertedWakeful
  <2>. QED BY <1>1, <1>2, <2>2, DispatchedWakeful DEF Caller
<1>3. CASE Commit(StartRun(m, r, launch, "start", 0))
  <2> DEFINE t == StartRun(m, r, launch, "start", 0)
  <2>1. t = StartRun(m, r, launch, "start", 0) /\ Commit(t)
    BY <1>3
  <2> HIDE DEF t
  <2>2. t \in State /\ Wakeful(t)
    BY <1>1, <2>1, StartWakeful
  <2>. QED BY <2>1, <2>2, CommitWakeful
<1>. QED BY <1>1, <1>2, <1>3

\* A handler that finishes a run between two others: a run with a process keeps its slot until
\* the process ends, and no other run has one.
LEMMA FinishWakeful ==
    ASSUME PlainLaunches, Good(st), Sound(st), Wakeful(st), Quiet, NEW r \in Runs, NEW t, NEW F,
           Wrote(st, t, r, F), t.run[r].status = "finished", "att" \notin F,
           r \in t.slots => r \in st.slots,
           st.running[r].attempt # 0 => (r \in t.slots <=> r \in st.slots),
           \/ st.run[r].status \in ProcessBacked
           \/ {"slots", "timers"} \cap F = {}
    PROVE  t \in State /\ Wakeful(t)
<1>1. /\ st \in State /\ t \in State /\ t.service = st.service /\ t.resume = st.resume
      /\ Others(st, t, r) /\ t.pending = st.pending /\ st.pending = {}
  BY QuietFields DEF Wrote
<1>2. Known(st, r) /\ Calm(st, r) /\ Woken(st, r)
  BY PlainIsCalm DEF Sound, Fine, Wakeful, AllWoken
<1>3. st.run[r].status \in ProcessBacked => /\ r \in st.slots /\ r \in t.slots /\ r \notin st.timers
  <2> SUFFICES ASSUME st.run[r].status \in ProcessBacked
               PROVE  /\ r \in st.slots /\ r \in t.slots /\ r \notin st.timers
    OBVIOUS
  <2>1. st.run[r].status = "active"
    BY <1>1, <1>2 DEF Calm, ProcessBacked
  <2>2. <<r, st.running[r].attempt>> \in st.procs /\ st.running[r].attempt # 0
    BY <1>2, <2>1 DEF Calm
  <2>3. r \in st.slots
    BY <2>2 DEF Good, GoodBut, ProcessOwned
  <2>. QED BY <1>2, <2>1, <2>2, <2>3 DEF Woken
<1>4. Holds(t, r) <=> Holds(st, r)
  BY <1>3 DEF Holds, ProcessBacked, Wrote
<1>5. r \in st.timers => r \in t.timers
  BY <1>3 DEF Wrote
<1>6. Woken(t, r) /\ ~Runnable(t, r)
  BY DEF Woken, Runnable
<1>. QED BY <1>1, <1>4, <1>5, <1>6, WriteWakeful

LEMMA StopRequestWakeful ==
    ASSUME PlainLaunches, Good(st), Sound(st), Wakeful(st), NEW r \in Runs, StopRequest(r)
    PROVE  Wakeful(st')
<1>1. PICK t : /\ Quiet /\ Commit(t)
               /\ Wrote(st, t, r, {"run", "running", "slots", "asg", "timers"})
               /\ t.run[r].status = "finished"
               /\ r \in t.slots => r \in st.slots
               /\ st.running[r].attempt # 0 => (r \in t.slots <=> r \in st.slots)
  BY StopRequestWrites
<1>2. st.run[r].status \in ProcessBacked
  BY StFields DEF StopRequest
<1>3. t \in State /\ Wakeful(t)
  BY <1>1, <1>2, FinishWakeful
<1>. QED BY <1>1, <1>3, CommitWakeful

LEMMA VerdictWakeful ==
    ASSUME PlainLaunches, Good(st), Sound(st), Wakeful(st), Quiet, NEW r \in Runs,
           st.run[r].status # "none", NEW row \in RunRow, row.status = "finished",
           NEW outcome \in {"completed", "failed", "stopped"},
           Commit(UpdateAssignment([st EXCEPT !.run[r] = Reviewed(row, outcome)],
                                   r, ReviewedAssignment(outcome)))
    PROVE  Wakeful(st')
<1>1. PICK t : /\ Commit(t) /\ Wrote(st, t, r, {"run", "asg"})
               /\ t.run[r].status = "finished"
  BY VerdictWrites
<1>2. r \in t.slots <=> r \in st.slots
  BY <1>1 DEF Wrote
<1>3. t \in State /\ Wakeful(t)
  BY <1>1, <1>2, FinishWakeful
<1>. QED BY <1>1, <1>3, CommitWakeful

LEMMA CloseRequestWakeful ==
    ASSUME PlainLaunches, Good(st), Sound(st), Wakeful(st), NEW r \in Runs,
           NEW outcome \in {"completed", "failed", "stopped"}, CloseRequest(r, outcome)
    PROVE  Wakeful(st')
<1> DEFINE exit == IF outcome = "failed" THEN "nonzero" ELSE "clean"
           row == IF run[r].status = "finished" THEN run[r] ELSE FinishRunFromExit(run[r], exit)
<1>1. Quiet /\ st.run[r] = run[r] /\ run[r].status # "none" /\ run[r] \in RunRow
  BY StFields DEF CloseRequest, Sound, State
<1>2. Commit(UpdateAssignment([st EXCEPT !.run[r] = Reviewed(row, outcome)],
                              r, ReviewedAssignment(outcome)))
  BY DEF CloseRequest
<1>3. row \in RunRow /\ row.status = "finished"
  BY <1>1, RowTypes
<1> HIDE DEF row
<1>. QED BY <1>1, <1>2, <1>3, VerdictWakeful

LEMMA ReviewRequestWakeful ==
    ASSUME PlainLaunches, Good(st), Sound(st), Wakeful(st), NEW r \in Runs,
           NEW outcome \in {"completed", "failed", "stopped"}, ReviewRequest(r, outcome)
    PROVE  Wakeful(st')
<1> DEFINE row == st.run[r]
<1>1. Quiet /\ row \in RunRow /\ row.status = "finished" /\ st.run[r].status # "none"
  BY StFields DEF ReviewRequest, Sound, State
<1>2. Commit(UpdateAssignment([st EXCEPT !.run[r] = Reviewed(row, outcome)],
                              r, ReviewedAssignment(outcome)))
  BY DEF ReviewRequest
<1> HIDE DEF row
<1>. QED BY <1>1, <1>2, VerdictWakeful

\* A queued run is cancelled, after its execution was if it has one, and its Mon dispatched.
LEMMA CancelWakeful ==
    ASSUME PlainLaunches, Sound(st), Wakeful(st), Quiet, NEW r \in Runs,
           st.run[r].status = "queued", NEW launch \in Launches,
           NEW a, Wrote(st, a, r, {"ext"}),
           \/ a.ext[r] = st.ext[r]
           \/ /\ ExtOpen(st, r) /\ a.ext[r].phase = "terminal"
              /\ a.ext[r].outcome # "succeeded",
           Commit(CancelRun(a, r, launch))
    PROVE  Wakeful(st')
<1>1. a \in State /\ st \in State
  BY DEF Wrote, Sound
<1>2. PICK m : /\ CancelRun(a, r, launch) = Dispatch(m, MonOf[r], launch, "void", 0)
               /\ Wrote(a, m, r, {"run", "slots", "asg", "timers"})
               /\ m.run[r].status = "finished" /\ r \notin m.slots
               /\ m.asg[r] = Assigned(a.asg[r], AssignmentStatusFor(m.run[r]))
  BY <1>1, CancelRunWrites
<1>3. Wrote(st, m, r, {"ext", "run", "slots", "asg", "timers"})
  BY <1>2, WroteTwice
<1>4. /\ m.ext[r] = a.ext[r] /\ m.att[r] = st.att[r] /\ m.running[r] = st.running[r]
      /\ a.asg[r] = st.asg[r] /\ Others(st, m, r)
      /\ m.resume = st.resume /\ m.service = st.service
  BY <1>2, <1>3 DEF Wrote
<1>5. Sound(m) /\ m.pending = {}
  BY <1>2, <1>3, <1>4, FinishedKeeps
<1>6. Woken(m, r)
  BY <1>2 DEF Woken
<1>7. WakefulBut(m, MonOf[r])
  BY <1>1, <1>4, <1>5, <1>6, HeadWakeful DEF Sound
<1>. QED BY <1>2, <1>5, <1>7, DispatchedWakeful DEF Caller

LEMMA CancelRequestWakeful ==
    ASSUME PlainLaunches, Sound(st), Wakeful(st), NEW r \in Runs, NEW launch \in Launches,
           CancelRequest(r, launch)
    PROVE  Wakeful(st')
<1>1. Quiet /\ st.run[r].status = "queued" /\ Commit(CancelRun(st, r, launch))
  BY StFields DEF CancelRequest
<1>2. Wrote(st, st, r, {"ext"})
  <2>1. Wrote(st, st, r, {})
    BY WroteNothing DEF Sound
  <2>. QED BY <2>1 DEF Wrote
<1>. QED BY <1>1, <1>2, CancelWakeful

LEMMA CancelExternalWakeful ==
    ASSUME PlainLaunches, Sound(st), Wakeful(st), NEW r \in Runs, NEW launch \in Launches,
           CancelExternalExecution(r, launch)
    PROVE  Wakeful(st')
<1>1. /\ Quiet /\ st \in State
      /\ \/ CancelledQueued(st, r, launch)
         \/ \E t : /\ Commit(t)
                   /\ \/ CancelledAwaiting(st, t, r)
                      \/ CancelledAlready(st, t, r)
                      \/ CancelledRunning(st, t, r)
  BY CancelExternalWrites DEF Sound
<1>2. CASE CancelledQueued(st, r, launch)
  <2>1. PICK a : /\ Wrote(st, a, r, {"ext"}) /\ Commit(CancelRun(a, r, launch))
                 /\ \/ ~ExtOpen(st, r) /\ a.ext[r] = st.ext[r]
                    \/ /\ ExtOpen(st, r) /\ a.ext[r].phase = "terminal"
                       /\ a.ext[r].outcome = "cancelled"
    BY <1>2 DEF CancelledQueued
  <2>2. st.run[r].status = "queued"
    BY <1>2 DEF CancelledQueued
  <2>. QED BY <1>1, <2>1, <2>2, CancelWakeful
<1>3. ASSUME NEW t, Commit(t),
             \/ CancelledAwaiting(st, t, r)
             \/ CancelledAlready(st, t, r)
             \/ CancelledRunning(st, t, r)
      PROVE  Wakeful(st')
  <2>1. \E F : /\ Wrote(st, t, r, F) /\ F \cap {"att", "slots", "timers"} = {}
               /\ t.run[r].status = st.run[r].status
    <3>1. CASE CancelledAwaiting(st, t, r)
      <4>1. Wrote(st, t, r, {"ext", "run"}) /\ t.run[r].status = st.run[r].status
        BY <3>1 DEF CancelledAwaiting
      <4>2. {"ext", "run"} \cap {"att", "slots", "timers"} = {}
        OBVIOUS
      <4>. QED BY <4>1, <4>2
    <3>2. CASE CancelledAlready(st, t, r)
      <4>1. Wrote(st, t, r, {"ext"})
        BY <3>2 DEF CancelledAlready
      <4>2. t.run[r] = st.run[r] /\ {"ext"} \cap {"att", "slots", "timers"} = {}
        BY <4>1 DEF Wrote
      <4>. QED BY <4>1, <4>2
    <3>3. CASE CancelledRunning(st, t, r)
      <4>1. Wrote(st, t, r, {"ext", "running", "run"}) /\ t.run[r].status = st.run[r].status
        BY <3>3 DEF CancelledRunning
      <4>2. {"ext", "running", "run"} \cap {"att", "slots", "timers"} = {}
        OBVIOUS
      <4>. QED BY <4>1, <4>2
    <3>. QED BY <1>3, <3>1, <3>2, <3>3
  <2>2. t \in State /\ Wakeful(t)
    BY <1>1, <2>1, StatusWakeful DEF Wrote
  <2>. QED BY <1>3, <2>2, CommitWakeful
<1>. QED BY <1>1, <1>2, <1>3

\* A step that keeps every status and touches nothing that dispatching depends on.
LEMMA IdleWakeful ==
    ASSUME Wakeful(st), UNCHANGED <<att, slots, timers, resume, pending, service>>,
           \A q \in Runs : run'[q].status = run[q].status
    PROVE  Wakeful(st')
<1>1. /\ st'.att = st.att /\ st'.slots = st.slots /\ st'.timers = st.timers
      /\ st'.resume = st.resume /\ st'.pending = st.pending /\ st'.service = st.service
      /\ \A q \in Runs : st'.run[q].status = st.run[q].status
  BY DEF st
<1> DEFINE t == st'
<1>2. AllWoken(t)
  <2> HIDE DEF t
  <2>1. /\ t.att = st.att /\ t.timers = st.timers /\ t.service = st.service
        /\ \A q \in Runs : t.run[q].status = st.run[q].status
    BY <1>1 DEF t
  <2>. QED BY <2>1 DEF Wakeful, AllWoken, Woken, InBackoff
<1>3. ASSUME t.service = "up", NEW m \in Mons
      PROVE  Served(t, m)
  <2>1. /\ t.att = st.att /\ t.slots = st.slots /\ t.timers = st.timers
        /\ t.resume = st.resume /\ t.pending = st.pending
        /\ \A q \in Runs : t.run[q].status = st.run[q].status
    BY <1>1
  <2>2. Served(st, m)
    BY <1>1, <1>3 DEF Wakeful
  <2> HIDE DEF t
  <2>3. ActiveRunIds(t, m) = ActiveRunIds(st, m)
    BY <2>1 DEF ActiveRunIds
  <2>. QED BY <2>1, <2>2, <2>3 DEF Served, Full, Awaited, Runnable, InBackoff
<1>. QED BY <1>2, <1>3 DEF Wakeful

LEMMA ExpireWakeful ==
    ASSUME Sound(st), Wakeful(st), NEW r \in Runs, ExpireCompletion(r)
    PROVE  Wakeful(st')
<1> DEFINE s == MarkFailedByRun(st, r, "keep")
           row == [s.run[r] EXCEPT !.outcome = "failed", !.outcome_state = "failed",
                                   !.runtime_state = "failed"]
<1>1. Commit([s EXCEPT !.run[r] = row])
  BY DEF ExpireCompletion
<1>2. st \in State /\ run \in [Runs -> RunRow]
  BY StFields DEF Sound, State
<1>3. /\ s.run = run /\ s.att = att /\ s.slots = slots /\ s.timers = timers
      /\ s.resume = resume /\ s.pending = pending /\ s.service = service
  BY StFields, <1>2 DEF MarkFailedByRun, State
<1>4. row.status = run[r].status
  BY <1>2, <1>3 DEF RunRow
<1> HIDE DEF row
<1>5. /\ run' = [run EXCEPT ![r] = row]
      /\ UNCHANGED <<att, slots, timers, resume, pending, service>>
  BY <1>1, <1>2, <1>3 DEF Commit, MarkFailedByRun, State
<1>6. \A q \in Runs : run'[q].status = run[q].status
  BY <1>2, <1>4, <1>5
<1>. QED BY <1>5, <1>6, IdleWakeful

LEMMA CompleteWakeful ==
    ASSUME Sound(st), Wakeful(st), NEW r \in Runs, NEW digest \in Digests,
           CompleteExternalExecution(r, digest)
    PROVE  Wakeful(st')
<1> DEFINE s == RecordCompletion(st, r, digest)
           row == [s.run[r] EXCEPT !.outcome = "completed",
                     !.outcome_state = "succeeded", !.runtime_state = "closed"]
<1>1. Commit(s) \/ Commit([s EXCEPT !.run[r] = row])
  BY DEF CompleteExternalExecution
<1>2. st \in State /\ run \in [Runs -> RunRow]
  BY StFields DEF Sound, State
<1>3. /\ s.run = run /\ s.att = att /\ s.slots = slots /\ s.timers = timers
      /\ s.resume = resume /\ s.pending = pending /\ s.service = service
  BY StFields, <1>2 DEF RecordCompletion, State
<1>4. row.status = run[r].status
  BY <1>2, <1>3 DEF RunRow
<1> HIDE DEF row
<1>5. /\ run' = run \/ run' = [run EXCEPT ![r] = row]
      /\ UNCHANGED <<att, slots, timers, resume, pending, service>>
  BY <1>1, <1>2, <1>3 DEF Commit, RecordCompletion, State
<1>6. \A q \in Runs : run'[q].status = run[q].status
  BY <1>2, <1>4, <1>5
<1>. QED BY <1>5, <1>6, IdleWakeful

\* A retry time that passes makes a run due whose timer is armed.
LEMMA BackoffWakeful ==
    ASSUME st \in State, Wakeful(st), NEW r \in Runs, BackoffElapses(r)
    PROVE  Wakeful(st')
<1> DEFINE t == st'
<1>1. /\ Wrote(st, t, r, {"att"})
      /\ t.att[r][Len(t.att[r])].retry_at = "due"
      /\ InBackoff(st, r)
  BY BackoffWrites DEF BackoffElapses
<1> HIDE DEF t
<1>2. /\ t \in State /\ t.service = st.service /\ t.resume = st.resume /\ Others(st, t, r)
      /\ t.pending = st.pending /\ t.run[r] = st.run[r]
      /\ (r \in t.slots <=> r \in st.slots) /\ (r \in t.timers <=> r \in st.timers)
  BY <1>1 DEF Wrote
<1>3. Woken(st, r)
  BY DEF Wakeful, AllWoken
<1>4. ~InBackoff(t, r)
  BY <1>1 DEF InBackoff
<1>5. Woken(t, r) /\ (st.service = "up" /\ Runnable(t, r) => r \in t.timers)
  BY <1>1, <1>2, <1>3, <1>4 DEF Woken, Runnable
<1>6. Holds(t, r) <=> Holds(st, r)
  BY <1>2 DEF Holds
<1>7. Wakeful(t)
  BY <1>2, <1>5, <1>6, WriteWakeful
<1>. QED BY <1>7 DEF t

LEMMA CrashWakeful ==
    ASSUME Crash
    PROVE  Wakeful(st')
<1>1. st'.timers = {} /\ st'.service = "down"
  BY DEF Crash, st
<1> DEFINE t == st'
<1>2. t.timers = {} /\ t.service = "down"
  BY <1>1
<1> HIDE DEF t
<1>3. Wakeful(t)
  BY <1>2 DEF Wakeful, AllWoken, Woken
<1>. QED BY <1>3 DEF t

\* A run that is lost on startup is finished; timers are armed when the queue is resumed.
LEMMA RestartWakeful ==
    ASSUME Guaranteed(st), Wakeful(st), Restart
    PROVE  Wakeful(st')
<1>1. /\ st \in State /\ Forgotten(st) /\ ~Sheltered
      /\ \A q \in Runs : Book(st, q) /\ Kept(st, q)
  BY StFields DEF Restart, Guaranteed, Good, GoodBut
<1> DEFINE lost == {r \in Runs : run[r].status \in ProcessBacked}
           rows == [r \in Runs |-> IF r \in lost THEN LoseRun(st, r).run[r] ELSE st.run[r]]
           atts == [r \in Runs |-> IF r \in lost THEN LoseRun(st, r).att[r] ELSE st.att[r]]
           exts == [r \in Runs |-> IF r \in lost THEN LoseRun(st, r).ext[r] ELSE st.ext[r]]
           recovered == [st EXCEPT !.run = rows, !.att = atts, !.ext = exts,
                                   !.service = "booting"]
           t == st'
<1>2. Commit(ReleaseOrphans(recovered))
  BY DEF Restart
<1>3. ASSUME NEW q \in Runs
      PROVE  rows[q].status = "finished" \/ rows[q] = st.run[q]
  <2>1. CASE q \in lost
    <3> DEFINE u == LoseRun(st, q)
    <3>1. st.run[q].status \in ProcessBacked /\ rows[q] = u.run[q] /\ u = LoseRun(st, q)
      BY <1>3, <2>1, StFields
    <3> HIDE DEF u, rows
    <3>2. u.run[q].status = "finished"
      BY <1>1, <3>1, LoseRunKeeps
    <3>. QED BY <3>1, <3>2
  <2>2. CASE q \notin lost
    BY <1>3, <2>2
  <2>. QED BY <2>1, <2>2
<1> HIDE DEF rows, atts, exts, lost
<1>4. t.run = rows /\ t.timers = st.timers /\ t.service = "booting"
  <2>1. run' = rows /\ timers' = st.timers /\ service' = "booting"
    BY <1>1, <1>2 DEF Commit, ReleaseOrphans, State
  <2>. QED BY <2>1 DEF st
<1> HIDE DEF t
<1>5. ASSUME NEW q \in Runs
      PROVE  Woken(t, q)
  <2>1. Woken(st, q)
    BY DEF Wakeful, AllWoken
  <2>. QED BY <1>3, <1>4, <2>1 DEF Woken
<1>6. Wakeful(t)
  BY <1>4, <1>5 DEF Wakeful, AllWoken
<1>. QED BY <1>6 DEF t

\* Resuming the queue arms the timers of all that is backing off and lists the Mons of all
\* that is due.
LEMMA ResumeQueuedRunsWakeful ==
    ASSUME Wakeful(st), ResumeQueuedRuns
    PROVE  Wakeful(st')
<1> DEFINE t == st'
<1>1. /\ t.run = st.run /\ t.att = st.att
      /\ t.timers = st.timers \cup {r \in Runs : st.run[r].status = "queued" /\ InBackoff(st, r)}
      /\ t.resume = {MonOf[r] : r \in {q \in Runs : Runnable(st, q)}}
  BY StFields DEF ResumeQueuedRuns, db, st
<1> HIDE DEF t
<1>2. \A r \in Runs : /\ InBackoff(t, r) <=> InBackoff(st, r)
                      /\ Runnable(t, r) <=> Runnable(st, r)
  BY <1>1 DEF InBackoff, Runnable
<1>3. ASSUME NEW r \in Runs
      PROVE  Woken(t, r)
  <2>1. Woken(st, r)
    BY DEF Wakeful, AllWoken
  <2>. QED BY <1>1, <1>2, <2>1 DEF Woken
<1>4. ASSUME NEW m \in Mons
      PROVE  Served(t, m)
  <2>1. ASSUME NEW r \in Runs, MonOf[r] = m, Runnable(t, r)
        PROVE  m \in t.resume
    BY <1>1, <1>2, <2>1
  <2>. QED BY <2>1 DEF Served, Awaited
<1>5. Wakeful(t)
  BY <1>3, <1>4 DEF Wakeful, AllWoken
<1>. QED BY <1>5 DEF t

\* No step of a service that runs loses a wake-up: one lemma for each action.
LEMMA UpWakeful ==
    ASSUME PlainLaunches, DispatcherStarts, Guaranteed(st), Wakeful(st), Next,
           st.service # "down"
    PROVE  Wakeful(st')
<1>1. Good(st) /\ Sound(st) /\ st.pending = pending /\ st \in State /\ ~EarlyWake
  BY StFields DEF Guaranteed, Sound, DispatcherStarts
<1>2. \A launch : LaunchAllowed(launch) => launch \in Launches
  BY DEF LaunchAllowed
<1>3. CASE ServiceStep
  <2>1. ASSUME NEW p \in pending, NEW sign \in Signs, NEW launch \in Launches,
               Continue(p, sign, launch)
        PROVE  Wakeful(st')
    BY <1>1, <2>1, RejectionWakeful, ActivationWakeful
  <2>2. CASE \E m \in Mons, launch \in Launches : LaunchAllowed(launch) /\ ResumeMon(m, launch)
    BY <1>1, <2>2, ResumeMonWakeful
  <2>3. CASE ResumeQueuedRuns
    BY <2>3, ResumeQueuedRunsWakeful
  <2>4. CASE Crash
    BY <2>4, CrashWakeful
  <2>5. CASE Restart
    BY <2>5, RestartWakeful
  <2>. QED BY <1>2, <1>3, <2>1, <2>2, <2>3, <2>4, <2>5 DEF ServiceStep
<1>4. ASSUME NEW r \in Runs, RunStep(r)
      PROVE  Wakeful(st')
  <2>1. ~\E k \in DOMAIN att[r], sign \in Signs, launch \in Launches :
                LaunchAllowed(launch) /\ SpawnError(r, k, sign, launch)
    BY <1>1, PlainIsCalm, StFields DEF SpawnError, Sound, Fine, Calm
  <2>2. CASE \E k \in DOMAIN att[r], sign \in Signs, launch \in Launches, exit \in Exit :
                LaunchAllowed(launch) /\ ProcessExit(r, k, exit, sign, launch)
    BY <1>1, <1>2, <2>2, ProcessExitWakeful
  <2>3. CASE \E launch \in Launches : LaunchAllowed(launch) /\ RetryWake(r, launch)
    BY <1>1, <1>2, <2>3, RetryWakeWakeful
  <2>4. CASE AttemptTimeout(r) \/ KillTimer(r)
    BY <2>4, IdleWakeful DEF AttemptTimeout, KillTimer, db
  <2>5. CASE BackoffElapses(r)
    BY <1>1, <2>5, BackoffWakeful
  <2>6. CASE ExpireCompletion(r)
    BY <1>1, <2>6, ExpireWakeful
  <2>. QED BY <1>4, <2>1, <2>2, <2>3, <2>4, <2>5, <2>6 DEF RunStep
<1>5. ASSUME NEW r \in Runs, Request(r)
      PROVE  Wakeful(st')
  <2>1. ASSUME NEW launch \in Launches,
               \/ CreateOperatorRun(r, launch)
               \/ ReserveExternalRun(r, launch)
               \/ StartRequest(r, launch)
               \/ CancelRequest(r, launch)
               \/ CancelExternalExecution(r, launch)
        PROVE  Wakeful(st')
    <3>1. ~StartRequest(r, launch)
      BY DEF DispatcherStarts, StartRequest
    <3>. QED BY <1>1, <2>1, <3>1, CreateWakeful, ReserveWakeful, CancelRequestWakeful,
                CancelExternalWakeful
  <2>2. ~ActivatePlan(r)
    BY DEF DispatcherStarts, ActivatePlan
  <2>3. CASE StopRequest(r)
    BY <1>1, <2>3, StopRequestWakeful
  <2>4. ASSUME NEW outcome \in {"completed", "failed", "stopped"},
               CloseRequest(r, outcome) \/ ReviewRequest(r, outcome)
        PROVE  Wakeful(st')
    BY <1>1, <2>4, CloseRequestWakeful, ReviewRequestWakeful
  <2>5. ASSUME NEW digest \in Digests, CompleteExternalExecution(r, digest)
        PROVE  Wakeful(st')
    BY <1>1, <2>5, CompleteWakeful
  <2>. QED BY <1>2, <1>5, <2>1, <2>2, <2>3, <2>4, <2>5 DEF Request
<1>. QED BY <1>3, <1>4, <1>5 DEF Next

-----------------------------------------------------------------------------
(* The dispatcher loses no wake-up: theorem *)

WInv == Wakeful(st)

\* Before anything is created there is nothing to wake.
LEMMA InitWakeful == Init => WInv
<1> SUFFICES ASSUME Init PROVE WInv
  OBVIOUS
<1>1. st.timers = {} /\ \A q \in Runs : st.run[q].status = "none"
  BY StFields DEF Init, NoRow
<1>. QED BY <1>1 DEF WInv, Wakeful, AllWoken, Woken, Served, Runnable

LEMMA NextWakeful ==
    ASSUME PlainLaunches, DispatcherStarts, GInv, WInv, [Next]_vars
    PROVE  WInv'
<1>1. Guaranteed(st) /\ Wakeful(st)
  BY DEF GInv, WInv
<1>2. CASE UNCHANGED vars
  <2>1. UNCHANGED <<att, slots, timers, resume, pending, service>> /\ run' = run
    BY <1>2 DEF vars, db
  <2>. QED BY <1>1, <2>1, IdleWakeful DEF WInv
<1>3. CASE Next /\ st.service # "down"
  BY <1>1, <1>3, UpWakeful DEF WInv
<1>4. CASE Next /\ st.service = "down"
  <2>1. CASE Restart
    BY <1>1, <2>1, RestartWakeful DEF WInv
  <2>2. ASSUME NEW r \in Runs, BackoffElapses(r)
        PROVE  Wakeful(st')
    BY <1>1, <2>2, BackoffWakeful DEF Guaranteed, Good, GoodBut
  <2>. QED BY <1>4, <2>1, <2>2, DownSteps DEF WInv
<1>. QED BY <1>2, <1>3, <1>4

\* Between two handlers only timers are left of what a Mon may wait for.
LEMMA WakefulWorks ==
    ASSUME GInv, WInv
    PROVE  WorkConserving
<1> SUFFICES ASSUME Quiet, service = "up", NEW r \in Runs, Runnable(st, r)
             PROVE  \/ Cardinality(ActiveRunIds(st, MonOf[r])) >= Limit[MonOf[r]]
                    \/ \E q \in timers : MonOf[q] = MonOf[r]
  BY DEF WorkConserving
<1> DEFINE m == MonOf[r]
<1>1. m \in Mons /\ Limit[m] \in Nat
  BY MonAssumption, LimitAssumption
<1>2. Served(st, m) /\ st.timers = timers /\ st.resume = {} /\ st.pending = {}
  BY <1>1, StFields DEF WInv, Wakeful, Quiet
<1>3. CASE Full(st, m)
  <2>1. IsFiniteSet(Busy(st)) /\ ActiveRunIds(st, m) \subseteq Busy(st)
    BY DEF GInv, Guaranteed, Good, GoodBut, ActiveRunIds, Busy
  <2>2. Cardinality(ActiveRunIds(st, m)) \in Nat
    BY <2>1, FS_Subset, FS_CardinalityType
  <2> DEFINE n == Cardinality(ActiveRunIds(st, m))
  <2>3. n \in Nat /\ ~(n < Limit[m])
    BY <1>3, <2>2 DEF Full
  <2> HIDE DEF n
  <2>4. n >= Limit[m]
    BY <1>1, <2>3
  <2>. QED BY <2>4 DEF n
<1>4. CASE Awaited(st, m)
  BY <1>2, <1>4 DEF Awaited
<1>. QED BY <1>2, <1>3, <1>4 DEF Served

\* The dispatcher loses no wake-up (runtime.md:239): whatever exits, fails, is retried, is
\* cancelled or restarts, a queued run that is due finds its Mon full or a timer of its Mon
\* armed between two handlers; for every number of runs and Mons and every limit, where
\* launches reach the runner, every start goes through the dispatcher and timers are punctual.
THEOREM NoWakeUpIsLost ==
    ASSUME PlainLaunches, DispatcherStarts
    PROVE  Spec => []WorkConserving
<1>1. Init => WInv
  BY InitWakeful
<1>2. GInv /\ WInv /\ [Next]_vars => WInv'
  BY NextWakeful
<1>3. GInv /\ WInv => WorkConserving
  BY WakefulWorks
<1>. QED BY <1>1, <1>2, <1>3, EveryStateIsGuaranteed, PTL DEF Spec

=============================================================================
