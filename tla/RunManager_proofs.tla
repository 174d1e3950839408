-------------------------- MODULE RunManager_proofs --------------------------
(***************************************************************************)
(* Theorems about the run manager, for every value of its constants.  The  *)
(* invariant, Good, is stated on state records, like the handlers, and has *)
(* one lemma per statement of the store, per handler and per action.       *)
(***************************************************************************)
EXTENDS RunManager, FiniteSetTheorems, TLAPS

\* No process of run r lives.
NoProcess(s, r) == \A p \in s.procs : p[1] # r

\* The runs reserve() may count.
Busy(s) == {r \in Runs : r \in s.slots \/ s.run[r].status \in ProcessBacked}

\* The slots of Mon m.
SlotsOf(s, m) == {r \in s.slots : MonOf[r] = m}

\* What reserve() promises.
SlotLimit(s) == \A m \in Mons : Cardinality(SlotsOf(s, m)) <= Limit[m]

\* The part of ProcessIsTracked that does not depend on the running map.
ProcessOwned(s) ==
    \A p \in s.procs :
        /\ p[1] \in s.slots
        /\ IsOpen(s, p[1], p[2])
        /\ p \notin s.errors
        /\ \A w \in s.pending : w.run = p[1] /\ w.attempt = p[2] => ~w.rejected

\* Only the latest attempt of a run can be open.
OpenIsLast(s) == \A r \in Runs : \A k \in DOMAIN s.att[r] :
                    s.att[r][k].status \in OpenAttempt => k = Len(s.att[r])

\* A run that is queued, or not yet created, has no process.
WaitingHasNoProcess(s) ==
    \A r \in Runs : s.run[r].status \in {"none", "queued"} => NoProcess(s, r)

\* Events and continuations carry attempt numbers that have been handed out.
EventsNumbered(s) ==
    /\ \A p \in s.errors : p[2] \in 1 .. Len(s.att[p[1]])
    /\ \A w \in s.pending : /\ w.attempt \in 1 .. Len(s.att[w.run])
                            /\ w.caller = "reserve" => w.reserved \in Runs

\* What holds of every run but the one a handler is about to launch or to activate.
Settled(s, r) ==
    /\ s.run[r].status \in {"none", "queued"} => ~HasOpenAttempt(s, r)
    /\ \/ NoProcess(s, r)
       \/ s.running[r].attempt # 0
       \/ \E w \in s.pending : w.run = r /\ ~w.rejected

\* The invariant, with the last part asserted only of the runs outside X.
GoodBut(s, X) ==
    /\ s \in State
    /\ IsFiniteSet(Busy(s))
    /\ SlotLimit(s)
    /\ ProcessOwned(s)
    /\ OpenIsLast(s)
    /\ WaitingHasNoProcess(s)
    /\ EventsNumbered(s)
    /\ \A r \in Runs \ X : Settled(s, r)
    /\ s.service = "down" => s.procs = {}

Good(s) == GoodBut(s, {})

\* t differs from s at most in external executions, assignments, timers and the like.
SameCore(s, t) ==
    /\ t \in State
    /\ t.run = s.run /\ t.att = s.att /\ t.slots = s.slots /\ t.running = s.running
    /\ t.procs = s.procs /\ t.pending = s.pending /\ t.errors = s.errors
    /\ t.service = s.service

-----------------------------------------------------------------------------
\* A step that changes neither rows, attempts, slots, processes, events nor the service keeps
\* the invariant: it only moved external executions, assignments or timers.
LEMMA SameCoreGood ==
    ASSUME NEW s, NEW t, NEW X, GoodBut(s, X), SameCore(s, t)
    PROVE  GoodBut(t, X)
<1>1. t \in State /\ (t.service = "down" => t.procs = {})
  BY DEF GoodBut, SameCore
<1>2. IsFiniteSet(Busy(t)) /\ SlotLimit(t)
  <2>1. Busy(t) = Busy(s) /\ \A m \in Mons : SlotsOf(t, m) = SlotsOf(s, m)
    BY DEF SameCore, Busy, SlotsOf
  <2>. QED BY <2>1 DEF GoodBut, SlotLimit
<1>3. ProcessOwned(t)
  <2>1. \A r, k : IsOpen(t, r, k) <=> IsOpen(s, r, k)
    BY DEF SameCore, IsOpen
  <2>. QED BY <2>1 DEF SameCore, GoodBut, ProcessOwned
<1>4. OpenIsLast(t)
  BY DEF SameCore, GoodBut, OpenIsLast
<1>5. WaitingHasNoProcess(t)
  BY DEF SameCore, GoodBut, WaitingHasNoProcess, NoProcess
<1>6. EventsNumbered(t)
  BY DEF SameCore, GoodBut, EventsNumbered
<1>7. \A r \in Runs \ X : Settled(t, r)
  BY DEF SameCore, GoodBut, Settled, HasOpenAttempt, NoProcess
<1>. QED BY <1>1, <1>2, <1>3, <1>4, <1>5, <1>6, <1>7 DEF GoodBut

\* A write to an external execution row is such a step.
LEMMA ExtUpdate ==
    ASSUME NEW s \in State, NEW r \in Runs, NEW row \in ExtRow
    PROVE  SameCore(s, [s EXCEPT !.ext[r] = row])
BY DEF State, SameCore

\* The stored external execution rows have their type.
LEMMA ExtRowOf ==
    ASSUME NEW s \in State, NEW r \in Runs
    PROVE  s.ext[r] \in ExtRow
BY DEF State

\* Writing one field of an external execution row keeps its type.
LEMMA ExtFields ==
    ASSUME NEW row \in ExtRow
    PROVE  /\ \A phase \in Phase : [row EXCEPT !.phase = phase] \in ExtRow
           /\ \A outcome \in ExtOutcome : [row EXCEPT !.outcome = outcome] \in ExtRow
           /\ \A clean \in BOOLEAN : [row EXCEPT !.exited_clean = clean] \in ExtRow
           /\ \A state \in CancellationState : [row EXCEPT !.cancellation_state = state] \in ExtRow
           /\ \A digest \in Digests : [row EXCEPT !.completion_digest = digest] \in ExtRow
           /\ row.phase \in Phase /\ row.outcome \in ExtOutcome
           /\ row.cancellation_state \in CancellationState
BY DEF ExtRow

\* Doing nothing is such a step.
LEMMA SameCoreRefl ==
    ASSUME NEW s \in State
    PROVE  SameCore(s, s)
BY DEF SameCore

\* updatePhase() only writes an external execution row.
LEMMA UpdatePhaseCore ==
    ASSUME NEW s \in State, NEW r \in Runs, NEW phase \in Phase
    PROVE  SameCore(s, UpdatePhase(s, r, phase))
<1>1. [s.ext[r] EXCEPT !.phase = phase] \in ExtRow
  BY ExtRowOf DEF ExtRow
<1>. QED BY <1>1, ExtUpdate, SameCoreRefl DEF UpdatePhase

\* markAttemptStartingByRun() only writes an external execution row.
LEMMA MarkAttemptStartingCore ==
    ASSUME NEW s \in State, NEW r \in Runs
    PROVE  SameCore(s, MarkAttemptStartingByRun(s, r))
<1>1. [s.ext[r] EXCEPT !.phase = "starting", !.outcome = "none"] \in ExtRow
  BY ExtRowOf DEF ExtRow, Phase, ExtOutcome
<1>. QED BY <1>1, ExtUpdate, SameCoreRefl DEF MarkAttemptStartingByRun

\* scheduleRetryByRun() only writes an external execution row.
LEMMA ScheduleRetryCore ==
    ASSUME NEW s \in State, NEW r \in Runs
    PROVE  SameCore(s, ScheduleRetryByRun(s, r))
<1>1. [s.ext[r] EXCEPT !.phase = "queued", !.outcome = "none"] \in ExtRow
  BY ExtRowOf DEF ExtRow, Phase, ExtOutcome
<1>. QED BY <1>1, ExtUpdate, SameCoreRefl DEF ScheduleRetryByRun

\* recordProcessExit() only writes an external execution row.
LEMMA RecordExitCore ==
    ASSUME NEW s \in State, NEW r \in Runs, NEW exit
    PROVE  SameCore(s, RecordProcessExit(s, r, exit))
<1>1. ExitedRow(s, r, exit) \in ExtRow
  BY ExtRowOf, ExtFields DEF ExitedRow, Phase, ExtOutcome, CancellationState
<1>. QED BY <1>1, ExtUpdate, SameCoreRefl DEF RecordProcessExit

\* markCancellationSignalled() only writes an external execution row.
LEMMA SignalledCore ==
    ASSUME NEW s \in State, NEW r \in Runs
    PROVE  SameCore(s, MarkCancellationSignalled(s, r))
<1>1. [s.ext[r] EXCEPT !.cancellation_state = "signalled"] \in ExtRow
  BY ExtRowOf DEF ExtRow, CancellationState
<1>. QED BY <1>1, ExtUpdate, SameCoreRefl DEF MarkCancellationSignalled

\* markFailedByRun() only writes an external execution row.
LEMMA MarkFailedCore ==
    ASSUME NEW s \in State, NEW r \in Runs, NEW cancellation \in {"keep", "failed", "lost"}
    PROVE  SameCore(s, MarkFailedByRun(s, r, cancellation))
<1> DEFINE row == [s.ext[r] EXCEPT
            !.phase = "terminal", !.outcome = "failed",
            !.cancellation_state = IF cancellation = "keep" THEN s.ext[r].cancellation_state
                                   ELSE cancellation]
<1>1. row \in ExtRow
  BY ExtRowOf, ExtFields DEF Phase, ExtOutcome, CancellationState
<1>2. MarkFailedByRun(s, r, cancellation) = IF ~ExtOpen(s, r) THEN s ELSE [s EXCEPT !.ext[r] = row]
  BY DEF MarkFailedByRun
<1>. QED BY <1>1, <1>2, ExtUpdate, SameCoreRefl

\* recordCompletion() only writes an external execution row.
LEMMA CompletionCore ==
    ASSUME NEW s \in State, NEW r \in Runs, NEW digest \in Digests
    PROVE  SameCore(s, RecordCompletion(s, r, digest))
<1> DEFINE row == [s.ext[r] EXCEPT
            !.completion_digest = digest,
            !.phase = IF s.ext[r].exited_clean THEN "terminal" ELSE s.ext[r].phase,
            !.outcome = IF s.ext[r].exited_clean THEN "succeeded" ELSE s.ext[r].outcome]
<1>1. row \in ExtRow
  BY ExtRowOf, ExtFields DEF Phase, ExtOutcome, CancellationState
<1>2. RecordCompletion(s, r, digest) =
         IF s.ext[r].completion_digest # "none" THEN s ELSE [s EXCEPT !.ext[r] = row]
  BY DEF RecordCompletion
<1>. QED BY <1>1, <1>2, ExtUpdate, SameCoreRefl

\* requestCancellation() only writes an external execution row.
LEMMA RequestCancellationCore ==
    ASSUME NEW s \in State, NEW r \in Runs, NEW idle \in BOOLEAN
    PROVE  SameCore(s, RequestCancellation(s, r, idle))
<1> DEFINE row == [s.ext[r] EXCEPT
            !.phase = IF idle THEN "terminal" ELSE "cancelling",
            !.outcome = IF idle THEN "cancelled" ELSE "none",
            !.cancellation_state = IF idle THEN "acknowledged" ELSE "requested"]
<1>1. row \in ExtRow
  BY ExtRowOf, ExtFields DEF Phase, ExtOutcome, CancellationState
<1>2. RequestCancellation(s, r, idle) = IF ~ExtOpen(s, r) THEN s ELSE [s EXCEPT !.ext[r] = row]
  BY DEF RequestCancellation
<1>. QED BY <1>1, <1>2, ExtUpdate, SameCoreRefl

\* The update of a plan assignment touches nothing the invariant speaks of.
LEMMA AssignmentCore ==
    ASSUME NEW s \in State, NEW r \in Runs, NEW status \in AssignmentStatus
    PROVE  SameCore(s, UpdateAssignment(s, r, status))
BY SameCoreRefl DEF State, SameCore, UpdateAssignment

\* Neither does arming retry timers,
LEMMA TimerCore ==
    ASSUME NEW s \in State, NEW T \in SUBSET Runs
    PROVE  SameCore(s, [s EXCEPT !.timers = T])
BY DEF State, SameCore

\* nor the list of Mons that are still to be dispatched at startup,
LEMMA ResumeCore ==
    ASSUME NEW s \in State, NEW M \in SUBSET Mons
    PROVE  SameCore(s, [s EXCEPT !.resume = M])
BY DEF State, SameCore

\* nor clearing a retry timer.
LEMMA ClearTimerCore ==
    ASSUME NEW s \in State, NEW r \in Runs
    PROVE  SameCore(s, ClearRetryTimer(s, r))
<1>1. s.timers \ {r} \in SUBSET Runs
  BY DEF State
<1>. QED BY <1>1, TimerCore DEF ClearRetryTimer

\* Every lifecycle patch of run-state.ts returns a run row with the status it is named for.
LEMMA RowTypes ==
    ASSUME NEW row \in RunRow
    PROVE  /\ StartRunLifecycle(row) \in RunRow /\ StartRunLifecycle(row).status = "starting"
           /\ MarkRunActive(row) \in RunRow /\ MarkRunActive(row).status = "active"
           /\ \A exit : /\ FinishRunFromExit(row, exit) \in RunRow
                        /\ FinishRunFromExit(row, exit).status = "finished"
           /\ \A processStatus \in ProcessStatus :
                 /\ FinishRunInterrupted(row, processStatus) \in RunRow
                 /\ FinishRunInterrupted(row, processStatus).status = "finished"
           /\ FinishRunStopped(row) \in RunRow /\ FinishRunStopped(row).status = "finished"
           /\ CancelQueuedRun(row) \in RunRow /\ CancelQueuedRun(row).status = "finished"
           /\ QueuedRow \in RunRow /\ QueuedRow.status = "queued"
           /\ AssignmentStatusFor(row) \in AssignmentStatus
<1> USE DEF RunRow, RunStatus, ProcessStatus, RunOutcome, RuntimeState, OutcomeState
<1>1. StartRunLifecycle(row) \in RunRow /\ StartRunLifecycle(row).status = "starting"
  BY DEF StartRunLifecycle
<1>2. MarkRunActive(row) \in RunRow /\ MarkRunActive(row).status = "active"
  BY DEF MarkRunActive
<1>3. ASSUME NEW exit
      PROVE  /\ FinishRunFromExit(row, exit) \in RunRow
             /\ FinishRunFromExit(row, exit).status = "finished"
  <2>1. CASE exit = "signal"
    BY <2>1 DEF FinishRunFromExit
  <2>2. CASE exit = "nonzero"
    BY <2>2 DEF FinishRunFromExit
  <2>3. CASE exit \notin {"signal", "nonzero"}
    BY <2>3 DEF FinishRunFromExit
  <2>. QED BY <2>1, <2>2, <2>3
<1>4. ASSUME NEW processStatus \in ProcessStatus
      PROVE  /\ FinishRunInterrupted(row, processStatus) \in RunRow
             /\ FinishRunInterrupted(row, processStatus).status = "finished"
  BY DEF FinishRunInterrupted
<1>5. /\ FinishRunStopped(row) \in RunRow /\ FinishRunStopped(row).status = "finished"
      /\ CancelQueuedRun(row) \in RunRow /\ CancelQueuedRun(row).status = "finished"
  BY DEF FinishRunStopped, CancelQueuedRun
<1>6. QueuedRow \in RunRow /\ QueuedRow.status = "queued"
  BY DEF QueuedRow, NoRow
<1>7. AssignmentStatusFor(row) \in AssignmentStatus
  BY DEF AssignmentStatusFor, AssignmentStatus
<1>. QED BY <1>1, <1>2, <1>3, <1>4, <1>5, <1>6, <1>7

-----------------------------------------------------------------------------
\* Writing a run row keeps the invariant; a run may only be put in the queue when it has no
\* process and no open attempt.
LEMMA RowGood ==
    ASSUME NEW s, NEW X, GoodBut(s, X), NEW r \in Runs, NEW row \in RunRow,
           row.status \in {"none", "queued"} =>
              NoProcess(s, r) /\ (~HasOpenAttempt(s, r) \/ r \in X)
    PROVE  LET t == [s EXCEPT !.run[r] = row]
           IN  /\ GoodBut(t, X)
               /\ t.run = [s.run EXCEPT ![r] = row]
               /\ t.att = s.att /\ t.slots = s.slots /\ t.running = s.running
               /\ t.procs = s.procs /\ t.pending = s.pending /\ t.errors = s.errors
               /\ t.service = s.service
<1> DEFINE t == [s EXCEPT !.run[r] = row]
<1>1. s \in State
  BY DEF GoodBut
<1>2. /\ t \in State
      /\ t.run = [s.run EXCEPT ![r] = row]
      /\ t.att = s.att /\ t.slots = s.slots /\ t.running = s.running
      /\ t.procs = s.procs /\ t.pending = s.pending /\ t.errors = s.errors
      /\ t.service = s.service
  BY <1>1 DEF State
<1>3. s.run \in [Runs -> RunRow] /\ s.slots \subseteq Runs
  BY <1>1 DEF State
<1> HIDE DEF t
<1>4. IsFiniteSet(Busy(t))
  <2>1. Busy(t) \subseteq Busy(s) \cup {r}
    BY <1>2, <1>3 DEF Busy
  <2>2. IsFiniteSet(Busy(s) \cup {r})
    BY FS_AddElement DEF GoodBut
  <2>. QED BY <2>1, <2>2, FS_Subset
<1>5. SlotLimit(t)
  <2>1. \A m \in Mons : SlotsOf(t, m) = SlotsOf(s, m)
    BY <1>2 DEF SlotsOf
  <2>. QED BY <2>1 DEF GoodBut, SlotLimit
<1>6. ProcessOwned(t)
  <2>1. \A q, k : IsOpen(t, q, k) <=> IsOpen(s, q, k)
    BY <1>2 DEF IsOpen
  <2>. QED BY <1>2, <2>1 DEF GoodBut, ProcessOwned
<1>7. OpenIsLast(t) /\ EventsNumbered(t)
  BY <1>2 DEF GoodBut, OpenIsLast, EventsNumbered
<1>8. WaitingHasNoProcess(t)
  BY <1>2, <1>3 DEF GoodBut, WaitingHasNoProcess, NoProcess
<1>9. \A q \in Runs \ X : Settled(t, q)
  BY <1>2, <1>3 DEF GoodBut, Settled, HasOpenAttempt, NoProcess
<1>10. GoodBut(t, X)
  BY <1>2, <1>4, <1>5, <1>6, <1>7, <1>8, <1>9 DEF GoodBut
<1>. QED BY <1>2, <1>10 DEF t

\* Writing an entry of the running map keeps the invariant, provided a run with a process does
\* not lose its entry.
LEMMA RunningGood ==
    ASSUME NEW s, NEW X, GoodBut(s, X), NEW r \in Runs, NEW e \in RunningRun,
           e.attempt # 0 \/ s.running[r].attempt = 0 \/ NoProcess(s, r)
    PROVE  LET t == [s EXCEPT !.running[r] = e]
           IN  /\ GoodBut(t, X)
               /\ t.run = s.run /\ t.att = s.att /\ t.slots = s.slots
               /\ t.running = [s.running EXCEPT ![r] = e]
               /\ t.procs = s.procs /\ t.pending = s.pending /\ t.errors = s.errors
               /\ t.service = s.service
<1> DEFINE t == [s EXCEPT !.running[r] = e]
<1>1. s \in State
  BY DEF GoodBut
<1>2. /\ t \in State
      /\ t.run = s.run /\ t.att = s.att /\ t.slots = s.slots
      /\ t.running = [s.running EXCEPT ![r] = e]
      /\ t.procs = s.procs /\ t.pending = s.pending /\ t.errors = s.errors
      /\ t.service = s.service
  BY <1>1 DEF State
<1>3. s.running \in [Runs -> RunningRun]
  BY <1>1 DEF State
<1> HIDE DEF t
<1>4. IsFiniteSet(Busy(t)) /\ SlotLimit(t)
  <2>1. Busy(t) = Busy(s) /\ \A m \in Mons : SlotsOf(t, m) = SlotsOf(s, m)
    BY <1>2 DEF Busy, SlotsOf
  <2>. QED BY <2>1 DEF GoodBut, SlotLimit
<1>5. ProcessOwned(t)
  <2>1. \A q, k : IsOpen(t, q, k) <=> IsOpen(s, q, k)
    BY <1>2 DEF IsOpen
  <2>. QED BY <1>2, <2>1 DEF GoodBut, ProcessOwned
<1>6. OpenIsLast(t) /\ EventsNumbered(t) /\ WaitingHasNoProcess(t)
  BY <1>2 DEF GoodBut, OpenIsLast, EventsNumbered, WaitingHasNoProcess, NoProcess
<1>7. \A q \in Runs \ X : Settled(t, q)
  BY <1>2, <1>3 DEF GoodBut, Settled, HasOpenAttempt, NoProcess
<1>10. GoodBut(t, X)
  BY <1>2, <1>4, <1>5, <1>6, <1>7 DEF GoodBut
<1>. QED BY <1>2, <1>10 DEF t

\* Releasing the slot of a run that has no process keeps the invariant.
LEMMA ReleaseGood ==
    ASSUME NEW s, NEW X, GoodBut(s, X), NEW r \in Runs, NoProcess(s, r)
    PROVE  LET t == ReleaseSlot(s, r)
           IN  /\ GoodBut(t, X)
               /\ t.run = s.run /\ t.att = s.att /\ t.running = s.running
               /\ t.procs = s.procs /\ t.pending = s.pending /\ t.errors = s.errors
               /\ t.service = s.service
<1> DEFINE t == ReleaseSlot(s, r)
<1>1. s \in State
  BY DEF GoodBut
<1>2. /\ t \in State
      /\ t.run = s.run /\ t.att = s.att /\ t.slots = s.slots \ {r}
      /\ t.running = s.running
      /\ t.procs = s.procs /\ t.pending = s.pending /\ t.errors = s.errors
      /\ t.service = s.service
  BY <1>1 DEF State, ReleaseSlot
<1> HIDE DEF t
<1>3. IsFiniteSet(Busy(t)) /\ SlotLimit(t)
  <2>1. Busy(t) \subseteq Busy(s) /\ IsFiniteSet(Busy(s))
    BY <1>2 DEF Busy, GoodBut
  <2>2. ASSUME NEW m \in Mons
        PROVE  Cardinality(SlotsOf(t, m)) <= Limit[m]
    <3>1. SlotsOf(t, m) \subseteq SlotsOf(s, m) /\ SlotsOf(s, m) \subseteq Busy(s)
      BY <1>1, <1>2 DEF SlotsOf, Busy, State
    <3>2. IsFiniteSet(SlotsOf(s, m)) /\ IsFiniteSet(SlotsOf(t, m))
      BY <2>1, <3>1, FS_Subset
    <3>3. Cardinality(SlotsOf(t, m)) <= Cardinality(SlotsOf(s, m))
      BY <3>1, <3>2, FS_Subset
    <3>4. /\ Cardinality(SlotsOf(s, m)) \in Nat /\ Cardinality(SlotsOf(t, m)) \in Nat
          /\ Limit[m] \in Nat /\ Cardinality(SlotsOf(s, m)) <= Limit[m]
      BY <3>2, FS_CardinalityType, LimitAssumption DEF GoodBut, SlotLimit
    <3>. QED BY <3>3, <3>4
  <2>. QED BY <2>1, <2>2, FS_Subset DEF SlotLimit
<1>4. ProcessOwned(t)
  <2>1. \A q, k : IsOpen(t, q, k) <=> IsOpen(s, q, k)
    BY <1>2 DEF IsOpen
  <2>. QED BY <1>2, <2>1 DEF GoodBut, ProcessOwned, NoProcess
<1>5. OpenIsLast(t) /\ EventsNumbered(t) /\ WaitingHasNoProcess(t)
  BY <1>2 DEF GoodBut, OpenIsLast, EventsNumbered, WaitingHasNoProcess, NoProcess
<1>6. \A q \in Runs \ X : Settled(t, q)
  BY <1>2 DEF GoodBut, Settled, HasOpenAttempt, NoProcess
<1>10. GoodBut(t, X)
  BY <1>2, <1>3, <1>4, <1>5, <1>6 DEF GoodBut
<1>. QED BY <1>2, <1>10 DEF t

\* reserve(): a slot is only given while its Mon is below max_active_runs, counting slot rows
\* and process-backed rows, so the limit holds afterwards.
LEMMA ReserveGood ==
    ASSUME NEW s, NEW X, GoodBut(s, X), NEW r \in Runs, CanReserve(s, r)
    PROVE  LET t == ReserveSlot(s, r)
           IN  /\ GoodBut(t, X)
               /\ r \in t.slots
               /\ t.run = s.run /\ t.att = s.att /\ t.running = s.running
               /\ t.procs = s.procs /\ t.pending = s.pending /\ t.errors = s.errors
               /\ t.service = s.service
<1> DEFINE t == ReserveSlot(s, r)
<1>1. s \in State
  BY DEF GoodBut
<1>2. /\ t \in State
      /\ t.run = s.run /\ t.att = s.att /\ t.slots = s.slots \cup {r}
      /\ t.running = s.running
      /\ t.procs = s.procs /\ t.pending = s.pending /\ t.errors = s.errors
      /\ t.service = s.service
  BY <1>1 DEF State, ReserveSlot
<1> HIDE DEF t
<1>3. IsFiniteSet(Busy(s)) /\ IsFiniteSet(Busy(t))
  <2>1. Busy(t) \subseteq Busy(s) \cup {r}
    BY <1>2 DEF Busy
  <2>. QED BY <2>1, FS_AddElement, FS_Subset DEF GoodBut
<1>4. ASSUME NEW m \in Mons
      PROVE  Cardinality(SlotsOf(t, m)) <= Limit[m]
  <2>1. CASE r \in s.slots \/ MonOf[r] # m
    <3>1. SlotsOf(t, m) = SlotsOf(s, m)
      BY <1>2, <2>1 DEF SlotsOf
    <3>. QED BY <3>1 DEF GoodBut, SlotLimit
  <2>2. CASE r \notin s.slots /\ MonOf[r] = m
    <3>1. /\ SlotsOf(t, m) = SlotsOf(s, m) \cup {r}
          /\ SlotsOf(s, m) \subseteq ActiveRunIds(s, m)
          /\ ActiveRunIds(s, m) \subseteq Busy(s)
      BY <1>1, <1>2, <2>2 DEF SlotsOf, ActiveRunIds, Busy, State
    <3>2. IsFiniteSet(ActiveRunIds(s, m)) /\ IsFiniteSet(SlotsOf(s, m))
      BY <1>3, <3>1, FS_Subset
    <3>3. Cardinality(SlotsOf(s, m)) <= Cardinality(ActiveRunIds(s, m))
      BY <3>1, <3>2, FS_Subset
    <3>4. Cardinality(ActiveRunIds(s, m)) < Limit[m]
      BY <2>2 DEF CanReserve
    <3>5. r \notin SlotsOf(s, m)
      BY <2>2 DEF SlotsOf
    <3>6. Cardinality(SlotsOf(t, m)) = Cardinality(SlotsOf(s, m)) + 1
      BY <3>1, <3>2, <3>5, FS_AddElement
    <3>7. /\ Cardinality(SlotsOf(s, m)) \in Nat /\ Cardinality(ActiveRunIds(s, m)) \in Nat
          /\ Limit[m] \in Nat
      BY <3>2, FS_CardinalityType, LimitAssumption
    <3>. QED BY <3>3, <3>4, <3>6, <3>7
  <2>. QED BY <2>1, <2>2
<1>5. ProcessOwned(t)
  <2>1. \A q, k : IsOpen(t, q, k) <=> IsOpen(s, q, k)
    BY <1>2 DEF IsOpen
  <2>. QED BY <1>2, <2>1 DEF GoodBut, ProcessOwned
<1>6. OpenIsLast(t) /\ EventsNumbered(t) /\ WaitingHasNoProcess(t)
  BY <1>2 DEF GoodBut, OpenIsLast, EventsNumbered, WaitingHasNoProcess, NoProcess
<1>7. \A q \in Runs \ X : Settled(t, q)
  BY <1>2 DEF GoodBut, Settled, HasOpenAttempt, NoProcess
<1>8. GoodBut(t, X)
  BY <1>2, <1>3, <1>4, <1>5, <1>6, <1>7 DEF GoodBut, SlotLimit
<1>. QED BY <1>2, <1>8 DEF t

\* A write to attempt k of run r that leaves it open only if it was open.
LEMMA AttemptGood ==
    ASSUME NEW s, NEW X, GoodBut(s, X), NEW r \in Runs, NEW k, IsOpen(s, r, k),
           NEW row \in AttemptRow, row.status \in OpenAttempt \/ NoProcess(s, r)
    PROVE  LET t == [s EXCEPT !.att[r][k] = row]
           IN  /\ GoodBut(t, X)
               /\ Len(t.att[r]) = Len(s.att[r])
               /\ IsOpen(t, r, k) <=> row.status \in OpenAttempt
               /\ HasOpenAttempt(t, r) <=> row.status \in OpenAttempt
               /\ t.run = s.run /\ t.slots = s.slots /\ t.running = s.running
               /\ t.procs = s.procs /\ t.pending = s.pending /\ t.errors = s.errors
               /\ t.service = s.service
<1> DEFINE t == [s EXCEPT !.att[r][k] = row]
<1>1. s \in State /\ s.att[r] \in Seq(AttemptRow) /\ s.att \in [Runs -> Seq(AttemptRow)]
  BY DEF GoodBut, State
<1>2. k \in 1 .. Len(s.att[r]) /\ k = Len(s.att[r])
  BY <1>1 DEF IsOpen, GoodBut, OpenIsLast
<1>3. [s.att[r] EXCEPT ![k] = row] \in Seq(AttemptRow)
  BY <1>1, <1>2
<1>4. /\ t \in State
      /\ t.att = [s.att EXCEPT ![r] = [s.att[r] EXCEPT ![k] = row]]
      /\ t.run = s.run /\ t.slots = s.slots /\ t.running = s.running
      /\ t.procs = s.procs /\ t.pending = s.pending /\ t.errors = s.errors
      /\ t.service = s.service
  BY <1>1, <1>3 DEF State
<1> HIDE DEF t
<1>5. /\ t.att[r] \in Seq(AttemptRow) /\ Len(t.att[r]) = Len(s.att[r])
      /\ t.att[r][k] = row
      /\ DOMAIN t.att[r] = DOMAIN s.att[r]
      /\ \A j \in DOMAIN s.att[r] : j # k => t.att[r][j] = s.att[r][j]
      /\ \A q \in Runs : q # r => t.att[q] = s.att[q]
  BY <1>1, <1>2, <1>3, <1>4
<1>6. /\ IsOpen(t, r, k) <=> row.status \in OpenAttempt
      /\ HasOpenAttempt(t, r) <=> row.status \in OpenAttempt
      /\ \A q \in Runs : q # r => (HasOpenAttempt(t, q) <=> HasOpenAttempt(s, q))
      /\ \A q \in Runs : \A j : IsOpen(t, q, j) => IsOpen(s, q, j)
      /\ \A q \in Runs : \A j : IsOpen(s, q, j) /\ ~(q = r /\ j = k) => IsOpen(t, q, j)
  BY <1>1, <1>2, <1>5 DEF IsOpen, HasOpenAttempt
<1>7. IsFiniteSet(Busy(t)) /\ SlotLimit(t)
  <2>1. Busy(t) = Busy(s) /\ \A m \in Mons : SlotsOf(t, m) = SlotsOf(s, m)
    BY <1>4 DEF Busy, SlotsOf
  <2>. QED BY <2>1 DEF GoodBut, SlotLimit
<1>8. ProcessOwned(t)
  <2>1. \A p \in s.procs : p[1] \in Runs
    BY <1>1 DEF State
  <2>. QED BY <1>4, <1>6, <2>1 DEF GoodBut, ProcessOwned, NoProcess
<1>9. OpenIsLast(t)
  <2>1. \A q \in Runs : \A j : IsOpen(t, q, j) => j = Len(t.att[q])
    BY <1>2, <1>5, <1>6 DEF GoodBut, OpenIsLast, IsOpen
  <2>. QED BY <2>1 DEF OpenIsLast, IsOpen
<1>10. EventsNumbered(t)
  <2>1. \A q \in Runs : Len(t.att[q]) = Len(s.att[q])
    BY <1>5
  <2>2. (\A p \in s.errors : p[1] \in Runs) /\ (\A w \in s.pending : w.run \in Runs)
    BY <1>1 DEF State, Pending
  <2>. QED BY <1>4, <2>1, <2>2 DEF GoodBut, EventsNumbered
<1>11. WaitingHasNoProcess(t)
  BY <1>4 DEF GoodBut, WaitingHasNoProcess, NoProcess
<1>12. \A q \in Runs \ X : Settled(t, q)
  <2>1. HasOpenAttempt(s, r)
    BY <1>1, <1>2 DEF IsOpen, HasOpenAttempt
  <2>. QED BY <1>4, <1>6, <2>1 DEF GoodBut, Settled, NoProcess
<1>13. GoodBut(t, X)
  BY <1>4, <1>7, <1>8, <1>9, <1>10, <1>11, <1>12 DEF GoodBut
<1>. QED BY <1>4, <1>5, <1>6, <1>13 DEF t

\* markActive() of an attempt keeps the invariant, and the attempt stays as open as it was.
LEMMA MarkActiveGood ==
    ASSUME NEW s, NEW X, GoodBut(s, X), NEW r \in Runs, NEW k
    PROVE  LET t == MarkAttemptActive(s, r, k)
           IN  /\ GoodBut(t, X)
               /\ Len(t.att[r]) = Len(s.att[r])
               /\ IsOpen(t, r, k) <=> IsOpen(s, r, k)
               /\ HasOpenAttempt(t, r) <=> HasOpenAttempt(s, r)
               /\ t.run = s.run /\ t.slots = s.slots /\ t.running = s.running
               /\ t.procs = s.procs /\ t.pending = s.pending /\ t.errors = s.errors
               /\ t.service = s.service
<1>1. CASE ~IsOpen(s, r, k)
  BY <1>1 DEF MarkAttemptActive
<1>2. CASE IsOpen(s, r, k)
  <2> DEFINE row == [s.att[r][k] EXCEPT !.status = "active"]
  <2>1. s.att[r] \in Seq(AttemptRow) /\ k \in DOMAIN s.att[r]
    BY <1>2 DEF GoodBut, State, IsOpen
  <2>2. s.att[r][k] \in AttemptRow
    BY <2>1
  <2>3. row \in AttemptRow /\ row.status \in OpenAttempt
    BY <2>2 DEF AttemptRow, AttemptStatus, OpenAttempt
  <2>4. HasOpenAttempt(s, r)
    <3>1. k = Len(s.att[r])
      BY <1>2 DEF GoodBut, OpenIsLast, IsOpen
    <3>. QED BY <1>2, <2>1, <3>1 DEF IsOpen, HasOpenAttempt
  <2>5. MarkAttemptActive(s, r, k) = [s EXCEPT !.att[r][k] = row]
    BY <1>2 DEF MarkAttemptActive
  <2>. HIDE DEF row
  <2>. QED BY <1>2, <2>3, <2>4, <2>5, AttemptGood
<1>. QED BY <1>1, <1>2

\* finish() of an attempt whose run has no process keeps the invariant, and leaves no open
\* attempt if the attempt was open.
LEMMA FinishGood ==
    ASSUME NEW s, NEW X, GoodBut(s, X), NEW r \in Runs, NEW k, NoProcess(s, r),
           NEW status \in {"succeeded", "failed", "cancelled", "lost"},
           NEW retryAt \in {"none", "future", "due"}
    PROVE  LET t == FinishAttempt(s, r, k, status, retryAt)
           IN  /\ GoodBut(t, X)
               /\ Len(t.att[r]) = Len(s.att[r])
               /\ IsOpen(s, r, k) => ~HasOpenAttempt(t, r)
               /\ t.run = s.run /\ t.slots = s.slots /\ t.running = s.running
               /\ t.procs = s.procs /\ t.pending = s.pending /\ t.errors = s.errors
               /\ t.service = s.service
<1>1. CASE ~IsOpen(s, r, k)
  BY <1>1 DEF FinishAttempt
<1>2. CASE IsOpen(s, r, k)
  <2> DEFINE row == [status |-> status, retry_at |-> retryAt]
  <2>1. row \in AttemptRow /\ row.status \notin OpenAttempt
    BY DEF AttemptRow, AttemptStatus, OpenAttempt
  <2>2. FinishAttempt(s, r, k, status, retryAt) = [s EXCEPT !.att[r][k] = row]
    BY <1>2 DEF FinishAttempt
  <2>. HIDE DEF row
  <2>. QED BY <1>2, <2>1, <2>2, AttemptGood
<1>. QED BY <1>1, <1>2

\* No queued event and no pending continuation carries attempt k of run r.
Fresh(s, r, k) == /\ \A p \in s.errors : p # <<r, k>>
                  /\ \A w \in s.pending : ~(w.run = r /\ w.attempt = k)

\* begin() for a run without an open attempt adds one with a fresh number: no event still
\* queued on the event loop can carry it.
LEMMA BeginGood ==
    ASSUME NEW s, NEW X, GoodBut(s, X), NEW r \in X \cap Runs, ~HasOpenAttempt(s, r)
    PROVE  LET t == BeginAttempt(s, r)
               k == Len(t.att[r])
           IN  /\ GoodBut(t, X)
               /\ k \in Nat \ {0}
               /\ IsOpen(t, r, k) /\ Fresh(t, r, k)
               /\ t.run = s.run /\ t.slots = s.slots /\ t.running = s.running
               /\ t.procs = s.procs /\ t.pending = s.pending /\ t.errors = s.errors
               /\ t.service = s.service
<1> DEFINE row == [status |-> "starting", retry_at |-> "none"]
           t == BeginAttempt(s, r)
           k == Len(s.att[r]) + 1
<1>1. s \in State /\ s.att[r] \in Seq(AttemptRow) /\ s.att \in [Runs -> Seq(AttemptRow)]
  BY DEF GoodBut, State
<1>2. row \in AttemptRow /\ row.status \in OpenAttempt
  BY DEF AttemptRow, AttemptStatus, OpenAttempt
<1>3. t = [s EXCEPT !.att[r] = Append(s.att[r], row)]
  BY DEF BeginAttempt
<1> HIDE DEF row, t
<1>4. Append(s.att[r], row) \in Seq(AttemptRow)
  BY <1>1, <1>2
<1>5. /\ t \in State
      /\ t.att = [s.att EXCEPT ![r] = Append(s.att[r], row)]
      /\ t.run = s.run /\ t.slots = s.slots /\ t.running = s.running
      /\ t.procs = s.procs /\ t.pending = s.pending /\ t.errors = s.errors
      /\ t.service = s.service
  BY <1>1, <1>3, <1>4 DEF State
<1>6. /\ t.att[r] = Append(s.att[r], row) /\ k \in Nat \ {0}
      /\ Len(t.att[r]) = k /\ t.att[r][k] = row /\ DOMAIN t.att[r] = 1 .. k
      /\ DOMAIN s.att[r] = 1 .. (k - 1)
      /\ \A j \in 1 .. (k - 1) : t.att[r][j] = s.att[r][j]
      /\ \A q \in Runs : q # r => t.att[q] = s.att[q]
  BY <1>1, <1>2, <1>5
<1>7. \A j : ~IsOpen(s, r, j)
  BY <1>6 DEF GoodBut, OpenIsLast, IsOpen, HasOpenAttempt
<1>8. /\ \A q \in Runs : \A j : IsOpen(t, q, j) => IsOpen(s, q, j) \/ (q = r /\ j = k)
      /\ \A q \in Runs : \A j : IsOpen(s, q, j) => IsOpen(t, q, j)
      /\ IsOpen(t, r, k)
      /\ \A q \in Runs : q # r => (HasOpenAttempt(t, q) <=> HasOpenAttempt(s, q))
  <2>1. \A j \in 1 .. k : j # k => j \in 1 .. (k - 1)
    BY <1>6
  <2>2. ASSUME NEW j, IsOpen(t, r, j)
        PROVE  j = k
    BY <1>6, <1>7, <2>1, <2>2 DEF IsOpen
  <2>3. IsOpen(t, r, k)
    BY <1>2, <1>6 DEF IsOpen
  <2>4. ASSUME NEW q \in Runs, q # r
        PROVE  /\ \A j : IsOpen(t, q, j) <=> IsOpen(s, q, j)
               /\ HasOpenAttempt(t, q) <=> HasOpenAttempt(s, q)
    BY <1>6, <2>4 DEF IsOpen, HasOpenAttempt
  <2>. QED BY <1>7, <2>2, <2>3, <2>4
<1>9. IsFiniteSet(Busy(t)) /\ SlotLimit(t)
  <2>1. Busy(t) = Busy(s) /\ \A m \in Mons : SlotsOf(t, m) = SlotsOf(s, m)
    BY <1>5 DEF Busy, SlotsOf
  <2>. QED BY <2>1 DEF GoodBut, SlotLimit
<1>10. ProcessOwned(t)
  <2>1. \A p \in s.procs : p[1] \in Runs
    BY <1>1 DEF State
  <2>. QED BY <1>5, <1>8, <2>1 DEF GoodBut, ProcessOwned
<1>11. OpenIsLast(t)
  <2>1. \A q \in Runs : \A j : IsOpen(t, q, j) => j = Len(t.att[q])
    BY <1>6, <1>7, <1>8 DEF GoodBut, OpenIsLast, IsOpen
  <2>. QED BY <2>1 DEF OpenIsLast, IsOpen
<1>12. EventsNumbered(t)
  <2>1. \A q \in Runs : \A j : j \in 1 .. Len(s.att[q]) => j \in 1 .. Len(t.att[q])
    BY <1>6
  <2>2. (\A p \in s.errors : p[1] \in Runs) /\ (\A w \in s.pending : w.run \in Runs)
    BY <1>1 DEF State, Pending
  <2>. QED BY <1>5, <2>1, <2>2 DEF GoodBut, EventsNumbered
<1>13. WaitingHasNoProcess(t)
  BY <1>5 DEF GoodBut, WaitingHasNoProcess, NoProcess
<1>14. \A q \in Runs \ X : Settled(t, q)
  BY <1>5, <1>8 DEF GoodBut, Settled, NoProcess
<1>15. Fresh(t, r, k)
  <2>1. k \notin 1 .. Len(s.att[r])
    BY <1>6
  <2>. QED BY <1>5, <2>1 DEF GoodBut, EventsNumbered, Fresh
<1>16. GoodBut(t, X)
  BY <1>5, <1>9, <1>10, <1>11, <1>12, <1>13, <1>14 DEF GoodBut
<1>. QED BY <1>5, <1>6, <1>8, <1>15, <1>16 DEF t

\* Starting a process for a fresh, open attempt of a run that holds a slot and has no process.
LEMMA ProcessStarts ==
    ASSUME NEW s, Good(s), NEW r \in Runs, NEW k, s.service # "down",
           s.run[r].status \notin {"none", "queued"},
           r \in s.slots, IsOpen(s, r, k), Fresh(s, r, k), NoProcess(s, r),
           NEW w \in Pending, w.run = r, w.attempt = k,
           w.caller = "reserve" => w.reserved \in Runs,
           NEW launch, w.rejected <=> launch = "reject"
    PROVE  Good([s EXCEPT
                    !.procs = IF launch = "spawned" THEN @ \cup {<<r, k>>} ELSE @,
                    !.errors = IF launch = "event" THEN @ \cup {<<r, k>>} ELSE @,
                    !.pending = @ \cup {w}])
<1> DEFINE t == [s EXCEPT
                    !.procs = IF launch = "spawned" THEN @ \cup {<<r, k>>} ELSE @,
                    !.errors = IF launch = "event" THEN @ \cup {<<r, k>>} ELSE @,
                    !.pending = @ \cup {w}]
<1>1. s \in State /\ s.att[r] \in Seq(AttemptRow)
  BY DEF Good, GoodBut, State
<1>2. k \in 1 .. Len(s.att[r]) /\ k = Len(s.att[r])
  BY <1>1 DEF IsOpen, Good, GoodBut, OpenIsLast
<1>3. /\ t.procs = IF launch = "spawned" THEN s.procs \cup {<<r, k>>} ELSE s.procs
      /\ t.errors = IF launch = "event" THEN s.errors \cup {<<r, k>>} ELSE s.errors
      /\ t.pending = s.pending \cup {w}
      /\ t.run = s.run /\ t.att = s.att /\ t.slots = s.slots /\ t.running = s.running
      /\ t.service = s.service
      /\ t \in State
  <2>1. <<r, k>> \in Runs \X Nat
    BY <1>1, <1>2
  <2>. QED BY <1>1, <2>1 DEF State
<1> HIDE DEF t
<1>4. IsFiniteSet(Busy(t)) /\ SlotLimit(t)
  <2>1. Busy(t) = Busy(s) /\ \A m \in Mons : SlotsOf(t, m) = SlotsOf(s, m)
    BY <1>3 DEF Busy, SlotsOf
  <2>. QED BY <2>1 DEF Good, GoodBut, SlotLimit
<1>5. ProcessOwned(t)
  <2>1. \A q, j : IsOpen(t, q, j) <=> IsOpen(s, q, j)
    BY <1>3 DEF IsOpen
  <2>2. ASSUME NEW p \in t.procs
        PROVE  /\ p[1] \in t.slots
               /\ IsOpen(t, p[1], p[2])
               /\ p \notin t.errors
               /\ \A v \in t.pending : v.run = p[1] /\ v.attempt = p[2] => ~v.rejected
    <3>1. CASE p \in s.procs
      <4>1. p = <<p[1], p[2]>> /\ p[1] \in Runs
        BY <1>1, <3>1 DEF State
      <4>2. /\ p[1] \in s.slots /\ IsOpen(s, p[1], p[2]) /\ p \notin s.errors
            /\ \A v \in s.pending : v.run = p[1] /\ v.attempt = p[2] => ~v.rejected
        BY <3>1 DEF Good, GoodBut, ProcessOwned
      <4>3. p[1] # r
        BY <3>1 DEF NoProcess
      <4>. QED BY <1>3, <2>1, <4>1, <4>2, <4>3
    <3>2. CASE p = <<r, k>> /\ launch = "spawned"
      BY <1>3, <2>1, <3>2 DEF Fresh
    <3>. QED BY <1>3, <3>1, <3>2
  <2>. QED BY <2>2 DEF ProcessOwned
<1>6. OpenIsLast(t)
  BY <1>3 DEF Good, GoodBut, OpenIsLast
<1>7. EventsNumbered(t)
  BY <1>2, <1>3 DEF Good, GoodBut, EventsNumbered
<1>8. WaitingHasNoProcess(t)
  BY <1>3 DEF Good, GoodBut, WaitingHasNoProcess, NoProcess
<1>9. ASSUME NEW q \in Runs
      PROVE  Settled(t, q)
  <2>1. HasOpenAttempt(t, q) <=> HasOpenAttempt(s, q)
    BY <1>3 DEF HasOpenAttempt
  <2>2. Settled(s, q)
    BY DEF Good, GoodBut
  <2>3. CASE q = r
    BY <1>3, <2>3 DEF Settled, NoProcess
  <2>4. CASE q # r
    BY <1>3, <2>1, <2>2, <2>4 DEF Settled, NoProcess
  <2>. QED BY <2>3, <2>4
<1>10. Good(t)
  BY <1>3, <1>4, <1>5, <1>6, <1>7, <1>8, <1>9 DEF Good, GoodBut
<1>. QED BY <1>10 DEF t

-----------------------------------------------------------------------------
\* The invariant of a service that runs.
Up(s) == Good(s) /\ s.service # "down"

\* The invariant of all runs gives the invariant of all but some.
LEMMA Weaken ==
    ASSUME NEW s, NEW X, Good(s)
    PROVE  GoodBut(s, X)
BY DEF Good, GoodBut

\* And back, once the last run is settled.
LEMMA Settle ==
    ASSUME NEW s, NEW r \in Runs, GoodBut(s, {r}), Settled(s, r)
    PROVE  Good(s)
BY DEF Good, GoodBut

\* The typing facts the handlers need.
LEMMA GoodTyped ==
    ASSUME NEW s, NEW X, GoodBut(s, X), NEW r \in Runs
    PROVE  s \in State /\ s.run[r] \in RunRow /\ s.running[r] \in RunningRun
BY DEF GoodBut, State

\* Steps outside the core keep the invariant of a running service.
LEMMA UpSame ==
    ASSUME NEW s, NEW t, Up(s), SameCore(s, t)
    PROVE  Up(t)
BY SameCoreGood DEF Up, Good, SameCore

\* Spawn keeps the invariant of a running service, however the launch goes.
LEMMA SpawnUp ==
    ASSUME NEW s, Up(s), NEW r \in Runs, NEW k,
           s.run[r].status \notin {"none", "queued"},
           r \in s.slots, IsOpen(s, r, k), Fresh(s, r, k), NoProcess(s, r),
           NEW launch, NEW caller \in Caller, NEW reserved \in Runs \cup {0},
           caller = "reserve" => reserved \in Runs
    PROVE  Up(Spawn(s, r, k, launch, caller, reserved))
<1> DEFINE opened == IF launch = "reject" THEN s ELSE MarkAttemptActive(s, r, k)
           w == [run |-> r, attempt |-> k, caller |-> caller,
                 reserved |-> reserved, rejected |-> launch = "reject"]
           t == [opened EXCEPT
                    !.procs = IF launch = "spawned" THEN @ \cup {<<r, k>>} ELSE @,
                    !.errors = IF launch = "event" THEN @ \cup {<<r, k>>} ELSE @,
                    !.pending = @ \cup {w}]
<1>1. Good(s) /\ GoodBut(s, {})
  BY DEF Up, Good
<1>2. k \in Nat
  <2>1. s.att[r] \in Seq(AttemptRow)
    BY <1>1 DEF GoodBut, State
  <2>. QED BY <2>1 DEF IsOpen
<1>3. /\ w \in Pending /\ w.run = r /\ w.attempt = k
      /\ w.caller = "reserve" => w.reserved \in Runs
      /\ w.rejected <=> launch = "reject"
  BY <1>2 DEF Pending
<1>4. /\ Good(opened) /\ opened.service = s.service /\ opened.run = s.run
      /\ opened.slots = s.slots /\ opened.procs = s.procs
      /\ opened.errors = s.errors /\ opened.pending = s.pending
      /\ IsOpen(opened, r, k)
  BY <1>1, MarkActiveGood DEF Good
<1>5. Spawn(s, r, k, launch, caller, reserved) = t
  BY DEF Spawn
<1> HIDE DEF opened, w
<1>6. opened.service # "down" /\ NoProcess(opened, r) /\ Fresh(opened, r, k)
  BY <1>4 DEF Up, NoProcess, Fresh
<1>7. Good(t)
  BY <1>3, <1>4, <1>6, ProcessStarts
<1>8. t.service = opened.service
  BY <1>4 DEF Good, GoodBut, State
<1>. QED BY <1>5, <1>6, <1>7, <1>8 DEF Up

\* startRun() past its guards: reserve, begin, claim, spawn.
LEMMA LaunchUp ==
    ASSUME NEW s, Up(s), NEW r \in Runs, s.run[r].status = "queued", CanReserve(s, r),
           NEW launch, NEW caller \in Caller, NEW reserved \in Runs \cup {0},
           caller = "reserve" => reserved \in Runs
    PROVE  Up(Launch(s, r, launch, caller, reserved))
<1> DEFINE reservedSlot == ReserveSlot(s, r)
           cleared == ClearRetryTimer(reservedSlot, r)
           begun == BeginAttempt(cleared, r)
           k == Len(begun.att[r])
           claimed == MarkAttemptStartingByRun(begun, r)
           starting == [claimed EXCEPT !.run[r] = StartRunLifecycle(claimed.run[r])]
           ready == UpdateAssignment(UpdatePhase(starting, r, "starting"), r, "active")
           given == FinishAttempt(ReleaseSlot(claimed, r), r, k, "failed", "none")
<1>1. GoodBut(s, {r}) /\ NoProcess(s, r) /\ ~HasOpenAttempt(s, r)
  BY DEF Up, Good, GoodBut, WaitingHasNoProcess, Settled
<1>2. /\ GoodBut(reservedSlot, {r}) /\ r \in reservedSlot.slots
      /\ reservedSlot.att = s.att /\ reservedSlot.procs = s.procs
      /\ reservedSlot.service = s.service /\ reservedSlot.run = s.run
  BY <1>1, ReserveGood
<1> HIDE DEF reservedSlot
<1>3. SameCore(reservedSlot, cleared) /\ GoodBut(cleared, {r})
  BY <1>2, ClearTimerCore, SameCoreGood DEF GoodBut
<1>4. /\ ~HasOpenAttempt(cleared, r) /\ NoProcess(cleared, r) /\ r \in cleared.slots
      /\ cleared.service # "down"
  BY <1>1, <1>2, <1>3 DEF SameCore, HasOpenAttempt, NoProcess, Up
<1> HIDE DEF cleared
<1>5. /\ GoodBut(begun, {r}) /\ IsOpen(begun, r, k) /\ Fresh(begun, r, k)
      /\ NoProcess(begun, r) /\ r \in begun.slots /\ begun.service # "down"
  BY <1>3, <1>4, BeginGood DEF NoProcess
<1> HIDE DEF begun, k
<1>6. SameCore(begun, claimed)
  BY <1>5, MarkAttemptStartingCore DEF GoodBut
<1>7. /\ GoodBut(claimed, {r}) /\ IsOpen(claimed, r, k) /\ Fresh(claimed, r, k)
      /\ NoProcess(claimed, r) /\ r \in claimed.slots /\ claimed.service # "down"
  BY <1>5, <1>6, SameCoreGood DEF SameCore, IsOpen, Fresh, NoProcess
<1> HIDE DEF claimed
<1>8. CASE launch = "mcp"
  <2> DEFINE released == ReleaseSlot(claimed, r)
  <2>1. /\ GoodBut(released, {r}) /\ NoProcess(released, r) /\ IsOpen(released, r, k)
        /\ released.service # "down"
    BY <1>7, ReleaseGood DEF NoProcess, IsOpen
  <2> HIDE DEF released
  <2>2. /\ GoodBut(FinishAttempt(released, r, k, "failed", "none"), {r})
        /\ ~HasOpenAttempt(FinishAttempt(released, r, k, "failed", "none"), r)
        /\ FinishAttempt(released, r, k, "failed", "none").procs = released.procs
        /\ FinishAttempt(released, r, k, "failed", "none").service = released.service
    BY <2>1, FinishGood
  <2>3. Settled(FinishAttempt(released, r, k, "failed", "none"), r)
    BY <2>1, <2>2 DEF Settled, NoProcess
  <2>4. Up(given)
    BY <2>1, <2>2, <2>3, Settle DEF Up, released
  <2>. QED BY <1>8, <2>4 DEF Launch, claimed, k, begun, cleared, reservedSlot
<1>9. CASE launch # "mcp"
  <2>1. StartRunLifecycle(claimed.run[r]) \in RunRow
        /\ StartRunLifecycle(claimed.run[r]).status = "starting"
    BY <1>7, GoodTyped, RowTypes
  <2>2. /\ GoodBut(starting, {r}) /\ starting.run[r].status = "starting"
        /\ starting.att = claimed.att /\ starting.slots = claimed.slots
        /\ starting.procs = claimed.procs /\ starting.pending = claimed.pending
        /\ starting.errors = claimed.errors /\ starting.service = claimed.service
    <3>1. r \in DOMAIN claimed.run
      BY <1>7 DEF GoodBut, State
    <3>. QED BY <1>7, <2>1, <3>1, RowGood
  <2> HIDE DEF starting
  <2>3. Up(starting)
    <3>1. Settled(starting, r)
      BY <1>7, <2>2 DEF Settled, NoProcess
    <3>. QED BY <1>7, <2>2, <3>1, Settle DEF Up
  <2> DEFINE phased == UpdatePhase(starting, r, "starting")
  <2>4. SameCore(starting, phased) /\ Up(phased)
    BY <2>2, <2>3, UpdatePhaseCore, UpSame DEF GoodBut, Phase
  <2> HIDE DEF phased
  <2>5. SameCore(phased, UpdateAssignment(phased, r, "active"))
    BY <2>4, AssignmentCore DEF SameCore, AssignmentStatus
  <2>6. SameCore(phased, ready)
    BY <2>5 DEF phased
  <2> HIDE DEF ready
  <2>7. /\ Up(ready) /\ ready.run[r].status = "starting" /\ r \in ready.slots
        /\ IsOpen(ready, r, k) /\ Fresh(ready, r, k) /\ NoProcess(ready, r)
    BY <1>7, <2>2, <2>4, <2>6, UpSame DEF SameCore, IsOpen, Fresh, NoProcess
  <2>8. Up(Spawn(ready, r, k, launch, caller, reserved))
    BY <2>7, SpawnUp
  <2>. QED BY <1>9, <2>8 DEF Launch, ready, starting, claimed, k, begun, cleared, reservedSlot
<1>. QED BY <1>8, <1>9

\* startRun() with its guards.
LEMMA StartRunUp ==
    ASSUME NEW s, Up(s), NEW r \in Runs,
           NEW launch, NEW caller \in Caller, NEW reserved \in Runs \cup {0},
           caller = "reserve" => reserved \in Runs
    PROVE  Up(StartRun(s, r, launch, caller, reserved))
BY LaunchUp DEF StartRun, IsOldestQueued, Runnable

\* A row update that takes the run out of the queue.
LEMMA RowUp ==
    ASSUME NEW s, Up(s), NEW r \in Runs, NEW row \in RunRow,
           row.status \in {"none", "queued"} => NoProcess(s, r) /\ ~HasOpenAttempt(s, r)
    PROVE  Up([s EXCEPT !.run[r] = row])
BY RowGood DEF Up, Good

\* The catch clause of reserveExternalRun().
LEMMA FailReservationUp ==
    ASSUME NEW s, Up(s), NEW r \in Runs
    PROVE  Up(FailReservation(s, r))
<1> DEFINE failed == MarkFailedByRun(s, r, "keep")
           row == [status |-> "finished", process_status |-> "not_started",
                   outcome |-> "failed", runtime_state |-> "failed",
                   outcome_state |-> "failed"]
<1>1. Up(failed)
  BY MarkFailedCore, UpSame DEF Up, Good, GoodBut
<1>2. row \in RunRow /\ row.status = "finished"
  BY DEF RunRow, RunStatus, ProcessStatus, RunOutcome, RuntimeState, OutcomeState
<1> HIDE DEF failed, row
<1>3. Up([failed EXCEPT !.run[r] = row])
  BY <1>1, <1>2, RowUp
<1>. QED BY <1>3 DEF FailReservation, failed, row

\* A change of the service's own phase, unless it goes down.
LEMMA ServiceUp ==
    ASSUME NEW s, Up(s), NEW phase \in Service \ {"down"}
    PROVE  Up([s EXCEPT !.service = phase])
<1> DEFINE t == [s EXCEPT !.service = phase]
<1>1. /\ t \in State /\ t.service = phase
      /\ t.run = s.run /\ t.att = s.att /\ t.slots = s.slots /\ t.running = s.running
      /\ t.procs = s.procs /\ t.pending = s.pending /\ t.errors = s.errors
  BY DEF Up, Good, GoodBut, State, Service
<1> HIDE DEF t
<1>3. /\ Busy(t) = Busy(s) /\ \A m \in Mons : SlotsOf(t, m) = SlotsOf(s, m)
      /\ \A q, k : IsOpen(t, q, k) <=> IsOpen(s, q, k)
  BY <1>1 DEF Busy, SlotsOf, IsOpen
<1>4. IsFiniteSet(Busy(t)) /\ SlotLimit(t) /\ ProcessOwned(t)
  BY <1>1, <1>3 DEF Up, Good, GoodBut, SlotLimit, ProcessOwned
<1>5. OpenIsLast(t) /\ EventsNumbered(t) /\ WaitingHasNoProcess(t)
  BY <1>1 DEF Up, Good, GoodBut, OpenIsLast, EventsNumbered, WaitingHasNoProcess, NoProcess
<1>6. \A q \in Runs : Settled(t, q)
  BY <1>1 DEF Up, Good, GoodBut, Settled, HasOpenAttempt, NoProcess
<1>7. Up(t)
  BY <1>1, <1>4, <1>5, <1>6 DEF Up, Good, GoodBut
<1>. QED BY <1>7 DEF t

\* What becomes of an exception in the dispatch loop.
LEMMA RejectedUp ==
    ASSUME NEW s, Up(s), NEW caller \in Caller, NEW reserved \in Runs \cup {0},
           caller = "reserve" => reserved \in Runs
    PROVE  Up(Rejected(s, caller, reserved))
BY FailReservationUp, ServiceUp DEF Rejected, Caller, Service

\* One turn of dispatchQueuedForMon().
LEMMA DispatchUp ==
    ASSUME NEW s, Up(s), NEW m \in Mons,
           NEW launch, NEW caller \in Caller, NEW reserved \in Runs \cup {0},
           caller = "reserve" => reserved \in Runs
    PROVE  Up(Dispatch(s, m, launch, caller, reserved))
<1>1. CASE OldestQueued(s, m) = {}
  BY <1>1 DEF Dispatch
<1>2. CASE OldestQueued(s, m) # {}
  <2> DEFINE r == CHOOSE r \in OldestQueued(s, m) : TRUE
             started == StartRun(s, r, launch, caller, reserved)
  <2>1. r \in Runs
    BY <1>2 DEF OldestQueued
  <2> HIDE DEF r
  <2>2. Up(started)
    BY <2>1, StartRunUp
  <2> HIDE DEF started
  <2>3. Up(IF Throws(s, r, launch) THEN Rejected(started, caller, reserved) ELSE started)
    BY <2>2, RejectedUp
  <2>. QED BY <1>2, <2>3 DEF Dispatch, started, r
<1>. QED BY <1>1, <1>2

\* The dispatch a handler issues when it has freed a slot.
LEMMA DispatchMonOfUp ==
    ASSUME NEW s, Up(s), NEW r \in Runs, NEW launch
    PROVE  Up(DispatchMonOf(s, r, launch))
BY DispatchUp, MonAssumption DEF DispatchMonOf, Caller

-----------------------------------------------------------------------------
\* finishTerminalRun().
LEMMA FinishTerminalRunUp ==
    ASSUME NEW s, Up(s), NEW r \in Runs, NEW launch
    PROVE  Up(FinishTerminalRun(s, r, launch))
<1> DEFINE cleared == ClearRetryTimer(s, r)
           status == AssignmentStatusFor(s.run[r])
<1>1. status \in AssignmentStatus
  BY GoodTyped, RowTypes DEF Up, Good
<1>2. Up(cleared)
  BY ClearTimerCore, UpSame DEF Up, Good, GoodBut
<1> HIDE DEF cleared, status
<1>3. Up(UpdateAssignment(cleared, r, status))
  BY <1>1, <1>2, AssignmentCore, UpSame DEF Up, Good, GoodBut
<1>4. Up(DispatchMonOf(UpdateAssignment(cleared, r, status), r, launch))
  BY <1>3, DispatchMonOfUp
<1>. QED BY <1>4 DEF FinishTerminalRun, cleared, status

\* The retry branch of retryOrFinishFailure(): the attempt is closed before the run is queued.
LEMMA RetryUp ==
    ASSUME NEW s, Up(s), NEW r \in Runs, NEW k, IsOpen(s, r, k), NoProcess(s, r), NEW launch
    PROVE  Up(Retry(s, r, k, launch))
<1> DEFINE retryAt == IF ZeroBackoff THEN "due" ELSE "future"
           failed == FinishAttempt(s, r, k, "failed", retryAt)
           requeued == [failed EXCEPT !.run[r] = QueuedRow]
           scheduled == ScheduleRetryByRun(requeued, r)
           waiting == UpdateAssignment(scheduled, r, "queued")
           armed == [waiting EXCEPT !.timers = waiting.timers \cup {r}]
<1>1. Up(failed) /\ ~HasOpenAttempt(failed, r) /\ NoProcess(failed, r)
  BY FinishGood DEF Up, Good, NoProcess
<1> HIDE DEF failed, retryAt
<1>2. Up(requeued)
  <2>1. failed.run[r] \in RunRow
    BY <1>1, GoodTyped DEF Up, Good
  <2>2. QueuedRow \in RunRow
    BY <2>1, RowTypes
  <2>. QED BY <1>1, <2>2, RowUp
<1> HIDE DEF requeued
<1>3. Up(scheduled)
  BY <1>2, ScheduleRetryCore, UpSame DEF Up, Good, GoodBut
<1> HIDE DEF scheduled
<1>4. Up(waiting)
  BY <1>3, AssignmentCore, UpSame DEF Up, Good, GoodBut, AssignmentStatus
<1> HIDE DEF waiting
<1>5. Up(armed)
  <2>1. waiting \in State /\ waiting.timers \cup {r} \in SUBSET Runs
    BY <1>4 DEF Up, Good, GoodBut, State
  <2>. QED BY <1>4, <2>1, TimerCore, UpSame
<1> HIDE DEF armed
<1>6. Up(DispatchMonOf(armed, r, launch))
  BY <1>5, DispatchMonOfUp
<1>. QED BY <1>6 DEF Retry, armed, waiting, scheduled, requeued, failed, retryAt

\* Dropping the map entry and the slot of a run whose process is gone.
LEMMA DropUp ==
    ASSUME NEW s, Up(s), NEW r \in Runs, NoProcess(s, r)
    PROVE  /\ Up(Drop(s, r)) /\ NoProcess(Drop(s, r), r)
           /\ Drop(s, r).run = s.run /\ Drop(s, r).att = s.att
           /\ Drop(s, r).procs = s.procs
<1> DEFINE gone == [s EXCEPT !.running[r] = NotRunning]
<1>1. NotRunning \in RunningRun
  BY DEF NotRunning, RunningRun, Timer
<1>2. /\ Up(gone) /\ NoProcess(gone, r) /\ gone.run = s.run /\ gone.att = s.att
      /\ gone.procs = s.procs
  BY <1>1, RunningGood DEF Up, Good, NoProcess
<1> HIDE DEF gone
<1>3. /\ Up(ReleaseSlot(gone, r)) /\ NoProcess(ReleaseSlot(gone, r), r)
      /\ ReleaseSlot(gone, r).run = s.run /\ ReleaseSlot(gone, r).att = s.att
      /\ ReleaseSlot(gone, r).procs = s.procs
  BY <1>2, ReleaseGood DEF Up, Good, NoProcess
<1>. QED BY <1>3 DEF Drop, gone

\* finish() of an attempt, for a running service.
LEMMA FinishUp ==
    ASSUME NEW s, Up(s), NEW r \in Runs, NEW k, NoProcess(s, r),
           NEW status \in {"succeeded", "failed", "cancelled", "lost"},
           NEW retryAt \in {"none", "future", "due"}
    PROVE  Up(FinishAttempt(s, r, k, status, retryAt))
BY FinishGood DEF Up, Good

\* The exit of a process that was asked to stop.
LEMMA CancelledExitUp ==
    ASSUME NEW s, Up(s), NEW r \in Runs, NEW k, NoProcess(s, r), NEW exit, NEW launch
    PROVE  Up(CancelledExit(s, r, k, exit, launch))
<1> DEFINE closed == FinishAttempt(s, r, k, "cancelled", "none")
           ended == RecordProcessExit(closed, r, exit)
           outcome == IF ended.ext[r].outcome = "cancelled" THEN "canceled" ELSE "stopped"
           row == [FinishRunStopped(ended.run[r]) EXCEPT !.outcome = outcome]
           t == [ended EXCEPT !.run[r] = row]
<1>1. Up(ended)
  <2>1. Up(closed)
    BY FinishUp
  <2> HIDE DEF closed
  <2>. QED BY <2>1, RecordExitCore, UpSame DEF Up, Good, GoodBut
<1> HIDE DEF ended
<1>2. row \in RunRow /\ row.status = "finished"
  <2>1. FinishRunStopped(ended.run[r]) \in RunRow /\ FinishRunStopped(ended.run[r]).status = "finished"
    BY <1>1, GoodTyped, RowTypes DEF Up, Good
  <2>. QED BY <2>1 DEF RunRow, RunOutcome
<1> HIDE DEF row
<1>3. Up(t)
  BY <1>1, <1>2, RowUp
<1> HIDE DEF t
<1>4. Up(FinishTerminalRun(t, r, launch))
  BY <1>3, FinishTerminalRunUp
<1>. QED BY <1>4 DEF CancelledExit, t, row, ended, closed

\* The exit of a failed attempt that is not retried.
LEMMA FailedExitUp ==
    ASSUME NEW s, Up(s), NEW r \in Runs, NEW k, NoProcess(s, r), NEW exit, NEW launch
    PROVE  Up(FailedExit(s, r, k, exit, launch))
<1> DEFINE failed == FinishAttempt(s, r, k, "failed", "none")
           ended == IF exit = "clean" THEN MarkFailedByRun(failed, r, "keep")
                    ELSE RecordProcessExit(failed, r, exit)
           cause == IF exit = "clean" THEN "nonzero" ELSE exit
           row == FinishRunFromExit(ended.run[r], cause)
           t == [ended EXCEPT !.run[r] = row]
<1>1. Up(ended)
  <2>1. Up(failed)
    BY FinishUp
  <2> HIDE DEF failed
  <2>2. Up(MarkFailedByRun(failed, r, "keep"))
    BY <2>1, MarkFailedCore, UpSame DEF Up, Good, GoodBut
  <2>3. Up(RecordProcessExit(failed, r, exit))
    BY <2>1, RecordExitCore, UpSame DEF Up, Good, GoodBut
  <2>. QED BY <2>2, <2>3
<1> HIDE DEF ended, cause
<1>2. row \in RunRow /\ row.status = "finished"
  BY <1>1, GoodTyped, RowTypes DEF Up, Good
<1> HIDE DEF row
<1>3. Up(t)
  BY <1>1, <1>2, RowUp
<1> HIDE DEF t
<1>4. Up(FinishTerminalRun(t, r, launch))
  BY <1>3, FinishTerminalRunUp
<1>. QED BY <1>4 DEF FailedExit, t, row, cause, ended

\* The clean exit.
LEMMA SucceededExitUp ==
    ASSUME NEW s, Up(s), NEW r \in Runs, NEW k, NoProcess(s, r), NEW launch
    PROVE  Up(SucceededExit(s, r, k, launch))
<1> DEFINE closed == FinishAttempt(s, r, k, "succeeded", "none")
           ended == RecordProcessExit(closed, r, "clean")
           row == FinishRunFromExit(ended.run[r], "clean")
           reported == IF ended.ext[r].phase = "awaiting_completion"
                       THEN [row EXCEPT !.runtime_state = "awaiting_completion"]
                       ELSE IF ended.ext[r].outcome = "succeeded"
                       THEN [row EXCEPT !.outcome = "completed", !.outcome_state = "succeeded"]
                       ELSE row
           t == [ended EXCEPT !.run[r] = reported]
<1>1. Up(ended)
  <2>1. Up(closed)
    BY FinishUp
  <2> HIDE DEF closed
  <2>. QED BY <2>1, RecordExitCore, UpSame DEF Up, Good, GoodBut
<1> HIDE DEF ended
<1>2. row \in RunRow /\ row.status = "finished"
  BY <1>1, GoodTyped, RowTypes DEF Up, Good
<1> HIDE DEF row
<1>3. reported \in RunRow /\ reported.status = "finished"
  BY <1>2 DEF RunRow, RunOutcome, RuntimeState, OutcomeState
<1> HIDE DEF reported
<1>4. Up(t)
  BY <1>1, <1>3, RowUp
<1> HIDE DEF t
<1>5. Up(FinishTerminalRun(t, r, launch))
  BY <1>4, FinishTerminalRunUp
<1>. QED BY <1>5 DEF SucceededExit, t, reported, row, ended

\* handleProcessExit() after the process of the run has gone.
LEMMA HandleProcessExitUp ==
    ASSUME NEW s, Up(s), NEW r \in Runs, NEW k, NoProcess(s, r),
           NEW exit, NEW sign, NEW launch
    PROVE  Up(HandleProcessExit(s, r, k, exit, sign, launch))
<1> DEFINE dropped == Drop(s, r)
           e == s.running[r]
           condition == FailureCondition(e, exit, sign)
           closing == IF e.stop THEN "cancelled" ELSE "failed"
<1>1. CASE Stale(s, r, k)
  BY <1>1 DEF HandleProcessExit
<1>2. CASE ~Stale(s, r, k)
  <2>1. Up(dropped) /\ NoProcess(dropped, r) /\ IsOpen(dropped, r, k)
    BY <1>2, DropUp DEF Stale, IsOpen
  <2> HIDE DEF dropped, condition, closing
  <2>2. closing \in {"succeeded", "failed", "cancelled", "lost"}
    BY DEF closing
  <2>3. Up(DispatchMonOf(FinishAttempt(dropped, r, k, closing, "none"), r, launch))
    BY <2>1, <2>2, FinishUp, DispatchMonOfUp
  <2>4. /\ Up(CancelledExit(dropped, r, k, exit, launch))
        /\ Up(SucceededExit(dropped, r, k, launch))
        /\ Up(Retry(dropped, r, k, launch))
        /\ Up(FailedExit(dropped, r, k, exit, launch))
    BY <2>1, CancelledExitUp, SucceededExitUp, RetryUp, FailedExitUp
  <2>5. HandleProcessExit(s, r, k, exit, sign, launch) =
          IF s.run[r].status = "finished"
          THEN DispatchMonOf(FinishAttempt(dropped, r, k, closing, "none"), r, launch)
          ELSE IF Cancelling(s, r) THEN CancelledExit(dropped, r, k, exit, launch)
          ELSE IF condition = "none" THEN SucceededExit(dropped, r, k, launch)
          ELSE IF ShouldRetry(s, r, k, condition) THEN Retry(dropped, r, k, launch)
          ELSE FailedExit(dropped, r, k, exit, launch)
    BY <1>2 DEF HandleProcessExit, dropped, condition, closing
  <2>. QED BY <2>3, <2>4, <2>5
<1>. QED BY <1>1, <1>2

\* handleProcessError(): the attempt it closes never had a process.
LEMMA HandleProcessErrorUp ==
    ASSUME NEW s, Up(s), NEW r \in Runs, NEW k, IsOpen(s, r, k) => NoProcess(s, r),
           NEW sign, NEW launch
    PROVE  Up(HandleProcessError(s, r, k, sign, launch))
<1> DEFINE dropped == Drop(s, r)
           failed == FinishAttempt(dropped, r, k, "failed", "none")
           row == FinishRunInterrupted(failed.run[r], "crashed")
           finished == [failed EXCEPT !.run[r] = row]
           ended == MarkFailedByRun(finished, r, "keep")
<1>1. CASE Stale(s, r, k)
  BY <1>1 DEF HandleProcessError
<1>2. CASE ~Stale(s, r, k)
  <2>1. Up(dropped) /\ NoProcess(dropped, r) /\ IsOpen(dropped, r, k)
    BY <1>2, DropUp DEF Stale, IsOpen
  <2> HIDE DEF dropped
  <2>2. Up(failed)
    BY <2>1, FinishUp
  <2> HIDE DEF failed
  <2>3. row \in RunRow /\ row.status = "finished"
    BY <2>2, GoodTyped, RowTypes DEF Up, Good, ProcessStatus
  <2> HIDE DEF row
  <2>4. Up(finished)
    BY <2>2, <2>3, RowUp
  <2> HIDE DEF finished
  <2>5. Up(ended)
    BY <2>4, MarkFailedCore, UpSame DEF Up, Good, GoodBut
  <2> HIDE DEF ended
  <2>6. Up(FinishTerminalRun(ended, r, launch)) /\ Up(Retry(dropped, r, k, launch))
    BY <2>1, <2>5, FinishTerminalRunUp, RetryUp
  <2>7. HandleProcessError(s, r, k, sign, launch) =
          IF s.run[r].status = "finished" THEN dropped
          ELSE IF ShouldRetry(s, r, k, ErrorCondition(s.running[r], sign))
          THEN Retry(dropped, r, k, launch)
          ELSE FinishTerminalRun(ended, r, launch)
    BY <1>2 DEF HandleProcessError, ended, finished, row, failed, dropped
  <2>. QED BY <2>1, <2>6, <2>7
<1>. QED BY <1>1, <1>2

-----------------------------------------------------------------------------
\* Events that have been taken from their queue, and processes that have ended.
LEMMA EventsGone ==
    ASSUME NEW s, Good(s), NEW t \in State, NEW X,
           t.run = s.run, t.att = s.att, t.slots = s.slots,
           t.running = s.running, t.service = s.service,
           t.procs \subseteq s.procs, t.errors \subseteq s.errors, t.pending \subseteq s.pending,
           \A w \in s.pending \ t.pending : w.rejected \/ w.run \in X
    PROVE  GoodBut(t, X)
<1>3. IsFiniteSet(Busy(t)) /\ SlotLimit(t)
  <2>1. Busy(t) = Busy(s) /\ \A m \in Mons : SlotsOf(t, m) = SlotsOf(s, m)
    BY DEF Busy, SlotsOf
  <2>. QED BY <2>1 DEF Good, GoodBut, SlotLimit
<1>4. ProcessOwned(t)
  <2>1. \A q, k : IsOpen(t, q, k) <=> IsOpen(s, q, k)
    BY DEF IsOpen
  <2>. QED BY <2>1 DEF Good, GoodBut, ProcessOwned
<1>5. OpenIsLast(t) /\ EventsNumbered(t) /\ WaitingHasNoProcess(t)
  BY DEF Good, GoodBut, OpenIsLast, EventsNumbered, WaitingHasNoProcess, NoProcess
<1>6. \A q \in Runs \ X : Settled(t, q)
  BY DEF Good, GoodBut, Settled, HasOpenAttempt, NoProcess
<1>7. t.service = "down" => t.procs = {}
  BY DEF Good, GoodBut
<1>. QED BY <1>3, <1>4, <1>5, <1>6, <1>7 DEF GoodBut

\* A live process is the one of the open attempt.
LEMMA OpenProcess ==
    ASSUME NEW s, Good(s), NEW p \in s.procs
    PROVE  p = <<p[1], p[2]>> /\ p[1] \in Runs /\ p[2] = Len(s.att[p[1]])
<1>1. p \in Runs \X Nat
  BY DEF Good, GoodBut, State
<1>2. IsOpen(s, p[1], p[2])
  BY DEF Good, GoodBut, ProcessOwned
<1>3. p[2] = Len(s.att[p[1]])
  BY <1>1, <1>2 DEF Good, GoodBut, OpenIsLast, IsOpen
<1>. QED BY <1>1, <1>3

\* So the open attempt determines the process of a run.
LEMMA OneProcess ==
    ASSUME NEW s, Good(s), NEW r \in Runs, NEW k, IsOpen(s, r, k),
           NEW p \in s.procs, p[1] = r
    PROVE  p = <<r, k>>
<1>1. k = Len(s.att[r])
  BY DEF Good, GoodBut, OpenIsLast, IsOpen
<1>. QED BY <1>1, OpenProcess

\* The continuation of startRun(): the awaited call is removed and the run gets its map entry,
\* whatever happened to the run meanwhile.
LEMMA ActivateUp ==
    ASSUME NEW s, Up(s), NEW w \in s.pending, ~w.rejected
    PROVE  Up(Activate([s EXCEPT !.pending = s.pending \ {w}], w.run, w.attempt))
<1> DEFINE r == w.run
           k == w.attempt
           taken == [s EXCEPT !.pending = s.pending \ {w}]
           marked == MarkAttemptActive(taken, r, k)
           entry == [NotRunning EXCEPT !.attempt = k,
                                       !.timer = IF HasTimeout THEN "armed" ELSE "none"]
           entered == [marked EXCEPT !.running[r] = entry]
           row == MarkRunActive(entered.run[r])
           active == [entered EXCEPT !.run[r] = row]
<1>1. s \in State /\ r \in Runs
  BY DEF Up, Good, GoodBut, State, Pending
<1>2. k \in Nat \ {0}
  <2>1. s.att[r] \in Seq(AttemptRow) /\ k \in 1 .. Len(s.att[r])
    BY <1>1 DEF Up, Good, GoodBut, State, EventsNumbered
  <2>. QED BY <2>1
<1>3. GoodBut(taken, {r}) /\ taken.service # "down"
  <2>1. /\ taken \in State /\ taken.pending = s.pending \ {w}
        /\ taken.run = s.run /\ taken.att = s.att /\ taken.slots = s.slots
        /\ taken.running = s.running /\ taken.service = s.service
        /\ taken.procs = s.procs /\ taken.errors = s.errors
    BY <1>1 DEF State
  <2>2. \A v \in s.pending \ taken.pending : v.rejected \/ v.run \in {r}
    BY <2>1
  <2> HIDE DEF taken, r
  <2>. QED BY <2>1, <2>2, EventsGone DEF Up
<1> HIDE DEF taken
<1>4. GoodBut(marked, {r}) /\ marked.service # "down"
  BY <1>1, <1>3, MarkActiveGood
<1> HIDE DEF marked, r, k
<1>5. entry \in RunningRun /\ entry.attempt = k
  BY <1>2 DEF NotRunning, RunningRun, Timer
<1> HIDE DEF entry
<1>6. /\ GoodBut(entered, {r}) /\ entered.service # "down"
      /\ entered.running[r].attempt # 0
  <2>1. marked.running \in [Runs -> RunningRun]
    BY <1>4 DEF GoodBut, State
  <2>. QED BY <1>1, <1>2, <1>4, <1>5, <2>1, RunningGood
<1> HIDE DEF entered
<1>7. row \in RunRow /\ row.status = "active"
  BY <1>1, <1>6, GoodTyped, RowTypes
<1> HIDE DEF row
<1>8. /\ GoodBut(active, {r}) /\ active.service # "down"
      /\ active.run[r].status = "active" /\ active.running[r].attempt # 0
  <2>1. entered.run \in [Runs -> RunRow]
    BY <1>6 DEF GoodBut, State
  <2>. QED BY <1>1, <1>6, <1>7, <2>1, RowGood
<1> HIDE DEF active
<1>9. Up(active)
  <2>1. Settled(active, r)
    BY <1>8 DEF Settled
  <2>. QED BY <1>1, <1>8, <2>1, Settle DEF Up
<1>10. /\ Up(MarkCancellationSignalled(active, r))
       /\ Up(UpdatePhase(active, r, "active"))
  BY <1>1, <1>9, SignalledCore, UpdatePhaseCore, UpSame DEF Up, Good, GoodBut, Phase
<1>11. active = [MarkAttemptActive(taken, r, k) EXCEPT
                    !.running[r] = entry, !.run[r] = MarkRunActive(@)]
  <2>1. entered.run = marked.run
    BY <1>1, <1>4, <1>5, RunningGood DEF entered
  <2>. QED BY <2>1 DEF active, row, entered, marked
<1>12. Activate(taken, r, k) = IF taken.ext[r].phase = "cancelling"
                               THEN MarkCancellationSignalled(active, r)
                               ELSE UpdatePhase(active, r, "active")
  BY <1>11 DEF Activate, entry
<1>13. Up(Activate(taken, r, k))
  BY <1>10, <1>12
<1>. QED BY <1>13 DEF taken, r, k

-----------------------------------------------------------------------------
(* The steps of the run manager, one lemma each. *)

\* The fields of the state record are the variables.
LEMMA StFields ==
    /\ st.run = run /\ st.att = att /\ st.slots = slots /\ st.ext = ext /\ st.asg = asg
    /\ st.running = running /\ st.procs = procs /\ st.pending = pending
    /\ st.errors = errors /\ st.timers = timers /\ st.resume = resume
    /\ st.service = service /\ st.crashes = crashes
BY DEF st

\* Committing a record of a running service gives a state that satisfies the invariant.
LEMMA CommitGood ==
    ASSUME NEW s, Up(s), Commit(s)
    PROVE  Good(st')
<1>1. s \in State
  BY DEF Up, Good, GoodBut
<1>2. st' = s
  BY <1>1 DEF State, Commit, st
<1>. QED BY <1>2 DEF Up

\* The guards of the handlers say that the service is not down.
LEMMA AliveUp ==
    ASSUME Good(st), Quiet \/ Alive \/ service = "up"
    PROVE  Up(st)
BY StFields DEF Up, Quiet, Alive

\* A startRun() goes on after its await, or its rejection is handled.
LEMMA ContinueGood ==
    ASSUME Good(st), NEW w, NEW sign, NEW launch, Continue(w, sign, launch)
    PROVE  Good(st')
<1> DEFINE s == [st EXCEPT !.pending = st.pending \ {w}]
           active == Activate(s, w.run, w.attempt)
<1>1. Up(st) /\ st \in State /\ w \in st.pending /\ w \in Pending
  BY AliveUp, StFields DEF Continue, Good, GoodBut, State
<1>2. w.run \in Runs /\ w.caller \in Caller /\ w.reserved \in Runs \cup {0} /\ MonOf[w.run] \in Mons
  BY <1>1, MonAssumption DEF Pending
<1>3. w.caller = "reserve" => w.reserved \in Runs
  BY <1>1 DEF Good, GoodBut, EventsNumbered
<1>4. CASE w.rejected
  <2>1. Up(s)
    <3>1. /\ s \in State /\ s.pending = st.pending \ {w}
          /\ s.run = st.run /\ s.att = st.att /\ s.slots = st.slots
          /\ s.running = st.running /\ s.service = st.service
          /\ s.procs = st.procs /\ s.errors = st.errors
      BY <1>1 DEF State
    <3> HIDE DEF s
    <3>2. \A v \in st.pending \ s.pending : v.rejected
      BY <1>4, <3>1
    <3>. QED BY <1>1, <3>1, <3>2, EventsGone DEF Up, Good
  <2>2. IsOpen(s, w.run, w.attempt) => NoProcess(s, w.run)
    <3> SUFFICES ASSUME IsOpen(st, w.run, w.attempt), NEW p \in st.procs, p[1] = w.run
                 PROVE  FALSE
      BY <1>1 DEF State, IsOpen, NoProcess
    <3>1. p = <<w.run, w.attempt>>
      BY <1>2, OneProcess
    <3>. QED BY <1>1, <1>4, <3>1 DEF Good, GoodBut, ProcessOwned
  <2> HIDE DEF s
  <2>3. Up(HandleProcessError(s, w.run, w.attempt, sign, launch))
    BY <1>2, <2>1, <2>2, HandleProcessErrorUp
  <2>4. Commit(HandleProcessError(s, w.run, w.attempt, sign, launch))
    BY <1>4 DEF Continue, s
  <2>. QED BY <2>3, <2>4, CommitGood
<1>5. CASE ~w.rejected
  <2>1. Up(active)
    BY <1>1, <1>5, ActivateUp
  <2> HIDE DEF active
  <2>2. Up(Dispatch(active, MonOf[w.run], launch, w.caller, w.reserved))
    BY <1>2, <1>3, <2>1, DispatchUp
  <2>3. Commit(active) \/ Commit(Dispatch(active, MonOf[w.run], launch, w.caller, w.reserved))
    BY <1>5 DEF Continue, active
  <2>. QED BY <2>1, <2>2, <2>3, CommitGood
<1>. QED BY <1>4, <1>5

\* An 'error' event belongs to an attempt without a process.
LEMMA SpawnErrorGood ==
    ASSUME Good(st), NEW r \in Runs, NEW k, NEW sign, NEW launch, SpawnError(r, k, sign, launch)
    PROVE  Good(st')
<1> DEFINE s == [st EXCEPT !.errors = st.errors \ {<<r, k>>}]
<1>1. Up(st) /\ st \in State /\ <<r, k>> \in st.errors
  BY AliveUp, StFields DEF SpawnError, Good, GoodBut
<1>2. /\ s \in State /\ s.errors = st.errors \ {<<r, k>>}
      /\ s.run = st.run /\ s.att = st.att /\ s.slots = st.slots
      /\ s.running = st.running /\ s.service = st.service
      /\ s.procs = st.procs /\ s.pending = st.pending
  BY <1>1 DEF State
<1>3. Commit(HandleProcessError(s, r, k, sign, launch))
  BY DEF SpawnError
<1> HIDE DEF s
<1>4. Up(s)
  BY <1>1, <1>2, EventsGone DEF Up, Good
<1>5. IsOpen(s, r, k) => NoProcess(s, r)
  <2> SUFFICES ASSUME IsOpen(st, r, k), NEW p \in st.procs, p[1] = r
               PROVE  FALSE
    BY <1>2 DEF IsOpen, NoProcess
  <2>1. p = <<r, k>>
    BY OneProcess
  <2>. QED BY <1>1, <2>1 DEF Good, GoodBut, ProcessOwned
<1>6. Up(HandleProcessError(s, r, k, sign, launch))
  BY <1>4, <1>5, HandleProcessErrorUp
<1>. QED BY <1>3, <1>6, CommitGood

\* The exit of the only process a run has.
LEMMA ProcessExitGood ==
    ASSUME Good(st), NEW r \in Runs, NEW k, NEW exit, NEW sign, NEW launch,
           ProcessExit(r, k, exit, sign, launch)
    PROVE  Good(st')
<1> DEFINE s == [st EXCEPT !.procs = st.procs \ {<<r, k>>}]
<1>1. Up(st) /\ st \in State /\ <<r, k>> \in st.procs
  BY AliveUp, StFields DEF ProcessExit, Good, GoodBut
<1>2. /\ s \in State /\ s.procs = st.procs \ {<<r, k>>}
      /\ s.run = st.run /\ s.att = st.att /\ s.slots = st.slots
      /\ s.running = st.running /\ s.service = st.service
      /\ s.errors = st.errors /\ s.pending = st.pending
  BY <1>1 DEF State
<1>3. Commit(HandleProcessExit(s, r, k, exit, sign, launch))
  BY DEF ProcessExit
<1> HIDE DEF s
<1>4. Up(s)
  BY <1>1, <1>2, EventsGone DEF Up, Good
<1>5. NoProcess(s, r)
  <2> SUFFICES ASSUME NEW p \in st.procs, p[1] = r
               PROVE  p = <<r, k>>
    BY <1>2 DEF NoProcess
  <2>1. IsOpen(st, r, k)
    BY <1>1 DEF Good, GoodBut, ProcessOwned
  <2>. QED BY <2>1, OneProcess
<1>6. Up(HandleProcessExit(s, r, k, exit, sign, launch))
  BY <1>4, <1>5, HandleProcessExitUp
<1>. QED BY <1>3, <1>6, CommitGood

\* The attempt timers only write their own entry of the running map.
LEMMA TimerGood ==
    ASSUME Good(st), NEW r \in Runs, AttemptTimeout(r) \/ KillTimer(r)
    PROVE  Good(st')
<1>1. Up(st) /\ st \in State /\ running[r] \in RunningRun
  BY AliveUp, StFields, GoodTyped DEF AttemptTimeout, KillTimer, Good, GoodBut
<1>2. PICK e \in RunningRun : /\ e.attempt = running[r].attempt
                              /\ running' = [running EXCEPT ![r] = e]
                              /\ UNCHANGED <<db, procs, pending, errors, timers, resume,
                                            service, crashes>>
  <2>1. CASE AttemptTimeout(r)
    <3> DEFINE e == [running[r] EXCEPT !.timedOut = TRUE, !.timer = "grace"]
    <3>1. e \in RunningRun /\ e.attempt = running[r].attempt
      BY <1>1 DEF RunningRun, Timer
    <3>2. running' = [running EXCEPT ![r] = e]
      <4>1. running \in [Runs -> RunningRun]
        BY <1>1, StFields DEF State
      <4>. QED BY <1>1, <2>1, <4>1 DEF AttemptTimeout, RunningRun
    <3>. QED BY <2>1, <3>1, <3>2 DEF AttemptTimeout
  <2>2. CASE KillTimer(r)
    <3> DEFINE e == [running[r] EXCEPT !.timer = "killed"]
    <3>1. e \in RunningRun /\ e.attempt = running[r].attempt
      BY <1>1 DEF RunningRun, Timer
    <3>2. running' = [running EXCEPT ![r] = e]
      BY <2>2 DEF KillTimer
    <3>. QED BY <2>2, <3>1, <3>2 DEF KillTimer
  <2>. QED BY <2>1, <2>2
<1> DEFINE s == [st EXCEPT !.running[r] = e]
<1>3. Commit(s)
  BY <1>2 DEF Commit, st, db
<1>4. Up(s)
  <2>1. e.attempt # 0 \/ st.running[r].attempt = 0
    BY <1>2, StFields
  <2>. QED BY <1>1, <2>1, RunningGood DEF Up, Good
<1> HIDE DEF s
<1>. QED BY <1>3, <1>4, CommitGood

\* The passing of a retry time changes no attempt's status.
LEMMA BackoffGood ==
    ASSUME Good(st), NEW r \in Runs, BackoffElapses(r)
    PROVE  Good(st')
<1> DEFINE k == Len(att[r])
           row == [att[r][k] EXCEPT !.retry_at = "due"]
           attempts == [att[r] EXCEPT ![k] = row]
           t == [st EXCEPT !.att = [att EXCEPT ![r] = attempts]]
<1>1. st \in State /\ att \in [Runs -> Seq(AttemptRow)] /\ att[r] \in Seq(AttemptRow) /\ att[r] # << >>
  BY StFields DEF Good, GoodBut, State, BackoffElapses, InBackoff
<1>2. k \in 1 .. Len(att[r]) /\ att[r][k] \in AttemptRow
  BY <1>1
<1>3. row \in AttemptRow /\ row.status = att[r][k].status
  BY <1>2 DEF AttemptRow
<1>4. /\ attempts \in Seq(AttemptRow) /\ Len(attempts) = Len(att[r])
      /\ DOMAIN attempts = DOMAIN att[r]
      /\ \A j \in DOMAIN att[r] : attempts[j].status = att[r][j].status
      /\ (attempts = << >>) <=> (att[r] = << >>)
  <2> HIDE DEF row
  <2>. QED BY <1>1, <1>2, <1>3
<1>5. st' = t
  <2>1. att' = [att EXCEPT ![r] = attempts]
    BY DEF BackoffElapses
  <2> HIDE DEF attempts
  <2>. QED BY <2>1 DEF BackoffElapses, st
<1> HIDE DEF attempts
<1>6. /\ t \in State
      /\ t.att = [att EXCEPT ![r] = attempts]
      /\ t.run = st.run /\ t.slots = st.slots /\ t.running = st.running
      /\ t.procs = st.procs /\ t.pending = st.pending /\ t.errors = st.errors
      /\ t.service = st.service
  BY <1>1, <1>4 DEF State
<1> HIDE DEF t
<1>7. \A q \in Runs : /\ t.att[q] \in Seq(AttemptRow) /\ st.att[q] \in Seq(AttemptRow)
                       /\ Len(t.att[q]) = Len(st.att[q])
                       /\ DOMAIN t.att[q] = DOMAIN st.att[q]
                       /\ \A j \in DOMAIN st.att[q] : t.att[q][j].status = st.att[q][j].status
  BY <1>1, <1>4, <1>6, StFields
<1>8. /\ \A q \in Runs : \A j : IsOpen(t, q, j) <=> IsOpen(st, q, j)
      /\ \A q \in Runs : HasOpenAttempt(t, q) <=> HasOpenAttempt(st, q)
  BY <1>7 DEF IsOpen, HasOpenAttempt
<1>9. IsFiniteSet(Busy(t)) /\ SlotLimit(t)
  <2>1. Busy(t) = Busy(st) /\ \A m \in Mons : SlotsOf(t, m) = SlotsOf(st, m)
    BY <1>6 DEF Busy, SlotsOf
  <2>. QED BY <2>1 DEF Good, GoodBut, SlotLimit
<1>10. ProcessOwned(t)
  <2>1. \A p \in st.procs : p[1] \in Runs
    BY <1>1 DEF State
  <2>. QED BY <1>6, <1>8, <2>1 DEF Good, GoodBut, ProcessOwned
<1>11. OpenIsLast(t)
  BY <1>7 DEF Good, GoodBut, OpenIsLast
<1>12. EventsNumbered(t)
  <2>1. (\A p \in st.errors : p[1] \in Runs) /\ (\A w \in st.pending : w.run \in Runs)
    BY <1>1 DEF State, Pending
  <2>. QED BY <1>6, <1>7, <2>1 DEF Good, GoodBut, EventsNumbered
<1>13. WaitingHasNoProcess(t)
  BY <1>6 DEF Good, GoodBut, WaitingHasNoProcess, NoProcess
<1>14. \A q \in Runs : Settled(t, q)
  BY <1>6, <1>8 DEF Good, GoodBut, Settled, NoProcess
<1>15. t.service = "down" => t.procs = {}
  BY <1>6 DEF Good, GoodBut
<1>. QED BY <1>5, <1>6, <1>9, <1>10, <1>11, <1>12, <1>13, <1>14, <1>15 DEF Good, GoodBut

\* A retry timer fires.
LEMMA RetryWakeGood ==
    ASSUME Good(st), NEW r \in Runs, NEW launch, RetryWake(r, launch)
    PROVE  Good(st')
<1>1. Up(ClearRetryTimer(st, r))
  BY AliveUp, ClearTimerCore, UpSame DEF RetryWake, Up, Good, GoodBut
<1>2. Up(Dispatch(ClearRetryTimer(st, r), MonOf[r], launch, "caught", 0))
  BY <1>1, DispatchUp, MonAssumption DEF Caller
<1>. QED BY <1>2, CommitGood DEF RetryWake

\* An update of a row that leaves its status alone.
LEMMA SameStatusUp ==
    ASSUME NEW s, Up(s), NEW r \in Runs, NEW row \in RunRow, row.status = s.run[r].status
    PROVE  Up([s EXCEPT !.run[r] = row])
<1>1. WaitingHasNoProcess(s) /\ Settled(s, r)
  BY DEF Up, Good, GoodBut
<1>2. row.status \in {"none", "queued"} => NoProcess(s, r) /\ ~HasOpenAttempt(s, r)
  BY <1>1 DEF WaitingHasNoProcess, Settled
<1>. QED BY <1>2, RowUp

\* The deadline of an awaited completion.
LEMMA ExpireCompletionGood ==
    ASSUME Good(st), NEW r \in Runs, ExpireCompletion(r)
    PROVE  Good(st')
<1> DEFINE s == MarkFailedByRun(st, r, "keep")
           row == [s.run[r] EXCEPT !.outcome = "failed", !.outcome_state = "failed",
                                   !.runtime_state = "failed"]
           t == [s EXCEPT !.run[r] = row]
<1>1. Up(s)
  BY AliveUp, MarkFailedCore, UpSame DEF ExpireCompletion, Up, Good, GoodBut
<1> HIDE DEF s
<1>2. row \in RunRow /\ row.status = s.run[r].status
  <2>1. s.run[r] \in RunRow
    BY <1>1, GoodTyped DEF Up, Good
  <2>. QED BY <2>1 DEF RunRow, RunOutcome, OutcomeState, RuntimeState
<1>3. Up(t)
  <2> HIDE DEF row
  <2>. QED BY <1>1, <1>2, SameStatusUp
<1>4. Commit(t)
  BY DEF ExpireCompletion, s
<1> HIDE DEF t
<1>. QED BY <1>3, <1>4, CommitGood

-----------------------------------------------------------------------------
\* A new run row: nothing can yet refer to it.
LEMMA InsertedUp ==
    ASSUME Good(st), Quiet, NEW r \in Runs, Insertable(r)
    PROVE  Up(Inserted(r))
<1>1. Up(st) /\ st.run[r].status = "none"
  BY AliveUp, StFields DEF Insertable
<1>2. NoProcess(st, r) /\ ~HasOpenAttempt(st, r)
  BY <1>1 DEF Up, Good, GoodBut, WaitingHasNoProcess, Settled
<1>3. QueuedRow \in RunRow
  BY <1>1, GoodTyped, RowTypes DEF Up, Good
<1>. QED BY <1>1, <1>2, <1>3, RowUp DEF Inserted

\* POST /runs/operator.
LEMMA CreateOperatorRunGood ==
    ASSUME Good(st), NEW r \in Runs, NEW launch, CreateOperatorRun(r, launch)
    PROVE  Good(st')
<1>1. Up(Inserted(r))
  BY InsertedUp DEF CreateOperatorRun
<1>2. Up(Dispatch(Inserted(r), MonOf[r], launch, "caught", 0))
  BY <1>1, DispatchUp, MonAssumption DEF Caller
<1>3. Up(StartRun(Inserted(r), r, launch, "start", 0))
  BY <1>1, StartRunUp DEF Caller
<1>. QED BY <1>2, <1>3, CommitGood DEF CreateOperatorRun

\* Plan activation.
LEMMA ActivatePlanGood ==
    ASSUME Good(st), NEW r \in Runs, ActivatePlan(r)
    PROVE  Good(st')
<1> DEFINE s == Inserted(r)
           t == [s EXCEPT !.asg[r] = "queued"]
<1>1. Up(s) /\ s \in State
  BY InsertedUp DEF ActivatePlan, Up, Good, GoodBut
<1>2. Commit(t)
  BY DEF ActivatePlan
<1> HIDE DEF s
<1>3. SameCore(s, t)
  BY <1>1 DEF State, SameCore, AssignmentStatus
<1>. QED BY <1>1, <1>2, <1>3, UpSame, CommitGood

\* reserveExternalRun().
LEMMA ReserveExternalRunGood ==
    ASSUME Good(st), NEW r \in Runs, NEW launch, ReserveExternalRun(r, launch)
    PROVE  Good(st')
<1> DEFINE s == Inserted(r)
           t == [s EXCEPT !.ext[r].phase = "queued"]
<1>1. Up(s) /\ s \in State
  BY InsertedUp DEF ReserveExternalRun, Up, Good, GoodBut
<1>2. Commit(Dispatch(t, MonOf[r], launch, "reserve", r))
  BY DEF ReserveExternalRun
<1> HIDE DEF s
<1>3. SameCore(s, t)
  <2>1. [s.ext[r] EXCEPT !.phase = "queued"] \in ExtRow
    BY <1>1, ExtRowOf, ExtFields DEF Phase
  <2>. QED BY <1>1, <2>1, ExtUpdate
<1>4. Up(t)
  BY <1>1, <1>3, UpSame
<1> HIDE DEF t
<1>5. Up(Dispatch(t, MonOf[r], launch, "reserve", r))
  BY <1>4, DispatchUp, MonAssumption DEF Caller
<1>. QED BY <1>2, <1>5, CommitGood

\* POST /runs/:id/start.
LEMMA StartRequestGood ==
    ASSUME Good(st), NEW r \in Runs, NEW launch, StartRequest(r, launch)
    PROVE  Good(st')
BY AliveUp, StartRunUp, CommitGood DEF StartRequest, Caller

\* stopRun(): with no request before the loop is quiet, a run without a map entry has no
\* process, so that its slot may be released.
LEMMA StopRunUp ==
    ASSUME Good(st), Quiet, NEW r \in Runs
    PROVE  Up(StopRun(st, r)) /\ StopRun(st, r).run[r].status = "finished"
<1> DEFINE row == FinishRunStopped(st.run[r])
           finished == [st EXCEPT !.run[r] = row]
           stopped == ClearRetryTimer(finished, r)
           e == [ClearAttemptTimers(stopped.running[r]) EXCEPT !.stop = TRUE]
           signalled == [stopped EXCEPT !.running[r] = e]
           settled == IF st.running[r].attempt # 0 THEN signalled ELSE ReleaseSlot(stopped, r)
<1>1. Up(st) /\ st.pending = {} /\ st \in State /\ st.run \in [Runs -> RunRow]
  BY AliveUp, StFields DEF Quiet, Good, GoodBut, State
<1>2. row \in RunRow /\ row.status = "finished"
  BY <1>1, RowTypes
<1> HIDE DEF row
<1>3. /\ Up(finished) /\ finished.run[r].status = "finished"
      /\ finished.running = st.running /\ finished.procs = st.procs
  BY <1>1, <1>2, RowGood, RowUp DEF Up, Good
<1> HIDE DEF finished
<1>4. SameCore(finished, stopped)
  BY <1>3, ClearTimerCore DEF Up, Good, GoodBut
<1>5. /\ Up(stopped) /\ stopped.run[r].status = "finished"
      /\ stopped.running = st.running /\ stopped.procs = st.procs
  BY <1>3, <1>4, UpSame DEF SameCore
<1> HIDE DEF stopped
<1>6. e \in RunningRun /\ e.attempt = stopped.running[r].attempt
  <2>1. stopped.running[r] \in RunningRun
    BY <1>5, GoodTyped DEF Up, Good
  <2>. QED BY <2>1 DEF RunningRun, ClearAttemptTimers, Timer
<1> HIDE DEF e
<1>7. Up(signalled) /\ signalled.run[r].status = "finished"
  BY <1>5, <1>6, RunningGood DEF Up, Good
<1> HIDE DEF signalled
<1>8. ASSUME st.running[r].attempt = 0
      PROVE  Up(ReleaseSlot(stopped, r)) /\ ReleaseSlot(stopped, r).run[r].status = "finished"
  <2>1. NoProcess(st, r)
    BY <1>1, <1>8 DEF Good, GoodBut, Settled
  <2>. QED BY <1>5, <2>1, ReleaseGood DEF Up, Good, NoProcess
<1>9. Up(settled) /\ settled.run[r].status = "finished"
  BY <1>7, <1>8
<1> HIDE DEF settled
<1>10. SameCore(settled, UpdateAssignment(settled, r, "blocked"))
  BY <1>9, AssignmentCore DEF Up, Good, GoodBut, AssignmentStatus
<1>11. StopRun(st, r) = UpdateAssignment(settled, r, "blocked")
  BY DEF StopRun, settled, signalled, e, stopped, finished, row
<1>. QED BY <1>9, <1>10, <1>11, UpSame DEF SameCore

\* A review writes outcomes only.
LEMMA ReviewedRow ==
    ASSUME NEW row \in RunRow, NEW outcome \in {"completed", "failed", "stopped"}
    PROVE  /\ Reviewed(row, outcome) \in RunRow /\ Reviewed(row, outcome).status = row.status
           /\ ReviewedAssignment(outcome) \in AssignmentStatus
BY DEF Reviewed, ReviewedAssignment, AssignmentStatus, RunRow, RunOutcome, OutcomeState

\* POST /runs/:id/close that stops a process.
LEMMA StopRequestGood ==
    ASSUME Good(st), NEW r \in Runs, StopRequest(r)
    PROVE  Good(st')
<1> DEFINE s == StopRun(st, r)
           row == Reviewed(s.run[r], "stopped")
           t == [s EXCEPT !.run[r] = row]
<1>1. Up(s)
  BY StopRunUp DEF StopRequest
<1>2. Commit(t)
  BY DEF StopRequest
<1> HIDE DEF s
<1>3. row \in RunRow /\ row.status = s.run[r].status
  BY <1>1, GoodTyped, ReviewedRow DEF Up, Good
<1> HIDE DEF row
<1>4. Up(t)
  BY <1>1, <1>3, SameStatusUp
<1>. QED BY <1>2, <1>4, CommitGood

\* POST /runs/:id/close otherwise: the process, the slot and the attempt are left alone.
LEMMA CloseRequestGood ==
    ASSUME Good(st), NEW r \in Runs, NEW outcome \in {"completed", "failed", "stopped"},
           CloseRequest(r, outcome)
    PROVE  Good(st')
<1> DEFINE exit == IF outcome = "failed" THEN "nonzero" ELSE "clean"
           row == IF run[r].status = "finished" THEN run[r] ELSE FinishRunFromExit(run[r], exit)
           reviewed == Reviewed(row, outcome)
           t == [st EXCEPT !.run[r] = reviewed]
           u == UpdateAssignment(t, r, ReviewedAssignment(outcome))
<1>1. Up(st) /\ run[r] \in RunRow
  BY AliveUp, GoodTyped, StFields DEF CloseRequest, Up, Good
<1>2. Commit(u)
  BY DEF CloseRequest
<1>3. row \in RunRow /\ row.status = "finished"
  BY <1>1, RowTypes
<1> HIDE DEF row
<1>4. reviewed \in RunRow /\ reviewed.status = "finished"
  BY <1>3, ReviewedRow
<1> HIDE DEF reviewed
<1>5. Up(t)
  BY <1>1, <1>4, RowUp
<1> HIDE DEF t
<1>6. Up(u)
  BY <1>3, <1>5, ReviewedRow, AssignmentCore, UpSame DEF Up, Good, GoodBut
<1>. QED BY <1>2, <1>6, CommitGood

\* POST /runs/:id/review.
LEMMA ReviewRequestGood ==
    ASSUME Good(st), NEW r \in Runs, NEW outcome \in {"completed", "failed", "stopped"},
           ReviewRequest(r, outcome)
    PROVE  Good(st')
<1> DEFINE row == Reviewed(st.run[r], outcome)
           t == [st EXCEPT !.run[r] = row]
           u == UpdateAssignment(t, r, ReviewedAssignment(outcome))
<1>1. Up(st) /\ st.run[r] \in RunRow
  BY AliveUp, GoodTyped DEF ReviewRequest, Up, Good
<1>2. Commit(u)
  BY DEF ReviewRequest
<1>3. row \in RunRow /\ row.status = st.run[r].status
  BY <1>1, ReviewedRow
<1> HIDE DEF row
<1>4. Up(t)
  BY <1>1, <1>3, SameStatusUp
<1> HIDE DEF t
<1>5. Up(u)
  BY <1>1, <1>4, ReviewedRow, AssignmentCore, UpSame DEF Up, Good, GoodBut
<1>. QED BY <1>2, <1>5, CommitGood

\* cancelRun() of a queued run, which has no process.
LEMMA CancelRunUp ==
    ASSUME NEW s, Up(s), NEW r \in Runs, s.run[r].status = "queued", NEW launch
    PROVE  Up(CancelRun(s, r, launch))
<1> DEFINE cleared == ClearRetryTimer(s, r)
           row == CancelQueuedRun(cleared.run[r])
           cancelled == [cleared EXCEPT !.run[r] = row]
           released == ReleaseSlot(cancelled, r)
           u == UpdateAssignment(released, r, "canceled")
<1>1. NoProcess(s, r)
  BY DEF Up, Good, GoodBut, WaitingHasNoProcess
<1>2. Up(cleared) /\ cleared.procs = s.procs
  BY ClearTimerCore, UpSame DEF Up, Good, GoodBut, SameCore
<1> HIDE DEF cleared
<1>3. row \in RunRow /\ row.status = "finished"
  BY <1>2, GoodTyped, RowTypes DEF Up, Good
<1> HIDE DEF row
<1>4. Up(cancelled) /\ NoProcess(cancelled, r)
  BY <1>1, <1>2, <1>3, RowGood, RowUp DEF Up, Good, NoProcess
<1> HIDE DEF cancelled
<1>5. Up(released)
  BY <1>4, ReleaseGood DEF Up, Good
<1> HIDE DEF released
<1>6. Up(u)
  BY <1>5, AssignmentCore, UpSame DEF Up, Good, GoodBut, AssignmentStatus
<1> HIDE DEF u
<1>7. Up(DispatchMonOf(u, r, launch))
  BY <1>6, DispatchMonOfUp
<1>. QED BY <1>7 DEF CancelRun, u, released, cancelled, row, cleared

\* POST /runs/:id/cancel.
LEMMA CancelRequestGood ==
    ASSUME Good(st), NEW r \in Runs, NEW launch, CancelRequest(r, launch)
    PROVE  Good(st')
BY AliveUp, StFields, CancelRunUp, CommitGood DEF CancelRequest

\* cancelExternalExecution().
LEMMA CancelExternalGood ==
    ASSUME Good(st), NEW r \in Runs, NEW launch, CancelExternalExecution(r, launch)
    PROVE  Good(st')
<1> DEFINE queued == run[r].status = "queued"
           awaiting == run[r].status = "finished" /\ ext[r].phase = "awaiting_completion"
           asked == RequestCancellation(st, r, queued \/ awaiting)
           cancelledRow == [asked.run[r] EXCEPT !.outcome = "canceled",
                              !.runtime_state = "cancelled", !.outcome_state = "unknown"]
           cancelled == [asked EXCEPT !.run[r] = cancelledRow]
           marked == MarkCancellationSignalled(asked, r)
           stopping == [marked EXCEPT !.running[r] = [marked.running[r] EXCEPT !.stop = TRUE]]
           signalled == IF running[r].attempt # 0 THEN stopping
                        ELSE IF run[r].status = "active" THEN MarkFailedByRun(asked, r, "failed")
                        ELSE asked
           cancellingRow == [signalled.run[r] EXCEPT !.runtime_state = "cancelling"]
           cancelling == [signalled EXCEPT !.run[r] = cancellingRow]
<1>1. Up(st) /\ st \in State
  BY AliveUp DEF CancelExternalExecution, Good, GoodBut
<1>2. Commit(IF queued THEN CancelRun(asked, r, launch)
             ELSE IF awaiting THEN cancelled
             ELSE IF ext[r].phase = "terminal" THEN asked
             ELSE cancelling)
  BY DEF CancelExternalExecution
<1>3. SameCore(st, asked) /\ Up(asked) /\ asked.run = run
  <2>1. (queued \/ awaiting) \in BOOLEAN
    OBVIOUS
  <2> HIDE DEF queued, awaiting
  <2>2. SameCore(st, asked)
    BY <1>1, <2>1, RequestCancellationCore
  <2>. QED BY <1>1, <2>2, UpSame, StFields DEF SameCore
<1> HIDE DEF asked
<1>4. queued => Up(CancelRun(asked, r, launch))
  BY <1>3, CancelRunUp
<1>5. Up(cancelled)
  <2>1. asked.run[r] \in RunRow
    BY <1>3, GoodTyped DEF Up, Good
  <2>2. cancelledRow \in RunRow /\ cancelledRow.status = asked.run[r].status
    BY <2>1 DEF RunRow, RunOutcome, RuntimeState, OutcomeState
  <2> HIDE DEF cancelledRow
  <2>. QED BY <1>3, <2>2, SameStatusUp
<1> HIDE DEF cancelled
<1>6. Up(marked)
  BY <1>3, SignalledCore, UpSame DEF Up, Good, GoodBut
<1> HIDE DEF marked
<1>7. Up(stopping)
  <2> DEFINE e == [marked.running[r] EXCEPT !.stop = TRUE]
  <2>1. e \in RunningRun /\ e.attempt = marked.running[r].attempt
    BY <1>6, GoodTyped DEF Up, Good, RunningRun
  <2>2. stopping = [marked EXCEPT !.running[r] = e]
    OBVIOUS
  <2> HIDE DEF e, stopping
  <2>3. e.attempt # 0 \/ marked.running[r].attempt = 0
    BY <2>1
  <2>. QED BY <1>6, <2>1, <2>2, <2>3, RunningGood DEF Up, Good
<1> HIDE DEF stopping
<1>8. Up(signalled)
  <2>1. Up(MarkFailedByRun(asked, r, "failed"))
    BY <1>3, MarkFailedCore, UpSame DEF Up, Good, GoodBut
  <2>. QED BY <1>3, <1>7, <2>1
<1> HIDE DEF signalled
<1>9. Up(cancelling)
  <2>1. signalled.run[r] \in RunRow
    BY <1>8, GoodTyped DEF Up, Good
  <2>2. cancellingRow \in RunRow /\ cancellingRow.status = signalled.run[r].status
    BY <2>1 DEF RunRow, RuntimeState
  <2> HIDE DEF cancellingRow
  <2>. QED BY <1>8, <2>2, SameStatusUp
<1> HIDE DEF cancelling, queued, awaiting
<1>. QED BY <1>2, <1>3, <1>4, <1>5, <1>9, CommitGood

\* completeExternalExecution().
LEMMA CompleteExternalGood ==
    ASSUME Good(st), NEW r \in Runs, NEW digest \in Digests, CompleteExternalExecution(r, digest)
    PROVE  Good(st')
<1> DEFINE s == RecordCompletion(st, r, digest)
           row == [s.run[r] EXCEPT !.outcome = "completed",
                     !.outcome_state = "succeeded", !.runtime_state = "closed"]
           t == [s EXCEPT !.run[r] = row]
<1>1. Up(s)
  BY AliveUp, CompletionCore, UpSame DEF CompleteExternalExecution, Up, Good, GoodBut
<1>2. Commit(s) \/ Commit(t)
  BY DEF CompleteExternalExecution
<1> HIDE DEF s
<1>3. row \in RunRow /\ row.status = s.run[r].status
  <2>1. s.run[r] \in RunRow
    BY <1>1, GoodTyped DEF Up, Good
  <2>. QED BY <2>1 DEF RunRow, RunOutcome, RuntimeState, OutcomeState
<1> HIDE DEF row
<1>4. Up(t)
  BY <1>1, <1>3, SameStatusUp
<1> HIDE DEF t
<1>. QED BY <1>1, <1>2, <1>4, CommitGood

-----------------------------------------------------------------------------
\* A crash forgets everything but the database.
LEMMA CrashGood ==
    ASSUME Good(st), Crash
    PROVE  Good(st')
<1> DEFINE t == st'
<1>1. st \in State
  BY DEF Good, GoodBut
<1>2. /\ t.run = st.run /\ t.att = st.att /\ t.slots = st.slots
      /\ t.procs = {} /\ t.pending = {} /\ t.errors = {}
      /\ t \in State
  BY <1>1 DEF Crash, db, st, State, NotRunning, RunningRun, Timer, Service
<1> HIDE DEF t
<1>3. IsFiniteSet(Busy(t)) /\ SlotLimit(t)
  <2>1. Busy(t) = Busy(st) /\ \A m \in Mons : SlotsOf(t, m) = SlotsOf(st, m)
    BY <1>2 DEF Busy, SlotsOf
  <2>. QED BY <2>1 DEF Good, GoodBut, SlotLimit
<1>4. ProcessOwned(t) /\ WaitingHasNoProcess(t) /\ EventsNumbered(t)
  BY <1>2 DEF ProcessOwned, WaitingHasNoProcess, NoProcess, EventsNumbered
<1>5. OpenIsLast(t)
  BY <1>2 DEF Good, GoodBut, OpenIsLast
<1>6. \A q \in Runs : Settled(t, q)
  BY <1>2 DEF Good, GoodBut, Settled, HasOpenAttempt, NoProcess
<1>7. Good(t)
  BY <1>2, <1>3, <1>4, <1>5, <1>6 DEF Good, GoodBut
<1>. QED BY <1>7 DEF t

\* What markLostRunsOnStartup() does to one run.
LEMMA LoseRunGood ==
    ASSUME NEW s, Good(s), s.procs = {}, NEW r \in Runs
    PROVE  /\ LoseRun(s, r) \in State /\ OpenIsLast(LoseRun(s, r))
           /\ LoseRun(s, r).run[r].status = "finished"
           /\ Len(LoseRun(s, r).att[r]) = Len(s.att[r])
<1> DEFINE k == Len(s.att[r])
           ended == IF HasOpenAttempt(s, r) THEN FinishAttempt(s, r, k, "lost", "none") ELSE s
           row == FinishRunInterrupted(ended.run[r], "lost")
           lost == [ended EXCEPT !.run[r] = row]
<1>1. Good(ended) /\ ended.procs = {} /\ Len(ended.att[r]) = Len(s.att[r])
  <2>1. NoProcess(s, r)
    BY DEF NoProcess
  <2>. QED BY <2>1, FinishGood DEF Good
<1> HIDE DEF ended
<1>2. row \in RunRow /\ row.status = "finished"
  BY <1>1, GoodTyped, RowTypes DEF Good, ProcessStatus
<1> HIDE DEF row
<1>3. Good(lost) /\ lost.run[r].status = "finished" /\ lost.att = ended.att
  <2>1. ended.run \in [Runs -> RunRow]
    BY <1>1 DEF Good, GoodBut, State
  <2>. QED BY <1>1, <1>2, <2>1, RowGood DEF Good
<1> HIDE DEF lost
<1>4. SameCore(lost, MarkProcessLostByRun(lost, r))
  BY <1>3, MarkFailedCore DEF Good, GoodBut, MarkProcessLostByRun
<1>5. LoseRun(s, r) = MarkProcessLostByRun(lost, r)
  BY DEF LoseRun, lost, row, ended
<1>. QED BY <1>1, <1>3, <1>4, <1>5 DEF SameCore, Good, GoodBut, OpenIsLast

\* markLostRunsOnStartup() and releaseOrphans(): no run is process-backed and no slot is held
\* afterwards.
LEMMA RestartGood ==
    ASSUME Good(st), Restart
    PROVE  Good(st')
<1> DEFINE lost == {r \in Runs : run[r].status \in ProcessBacked}
           rows == [r \in Runs |-> IF r \in lost THEN LoseRun(st, r).run[r] ELSE st.run[r]]
           atts == [r \in Runs |-> IF r \in lost THEN LoseRun(st, r).att[r] ELSE st.att[r]]
           exts == [r \in Runs |-> IF r \in lost THEN LoseRun(st, r).ext[r] ELSE st.ext[r]]
           recovered == [st EXCEPT !.run = rows, !.att = atts, !.ext = exts,
                                   !.service = "booting"]
           t == ReleaseOrphans(recovered)
<1>1. st \in State /\ st.procs = {} /\ st.run = run
  BY StFields DEF Restart, Good, GoodBut
<1>2. Commit(t)
  BY DEF Restart
<1>3. \A r \in Runs : /\ LoseRun(st, r) \in State /\ OpenIsLast(LoseRun(st, r))
                       /\ LoseRun(st, r).run[r].status = "finished"
                       /\ Len(LoseRun(st, r).att[r]) = Len(st.att[r])
  BY <1>1, LoseRunGood
<1>4. \A r \in Runs : /\ LoseRun(st, r).run[r] \in RunRow
                       /\ LoseRun(st, r).att[r] \in Seq(AttemptRow)
                       /\ LoseRun(st, r).ext[r] \in ExtRow
  BY <1>3 DEF State
<1>5. /\ rows \in [Runs -> RunRow] /\ atts \in [Runs -> Seq(AttemptRow)]
      /\ exts \in [Runs -> ExtRow]
  BY <1>1, <1>4 DEF State
<1>6. \A r \in Runs : /\ rows[r].status \in ProcessBacked \cup {"none", "queued"} =>
                             rows[r] = st.run[r] /\ atts[r] = st.att[r]
                       /\ rows[r].status \notin ProcessBacked
  <2> TAKE r \in Runs
  <2>1. CASE r \in lost
    BY <1>3, <2>1 DEF ProcessBacked
  <2>2. CASE r \notin lost
    BY <1>1, <2>2
  <2>. QED BY <2>1, <2>2
<1>15. \A r \in Runs : /\ Len(atts[r]) = Len(st.att[r])
                        /\ \A k \in DOMAIN atts[r] :
                              atts[r][k].status \in OpenAttempt => k = Len(atts[r])
  <2> TAKE r \in Runs
  <2>1. CASE r \in lost
    BY <1>3, <2>1 DEF OpenIsLast
  <2>2. CASE r \notin lost
    BY <2>2 DEF Good, GoodBut, OpenIsLast
  <2>. QED BY <2>1, <2>2
<1> HIDE DEF rows, atts, exts
<1>7. /\ t \in State /\ t.run = rows /\ t.att = atts
      /\ t.slots = {r \in st.slots : rows[r].status \in ProcessBacked}
      /\ t.running = st.running /\ t.procs = {} /\ t.pending = st.pending
      /\ t.errors = st.errors /\ t.service = "booting"
  BY <1>1, <1>5 DEF State, ReleaseOrphans, Service
<1> HIDE DEF t
<1>8. Busy(t) = {} /\ t.slots = {}
  BY <1>1, <1>6, <1>7 DEF Busy, State
<1>9. IsFiniteSet(Busy(t)) /\ SlotLimit(t)
  <2>1. \A m \in Mons : SlotsOf(t, m) = {}
    BY <1>8 DEF SlotsOf
  <2>. QED BY <1>8, <2>1, FS_EmptySet, LimitAssumption DEF SlotLimit
<1>10. ProcessOwned(t) /\ WaitingHasNoProcess(t)
  BY <1>7 DEF ProcessOwned, WaitingHasNoProcess, NoProcess
<1>11. OpenIsLast(t)
  BY <1>7, <1>15 DEF OpenIsLast
<1>12. EventsNumbered(t)
  <2>1. (\A p \in st.errors : p[1] \in Runs) /\ (\A w \in st.pending : w.run \in Runs)
    BY <1>1 DEF State, Pending
  <2>. QED BY <1>7, <1>15, <2>1 DEF Good, GoodBut, EventsNumbered
<1>13. \A r \in Runs : Settled(t, r)
  BY <1>6, <1>7 DEF Good, GoodBut, Settled, HasOpenAttempt, NoProcess
<1>14. Up(t)
  BY <1>7, <1>9, <1>10, <1>11, <1>12, <1>13 DEF Up, Good, GoodBut
<1>. QED BY <1>2, <1>14, CommitGood

\* resumeQueuedRunsOnStartup() lists the queue and arms timers.
LEMMA ResumeQueuedRunsGood ==
    ASSUME Good(st), ResumeQueuedRuns
    PROVE  Good(st')
<1> DEFINE s == [st EXCEPT !.service = "up"]
<1>1. Up(s) /\ s \in State
  <2>1. Up(st)
    BY StFields DEF ResumeQueuedRuns, Up
  <2>. QED BY <2>1, ServiceUp DEF Service, Up, Good, GoodBut
<1>2. SameCore(s, st')
  <2>1. {MonOf[r] : r \in {q \in Runs : Runnable(st, q)}} \subseteq Mons
    BY MonAssumption
  <2>2. st \in State
    BY DEF Good, GoodBut
  <2>3. /\ run' = run /\ att' = att /\ slots' = slots /\ ext' = ext /\ asg' = asg
        /\ running' = running /\ procs' = procs /\ pending' = pending /\ errors' = errors
        /\ service' = "up" /\ crashes' = crashes
    BY DEF ResumeQueuedRuns, db
  <2>4. timers' \in SUBSET Runs /\ resume' \in SUBSET Mons
    BY <2>1, <2>2, StFields DEF ResumeQueuedRuns, State
  <2>5. /\ s.run = run /\ s.att = att /\ s.slots = slots /\ s.running = running
        /\ s.procs = procs /\ s.pending = pending /\ s.errors = errors /\ s.service = "up"
    BY <2>2, StFields DEF State
  <2>6. st' \in State
    BY <2>2, <2>3, <2>4 DEF st, State, Service
  <2>7. /\ st'.run = run' /\ st'.att = att' /\ st'.slots = slots' /\ st'.running = running'
        /\ st'.procs = procs' /\ st'.pending = pending' /\ st'.errors = errors'
        /\ st'.service = service'
    BY DEF st
  <2>. QED BY <2>3, <2>5, <2>6, <2>7 DEF SameCore
<1>. QED BY <1>1, <1>2, UpSame DEF Up

\* One Mon of that list is dispatched.
LEMMA ResumeMonGood ==
    ASSUME Good(st), NEW m \in Mons, NEW launch, ResumeMon(m, launch)
    PROVE  Good(st')
<1> DEFINE s == [st EXCEPT !.resume = st.resume \ {m}]
<1>1. Up(st) /\ st \in State /\ st.resume \ {m} \in SUBSET Mons
  BY AliveUp, StFields DEF ResumeMon, Good, GoodBut, State
<1>2. Up(s)
  BY <1>1, ResumeCore, UpSame
<1>3. Commit(Dispatch(s, m, launch, "caught", 0))
  BY DEF ResumeMon
<1> HIDE DEF s
<1>4. Up(Dispatch(s, m, launch, "caught", 0))
  BY <1>2, DispatchUp DEF Caller
<1>. QED BY <1>3, <1>4, CommitGood

-----------------------------------------------------------------------------
\* The invariant holds of an empty database.
LEMMA InitGood ==
    ASSUME Init
    PROVE  Good(st)
<1>1. \A r \in Runs : st.run[r] = NoRow /\ st.att[r] = << >>
  BY StFields DEF Init
<1>2. NoRow \in RunRow /\ NoRow.status = "none" /\ NoExt \in ExtRow /\ NotRunning \in RunningRun
  BY DEF NoRow, RunRow, RunStatus, ProcessStatus, RunOutcome, RuntimeState, OutcomeState,
         NoExt, ExtRow, Phase, ExtOutcome, CancellationState, NotRunning, RunningRun, Timer
<1>3. /\ run \in [Runs -> RunRow] /\ att \in [Runs -> Seq(AttemptRow)]
      /\ ext \in [Runs -> ExtRow] /\ asg \in [Runs -> AssignmentStatus]
      /\ running \in [Runs -> RunningRun]
  BY <1>2 DEF Init, AssignmentStatus
<1>4. st \in State
  BY <1>3 DEF Init, st, State, Service
<1>5. Busy(st) = {} /\ \A m \in Mons : SlotsOf(st, m) = {}
  BY <1>1, <1>2, StFields DEF Init, Busy, SlotsOf, ProcessBacked
<1>6. IsFiniteSet(Busy(st)) /\ SlotLimit(st)
  BY <1>5, FS_EmptySet, LimitAssumption DEF SlotLimit
<1>7. ProcessOwned(st) /\ WaitingHasNoProcess(st) /\ EventsNumbered(st) /\ OpenIsLast(st)
  BY <1>1, StFields
     DEF Init, ProcessOwned, WaitingHasNoProcess, EventsNumbered, OpenIsLast, NoProcess
<1>8. \A r \in Runs : Settled(st, r)
  BY <1>1, StFields DEF Init, Settled, HasOpenAttempt, NoProcess
<1>. QED BY <1>4, <1>6, <1>7, <1>8, StFields DEF Init, Good, GoodBut

\* Every step keeps the invariant.
LEMMA NextGood ==
    ASSUME Good(st), Next
    PROVE  Good(st')
<1>1. CASE ServiceStep
  BY <1>1, ContinueGood, ResumeMonGood, ResumeQueuedRunsGood, CrashGood, RestartGood
     DEF ServiceStep
<1>2. ASSUME NEW r \in Runs, RunStep(r)
      PROVE  Good(st')
  BY <1>2, SpawnErrorGood, ProcessExitGood, RetryWakeGood, TimerGood, BackoffGood,
     ExpireCompletionGood DEF RunStep
<1>3. ASSUME NEW r \in Runs, Request(r)
      PROVE  Good(st')
  BY <1>3, CreateOperatorRunGood, ReserveExternalRunGood, StartRequestGood, CancelRequestGood,
     CancelExternalGood, ActivatePlanGood, StopRequestGood, CloseRequestGood,
     ReviewRequestGood, CompleteExternalGood DEF Request
<1>. QED BY <1>1, <1>2, <1>3 DEF Next

IInv == Good(st)

\* The inductive invariant: whatever the constants, every reachable state of the run manager
\* satisfies it.
THEOREM Invariance == Spec => []IInv
<1>1. Init => IInv
  BY InitGood DEF IInv
<1>2. IInv /\ [Next]_vars => IInv'
  <2>1. CASE Next
    BY <2>1, NextGood DEF IInv
  <2>2. CASE UNCHANGED vars
    <3>1. st' = st
      BY <2>2 DEF vars, db, st
    <3>. QED BY <3>1 DEF IInv
  <2>. QED BY <2>1, <2>2
<1>. QED BY <1>1, <1>2, PTL DEF Spec

\* Every reachable state has its type (TypeOK), for every value of the constants: no handler
\* writes a status, phase or outcome outside the tables' enumerations.
THEOREM TypeCorrect == Spec => []TypeOK
<1>1. IInv => TypeOK
  BY DEF IInv, Good, GoodBut, TypeOK
<1>. QED BY <1>1, Invariance, PTL

\* Live processes inject into the slots of their Mon.
LEMMA ProcessCount ==
    ASSUME IInv, NEW m \in Mons
    PROVE  Cardinality({p \in procs : MonOf[p[1]] = m}) <= Limit[m]
<1> DEFINE P == {p \in procs : MonOf[p[1]] = m}
           T == SlotsOf(st, m)
           f == [p \in P |-> p[1]]
<1>1. Good(st) /\ st \in State
  BY DEF IInv, Good, GoodBut
<1>2. f \in Injection(P, T)
  <2>1. \A p \in P : p[1] \in T
    BY <1>1, StFields DEF Good, GoodBut, ProcessOwned, SlotsOf
  <2>2. \A p, q \in P : p[1] = q[1] => p = q
    BY <1>1, OpenProcess, StFields
  <2>. QED BY <2>1, <2>2 DEF Injection, IsInjective
<1>3. IsFiniteSet(T)
  <2>1. T \subseteq Busy(st)
    BY <1>1 DEF SlotsOf, Busy, State
  <2>. QED BY <1>1, <2>1, FS_Subset DEF Good, GoodBut
<1>4. IsFiniteSet(P) /\ Cardinality(P) <= Cardinality(T)
  BY <1>2, <1>3, FS_Injection
<1>5. /\ Cardinality(P) \in Nat /\ Cardinality(T) \in Nat /\ Limit[m] \in Nat
      /\ Cardinality(T) <= Limit[m]
  BY <1>1, <1>3, <1>4, FS_CardinalityType, LimitAssumption DEF Good, GoodBut, SlotLimit
<1>. QED BY <1>4, <1>5

\* max_active_runs (process-slots.ts reserve): in every reachable state a Mon has at most that
\* many live processes, for every number of runs and Mons, every limit and every retry policy,
\* and with every request and every way a launch can go, spawn errors and crashes included.
THEOREM LimitHolds == Spec => []LiveProcessesWithinLimit
<1>1. IInv => LiveProcessesWithinLimit
  BY ProcessCount DEF LiveProcessesWithinLimit
<1>. QED BY <1>1, Invariance, PTL

\* startRun(): in every reachable state a run has at most one live process, under the same
\* generality.
THEOREM OneProcessHolds == Spec => []OneProcessPerRun
<1>1. ASSUME IInv, NEW r \in Runs
      PROVE  Cardinality(ProcessesOf(r)) <= 1
  <2>1. \A p, q \in ProcessesOf(r) : p = q
    BY <1>1, OpenProcess, StFields DEF IInv, ProcessesOf
  <2>2. CASE ProcessesOf(r) = {}
    BY <2>2, FS_EmptySet
  <2>3. ASSUME NEW p \in ProcessesOf(r)
        PROVE  Cardinality(ProcessesOf(r)) = 1
    <3>1. ProcessesOf(r) = {p}
      BY <2>1, <2>3
    <3>. QED BY <3>1, FS_Singleton
  <2>. QED BY <2>2, <2>3
<1>2. IInv => OneProcessPerRun
  BY <1>1 DEF OneProcessPerRun
<1>. QED BY <1>2, Invariance, PTL
=============================================================================
