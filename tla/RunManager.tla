----------------------------- MODULE RunManager -----------------------------
(***************************************************************************)
(* The run manager of packages/service: dispatch of queued runs into the   *)
(* process slots of their Mon, the life of one harness process, retries    *)
(* with backoff, attempt timeouts, stop, close, review and cancellation,   *)
(* external executions and their completion, crash and restart.            *)
(*                                                                         *)
(* The service is one Node process.  A handler runs to its first await     *)
(* without interruption, so each handler is one step, and what follows an  *)
(* await (pending) or is queued on the tick queue (errors) is a later      *)
(* step.  Ticks and continuations run before the next request, timer or    *)
(* process exit (Quiet), in either order among themselves: Node drains     *)
(* ticks first after a timer or an exit, continuations first inside one.   *)
(* Handlers are operators on the record st of all the variables, because   *)
(* they call each other; an action commits the record a handler returns.   *)
(***************************************************************************)
EXTENDS RunStore

CONSTANTS
    MaxAttempts,  \* retry_policy.max_attempts
    Retryable,    \* retry_policy.retryable_conditions
    ZeroBackoff,  \* retry_policy.initial_backoff_seconds is 0
    HasTimeout,   \* retry_policy.attempt_timeout_seconds is set
    Requests,     \* the kinds of requests the clients make
    Launches,     \* how a launch may go, see Launch below
    Signs,        \* what a failing process leaves behind, see FailureCondition
    EarlyWake,    \* a timer may fire while Date.now() is still before retry_at
    AttemptCap,   \* bound: launches fail before spawning only below this attempt
    MaxCrashes    \* bound: crashes nobody provoked

RetryCondition == {"launch_error", "process_exit_nonzero", "process_interrupted",
                   "required_mcp_unavailable", "attempt_timeout", "credential_expired",
                   "harness_noop"}
RequestKind == {"operator", "plan", "external", "start", "stop", "close", "review", "cancel",
                "external_cancel", "complete"}
LaunchKind == {"spawned", "event", "reject", "mcp", "throw"}
Sign == {"plain", "mcp", "credential", "silent"}
Exit == {"clean", "nonzero", "signal"}

ASSUME PolicyAssumption ==
    /\ MaxAttempts \in Nat \ {0}
    /\ Retryable \subseteq RetryCondition
    /\ {ZeroBackoff, HasTimeout, EarlyWake} \subseteq BOOLEAN
ASSUME EnvironmentAssumption ==
    /\ Requests \subseteq RequestKind
    /\ Launches \subseteq LaunchKind
    /\ Signs \subseteq Sign
    /\ AttemptCap \in Nat
    /\ MaxCrashes \in Nat

VARIABLES
    run, att, slots, ext, asg,  \* the database, see RunStore
    running,   \* the map of RunningRun entries; attempt 0 where there is none
    procs,     \* <<run, attempt>> of the live processes this service started
    pending,   \* the startRun() calls that await the runner
    errors,    \* <<run, attempt>> of 'error' events on the tick queue
    timers,    \* the runs with an armed retry timer
    resume,    \* the Mons resumeQueuedRunsOnStartup() still has to dispatch
    service,   \* what the service process is doing
    crashes    \* the crashes so far

db == <<run, att, slots, ext, asg>>
vars == <<db, running, procs, pending, errors, timers, resume, service, crashes>>

Service == {"up", "booting", "doomed", "down"}
Timer == {"none", "armed", "grace", "killed"}
RunningRun == [attempt : Nat, stop : BOOLEAN, timedOut : BOOLEAN, timer : Timer]
NotRunning == [attempt |-> 0, stop |-> FALSE, timedOut |-> FALSE, timer |-> "none"]
\* Who awaits a startRun(): a request that starts one run, or a dispatch loop whose
\* rejection is dropped, caught, or fails the external run being reserved.
Caller == {"start", "void", "caught", "reserve"}
Pending == [run : Runs, attempt : Nat, caller : Caller, reserved : Runs \cup {0},
            rejected : BOOLEAN]

st == [run |-> run, att |-> att, slots |-> slots, ext |-> ext, asg |-> asg,
       running |-> running, procs |-> procs, pending |-> pending, errors |-> errors,
       timers |-> timers, resume |-> resume, service |-> service, crashes |-> crashes]

Commit(s) ==
    /\ run' = s.run /\ att' = s.att /\ slots' = s.slots /\ ext' = s.ext /\ asg' = s.asg
    /\ running' = s.running /\ procs' = s.procs
    /\ pending' = s.pending /\ errors' = s.errors
    /\ timers' = s.timers /\ resume' = s.resume
    /\ service' = s.service /\ crashes' = s.crashes

Init ==
    /\ run = [r \in Runs |-> NoRow]
    /\ att = [r \in Runs |-> << >>]
    /\ slots = {}
    /\ ext = [r \in Runs |-> NoExt]
    /\ asg = [r \in Runs |-> "none"]
    /\ running = [r \in Runs |-> NotRunning]
    /\ procs = {} /\ pending = {} /\ errors = {} /\ timers = {} /\ resume = {}
    /\ service = "up"
    /\ crashes = 0

Alive == service \in {"up", "booting", "doomed"}

\* The service answers requests, timers and exits only when nothing is queued to run first.
Quiet == service \in {"up", "booting"} /\ pending = {} /\ errors = {} /\ resume = {}

-----------------------------------------------------------------------------
(* startRun() and the dispatch loop *)

ClearRetryTimer(s, r) == [s EXCEPT !.timers = @ \ {r}]

\* spawn(): the process starts, the child reports an 'error' event later, or the
\* runner itself rejects before it spawns anything.
Spawn(s, r, k, launch, caller, reserved) ==
    LET opened == IF launch = "reject" THEN s ELSE MarkAttemptActive(s, r, k)
    IN  [opened EXCEPT
            !.procs = IF launch = "spawned" THEN @ \cup {<<r, k>>} ELSE @,
            !.errors = IF launch = "event" THEN @ \cup {<<r, k>>} ELSE @,
            !.pending = @ \cup {[run |-> r, attempt |-> k, caller |-> caller,
                                 reserved |-> reserved, rejected |-> launch = "reject"]}]

\* Mutant: a launch that fails before it spawns keeps its slot.
LaunchLeaksSlot(s, r, launch, caller, reserved) ==
    LET begun == BeginAttempt(ClearRetryTimer(ReserveSlot(s, r), r), r)
        k == Len(begun.att[r])
        starting == [begun EXCEPT !.run[r] = StartRunLifecycle(@)]
    IN  IF launch = "mcp" THEN FinishAttempt(begun, r, k, "failed", "none")
        ELSE Spawn(UpdateAssignment(starting, r, "active"), r, k, launch, caller, reserved)

\* startRun() once the slot is free.  "mcp" is a failure of buildExternalMcpRuntime():
\* the attempt fails without a retry time and the run stays queued.
Launch(s, r, launch, caller, reserved) ==
    LET begun == BeginAttempt(ClearRetryTimer(ReserveSlot(s, r), r), r)
        k == Len(begun.att[r])
        claimed == MarkAttemptStartingByRun(begun, r)
        starting == [claimed EXCEPT !.run[r] = StartRunLifecycle(@)]
    IN  IF launch = "mcp"
        THEN FinishAttempt(ReleaseSlot(claimed, r), r, k, "failed", "none")
        ELSE Spawn(UpdateAssignment(UpdatePhase(starting, r, "starting"), r, "active"),
                   r, k, launch, caller, reserved)

\* startRun() throws: "throw" stands for an unusable configuration, found before the
\* run is compared with the oldest one, and "mcp" for the failure above.
Throws(s, r, launch) ==
    \/ launch = "throw" /\ Runnable(s, r)
    \/ launch = "mcp" /\ IsOldestQueued(s, r) /\ CanReserve(s, r)

\* Mutant: a start need not be the oldest runnable run.
StartRunAnyRunnable(s, r, launch, caller, reserved) ==
    IF launch # "throw" /\ Runnable(s, r) /\ CanReserve(s, r)
    THEN Launch(s, r, launch, caller, reserved)
    ELSE s

\* A run that is not queued, is backing off, is not the oldest, or finds its Mon
\* full is declined.
StartRun(s, r, launch, caller, reserved) ==
    IF launch # "throw" /\ IsOldestQueued(s, r) /\ CanReserve(s, r)
    THEN Launch(s, r, launch, caller, reserved)
    ELSE s

\* The catch clause of reserveExternalRun(): it fails the run it reserved, whichever
\* run the loop failed to start.
FailReservation(s, r) ==
    LET failed == MarkFailedByRun(s, r, "keep")
    IN  [failed EXCEPT !.run[r] = [status |-> "finished", process_status |-> "not_started",
                                   outcome |-> "failed", runtime_state |-> "failed",
                                   outcome_state |-> "failed"]]

\* What becomes of the exception: an unhandled rejection ends the Node process.
Rejected(s, caller, reserved) ==
    CASE caller = "void"    -> [s EXCEPT !.service = "doomed"]
      [] caller = "reserve" -> FailReservation(s, reserved)
      [] OTHER              -> s

OldestQueued(s, m) == {r \in Runs : MonOf[r] = m /\ IsOldestQueued(s, r)}

\* One turn of dispatchQueuedForMon(); the loop goes on in Continue.
Dispatch(s, m, launch, caller, reserved) ==
    IF OldestQueued(s, m) = {} THEN s
    ELSE LET r == CHOOSE r \in OldestQueued(s, m) : TRUE
             started == StartRun(s, r, launch, caller, reserved)
         IN  IF Throws(s, r, launch) THEN Rejected(started, caller, reserved) ELSE started

DispatchMonOf(s, r, launch) == Dispatch(s, MonOf[r], launch, "void", 0)

-----------------------------------------------------------------------------
(* The end of an attempt *)

\* Mutant: the slot that became free is offered to nobody.
FinishTerminalRunQuietly(s, r, launch) ==
    UpdateAssignment(ClearRetryTimer(s, r), r, AssignmentStatusFor(s.run[r]))

FinishTerminalRun(s, r, launch) ==
    DispatchMonOf(UpdateAssignment(ClearRetryTimer(s, r), r, AssignmentStatusFor(s.run[r])),
                  r, launch)

\* Mutant: off by one.
ShouldRetryOnceMore(s, r, k, condition) ==
    k <= MaxAttempts /\ condition \in Retryable /\ ~CancellationAsked(s, r)

ShouldRetry(s, r, k, condition) ==
    k < MaxAttempts /\ condition \in Retryable /\ ~CancellationAsked(s, r)

\* Mutant: the failed attempt does not get its retry time.
RetryForgetsTime(s, r, k, launch) ==
    LET failed == FinishAttempt(s, r, k, "failed", "none")
        requeued == [failed EXCEPT !.run[r] = QueuedRow, !.timers = @ \cup {r}]
    IN  DispatchMonOf(ScheduleRetryByRun(requeued, r), r, launch)

\* retryOrFinishFailure() when it returns true: the run is queued again and its timer armed.
Retry(s, r, k, launch) ==
    LET failed == FinishAttempt(s, r, k, "failed", IF ZeroBackoff THEN "due" ELSE "future")
        requeued == [failed EXCEPT !.run[r] = QueuedRow]
        waiting == UpdateAssignment(ScheduleRetryByRun(requeued, r), r, "queued")
    IN  DispatchMonOf([waiting EXCEPT !.timers = @ \cup {r}], r, launch)

\* failureConditionForExit(); sign is what the output showed: a required MCP server
\* that did not start, an expired credential, nothing at all ("silent"), or none of these.
FailureCondition(e, exit, sign) ==
    IF e.timedOut THEN "attempt_timeout"
    ELSE IF sign = "mcp" THEN "required_mcp_unavailable"
    ELSE IF sign = "credential" /\ e.attempt # 0 THEN "credential_expired"
    ELSE IF exit = "signal" THEN "process_interrupted"
    ELSE IF exit = "nonzero" THEN "process_exit_nonzero"
    ELSE IF sign = "silent" /\ "harness_noop" \in Retryable THEN "harness_noop"
    ELSE "none"

ErrorCondition(e, sign) ==
    IF sign = "mcp" THEN "required_mcp_unavailable"
    ELSE IF sign = "credential" THEN "credential_expired"
    ELSE IF e.attempt # 0 THEN "process_interrupted"
    ELSE "launch_error"

\* An event of an attempt that has ended, or is not the one in the map, is ignored.
Stale(s, r, k) == ~IsOpen(s, r, k) \/ s.running[r].attempt \notin {0, k}

\* Mutant: the slot is not released with the map entry.
DropKeepsSlot(s, r) == [s EXCEPT !.running[r] = NotRunning]

\* Both event handlers first drop the map entry and the slot.
Drop(s, r) == ReleaseSlot([s EXCEPT !.running[r] = NotRunning], r)

Cancelling(s, r) ==
    \/ s.running[r].stop
    \/ s.ext[r].phase = "cancelling"
    \/ s.run[r].runtime_state = "cancelling"

\* Mutants: the run never says "canceled"; the external execution is forgotten.
CancelledExitAsStopped(s, r, k, exit, launch) ==
    LET ended == RecordProcessExit(FinishAttempt(s, r, k, "cancelled", "none"), r, exit)
    IN  FinishTerminalRun([ended EXCEPT !.run[r] = FinishRunStopped(@)], r, launch)

CancelledExitForgetsExternal(s, r, k, exit, launch) ==
    FinishTerminalRun([FinishAttempt(s, r, k, "cancelled", "none")
                          EXCEPT !.run[r] = FinishRunStopped(@)], r, launch)

CancelledExit(s, r, k, exit, launch) ==
    LET ended == RecordProcessExit(FinishAttempt(s, r, k, "cancelled", "none"), r, exit)
        outcome == IF ended.ext[r].outcome = "cancelled" THEN "canceled" ELSE "stopped"
    IN  FinishTerminalRun(
            [ended EXCEPT !.run[r] = [FinishRunStopped(@) EXCEPT !.outcome = outcome]],
            r, launch)

FailedExit(s, r, k, exit, launch) ==
    LET failed == FinishAttempt(s, r, k, "failed", "none")
        ended == IF exit = "clean" THEN MarkFailedByRun(failed, r, "keep")
                 ELSE RecordProcessExit(failed, r, exit)
        cause == IF exit = "clean" THEN "nonzero" ELSE exit
    IN  FinishTerminalRun([ended EXCEPT !.run[r] = FinishRunFromExit(@, cause)], r, launch)

SucceededExit(s, r, k, launch) ==
    LET ended == RecordProcessExit(FinishAttempt(s, r, k, "succeeded", "none"), r, "clean")
        row == FinishRunFromExit(ended.run[r], "clean")
        reported ==
            IF ended.ext[r].phase = "awaiting_completion"
            THEN [row EXCEPT !.runtime_state = "awaiting_completion"]
            ELSE IF ended.ext[r].outcome = "succeeded"
            THEN [row EXCEPT !.outcome = "completed", !.outcome_state = "succeeded"]
            ELSE row
    IN  FinishTerminalRun([ended EXCEPT !.run[r] = reported], r, launch)

\* Mutant: the exit of a run that was closed meanwhile is judged like any other.
HandleProcessExitOfOpenRun(s, r, k, exit, sign, launch) ==
    LET condition == FailureCondition(s.running[r], exit, sign)
        dropped == Drop(s, r)
    IN  IF Stale(s, r, k) THEN s
        ELSE IF condition = "none" THEN SucceededExit(dropped, r, k, launch)
        ELSE IF ShouldRetry(s, r, k, condition) THEN Retry(dropped, r, k, launch)
        ELSE FailedExit(dropped, r, k, exit, launch)

HandleProcessExit(s, r, k, exit, sign, launch) ==
    LET e == s.running[r]
        condition == FailureCondition(e, exit, sign)
        dropped == Drop(s, r)
    IN  IF Stale(s, r, k) THEN s
        ELSE IF s.run[r].status = "finished"
        THEN DispatchMonOf(FinishAttempt(dropped, r, k,
                                         IF e.stop THEN "cancelled" ELSE "failed", "none"),
                           r, launch)
        ELSE IF Cancelling(s, r) THEN CancelledExit(dropped, r, k, exit, launch)
        ELSE IF condition = "none" THEN SucceededExit(dropped, r, k, launch)
        ELSE IF ShouldRetry(s, r, k, condition) THEN Retry(dropped, r, k, launch)
        ELSE FailedExit(dropped, r, k, exit, launch)

\* Mutant: a launch that failed for good does not finish the run.
HandleProcessErrorKeepsRow(s, r, k, sign, launch) ==
    IF Stale(s, r, k) THEN s
    ELSE IF ShouldRetry(s, r, k, ErrorCondition(s.running[r], sign))
    THEN Retry(Drop(s, r), r, k, launch)
    ELSE MarkFailedByRun(FinishAttempt(Drop(s, r), r, k, "failed", "none"), r, "keep")

HandleProcessError(s, r, k, sign, launch) ==
    LET dropped == Drop(s, r)
        failed == FinishAttempt(dropped, r, k, "failed", "none")
        ended == MarkFailedByRun(
                     [failed EXCEPT !.run[r] = FinishRunInterrupted(@, "crashed")], r, "keep")
    IN  IF Stale(s, r, k) THEN s
        ELSE IF s.run[r].status = "finished" THEN dropped
        ELSE IF ShouldRetry(s, r, k, ErrorCondition(s.running[r], sign))
        THEN Retry(dropped, r, k, launch)
        ELSE FinishTerminalRun(ended, r, launch)

-----------------------------------------------------------------------------
(* Steps of the service itself *)

\* Bound: a launch that only burns attempt numbers does so below AttemptCap.
LaunchAllowed(launch) ==
    launch \in Launches /\ (launch = "mcp" => \A r \in Runs : Len(att[r]) < AttemptCap)

\* startRun() after the await.  The row it writes is the one it read before the await.
Activate(s, r, k) ==
    LET entry == [NotRunning EXCEPT !.attempt = k,
                                    !.timer = IF HasTimeout THEN "armed" ELSE "none"]
        active == [MarkAttemptActive(s, r, k) EXCEPT
                      !.running[r] = entry, !.run[r] = MarkRunActive(@)]
    IN  IF s.ext[r].phase = "cancelling"
        THEN MarkCancellationSignalled(active, r)
        ELSE UpdatePhase(active, r, "active")

\* Mutant: startRun() goes on after the runner has rejected.
ContinueAfterRejection(p, sign, launch) ==
    /\ Alive /\ p \in pending
    /\ Commit(Activate([st EXCEPT !.pending = @ \ {p}], p.run, p.attempt))

Continue(p, sign, launch) ==
    /\ Alive /\ p \in pending
    /\ LET s == [st EXCEPT !.pending = @ \ {p}]
           active == Activate(s, p.run, p.attempt)
       IN  Commit(IF p.rejected THEN HandleProcessError(s, p.run, p.attempt, sign, launch)
                  ELSE IF p.caller = "start" THEN active
                  ELSE Dispatch(active, MonOf[p.run], launch, p.caller, p.reserved))

SpawnError(r, k, sign, launch) ==
    /\ Alive /\ <<r, k>> \in errors
    /\ Commit(HandleProcessError([st EXCEPT !.errors = @ \ {<<r, k>>}], r, k, sign, launch))

\* The process ends, for whatever reason, and its streams close.
ProcessExit(r, k, exit, sign, launch) ==
    /\ Quiet /\ <<r, k>> \in procs
    /\ Commit(HandleProcessExit([st EXCEPT !.procs = @ \ {<<r, k>>}], r, k, exit, sign, launch))

\* Mutants: the timeout ends the attempt without waiting for the process; SIGTERM is not
\* followed by SIGKILL.
AttemptTimeoutEndsAttempt(r) ==
    /\ Quiet /\ running[r].timer = "armed"
    /\ Commit(HandleProcessExit(st, r, running[r].attempt, "nonzero", "plain", "spawned"))

AttemptTimeoutWithoutGrace(r) ==
    /\ Quiet /\ running[r].timer = "armed"
    /\ running' = [running EXCEPT ![r].timedOut = TRUE, ![r].timer = "none"]
    /\ UNCHANGED <<db, procs, pending, errors, timers, resume, service, crashes>>

AttemptTimeout(r) ==
    /\ Quiet /\ running[r].timer = "armed"
    /\ running' = [running EXCEPT ![r].timedOut = TRUE, ![r].timer = "grace"]
    /\ UNCHANGED <<db, procs, pending, errors, timers, resume, service, crashes>>

KillTimer(r) ==
    /\ Quiet /\ running[r].timer = "grace"
    /\ running' = [running EXCEPT ![r].timer = "killed"]
    /\ UNCHANGED <<db, procs, pending, errors, timers, resume, service, crashes>>

BackoffElapses(r) ==
    /\ InBackoff(st, r)
    /\ att' = [att EXCEPT ![r][Len(att[r])].retry_at = "due"]
    /\ UNCHANGED <<run, slots, ext, asg, running, procs, pending, errors, timers, resume,
                   service, crashes>>

RetryWake(r, launch) ==
    /\ Quiet /\ r \in timers /\ (InBackoff(st, r) => EarlyWake)
    /\ Commit(Dispatch(ClearRetryTimer(st, r), MonOf[r], launch, "caught", 0))

\* sweepExpiredRunScopes(): the deadline of an awaited completion has passed.
ExpireCompletion(r) ==
    /\ Quiet /\ ext[r].phase = "awaiting_completion"
    /\ Commit([MarkFailedByRun(st, r, "keep") EXCEPT
                  !.run[r] = [@ EXCEPT !.outcome = "failed", !.outcome_state = "failed",
                                       !.runtime_state = "failed"]])

-----------------------------------------------------------------------------
(* Requests *)

\* created_at order is the order of the numbers, Mon by Mon.
Insertable(r) ==
    /\ run[r].status = "none"
    /\ \A q \in Runs : MonOf[q] = MonOf[r] /\ q < r => run[q].status # "none"

Inserted(r) == [st EXCEPT !.run[r] = QueuedRow]

CreateOperatorRun(r, launch) ==
    /\ "operator" \in Requests /\ Quiet
    /\ r \notin External \cup PlanRuns /\ Insertable(r)
    /\ Commit(IF \E q \in Runs : MonOf[q] = MonOf[r] /\ run[q].status \in ProcessBacked
              THEN Dispatch(Inserted(r), MonOf[r], launch, "caught", 0)
              ELSE StartRun(Inserted(r), r, launch, "start", 0))

\* Activation inserts the runs of a plan and does not dispatch them.
ActivatePlan(r) ==
    /\ "plan" \in Requests /\ Quiet
    /\ r \in PlanRuns /\ Insertable(r)
    /\ Commit([Inserted(r) EXCEPT !.asg[r] = "queued"])

ReserveExternalRun(r, launch) ==
    /\ "external" \in Requests /\ Quiet
    /\ r \in External /\ Insertable(r)
    /\ Commit(Dispatch([Inserted(r) EXCEPT !.ext[r].phase = "queued"],
                       MonOf[r], launch, "reserve", r))

StartRequest(r, launch) ==
    /\ "start" \in Requests /\ Quiet
    /\ run[r].status = "queued"
    /\ Commit(StartRun(st, r, launch, "start", 0))

\* clearAttemptTimers(); "killed" is no timer but the signal already sent.
ClearAttemptTimers(e) == IF e.timer = "killed" THEN e ELSE [e EXCEPT !.timer = "none"]

\* Mutants: the slot is freed while the process still lives; the assignment is forgotten.
StopRunFreesSlot(s, r) ==
    LET stopped == ClearRetryTimer([s EXCEPT !.run[r] = FinishRunStopped(@)], r)
    IN  ReleaseSlot([stopped EXCEPT !.running[r].stop = TRUE], r)

StopRunForgetsAssignment(s, r) ==
    ClearRetryTimer([s EXCEPT !.run[r] = FinishRunStopped(@), !.running[r].stop = TRUE], r)

StopRun(s, r) ==
    LET stopped == ClearRetryTimer([s EXCEPT !.run[r] = FinishRunStopped(@)], r)
        signalled == [stopped EXCEPT
                         !.running[r] = [ClearAttemptTimers(@) EXCEPT !.stop = TRUE]]
    IN  UpdateAssignment(IF s.running[r].attempt # 0 THEN signalled ELSE ReleaseSlot(stopped, r),
                         r, "blocked")

Reviewed(row, outcome) ==
    [row EXCEPT !.outcome = outcome,
                !.outcome_state = CASE outcome = "completed" -> "succeeded"
                                    [] outcome = "failed"    -> "failed"
                                    [] OTHER                 -> "abandoned"]

ReviewedAssignment(outcome) == IF outcome = "completed" THEN "satisfied" ELSE "blocked"

\* POST /runs/:id/close with outcome "stopped" on a run that has a process.
StopRequest(r) ==
    /\ "stop" \in Requests /\ Quiet
    /\ run[r].status \in ProcessBacked
    /\ Commit([StopRun(st, r) EXCEPT !.run[r] = Reviewed(@, "stopped")])

\* The other closes: the row is finished as if the process had exited.
CloseRequest(r, outcome) ==
    /\ "close" \in Requests /\ Quiet
    /\ run[r].status # "none"
    /\ outcome = "stopped" => run[r].status \notin ProcessBacked
    /\ LET exit == IF outcome = "failed" THEN "nonzero" ELSE "clean"
           row == IF run[r].status = "finished" THEN run[r] ELSE FinishRunFromExit(run[r], exit)
       IN  Commit(UpdateAssignment([st EXCEPT !.run[r] = Reviewed(row, outcome)],
                                   r, ReviewedAssignment(outcome)))

ReviewRequest(r, outcome) ==
    /\ "review" \in Requests /\ Quiet
    /\ run[r].status = "finished"
    /\ Commit(UpdateAssignment([st EXCEPT !.run[r] = Reviewed(@, outcome)],
                               r, ReviewedAssignment(outcome)))

\* Mutant: the run stays queued, and its timer armed.
CancelRunKeepsRow(s, r, launch) == DispatchMonOf(ReleaseSlot(s, r), r, launch)

CancelRun(s, r, launch) ==
    LET cancelled == [ClearRetryTimer(s, r) EXCEPT !.run[r] = CancelQueuedRun(@)]
    IN  DispatchMonOf(UpdateAssignment(ReleaseSlot(cancelled, r), r, "canceled"), r, launch)

CancelRequest(r, launch) ==
    /\ "cancel" \in Requests /\ Quiet
    /\ run[r].status = "queued"
    /\ Commit(CancelRun(st, r, launch))

CancelExternalExecution(r, launch) ==
    /\ "external_cancel" \in Requests /\ Quiet
    /\ ext[r].phase # "none" /\ ~CancellationConflicts(st, r)
    /\ LET queued == run[r].status = "queued"
           awaiting == run[r].status = "finished" /\ ext[r].phase = "awaiting_completion"
           asked == RequestCancellation(st, r, queued \/ awaiting)
           cancelled == [asked EXCEPT !.run[r] = [@ EXCEPT !.outcome = "canceled",
                            !.runtime_state = "cancelled", !.outcome_state = "unknown"]]
           signalled ==
               IF running[r].attempt # 0
               THEN [MarkCancellationSignalled(asked, r) EXCEPT !.running[r].stop = TRUE]
               ELSE IF run[r].status = "active" THEN MarkFailedByRun(asked, r, "failed")
               ELSE asked
       IN  Commit(IF queued THEN CancelRun(asked, r, launch)
                  ELSE IF awaiting THEN cancelled
                  ELSE IF ext[r].phase = "terminal" THEN asked
                  ELSE [signalled EXCEPT !.run[r].runtime_state = "cancelling"])

CompleteExternalExecution(r, digest) ==
    /\ "complete" \in Requests /\ Quiet
    /\ ext[r].phase # "none" /\ ~CompletionConflicts(st, r, digest)
    /\ LET s == RecordCompletion(st, r, digest)
       IN  Commit(IF s.ext[r].outcome # "succeeded" THEN s
                  ELSE [s EXCEPT !.run[r] = [@ EXCEPT !.outcome = "completed",
                           !.outcome_state = "succeeded", !.runtime_state = "closed"]])

-----------------------------------------------------------------------------
(* Crash and restart *)

\* The processes are children in their own process groups: what becomes of them after
\* a crash is outside the model, the service never hears of them again.
Crash ==
    /\ Alive
    /\ service = "doomed" \/ crashes < MaxCrashes
    /\ running' = [r \in Runs |-> NotRunning]
    /\ procs' = {} /\ pending' = {} /\ errors' = {} /\ timers' = {} /\ resume' = {}
    /\ service' = "down"
    /\ crashes' = IF service = "doomed" THEN crashes ELSE crashes + 1
    /\ UNCHANGED db

\* Mutants: the lost run is queued again; its external execution is forgotten.
LoseRunRequeues(s, r) ==
    LET ended == FinishAttempt(s, r, Len(s.att[r]), "lost", "none")
    IN  [ended EXCEPT !.run[r] = QueuedRow]

LoseRunForgetsExternal(s, r) == [s EXCEPT !.run[r] = FinishRunInterrupted(@, "lost")]

\* markLostRunsOnStartup() for one run.
LoseRun(s, r) ==
    LET ended == IF HasOpenAttempt(s, r)
                 THEN FinishAttempt(s, r, Len(s.att[r]), "lost", "none")
                 ELSE s
    IN  MarkProcessLostByRun([ended EXCEPT !.run[r] = FinishRunInterrupted(@, "lost")], r)

Restart ==
    /\ service = "down"
    /\ LET lost == {r \in Runs : run[r].status \in ProcessBacked}
           recovered == [st EXCEPT
               !.run = [r \in Runs |-> IF r \in lost THEN LoseRun(st, r).run[r] ELSE @[r]],
               !.att = [r \in Runs |-> IF r \in lost THEN LoseRun(st, r).att[r] ELSE @[r]],
               !.ext = [r \in Runs |-> IF r \in lost THEN LoseRun(st, r).ext[r] ELSE @[r]],
               !.service = "booting"]
       IN  Commit(ReleaseOrphans(recovered))

\* Mutant: a retry that is still backing off gets no new timer.
ResumeQueuedRunsForgetsBackoff ==
    /\ service = "booting" /\ pending = {} /\ errors = {}
    /\ resume' = {MonOf[r] : r \in {q \in Runs : Runnable(st, q)}}
    /\ service' = "up"
    /\ UNCHANGED <<db, running, procs, pending, errors, timers, crashes>>

\* The service already answers requests when resumeQueuedRunsOnStartup() lists the queue.
ResumeQueuedRuns ==
    /\ service = "booting" /\ pending = {} /\ errors = {}
    /\ timers' = timers \cup {r \in Runs : run[r].status = "queued" /\ InBackoff(st, r)}
    /\ resume' = {MonOf[r] : r \in {q \in Runs : Runnable(st, q)}}
    /\ service' = "up"
    /\ UNCHANGED <<db, running, procs, pending, errors, crashes>>

ResumeMon(m, launch) ==
    /\ service = "up" /\ m \in resume /\ pending = {}
    /\ Commit(Dispatch([st EXCEPT !.resume = @ \ {m}], m, launch, "caught", 0))

-----------------------------------------------------------------------------

RunStep(r) ==
    \/ \E k \in DOMAIN att[r], sign \in Signs, launch \in Launches :
          /\ LaunchAllowed(launch)
          /\ \/ SpawnError(r, k, sign, launch)
             \/ \E exit \in Exit : ProcessExit(r, k, exit, sign, launch)
    \/ \E launch \in Launches : LaunchAllowed(launch) /\ RetryWake(r, launch)
    \/ AttemptTimeout(r)
    \/ KillTimer(r)
    \/ BackoffElapses(r)
    \/ ExpireCompletion(r)

Request(r) ==
    \/ \E launch \in Launches :
          /\ LaunchAllowed(launch)
          /\ \/ CreateOperatorRun(r, launch)
             \/ ReserveExternalRun(r, launch)
             \/ StartRequest(r, launch)
             \/ CancelRequest(r, launch)
             \/ CancelExternalExecution(r, launch)
    \/ ActivatePlan(r)
    \/ StopRequest(r)
    \/ \E outcome \in {"completed", "failed", "stopped"} :
          CloseRequest(r, outcome) \/ ReviewRequest(r, outcome)
    \/ \E digest \in Digests : CompleteExternalExecution(r, digest)

ServiceStep ==
    \/ \E p \in pending, sign \in Signs, launch \in Launches :
          LaunchAllowed(launch) /\ Continue(p, sign, launch)
    \/ \E m \in Mons, launch \in Launches : LaunchAllowed(launch) /\ ResumeMon(m, launch)
    \/ ResumeQueuedRuns
    \/ Crash
    \/ Restart

Next == ServiceStep \/ \E r \in Runs : RunStep(r) \/ Request(r)

Spec == Init /\ [][Next]_vars

\* The scheduling the code relies on: what is queued on the event loop runs, a doomed
\* service dies and a dead one is started again, time passes, timers fire, and a process
\* that was sent SIGKILL ends.  Nothing makes any other process end, no client has to act.
\* For the composed handlers weak fairness is written out, []<>~g \/ []<><<A>>_vars with g
\* the condition that enables A: TLC is far too slow at computing ENABLED of them.
Looping == Alive /\ (pending # {} \/ errors # {} \/ (service = "up" /\ resume # {}))

LoopStep ==
    \/ \E p \in pending, sign \in Signs, launch \in Launches :
          LaunchAllowed(launch) /\ Continue(p, sign, launch)
    \/ \E r \in Runs : \E k \in DOMAIN att[r], sign \in Signs, launch \in Launches :
          LaunchAllowed(launch) /\ SpawnError(r, k, sign, launch)
    \/ \E m \in Mons, launch \in Launches : LaunchAllowed(launch) /\ ResumeMon(m, launch)

Killed(r) == Quiet /\ running[r].timer = "killed" /\ <<r, running[r].attempt>> \in procs

WakeDue(r) == Quiet /\ r \in timers /\ (InBackoff(st, r) => EarlyWake)

TimerStep(r) ==
    \/ \E exit \in Exit, sign \in Signs, launch \in Launches :
          Killed(r) /\ LaunchAllowed(launch) /\ ProcessExit(r, running[r].attempt, exit, sign, launch)
    \/ \E launch \in Launches : LaunchAllowed(launch) /\ RetryWake(r, launch)

Fairness ==
    /\ WF_vars(ResumeQueuedRuns \/ (service = "doomed" /\ Crash))
    /\ []<>(service # "down")
    /\ []<>~Looping \/ []<><<LoopStep>>_vars
    /\ \A r \in Runs :
          /\ WF_vars(AttemptTimeout(r) \/ KillTimer(r) \/ BackoffElapses(r))
          /\ []<>~(Killed(r) \/ WakeDue(r)) \/ []<><<TimerStep(r)>>_vars

FairSpec == Spec /\ Fairness

-----------------------------------------------------------------------------
(* What the run manager guarantees.  The runs say under which requests and launches. *)

State == [run : [Runs -> RunRow], att : [Runs -> Seq(AttemptRow)], slots : SUBSET Runs,
          ext : [Runs -> ExtRow], asg : [Runs -> AssignmentStatus],
          running : [Runs -> RunningRun], procs : SUBSET (Runs \X Nat),
          pending : SUBSET Pending, errors : SUBSET (Runs \X Nat), timers : SUBSET Runs,
          resume : SUBSET Mons, service : Service, crashes : Nat]

\* Every variable holds a value of the type the database or the manager gives it.
TypeOK == st \in State

ProcessesOf(r) == {p \in procs : p[1] = r}
Alone(r) == ProcessesOf(r) = {}

\* max_active_runs (process-slots.ts reserve): a Mon never has more live processes than it
\* allows, counted by process and not by slot row or run status, whatever was released,
\* retried, reviewed or stopped in between.
LiveProcessesWithinLimit ==
    \A m \in Mons : Cardinality({p \in procs : MonOf[p[1]] = m}) <= Limit[m]

\* A run never has two live processes: a retry, a start request or a wake cannot launch it
\* while an earlier attempt still runs (run-manager.ts startRun).
OneProcessPerRun == \A r \in Runs : Cardinality(ProcessesOf(r)) <= 1

\* Every live process is the open attempt of its run and the manager can still signal it:
\* it is in the running map or about to be put there, and it holds a slot.
ProcessIsTracked ==
    \A p \in procs :
        /\ IsOpen(st, p[1], p[2])
        /\ p[1] \in slots
        /\ \/ running[p[1]].attempt = p[2]
           \/ \E w \in pending : w.run = p[1] /\ w.attempt = p[2] /\ ~w.rejected

\* Between two handlers the slot rows are exactly the runs with a live process: no slot
\* leaks and none is given away early, across stop, close, retry, failure and restart.
SlotsMatchProcesses == Quiet => slots = {p[1] : p \in procs}

\* A weaker form, for launches that a stale continuation overtakes: between two handlers a
\* slot without a live process is that of a run the manager still counts as running, so no
\* failure before the spawn, no stop and no restart leaks one.
SlotIsAccountedFor ==
    Quiet => \A r \in slots : running[r].attempt # 0 \/ \E p \in procs : p[1] = r

\* Between two handlers a run shown as active has a process that can still end.
ActiveRunHasProcess == Quiet => \A r \in Runs : run[r].status = "active" => ~Alone(r)

\* runtime.md:271: a failure that is not retried ends the run; no run is left in the queue
\* with a last attempt that failed for good.
FailureIsRetriedOrFinal ==
    Quiet => \A r \in Runs :
        att[r] # << >> /\ att[r][Len(att[r])].status = "failed"
                      /\ att[r][Len(att[r])].retry_at = "none"
        => run[r].status = "finished"

\* The dispatcher loses no wake-up (runtime.md:239): a queued run that is due waits for a
\* full Mon or for an armed timer of a run of the Mon, whose handler dispatches the whole
\* queue; never for a request somebody may not make.
WorkConserving ==
    Quiet /\ service = "up" =>
        \A r \in Runs : Runnable(st, r) =>
            \/ Cardinality(ActiveRunIds(st, MonOf[r])) >= Limit[MonOf[r]]
            \/ \E q \in timers : MonOf[q] = MonOf[r]

\* Only the latest attempt can be open, every earlier one failed and was retried, at most
\* max_attempts were made, and between handlers an attempt is open exactly while its
\* process lives: evidence of an attempt is never lost.
AttemptsMatchProcesses ==
    \A r \in Runs :
        /\ Len(att[r]) <= MaxAttempts
        /\ \A k \in 1 .. (Len(att[r]) - 1) : att[r][k].status \in {"failed", "lost"}
        /\ Quiet => (HasOpenAttempt(st, r) <=> ~Alone(r))

\* The state invariant of launches that no stale continuation overtakes: what is above on
\* processes, together.
ProcessInv == TypeOK /\ LiveProcessesWithinLimit /\ OneProcessPerRun /\ ProcessIsTracked
              /\ SlotsMatchProcesses /\ ActiveRunHasProcess /\ AttemptsMatchProcesses

\* The lifecycle of run-state.ts as its callers keep it: finished is final, a run becomes
\* active only from starting, and goes back to the queue only by a retry, after the
\* attempt that was open has failed with a retry time and its process is gone.
LifecycleIsRespected ==
    [][\A r \in Runs :
          /\ run[r].status = "finished" => run'[r].status = "finished"
          /\ run'[r].status = "active" => run[r].status \in ProcessBacked
          /\ run[r].status = "active" /\ run'[r].status \in {"queued", "starting"} =>
                /\ att'[r][Len(att[r])].status = "failed"
                /\ att'[r][Len(att[r])].retry_at # "none"
                /\ \A p \in procs' : p[1] = r => p \notin procs]_vars

\* run-state.ts:79 "finished: []": no step takes a run out of finished.
FinishedIsFinal ==
    [][\A r \in Runs : run[r].status = "finished" => run'[r].status = "finished"]_vars

\* runtime.md:181: a run whose process was lost in a crash is finished, stays so, and is
\* never launched again.
LostIsFinal ==
    [][\A r \in Runs :
          att[r] # << >> /\ att[r][Len(att[r])].status = "lost" =>
              /\ run[r].status = "finished" /\ run'[r].status = "finished"
              /\ Len(att'[r]) = Len(att[r])
              /\ \A p \in procs' : p[1] # r]_vars

\* runtime.md:239: the dispatcher starts the oldest runnable run of a Mon, so a start
\* never overtakes an older run that is due before and after it.
NoOvertaking ==
    [][\A q, r \in Runs :
          /\ MonOf[q] = MonOf[r] /\ q < r
          /\ run[r].status # "starting" /\ run'[r].status = "starting"
          => ~(Runnable(st, q) /\ Runnable(st', q))]_vars

\* A run leaves the queue only by a launch, a cancel, a close or a failed reservation, and
\* every queued run does leave it: no wake-up is lost and nothing waits for ever.
QueuedRunLeavesQueue ==
    \A r \in Runs : run[r].status = "queued" ~> run[r].status # "queued"

\* harnesses.md:191: an attempt that outlives its timeout is terminated, so every process
\* of a policy with a timeout ends.
ProcessEnds == \A r \in Runs : ~Alone(r) ~> Alone(r)

-----------------------------------------------------------------------------
(* What an integration can rely on *)

\* A terminal external execution has a finished run and no live process: a caller that
\* saw the end of the work never sees it write again.
TerminalMeansStopped ==
    \A r \in External : ext[r].phase = "terminal" => run[r].status = "finished" /\ Alone(r)

\* A success rests on evidence: the last attempt exited cleanly and, where the policy asks
\* for it, a receipt was recorded.
SucceededHasEvidence ==
    \A r \in External : ext[r].outcome = "succeeded" =>
        /\ ext[r].phase = "terminal"
        /\ att[r] # << >> /\ att[r][Len(att[r])].status = "succeeded"
        /\ r \in ReceiptRuns => ext[r].completion_digest # "none"

\* The two records of one piece of work tell the same story once both have ended.
OutcomesAgree ==
    \A r \in External : ext[r].phase = "terminal" =>
        CASE ext[r].outcome = "succeeded" -> run[r].outcome = "completed"
          [] ext[r].outcome = "cancelled" -> run[r].outcome = "canceled"
          [] OTHER -> run[r].outcome \in {"failed", "interrupted"}

\* The verdict of a terminal execution never changes, whatever replays of completions and
\* cancellations, late exits or expiries follow.
VerdictIsFinal ==
    [][\A r \in External : ext[r].phase = "terminal" => ext'[r] = ext[r]]_vars

\* A requested cancellation is answered: the execution becomes terminal.
CancellationIsAnswered ==
    \A r \in External : ext[r].phase = "cancelling" ~> ext[r].phase = "terminal"

\* An execution whose run has ended is terminal or awaits its completion.
EndedRunSettlesExternal ==
    \A r \in External :
        run[r].status = "finished" /\ Alone(r) => ext[r].phase \in {"terminal", "awaiting_completion"}

\* The state invariant of external executions: the parts above that relate the two records.
ExternalInv == TerminalMeansStopped /\ OutcomesAgree /\ EndedRunSettlesExternal

\* integrationRunSnapshot(): the status the integration reads.
SnapshotStatus(r) ==
    CASE ext[r].phase = "none"                    -> "absent"
      [] ext[r].phase = "terminal"                -> ext[r].outcome
      [] ext[r].phase \in {"queued", "starting"}  -> "pending"
      [] OTHER                                    -> "running"

Contract == INSTANCE IntegrationContract WITH
    Keys <- External,
    status <- [r \in External |-> SnapshotStatus(r)],
    asked <- {r \in External : ext[r].cancellation_state # "none"},
    working <- {r \in External : ~Alone(r)}

\* The run manager keeps the contract: every step is, for every key, a step of it.
ContractKept == Contract!Spec

-----------------------------------------------------------------------------
(* What a plan can rely on *)

\* plans.md:55: the run drives the status of the assignment that generated it, at every
\* point of the run's life and through stop, close, review and retry.
AssignmentFollowsRun ==
    \A r \in Runs : asg[r] # "none" =>
        asg[r] = CASE run[r].status = "queued"        -> "queued"
                   [] run[r].status \in ProcessBacked -> "active"
                   [] OTHER                           -> AssignmentStatusFor(run[r])
=============================================================================
