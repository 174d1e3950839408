------------------------------ MODULE RunStore ------------------------------
(***************************************************************************)
(* What the service persists about one-shot runs, and the statements that  *)
(* change it: the lifecycle patches of packages/core/src/run-state.ts and  *)
(* the repositories for runs, attempts, process slots, external executions *)
(* and plan assignments.  Every statement is a pure operator from a state  *)
(* record s to a state record, so that the handlers of RunManager compose  *)
(* them in the order the code issues them.  The operators only touch the   *)
(* persisted fields                                                        *)
(*    run    the rows of table runs                                        *)
(*    att    the rows of run_attempts, in attempt_number order             *)
(*    slots  the runs with a row in process_slots                          *)
(*    ext    the rows of external_executions, one per external run         *)
(*    asg    the status of the plan assignment that generated the run      *)
(* Times are abstract: retry_at is "none", "future" or "due".  A run's     *)
(* number is its place in created_at order.  The status "blocked" is left  *)
(* out: nothing under src/ ever writes it.                                 *)
(***************************************************************************)
EXTENDS Integers, Sequences, FiniteSets

CONSTANTS
    Runs,         \* the runs that may ever be created, numbered by created_at
    Mons,         \* the Mons
    MonOf,        \* the Mon each run belongs to
    Limit,        \* max_active_runs of each Mon
    External,     \* the runs created through an integration
    ReceiptRuns,  \* those whose completion_policy is external_receipt
    PlanRuns,     \* the runs generated by a plan assignment
    Digests       \* the completion digests callers may present

ASSUME RunsAssumption == Runs \subseteq Nat \ {0}
ASSUME MonAssumption == MonOf \in [Runs -> Mons]
ASSUME LimitAssumption == Limit \in [Mons -> Nat \ {0}]
ASSUME KindAssumption ==
    /\ External \subseteq Runs
    /\ ReceiptRuns \subseteq External
    /\ PlanRuns \subseteq Runs \ External
ASSUME DigestAssumption == "none" \notin Digests

-----------------------------------------------------------------------------
(* Rows *)

RunStatus == {"none", "queued", "starting", "active", "finished"}
ProcessStatus == {"not_started", "spawning", "running", "exited", "crashed", "lost", "killed"}
RunOutcome == {"unknown", "completed", "failed", "interrupted", "stopped", "canceled"}
RuntimeState == {"queued", "running", "awaiting_completion", "cancelling",
                 "closed", "failed", "cancelled"}
OutcomeState == {"unknown", "succeeded", "failed", "abandoned"}

RunRow == [status : RunStatus, process_status : ProcessStatus, outcome : RunOutcome,
           runtime_state : RuntimeState, outcome_state : OutcomeState]

AttemptStatus == {"starting", "active", "succeeded", "failed", "cancelled", "lost"}
AttemptRow == [status : AttemptStatus, retry_at : {"none", "future", "due"}]

Phase == {"none", "queued", "starting", "active", "awaiting_completion", "cancelling", "terminal"}
ExtOutcome == {"none", "succeeded", "failed", "cancelled"}
CancellationState == {"none", "requested", "signalled", "acknowledged", "failed", "lost"}
ExtRow == [phase : Phase, outcome : ExtOutcome, cancellation_state : CancellationState,
           completion_digest : Digests \cup {"none"}, exited_clean : BOOLEAN]

AssignmentStatus == {"none", "queued", "active", "blocked", "satisfied", "canceled"}

\* A run row before the run exists, and as every creation route inserts it.
NoRow == [status |-> "none", process_status |-> "not_started", outcome |-> "unknown",
          runtime_state |-> "queued", outcome_state |-> "unknown"]
QueuedRow == [NoRow EXCEPT !.status = "queued"]

NoExt == [phase |-> "none", outcome |-> "none", cancellation_state |-> "none",
          completion_digest |-> "none", exited_clean |-> FALSE]

-----------------------------------------------------------------------------
(* Run lifecycle patches, run-state.ts *)

ProcessBacked == {"starting", "active"}

StartRunLifecycle(row) ==
    [row EXCEPT !.status = "starting", !.process_status = "spawning", !.outcome = "unknown",
                !.runtime_state = "running", !.outcome_state = "unknown"]

\* Mutant: the process status written into the run status.
MarkRunActiveWrongStatus(row) == [row EXCEPT !.status = "running"]

MarkRunActive(row) ==
    [row EXCEPT !.status = "active", !.process_status = "running", !.outcome = "unknown",
                !.runtime_state = "running", !.outcome_state = "unknown"]

\* exit is "clean" (code 0, no signal), "nonzero" or "signal".
FinishRunFromExit(row, exit) ==
    [row EXCEPT !.status = "finished",
        !.process_status = IF exit = "signal" THEN "crashed" ELSE "exited",
        !.outcome = CASE exit = "signal"  -> "interrupted"
                      [] exit = "nonzero" -> "failed"
                      [] OTHER            -> "unknown",
        !.runtime_state = IF exit = "clean" THEN "closed" ELSE "failed",
        !.outcome_state = IF exit = "clean" THEN "unknown" ELSE "failed"]

FinishRunInterrupted(row, processStatus) ==
    [row EXCEPT !.status = "finished", !.process_status = processStatus,
                !.outcome = "interrupted", !.runtime_state = "failed",
                !.outcome_state = "failed"]

FinishRunStopped(row) ==
    [row EXCEPT !.status = "finished", !.process_status = "killed", !.outcome = "stopped",
                !.runtime_state = "cancelled", !.outcome_state = "unknown"]

CancelQueuedRun(row) ==
    [row EXCEPT !.status = "finished", !.process_status = "not_started",
                !.outcome = "canceled", !.runtime_state = "cancelled",
                !.outcome_state = "unknown"]

-----------------------------------------------------------------------------
(* run_attempts *)

OpenAttempt == {"starting", "active"}

HasOpenAttempt(s, r) == s.att[r] # << >> /\ s.att[r][Len(s.att[r])].status \in OpenAttempt

\* get(runId, attemptNumber) finds an attempt that has not ended.
IsOpen(s, r, k) == k \in DOMAIN s.att[r] /\ s.att[r][k].status \in OpenAttempt

\* begin(): an attempt that is still open is handed out again.
BeginAttempt(s, r) ==
    IF HasOpenAttempt(s, r) THEN s
    ELSE [s EXCEPT !.att[r] = Append(@, [status |-> "starting", retry_at |-> "none"])]

MarkAttemptActive(s, r, k) ==
    IF IsOpen(s, r, k)
    THEN [s EXCEPT !.att[r][k] = [@ EXCEPT !.status = "active"]]
    ELSE s

FinishAttempt(s, r, k, status, retryAt) ==
    IF IsOpen(s, r, k)
    THEN [s EXCEPT !.att[r][k] = [status |-> status, retry_at |-> retryAt]]
    ELSE s

-----------------------------------------------------------------------------
(* process_slots, and the queue the dispatcher reads *)

\* Mutant: only the status of the run counts.
ActiveRunIdsByStatus(s, m) == {r \in Runs : MonOf[r] = m /\ s.run[r].status \in ProcessBacked}

\* The runs reserve() counts: slot rows, and runs persisted as process-backed.
ActiveRunIds(s, m) ==
    {r \in Runs : MonOf[r] = m /\ (r \in s.slots \/ s.run[r].status \in ProcessBacked)}

\* Mutant: off by one.
CanReserveOneMore(s, r) ==
    r \in s.slots \/ Cardinality(ActiveRunIds(s, MonOf[r])) <= Limit[MonOf[r]]

CanReserve(s, r) ==
    r \in s.slots \/ Cardinality(ActiveRunIds(s, MonOf[r])) < Limit[MonOf[r]]

ReserveSlot(s, r) == [s EXCEPT !.slots = @ \cup {r}]

ReleaseSlot(s, r) == [s EXCEPT !.slots = @ \ {r}]

ReleaseOrphans(s) == [s EXCEPT !.slots = {r \in @ : s.run[r].status \in ProcessBacked}]

\* The retry time of the latest attempt has not been reached.
InBackoff(s, r) == s.att[r] # << >> /\ s.att[r][Len(s.att[r])].retry_at = "future"

Runnable(s, r) == s.run[r].status = "queued" /\ ~InBackoff(s, r)

\* getOldestQueuedForMon() returns r for r's Mon.
IsOldestQueued(s, r) ==
    /\ Runnable(s, r)
    /\ \A q \in Runs : MonOf[q] = MonOf[r] /\ Runnable(s, q) => r <= q

-----------------------------------------------------------------------------
(* external_executions *)

\* The row exists and its phase is not terminal: the WHERE clause of every update.
ExtOpen(s, r) == s.ext[r].phase \notin {"none", "terminal"}

CancellationAsked(s, r) == s.ext[r].cancellation_state \in {"requested", "signalled"}

UpdatePhase(s, r, phase) ==
    IF ExtOpen(s, r) THEN [s EXCEPT !.ext[r] = [@ EXCEPT !.phase = phase]] ELSE s

MarkAttemptStartingByRun(s, r) ==
    IF ExtOpen(s, r)
    THEN [s EXCEPT !.ext[r] = [@ EXCEPT !.phase = "starting", !.outcome = "none"]]
    ELSE s

ScheduleRetryByRun(s, r) ==
    IF ExtOpen(s, r) /\ s.ext[r].cancellation_state = "none"
    THEN [s EXCEPT !.ext[r] = [@ EXCEPT !.phase = "queued", !.outcome = "none"]]
    ELSE s

\* Mutant: the exit is judged as if nobody had asked to cancel.
RecordProcessExitIgnoresRequest(s, r, exit) ==
    IF ~ExtOpen(s, r) THEN s
    ELSE [s EXCEPT !.ext[r] = [@ EXCEPT
            !.phase = "terminal", !.outcome = IF exit = "clean" THEN "succeeded" ELSE "failed",
            !.exited_clean = (exit = "clean")]]

\* What recordProcessExit() writes: a clean exit still awaits the receipt its policy asks for.
ExitedRow(s, r, exit) ==
    LET succeeded == \/ r \notin ReceiptRuns
                     \/ s.ext[r].completion_digest # "none"
        awaits == ~CancellationAsked(s, r) /\ exit = "clean" /\ ~succeeded
    IN  [s.ext[r] EXCEPT
            !.phase = IF awaits THEN "awaiting_completion" ELSE "terminal",
            !.outcome = IF CancellationAsked(s, r) THEN "cancelled"
                        ELSE IF awaits THEN "none"
                        ELSE IF exit = "clean" THEN "succeeded" ELSE "failed",
            !.cancellation_state = IF CancellationAsked(s, r) THEN "acknowledged" ELSE @,
            !.exited_clean = (exit = "clean")]

RecordProcessExit(s, r, exit) ==
    IF ExtOpen(s, r) THEN [s EXCEPT !.ext[r] = ExitedRow(s, r, exit)] ELSE s

\* Mutant: a terminal execution that has no digest can still be completed.
CompletionConflictsOnDigestOnly(s, r, digest) ==
    s.ext[r].completion_digest \notin {"none", digest}

\* The conflicts recordCompletion() throws: another digest, or a terminal row without one.
CompletionConflicts(s, r, digest) ==
    IF s.ext[r].completion_digest # "none"
    THEN s.ext[r].completion_digest # digest
    ELSE s.ext[r].phase = "terminal"

\* Mutant: the receipt settles the execution before its process has exited.
RecordCompletionEarly(s, r, digest) ==
    IF s.ext[r].completion_digest # "none" THEN s
    ELSE [s EXCEPT !.ext[r] = [@ EXCEPT !.completion_digest = digest, !.phase = "terminal",
                                        !.outcome = "succeeded"]]

RecordCompletion(s, r, digest) ==
    IF s.ext[r].completion_digest # "none" THEN s
    ELSE [s EXCEPT !.ext[r] = [@ EXCEPT
            !.completion_digest = digest,
            !.phase = IF s.ext[r].exited_clean THEN "terminal" ELSE s.ext[r].phase,
            !.outcome = IF s.ext[r].exited_clean THEN "succeeded" ELSE s.ext[r].outcome]]

\* The conflict requestCancellation() throws.
CancellationConflicts(s, r) ==
    s.ext[r].phase = "terminal" /\ s.ext[r].outcome # "cancelled"

\* Mutant: the cancellation is acknowledged without waiting for the process.
RequestCancellationAtOnce(s, r, noActiveProcess) ==
    IF ~ExtOpen(s, r) THEN s
    ELSE [s EXCEPT !.ext[r] = [@ EXCEPT !.phase = "terminal", !.outcome = "cancelled",
                                        !.cancellation_state = "acknowledged"]]

RequestCancellation(s, r, noActiveProcess) ==
    IF ~ExtOpen(s, r) THEN s
    ELSE [s EXCEPT !.ext[r] = [@ EXCEPT
            !.phase = IF noActiveProcess THEN "terminal" ELSE "cancelling",
            !.outcome = IF noActiveProcess THEN "cancelled" ELSE "none",
            !.cancellation_state = IF noActiveProcess THEN "acknowledged" ELSE "requested"]]

MarkCancellationSignalled(s, r) ==
    IF s.ext[r].phase = "cancelling" /\ s.ext[r].cancellation_state = "requested"
    THEN [s EXCEPT !.ext[r] = [@ EXCEPT !.cancellation_state = "signalled"]]
    ELSE s

\* markFailedByRun(); cancellation is "keep", "failed" or "lost".
MarkFailedByRun(s, r, cancellation) ==
    IF ~ExtOpen(s, r) THEN s
    ELSE [s EXCEPT !.ext[r] = [@ EXCEPT
            !.phase = "terminal", !.outcome = "failed",
            !.cancellation_state = IF cancellation = "keep" THEN s.ext[r].cancellation_state
                                   ELSE cancellation]]

MarkProcessLostByRun(s, r) ==
    MarkFailedByRun(s, r, IF CancellationAsked(s, r) THEN "lost" ELSE "keep")

-----------------------------------------------------------------------------
(* plan_assignments *)

UpdateAssignment(s, r, status) ==
    IF s.asg[r] = "none" THEN s ELSE [s EXCEPT !.asg[r] = status]

\* planAssignmentStatusForRun()
AssignmentStatusFor(row) ==
    CASE row.outcome = "canceled"                                -> "canceled"
      [] row.outcome \in {"failed", "interrupted", "stopped"}    -> "blocked"
      [] OTHER                                                   -> "satisfied"
=============================================================================
