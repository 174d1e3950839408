---------------------------- MODULE RunResources ----------------------------
(***************************************************************************)
(* What a run owns besides its row: its scope directory and workspace      *)
(* (scope.ts, run-workspaces.ts), the token and the external MCP grants of *)
(* its attempts (run-auth.ts, external-mcp-grants.ts), its process slot,   *)
(* and the manifest of its outputs (execution-manifests.ts), as the        *)
(* handlers of run-manager.ts take and release them.                       *)
(*                                                                         *)
(* A handler is not a transaction: it commits one statement, or changes    *)
(* one file, at a time.  It is the sequence of the states it passes        *)
(* through up to its next await.  Run to there it is one step, for the     *)
(* service is one Node process; a crash leaves any state of the sequence   *)
(* behind.  startRun() awaits the runner, so that other handlers may come  *)
(* between the spawn of a process and its entry in the map.                *)
(***************************************************************************)
EXTENDS Integers, Sequences, FiniteSets

CONSTANTS
    Runs,         \* numbered in the order of creation, all of one Mon
    Limit,        \* max_active_runs
    Isolated,     \* the runs whose mon.json says run_workspace.mode = "isolated"
    Context,      \* those whose mon.json has actor_context files
    Claims,       \* those with an external MCP server that takes run_claims
    Unmountable,  \* those with a read mount that may be missing when they start
    Linking,      \* those whose process may leave a symbolic link in its scratch
    External,     \* those of an external execution, which may have a manifest
    Launches,     \* how a launch may go: "spawned"; the child reports an 'error' "event" later
                  \* (no such command); the runner itself fails ("reject")
    MaxAttempts,  \* retry_policy.max_attempts
    Window,       \* recovery_window_seconds, in ticks of the clock
    AttemptCap,   \* bound: starts that fail before the launch, below this attempt
    MaxFaults     \* bound: crashes, failed cleanups and restarts without a crash

ASSUME RunsAssumption ==
    /\ Runs \subseteq Nat \ {0}
    /\ {Isolated, Context, Claims, Unmountable, Linking, External} \subseteq SUBSET Runs
ASSUME LaunchAssumption == Launches \subseteq {"spawned", "event", "reject"}
ASSUME NumberAssumption ==
    /\ {Limit, MaxAttempts} \subseteq Nat \ {0}
    /\ {Window, AttemptCap, MaxFaults} \subseteq Nat

VARIABLES
    run,      \* table runs: status, root of scope_snapshot, attempt of run_token_hash
    att,      \* table run_attempts: the latest attempt and whether it is open
    slots,    \* table process_slots
    ws,       \* table run_workspaces
    grants,   \* table external_mcp_grants
    man,      \* table execution_manifests with its outputs, and process_exited_at
    dir,      \* the scope directory on disk
    known,    \* the map of RunningRun entries: the attempt, or 0
    pending,  \* the startRun() calls that await the runner
    errors,   \* <<run, attempt>> of 'error' events on the tick queue
    procs,    \* the live processes: detached, they outlive the service
    service,  \* "up", or "down" until startup has settled what it finds
    unswept,  \* the workspaces the sweep of this startup has not looked at
    faults    \* what MaxFaults bounds

vars == <<run, att, slots, ws, grants, man, dir, known, pending, errors, procs, service,
          unswept, faults>>

Null == -1

Row == [status : {"none", "queued", "starting", "active", "finished"},
        root : {"none", "scratch", "work"}, token : Nat, retry : {"none", "backoff"}]
Attempt == [n : Nat, open : BOOLEAN]
Workspace == [state : {"none", "active", "sealed", "cleanup_failed", "cleaned"},
              left : {Null} \cup 0..Window]
Grants == [issued : SUBSET Nat, live : SUBSET Nat]
\* Of a manifest, its local output: opaque references have a status of their own that
\* nothing but a client ever changes.
Manifest == [status : {"none", "available", "deleted", "expired"},
             reason : {"none", "client", "run_workspace_expired"}, exited : BOOLEAN]
Process == [run : Runs, attempt : Nat, root : {"scratch", "work"}]
Pending == [run : Runs, attempt : Nat, rejected : BOOLEAN]

TypeOK ==
    /\ run \in [Runs -> Row] /\ att \in [Runs -> Attempt] /\ slots \subseteq Runs
    /\ ws \in [Runs -> Workspace] /\ grants \in [Runs -> Grants] /\ man \in [Runs -> Manifest]
    /\ dir \in [Runs -> {"absent", "writable", "sealed"}]
    /\ known \in [Runs -> Nat] /\ procs \subseteq Process
    /\ pending \subseteq Pending /\ errors \subseteq Runs \X Nat
    /\ service \in {"up", "down"} /\ unswept \subseteq Runs /\ faults \in 0..MaxFaults

st == [run |-> run, att |-> att, slots |-> slots, ws |-> ws, grants |-> grants, man |-> man,
       dir |-> dir, known |-> known, pending |-> pending, errors |-> errors, procs |-> procs,
       service |-> service, unswept |-> unswept, faults |-> faults]

Commit(s) ==
    /\ run' = s.run /\ att' = s.att /\ slots' = s.slots /\ ws' = s.ws /\ grants' = s.grants
    /\ man' = s.man /\ dir' = s.dir /\ known' = s.known /\ pending' = s.pending
    /\ errors' = s.errors /\ procs' = s.procs /\ service' = s.service
    /\ unswept' = s.unswept /\ faults' = s.faults

NoManifest == [status |-> "none", reason |-> "none", exited |-> FALSE]

Init ==
    /\ run = [r \in Runs |-> [status |-> "none", root |-> "none", token |-> 0,
                              retry |-> "none"]]
    /\ att = [r \in Runs |-> [n |-> 0, open |-> FALSE]]
    /\ slots = {} /\ pending = {} /\ errors = {} /\ procs = {}
    /\ ws = [r \in Runs |-> [state |-> "none", left |-> Null]]
    /\ grants = [r \in Runs |-> [issued |-> {}, live |-> {}]]
    /\ man = [r \in Runs |-> NoManifest]
    /\ dir = [r \in Runs |-> "absent"]
    /\ known = [r \in Runs |-> 0]
    /\ service = "up" /\ unswept = {} /\ faults = 0

-----------------------------------------------------------------------------
(* Handlers as sequences of states *)

LastOf(h) == h[Len(h)]

\* The service dies: what it held in memory is gone, its processes live on.
Crashed(s) == [s EXCEPT !.known = [r \in Runs |-> 0], !.pending = {}, !.errors = {},
                        !.service = "down", !.unswept = Runs, !.faults = @ + 1]

\* Requests, timers and exits are handled when nothing is queued to run first.
Quiet == service = "up" /\ pending = {} /\ errors = {}

\* The handler h runs to its end or its await, or the service crashes on the way.
Handle(h) ==
    \/ Commit(LastOf(h))
    \/ /\ faults < MaxFaults
       /\ \E i \in 1..(Len(h) - 1) : Commit(Crashed(h[i]))

ReleaseSlot(s, r) == [s EXCEPT !.slots = @ \ {r}]
FinishAttempt(s, r) == [s EXCEPT !.att[r].open = FALSE]
SetStatus(s, r, status) == [s EXCEPT !.run[r].status = status]

\* Mutant: only the token is revoked.
RevokeGrantsNot(s, r) == s

RevokeGrants(s, r) == [s EXCEPT !.grants[r].live = {}]
RevokeToken(s, r) == [s EXCEPT !.run[r].token = 0]

\* revokeRunToken(): first the grants, then the hash in the row.
RevokeRunToken(s, r) == <<RevokeGrants(s, r), RevokeToken(RevokeGrants(s, r), r)>>

\* sealRunWorkspace(): the files, then the row.  A symbolic link makes it fail, and
\* what records the failure sets no expires_at.
SealRunWorkspace(s, r, linked) ==
    LET files == [s EXCEPT !.dir[r] = IF @ = "absent" THEN @ ELSE "sealed"]
        left == IF s.ws[r].left = Null THEN Window ELSE s.ws[r].left
    IN  IF s.ws[r].state \in {"none", "sealed", "cleaned"} THEN <<s>>
        ELSE IF linked THEN <<[s EXCEPT !.ws[r].state = "cleanup_failed"]>>
        ELSE <<files, [files EXCEPT !.ws[r] = [state |-> "sealed", left |-> left]]>>

\* What the process of the run may have left in its scratch.
Links(r) == IF r \in Linking /\ run[r].root = "scratch" THEN BOOLEAN ELSE {FALSE}

\* finishTerminalRun(): the workspace is sealed, then the token revoked.
FinishTerminalRun(s, r, linked) ==
    LET sealing == SealRunWorkspace(s, r, linked)
    IN  sealing \o RevokeRunToken(LastOf(sealing), r)

-----------------------------------------------------------------------------
(* startRun() *)

Runnable(q) == run[q].status = "queued" /\ run[q].retry = "none"
OldestQueued(r) == Runnable(r) /\ \A q \in Runs : Runnable(q) => r <= q

\* materializeRunScope() is called before the first attempt only.
NeedsScope(r) == att[r].n = 0 /\ r \in Isolated \cup Context

\* Where the process is going to work: the recorded scope once there is one, else the
\* one just materialized, else the work root, even of an isolated run.
RootOf(r) ==
    IF run[r].root # "none" THEN run[r].root
    ELSE IF NeedsScope(r) /\ r \in Isolated THEN "scratch" ELSE "work"

\* begin(): an attempt that was left open is taken up again.
BeginAttempt(s, r) ==
    [s EXCEPT !.att[r] = [n |-> IF @.open THEN @.n ELSE @.n + 1, open |-> TRUE]]

Issue(s, r) ==
    LET k == s.att[r].n
    IN  [s EXCEPT !.grants[r] = [issued |-> @.issued \cup {k}, live |-> @.live \cup {k}]]

\* updateScopeAndExecution(): the scope, and the hash of the new token.
RecordScope(s, r, root) ==
    [s EXCEPT !.run[r].root = root, !.run[r].token = s.att[r].n, !.run[r].retry = "none"]

\* The states up to the grants: reservation, directory, workspace row, attempt.
Preparation(r) ==
    LET reserved == [st EXCEPT !.slots = @ \cup {r}]
        made == [reserved EXCEPT !.dir[r] = "writable"]
        registered == [made EXCEPT !.ws[r].state = IF @ = "none" THEN "active" ELSE @]
    IN  IF NeedsScope(r)
        THEN <<reserved, made, registered, BeginAttempt(registered, r)>>
        ELSE <<reserved, BeginAttempt(reserved, r)>>

\* A grant of the same attempt is there already, or a mount cannot be resolved.
GrantFails(s, r, mounted) ==
    \/ r \in Claims /\ s.att[r].n \in s.grants[r].issued
    \/ ~mounted

\* buildExternalMcpRuntime() failed: the run stays queued and its workspace is sealed.
FailedPreparation(s, r, linked) ==
    LET released == ReleaseSlot(s, r)
        revoked == RevokeGrants(released, r)
        finished == FinishAttempt(revoked, r)
    IN  <<released, revoked, finished>> \o SealRunWorkspace(finished, r, linked)

\* retryOrFinishFailure(): whether attempt k is followed by another.
ShouldRetry(k) == k < MaxAttempts

\* The run returns to the queue: attempt, token and grants, row.
Retry(s, r) ==
    LET finished == FinishAttempt(s, r)
        revoked == RevokeRunToken(finished, r)
        requeued == [LastOf(revoked) EXCEPT !.run[r].status = "queued",
                                            !.run[r].retry = "backoff"]
    IN  <<finished>> \o revoked \o <<requeued>>

\* The run ends: attempt, process_exited_at, row, workspace, token and grants.
Finish(s, r, linked, exited) ==
    LET finished == FinishAttempt(s, r)
        recorded == [finished EXCEPT !.man[r].exited = @ \/ (exited /\ r \in External)]
        ended == SetStatus(recorded, r, "finished")
    IN  <<finished, recorded, ended>> \o FinishTerminalRun(ended, r, linked)

\* An event of an attempt that has ended, or is not the one in the map, is ignored.
Stale(s, r, k) == ~(s.att[r].open /\ s.att[r].n = k) \/ s.known[r] \notin {0, k}

\* handleProcessError(): a launch that failed is retried or ends the run.
FailedLaunch(s, r, k, linked) ==
    LET released == ReleaseSlot([s EXCEPT !.known[r] = 0], r)
    IN  IF Stale(s, r, k) THEN <<s>>
        ELSE IF s.run[r].status = "finished" THEN <<released>>
        ELSE <<released>> \o (IF ShouldRetry(k) THEN Retry(released, r)
                              ELSE Finish(released, r, linked, FALSE))

\* What startRun() leaves to others while it awaits the runner.
Awaiting(s, r, root, how) ==
    LET k == s.att[r].n
        waiting == [s EXCEPT !.pending = @ \cup {[run |-> r, attempt |-> k,
                                                  rejected |-> how = "reject"]}]
    IN  CASE how = "spawned" -> [waiting EXCEPT
                !.procs = @ \cup {[run |-> r, attempt |-> k, root |-> root]}]
          [] how = "event" -> [waiting EXCEPT !.errors = @ \cup {<<r, k>>}]
          [] OTHER -> waiting

\* Mutant: the process is spawned before the row says so.
LaunchFirst(s, r, root, how) ==
    LET recorded == RecordScope(s, r, root)
        spawned == Awaiting(recorded, r, root, how)
    IN  <<recorded, spawned, SetStatus(spawned, r, "starting")>>

\* startRun() from the grants to its await
Launch(s, r, root, how) ==
    LET recorded == RecordScope(s, r, root)
        starting == SetStatus(recorded, r, "starting")
    IN  <<recorded, starting, Awaiting(starting, r, root, how)>>

\* isolatedCodexArgs() refuses an isolated run that has no scratch.
CanLaunch(r, root) == r \in Isolated => root = "scratch"

\* startRun() from the reservation to its await.  mkdir does not accept a directory that
\* exists: the slot is given back and the exception goes to the caller.
StartRun(r, mounted, how, linked) ==
    LET prepared == Preparation(r)
        begun == LastOf(prepared)
        issued == IF r \in Claims THEN Issue(begun, r) ELSE begun
        outcome == IF CanLaunch(r, RootOf(r)) THEN how ELSE "reject"
    IN  IF NeedsScope(r) /\ dir[r] # "absent" THEN <<prepared[1], st>>
        ELSE IF r \in Claims /\ GrantFails(begun, r, TRUE)
        THEN prepared \o FailedPreparation(begun, r, linked)
        ELSE IF ~mounted THEN prepared \o <<issued>> \o FailedPreparation(issued, r, linked)
        ELSE prepared \o <<issued>> \o Launch(issued, r, RootOf(r), outcome)

\* startRun() after its await.  markRunActive() of the row as it was before the await: what
\* an 'error' event has made of the run meanwhile is overwritten.
Activate(s, r, k) == SetStatus([s EXCEPT !.known[r] = k], r, "active")

-----------------------------------------------------------------------------
(* Requests and dispatch *)

Create(r) ==
    /\ Quiet /\ run[r].status = "none"
    /\ \A q \in Runs : q < r => run[q].status # "none"
    /\ Commit(SetStatus(st, r, "queued"))

\* reserve() counts the slots, and the runs that have a process by their rows.
SlotIsFree(r) ==
    r \in slots \/ Cardinality(slots \cup {q \in Runs : run[q].status \in {"starting", "active"}})
                     < Limit

\* A dispatch of the Mon, in whatever handler, or POST /runs/:id/start, gets past the
\* reservation.
Start(r, mounted, how, linked) ==
    /\ service = "up" /\ OldestQueued(r) /\ SlotIsFree(r)
    /\ (~mounted => r \in Unmountable) /\ linked \in Links(r)
    /\ (~mounted => att[r].n < AttemptCap)
    /\ Handle(StartRun(r, mounted, how, linked))

Continue(p, linked) ==
    /\ service = "up" /\ p \in pending /\ linked \in Links(p.run)
    /\ LET s == [st EXCEPT !.pending = @ \ {p}]
       IN  Handle(IF p.rejected THEN FailedLaunch(s, p.run, p.attempt, linked)
                  ELSE <<Activate(s, p.run, p.attempt)>>)

SpawnError(e, linked) ==
    /\ service = "up" /\ e \in errors /\ linked \in Links(e[1])
    /\ Handle(FailedLaunch([st EXCEPT !.errors = @ \ {e}], e[1], e[2], linked))

\* stopRun() of a run that is not finished: a running process gets SIGTERM and keeps
\* the slot until it exits.
Stop(r) ==
    /\ Quiet /\ run[r].status \in {"queued", "active"}
    /\ LET ended == [SetStatus(st, r, "finished") EXCEPT !.run[r].retry = "none"]
           released == IF known[r] # 0 THEN ended ELSE ReleaseSlot(ended, r)
       IN  Handle(<<ended, released>> \o RevokeRunToken(released, r))

BackoffElapses(r) ==
    /\ run[r].retry = "backoff"
    /\ Commit([st EXCEPT !.run[r].retry = "none"])

\* Mutant: the exit of a stopped run leaves its slot.
StoppedExitKeepsSlot(s, r, linked) == <<FinishAttempt(s, r)>>

\* handleProcessExit() of a run that was stopped.
StoppedExit(s, r, linked) ==
    LET released == ReleaseSlot(s, r)
        finished == FinishAttempt(released, r)
    IN  <<released, finished>> \o SealRunWorkspace(finished, r, linked)

\* Mutant: the workspace is sealed when the run waits for its retry.
RetryExitSeals(s, r, linked) ==
    LET retry == Retry(ReleaseSlot(s, r), r)
    IN  retry \o SealRunWorkspace(LastOf(retry), r, linked)

RetryExit(s, r, linked) ==
    LET released == ReleaseSlot(s, r) IN <<released>> \o Retry(released, r)

\* handleProcessExit(): the process ends, and its streams close.
ProcessExit(p, clean, linked) ==
    /\ Quiet /\ p \in procs /\ known[p.run] = p.attempt /\ linked \in Links(p.run)
    /\ LET r == p.run
           gone == [st EXCEPT !.procs = @ \ {p}, !.known[r] = 0]
           released == ReleaseSlot(gone, r)
       IN  Handle(IF run[r].status = "finished" THEN StoppedExit(gone, r, linked)
                  ELSE IF ~clean /\ ShouldRetry(p.attempt) THEN RetryExit(gone, r, linked)
                  ELSE <<released>> \o Finish(released, r, linked, TRUE))

\* The end of a process that this service did not start is seen by nobody, and that of one
\* whose attempt is not the one in the map is ignored.
DetachedExit(p) ==
    /\ p \in procs /\ known[p.run] # p.attempt
    /\ ~(\E w \in pending : w.run = p.run /\ w.attempt = p.attempt)
    /\ Commit([st EXCEPT !.procs = @ \ {p}])

-----------------------------------------------------------------------------
(* Manifests *)

\* A file can be verified while its root is there.
Verifiable(r) ==
    /\ man[r].exited /\ run[r].root # "none"
    /\ run[r].root = "scratch" => dir[r] # "absent"

\* register() of a manifest with a local output.  The first manifest stays: the same
\* digest is replayed, another conflicts.
RegisterManifest(r) ==
    /\ Quiet /\ r \in External /\ man[r].status = "none" /\ Verifiable(r)
    /\ Commit([st EXCEPT !.man[r].status = "available"])

\* updateAvailability() takes the word of the client.
UpdateAvailability(r, status) ==
    /\ Quiet /\ man[r].status # "none"
    /\ Commit([st EXCEPT !.man[r].status = status, !.man[r].reason = "client"])

-----------------------------------------------------------------------------
(* The sweep of expired scopes, and startup *)

\* Mutant: a cleanup that failed is not tried again.
ExpiredOnce(s) == {r \in Runs : s.ws[r].state = "sealed" /\ s.ws[r].left = 0}

\* listExpired()
Expired(s) == {r \in Runs : s.ws[r].state \in {"sealed", "cleanup_failed"} /\ s.ws[r].left = 0}

RemoveDirectory(s, r) == [s EXCEPT !.dir[r] = "absent"]

\* Mutant: the outputs keep the status they were registered with.
ExpireLocalOutputsNot(s, r) == s

\* markLocalOutputsExpiredByRun()
ExpireLocalOutputs(s, r) ==
    IF s.man[r].status \in {"none", "expired"} THEN s
    ELSE [s EXCEPT !.man[r].status = "expired",
                   !.man[r].reason = IF @ = "none" THEN "run_workspace_expired" ELSE @]

\* Mutant: a state that is none of table run_workspaces.
MarkRemoved(s, r) == [s EXCEPT !.ws[r].state = "removed"]

MarkCleaned(s, r) == [s EXCEPT !.ws[r].state = "cleaned"]

\* One turn of the loop; where the cleanup fails only the row changes.
Sweep(s, r, failed) ==
    LET removed == RemoveDirectory(s, r)
        expired == ExpireLocalOutputs(removed, r)
    IN  IF failed THEN <<[s EXCEPT !.ws[r].state = "cleanup_failed", !.faults = @ + 1]>>
        ELSE <<removed, expired, MarkCleaned(expired, r)>>

\* The sweep of every minute.  Its turns touch different runs: each is a step.
SweepExpired(r, failed) ==
    /\ Quiet /\ r \in Expired(st)
    /\ failed => faults < MaxFaults /\ dir[r] # "absent"
    /\ Handle(Sweep(st, r, failed))

Tick ==
    /\ \E r \in Runs : ws[r].left > 0
    /\ ws' = [r \in Runs |-> IF ws[r].left > 0 THEN [ws[r] EXCEPT !.left = @ - 1] ELSE ws[r]]
    /\ UNCHANGED <<run, att, slots, grants, man, dir, known, pending, errors, procs, service,
                   unswept, faults>>

Crash == service = "up" /\ faults < MaxFaults /\ Commit(Crashed(st))

Lost == {r \in Runs : run[r].status \in {"starting", "active"}}

\* One turn of the loop of markLostRunsOnStartup().
LoseRun(r, linked) ==
    /\ service = "down" /\ r \in Lost /\ linked \in Links(r)
    /\ LET finished == FinishAttempt(st, r)
           ended == SetStatus(finished, r, "finished")
       IN  Handle(<<finished, ended>> \o FinishTerminalRun(ended, r, linked))

\* The sweep of the startup, once no run is left to settle.
SweepOnStartup(r, failed) ==
    /\ service = "down" /\ Lost = {} /\ r \in Expired(st) \cap unswept
    /\ failed => faults < MaxFaults /\ dir[r] # "absent"
    /\ Handle(Sweep([st EXCEPT !.unswept = @ \ {r}], r, failed))

\* releaseOrphans() has released what no starting or active run holds: the API opens.
OpenService ==
    /\ service = "down" /\ Lost = {} /\ Expired(st) \cap unswept = {}
    /\ Commit([st EXCEPT !.slots = {}, !.unswept = {}, !.service = "up"])

\* What runs before anything else: nextTick callbacks and promise continuations.
EventLoop ==
    \/ \E p \in pending : \E linked \in BOOLEAN : Continue(p, linked)
    \/ \E e \in errors : \E linked \in BOOLEAN : SpawnError(e, linked)

Next ==
    \/ \E r \in Runs :
        \/ Create(r)
        \/ Stop(r)
        \/ BackoffElapses(r)
        \/ \E mounted, linked \in BOOLEAN, how \in Launches : Start(r, mounted, how, linked)
        \/ \E linked \in BOOLEAN : LoseRun(r, linked)
        \/ \E failed \in BOOLEAN : SweepExpired(r, failed) \/ SweepOnStartup(r, failed)
        \/ RegisterManifest(r)
        \/ \E status \in {"available", "deleted", "expired"} : UpdateAvailability(r, status)
    \/ \E p \in procs :
        \/ DetachedExit(p)
        \/ \E clean, linked \in BOOLEAN : ProcessExit(p, clean, linked)
    \/ EventLoop
    \/ Tick
    \/ Crash
    \/ OpenService

Spec == Init /\ [][Next]_vars

Recovery ==
    \/ \E r \in Runs : \E linked \in BOOLEAN : LoseRun(r, linked)
    \/ \E r \in Runs : \E failed \in BOOLEAN : SweepOnStartup(r, failed)
    \/ OpenService

\* The clock and the event loop run, the sweep comes round, and a service that died is started
\* again.  A cleanup may fail and the service may die, but not for ever (MaxFaults).  But for
\* the clock's, each is weak fairness with ENABLED written out: what waits in the event loop,
\* a service that is down and an expired workspace always have a step to take.
FairSpec ==
    /\ Spec /\ WF_vars(Tick)
    /\ []<>~(service = "up" /\ ~Quiet) \/ []<><<EventLoop>>_vars
    /\ []<>(service = "up") \/ []<><<Recovery>>_vars
    /\ []<>~(Quiet /\ Expired(st) # {}) \/ []<><<\E r \in Runs : SweepExpired(r, FALSE)>>_vars

\* And what is queued is dispatched time and again.
DispatchSpec ==
    /\ FairSpec
    /\ \A r \in Runs :
        WF_vars(\E mounted, linked \in BOOLEAN, how \in Launches : Start(r, mounted, how, linked))

-----------------------------------------------------------------------------
(* Properties *)

\* A run never has two live processes, not even one of this service and one that a
\* service that crashed left behind: no retry and no torn start duplicates its effects.
OneProcessPerRun == \A p, q \in procs : p.run = q.run => p = q

\* isRunTokenAuthorized() and introspect() accept credentials of starting and active runs.
Accepted(r, k) ==
    /\ run[r].status \in {"starting", "active"}
    /\ k \in grants[r].live \/ (k = run[r].token /\ k # 0)

\* The credentials the service accepts are those of an attempt that has not ended: no token
\* and no grant of an earlier attempt works again once the run is retried.
CredentialsOfTheAttempt ==
    service = "up" => \A r \in Runs : \A k \in grants[r].issued \cup {run[r].token} :
        Accepted(r, k) => k = att[r].n /\ att[r].open

\* However the handlers were torn and the launches went, a slot is held exactly by a run
\* whose open attempt is in the map or awaits its runner.  An 'error' event that overtakes
\* the continuation of startRun() gives the slot back and closes the attempt: what the
\* continuation enters in the map then holds no slot, and no later attempt loses its own.
SlotHeldWhileRunning ==
    service = "up" =>
        slots = {r \in Runs : att[r].open /\ (known[r] # 0 \/ \E p \in pending : p.run = r)}

\* The state invariant on what a run holds: the parts above, together.
HoldingsInv == TypeOK /\ OneProcessPerRun /\ SlotHeldWhileRunning

\* An isolated process that is watched works in its scratch, and can write there: the
\* scratch is neither sealed nor removed, nor is its workspace on its way to be.
ScratchOfLiveProcess ==
    \A p \in procs : p.run \in Isolated /\ known[p.run] = p.attempt =>
        p.root = "scratch" /\ dir[p.run] = "writable" /\ ws[p.run].state = "active"

\* A local output in a scratch that is still said to be available, by nobody but its
\* registration, has its file, whatever sweep was torn between the files and the rows.
AvailableFileExists ==
    service = "up" => \A r \in Runs :
        /\ man[r].status = "available" /\ man[r].reason = "none"
        /\ run[r].root = "scratch"
        => dir[r] # "absent"

\* A workspace with an expiry is cleaned in the end, through failed cleanups and crashes.
ExpiredIsCleaned ==
    \A r \in Runs : ws[r].left # Null ~> ws[r].state = "cleaned"

\* A queued run whose backoff is over is started or ended after every restart.
QueuedWorkIsRestartSafe ==
    \A r \in Runs : run[r].status = "queued" ~> run[r].status # "queued"
=============================================================================
