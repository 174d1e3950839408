--------------------------- MODULE ExternalRequests ---------------------------
(***************************************************************************)
(* Integrations start work under stable keys over HTTP.  A client that got *)
(* no answer sends its request again, so that every request may be handled *)
(* any number of times, by the next service too, and every answer may be   *)
(* lost.  The handler of a start reserves the key in one transaction, then *)
(* waits for the dispatch, then answers; all other handlers run at once.   *)
(*                                                                         *)
(* The row of an external execution and the run behind it are told of one  *)
(* another's fate by their writers only, so both are here: a launch that   *)
(* fails before, at or after its spawn, a dispatch that fails for another  *)
(* run, a retry, and operators who end runs by hand.  Which run of its Mon *)
(* is dispatched, slots, timers and the map of running processes are those *)
(* of RunManager; here a queued run may be launched whenever a handler     *)
(* runs.  Left out: payloads (a digest stands for what it is computed      *)
(* from), size limits, targets that do not exist, verification of outputs. *)
(***************************************************************************)
EXTENDS Naturals, FiniteSets

CONSTANTS
    Keys,           \* (integration_id, external_execution_key)
    Clients,        \* callers, each with one request that it repeats until it is answered
    KeyOf, DigestOf, PolicyOf, PredecessorOf,    \* their requests
    NoKey,          \* a request without predecessor
    LaunchKinds,    \* how launches of the Mon of a key may go, see Launch and PreparationFails
    Handled,        \* the keys whose runs operators stop, close and cancel by hand
    MaxAttempts,    \* retry_policy.max_attempts of the Mon of a key
    AttemptCap,     \* bound: launches fail before spawning only below this attempt
    MaxCrashes      \* bound: crashes of the service

ASSUME RequestsAssumption ==
    /\ IsFiniteSet(Keys) /\ Keys \cap {NoKey, "none"} = {}
    /\ KeyOf \in [Clients -> Keys]
    /\ PolicyOf \in [Clients -> {"process_exit", "external_receipt"}]
    /\ PredecessorOf \in [Clients -> Keys \cup {NoKey}]
\* The digest covers the whole request.
ASSUME DigestAssumption ==
    \A c, d \in Clients : DigestOf[c] = DigestOf[d] =>
        /\ KeyOf[c] = KeyOf[d] /\ PolicyOf[c] = PolicyOf[d]
        /\ PredecessorOf[c] = PredecessorOf[d]
ASSUME EnvironmentAssumption ==
    /\ LaunchKinds \in [Keys -> SUBSET {"spawned", "event", "reject", "mcp", "throw"}]
    /\ Handled \subseteq Keys
    /\ MaxAttempts \in [Keys -> Nat \ {0}] /\ AttemptCap \in Nat /\ MaxCrashes \in Nat

VARIABLES
    row,        \* external_executions, by key
    run,        \* the status of the key's run
    attempts,   \* run_attempts: the number of the latest one
    made,       \* runs inserted for integrations: 1..made
    manifest,   \* the keys a manifest was registered for
    working,    \* the keys a harness process works for
    pending,    \* the startRun() calls that await the runner
    errors,     \* <<key, attempt>> of 'error' events on the tick queue
    handling,   \* clients whose start was reserved and waits for the dispatch
    client,     \* what a client has been told
    crashes

runs == <<row, run>>
loop == <<pending, errors>>
told == <<handling, client>>
vars == <<runs, attempts, made, manifest, working, loop, told, crashes>>

-----------------------------------------------------------------------------
Phases == {"none", "queued", "starting", "active", "cancelling", "awaiting_completion", "terminal"}
Verdicts == {"succeeded", "failed", "cancelled"}
NoRun == 0
Digests == {DigestOf[c] : c \in Clients}

\* A completion is a receipt or names a manifest; the manifest of a key has its name.
Completions == {"receipt"} \cup Keys

Row == [phase : Phases, outcome : Verdicts \cup {"none"}, digest : Digests \cup {"none"},
        policy : {"process_exit", "external_receipt"}, run : Nat, predecessor : Nat,
        asked : BOOLEAN, completion : Completions \cup {"none"}]

NoRow == [phase |-> "none", outcome |-> "none", digest |-> "none", policy |-> "process_exit",
          run |-> NoRun, predecessor |-> NoRun, asked |-> FALSE, completion |-> "none"]

Statuses == {"none", "queued", "starting", "active", "finished"}
Pending == [key : Keys, attempt : Nat, rejected : BOOLEAN]
Client == [stage : {"waiting", "answered", "refused"}, run : Nat, created : BOOLEAN,
           read : Verdicts \cup {"none"}]

TypeOK ==
    /\ row \in [Keys -> Row] /\ run \in [Keys -> Statuses] /\ attempts \in [Keys -> Nat]
    /\ made \in 0..Cardinality(Keys)
    /\ manifest \subseteq Keys /\ working \subseteq Keys
    /\ pending \subseteq Pending /\ errors \subseteq Keys \X Nat
    /\ handling \subseteq Clients /\ client \in [Clients -> Client]
    /\ crashes \in 0..MaxCrashes

Init ==
    /\ row = [k \in Keys |-> NoRow] /\ run = [k \in Keys |-> "none"]
    /\ attempts = [k \in Keys |-> 0] /\ made = 0
    /\ manifest = {} /\ working = {} /\ pending = {} /\ errors = {}
    /\ handling = {} /\ crashes = 0
    /\ client = [c \in Clients |->
                    [stage |-> "waiting", run |-> NoRun, created |-> FALSE, read |-> "none"]]

Exists(k) == row[k].phase # "none"
Open(k) == row[k].phase \notin {"none", "terminal"}

\* Requests, timers and exits are handled when nothing is queued to run first.
Quiet == pending = {} /\ errors = {}

\* Every update of a row has WHERE phase != 'terminal'.
InPhase(r, phase) == IF r.phase = "terminal" THEN r ELSE [r EXCEPT !.phase = phase]
Settled(r, outcome) ==
    IF r.phase = "terminal" THEN r ELSE [r EXCEPT !.phase = "terminal", !.outcome = outcome]

Become(k, newRow, status) ==
    /\ row' = [row EXCEPT ![k] = newRow]
    /\ run' = [run EXCEPT ![k] = status]

-----------------------------------------------------------------------------
(* Starting *)

\* Mutant: the row is looked up again after it was inserted.
PredecessorRunOfInserted(c) ==
    LET p == PredecessorOf[c]
    IN  IF p = NoKey THEN NoRun ELSE IF p = KeyOf[c] THEN made + 1 ELSE row[p].run

\* The run of a predecessor that exists already; other keys may come later or never.
PredecessorRun(c) ==
    IF PredecessorOf[c] = NoKey THEN NoRun ELSE row[PredecessorOf[c]].run

NewRow(c) ==
    [NoRow EXCEPT !.phase = "queued", !.digest = DigestOf[c], !.policy = PolicyOf[c],
                  !.run = made + 1, !.predecessor = PredecessorRun(c)]

\* Mutant: a row that has ended no longer counts, the client starts again.
MissingOrEnded(k) == row[k].phase \in {"none", "terminal"}

Missing(k) == ~Exists(k)

\* createOrGet() when the key is new: the answer has to wait for the dispatch.
Reserve(c) ==
    LET k == KeyOf[c]
    IN  /\ client[c].stage = "waiting" /\ Missing(k)
        /\ Become(k, NewRow(c), "queued") /\ made' = made + 1
        /\ handling' = handling \cup {c}
        /\ UNCHANGED <<attempts, manifest, working, loop, client, crashes>>

\* Mutant: the key alone decides.
DiffersNever(c) == FALSE

Differs(c) == row[KeyOf[c]].digest # DigestOf[c] \/ row[KeyOf[c]].policy # PolicyOf[c]

Told(c, created) ==
    [client[c] EXCEPT !.stage = "answered", !.run = row[KeyOf[c]].run, !.created = created]

\* createOrGet() when the key exists, 200 or 409; nothing is dispatched.
Repeat(c) ==
    /\ client[c].stage = "waiting" /\ Exists(KeyOf[c])
    /\ client' = [client EXCEPT ![c] = IF Differs(c) THEN [@ EXCEPT !.stage = "refused"]
                                       ELSE Told(c, FALSE)]
    /\ UNCHANGED <<runs, attempts, made, manifest, working, loop, handling, crashes>>

\* The dispatch threw, for the run of this key or for a later one of the Mon: the catch of
\* reserveExternalRun() fails the run it reserved, whose process may already work.
ReservationFails(c) ==
    /\ LaunchKinds[KeyOf[c]] \cap {"mcp", "throw"} # {} /\ c \in handling
    /\ Become(KeyOf[c], Settled(row[KeyOf[c]], "failed"), "finished")
    /\ UNCHANGED <<attempts, made, manifest, working, loop, told, crashes>>

\* The dispatch is over: 201, unless the client was answered when it asked again.
Answer(c) ==
    /\ c \in handling /\ handling' = handling \ {c}
    /\ client' = IF client[c].stage = "waiting" THEN [client EXCEPT ![c] = Told(c, TRUE)]
                 ELSE client
    /\ UNCHANGED <<runs, attempts, made, manifest, working, loop, crashes>>

LoseAnswer(c) ==
    /\ c \in handling /\ handling' = handling \ {c}
    /\ UNCHANGED <<runs, attempts, made, manifest, working, loop, client, crashes>>

-----------------------------------------------------------------------------
(* What the run manager does with the run and the row *)

\* startRun() up to its await, in the dispatch of the start or any later one: the process
\* starts, or the child reports an 'error' event later, or the runner rejects.
Launch(k, how) ==
    LET n == attempts[k] + 1
    IN  /\ run[k] = "queued" /\ how \in LaunchKinds[k] \cap {"spawned", "event", "reject"}
        /\ Become(k, InPhase(row[k], "starting"), "starting")
        /\ attempts' = [attempts EXCEPT ![k] = n]
        /\ working' = IF how = "spawned" THEN working \cup {k} ELSE working
        /\ errors' = IF how = "event" THEN errors \cup {<<k, n>>} ELSE errors
        /\ pending' = pending \cup {[key |-> k, attempt |-> n, rejected |-> how = "reject"]}
        /\ UNCHANGED <<made, manifest, told, crashes>>

\* startRun() throws in buildExternalMcpRuntime(): the row says starting, the run stays
\* queued and nothing will wake it.  A "throw" comes before anything is written.  In the
\* dispatch of a reservation ReservationFails follows; elsewhere the exception is recorded,
\* or caught by nobody and the service ends (Crash).
PreparationFails(k) ==
    /\ "mcp" \in LaunchKinds[k] /\ run[k] = "queued" /\ attempts[k] < AttemptCap
    /\ Become(k, InPhase(row[k], "starting"), "queued")
    /\ attempts' = [attempts EXCEPT ![k] = @ + 1]
    /\ UNCHANGED <<made, manifest, working, loop, told, crashes>>

\* retryOrFinishFailure(): scheduleRetryByRun() unless a cancellation was asked for.
Retried(k) ==
    /\ attempts[k] < MaxAttempts[k] /\ row[k].phase # "cancelling"
    /\ Become(k, InPhase(row[k], "queued"), "queued")

\* handleProcessError(): a failed launch is retried or ends the run, unless that has ended.
AttemptFails(k) ==
    \/ run[k] = "finished" /\ UNCHANGED runs
    \/ run[k] # "finished" /\ (Retried(k) \/ Become(k, Settled(row[k], "failed"), "finished"))

\* Whether the attempt that ends may be stale: ended already, or not the one in the map,
\* which takes a continuation that was overtaken by an 'error' event.
MayBeStale(k) == "event" \in LaunchKinds[k]

\* startRun() after its await.  It writes the lifecycle it computed before, over whatever an
\* 'error' event has made of the run.
Continue(p) ==
    /\ p \in pending /\ pending' = pending \ {p}
    /\ IF p.rejected
       THEN AttemptFails(p.key) \/ (MayBeStale(p.key) /\ UNCHANGED runs)
       ELSE Become(p.key, IF row[p.key].phase = "cancelling" THEN row[p.key]
                          ELSE InPhase(row[p.key], "active"), "active")
    /\ UNCHANGED <<attempts, made, manifest, working, errors, told, crashes>>

SpawnError(e) ==
    /\ e \in errors /\ errors' = errors \ {e}
    /\ AttemptFails(e[1]) \/ UNCHANGED runs
    /\ UNCHANGED <<attempts, made, manifest, working, pending, told, crashes>>

\* Mutant: the policy decides before the cancellation does.
AfterExitCleanFirst(r, clean) ==
    IF clean /\ r.policy = "process_exit" THEN Settled(r, "succeeded")
    ELSE IF r.asked THEN Settled(r, "cancelled")
    ELSE IF ~clean THEN Settled(r, "failed")
    ELSE IF r.completion # "none" THEN Settled(r, "succeeded")
    ELSE InPhase(r, "awaiting_completion")

\* recordProcessExit()
AfterExit(r, clean) ==
    IF r.asked THEN Settled(r, "cancelled")
    ELSE IF ~clean THEN Settled(r, "failed")
    ELSE IF r.policy = "process_exit" \/ r.completion # "none" THEN Settled(r, "succeeded")
    ELSE InPhase(r, "awaiting_completion")

\* The row of a run that has ended meanwhile is told nothing.  Even a clean exit may be
\* retried, as harness_noop.
ProcessExit(k, clean) ==
    /\ Quiet /\ k \in working /\ working' = working \ {k}
    /\ \/ run[k] = "finished" /\ UNCHANGED runs
       \/ run[k] # "finished" /\ (Retried(k) \/ Become(k, AfterExit(row[k], clean), "finished"))
       \/ MayBeStale(k) /\ UNCHANGED runs
    /\ UNCHANGED <<attempts, made, manifest, loop, told, crashes>>

\* POST /runs/:id/close, or cancel while it is queued: the row is told nothing.
OperatorEnds(k) ==
    /\ k \in Handled /\ Quiet /\ run[k] \notin {"none", "finished"}
    /\ run' = [run EXCEPT ![k] = "finished"]
    /\ UNCHANGED <<row, attempts, made, manifest, working, loop, told, crashes>>

\* expireMissingCompletions(), at the end of the recovery window
ExpireMissingCompletion(k) ==
    /\ Quiet /\ row[k].phase = "awaiting_completion"
    /\ row' = [row EXCEPT ![k] = Settled(@, "failed")]
    /\ UNCHANGED <<run, attempts, made, manifest, working, loop, told, crashes>>

\* Mutant: nobody tells the row that its process is gone.
LostNever(k) == FALSE

Lost(k) == run[k] \in {"starting", "active"}

\* The service ends between two handlers and is started again: markProcessLostByRun().
Crash ==
    /\ crashes < MaxCrashes /\ crashes' = crashes + 1
    /\ row' = [k \in Keys |-> IF Lost(k) THEN Settled(row[k], "failed") ELSE row[k]]
    /\ run' = [k \in Keys |-> IF Lost(k) THEN "finished" ELSE run[k]]
    /\ working' = {} /\ pending' = {} /\ errors' = {} /\ handling' = {}
    /\ UNCHANGED <<attempts, made, manifest, client>>

-----------------------------------------------------------------------------
(* The other calls of a client that knows its execution *)

Knows(c) == client[c].stage = "answered"

\* PUT /external-executions/:id/manifest, at any time; what was registered stays.
RegisterManifest(c) ==
    /\ Knows(c) /\ PolicyOf[c] = "external_receipt"
    /\ manifest' = manifest \cup {KeyOf[c]}
    /\ UNCHANGED <<runs, attempts, made, working, loop, told, crashes>>

\* Mutant: a manifest that is registered later will do.
AnyManifest(k, completion) == completion \in Keys => completion = k

\* assertOwnedByExecution()
OwnsManifest(k, completion) ==
    completion \in Keys => completion \in manifest /\ completion = k

\* Mutant: the receipt replaces the one before.
RecordCompletionAgain(r, completion) ==
    IF r.phase = "awaiting_completion"
    THEN [Settled(r, "succeeded") EXCEPT !.completion = completion]
    ELSE [r EXCEPT !.completion = completion]

\* recordCompletion() of a row without one; a replay changes nothing, another is refused.
RecordCompletion(r, completion) ==
    IF r.completion # "none" THEN r
    ELSE IF r.phase = "awaiting_completion"
    THEN [Settled(r, "succeeded") EXCEPT !.completion = completion]
    ELSE [r EXCEPT !.completion = completion]

\* POST /external-executions/:id/complete
Complete(c, completion) ==
    LET k == KeyOf[c]
    IN  /\ Knows(c) /\ PolicyOf[c] = "external_receipt"
        /\ OwnsManifest(k, completion) /\ Open(k)
        /\ row' = [row EXCEPT ![k] = RecordCompletion(@, completion)]
        /\ UNCHANGED <<run, attempts, made, manifest, working, loop, told, crashes>>

\* cancelExternalExecution(): at once when no process works for the row.
Cancel(c) ==
    LET k == KeyOf[c]
        atOnce == run[k] = "queued" \/ (run[k] = "finished" /\ row[k].phase = "awaiting_completion")
    IN  /\ Knows(c) /\ Open(k)
        /\ IF atOnce
           THEN Become(k, [Settled(row[k], "cancelled") EXCEPT !.asked = TRUE], "finished")
           ELSE Become(k, [row[k] EXCEPT !.phase = "cancelling", !.asked = TRUE], run[k])
        /\ UNCHANGED <<attempts, made, manifest, working, loop, told, crashes>>

\* GET .../runs/:executionKey; what a client keeps is a verdict.
Inspect(c) ==
    /\ Knows(c) /\ row[KeyOf[c]].phase = "terminal"
    /\ client' = [client EXCEPT ![c].read = row[KeyOf[c]].outcome]
    /\ UNCHANGED <<runs, attempts, made, manifest, working, loop, handling, crashes>>

-----------------------------------------------------------------------------
ClientStep(c) ==
    \/ Reserve(c) \/ Repeat(c) \/ Answer(c) \/ LoseAnswer(c)
    \/ RegisterManifest(c) \/ Cancel(c) \/ Inspect(c)
    \/ \E completion \in Completions : Complete(c, completion)

RunStep(k) ==
    \/ (\E how \in LaunchKinds[k] : Launch(k, how)) \/ PreparationFails(k)
    \/ (\E clean \in BOOLEAN : ProcessExit(k, clean))
    \/ OperatorEnds(k) \/ ExpireMissingCompletion(k)

LoopStep == (\E p \in pending : Continue(p)) \/ (\E e \in errors : SpawnError(e))

Next ==
    \/ \E c \in Clients : (Quiet /\ ClientStep(c)) \/ ReservationFails(c)
    \/ \E k \in Keys : RunStep(k)
    \/ LoopStep \/ Crash

Spec == Init /\ [][Next]_vars

\* The keys of Mons whose launches start a process or are rejected by the runner, and whose
\* runs operators leave alone.  Of other rows the code promises less: one whose launch fails
\* in startRun() or whose run an operator ends may never be settled (run-manager.ts:259,
\* 1221), and one whose reservation fails for another run of the Mon is settled while its own
\* process works (routes.ts:277).
PlainKeys == {k \in Keys : LaunchKinds[k] \subseteq {"spawned", "reject"} /\ k \notin Handled}

\* What is on the event loop runs; and, of plain keys, requests that are repeated are
\* handled and answered in the end, what is queued is dispatched, harness processes end
\* (attempt_timeout_seconds) and deadlines pass: weak fairness of each, with its guard
\* written out.
Unread(c) == Knows(c) /\ row[KeyOf[c]].phase = "terminal" /\ client[c].read = "none"

Fairness ==
    /\ \A c \in {d \in Clients : KeyOf[d] \in PlainKeys} :
        /\ []<>~(Quiet /\ client[c].stage = "waiting")
              \/ []<><<Quiet /\ (Reserve(c) \/ Repeat(c))>>_vars
        /\ []<>~(Quiet /\ c \in handling) \/ []<><<Quiet /\ Answer(c)>>_vars
        /\ []<>~(Quiet /\ Unread(c)) \/ []<><<Quiet /\ Inspect(c)>>_vars
    /\ []<>Quiet \/ []<><<LoopStep>>_vars
    /\ \A k \in PlainKeys :
        /\ []<>(run[k] # "queued") \/ []<><<\E how \in LaunchKinds[k] : Launch(k, how)>>_vars
        /\ []<>~(Quiet /\ row[k].phase = "awaiting_completion")
              \/ []<><<ExpireMissingCompletion(k)>>_vars
        /\ []<>~(Quiet /\ k \in working)
              \/ []<><<\E clean \in BOOLEAN : ProcessExit(k, clean)>>_vars

FairSpec == Spec /\ Fairness

-----------------------------------------------------------------------------
(* Properties *)

\* run-model.md: "Concurrent replays of the same key and digest resolve to one durable run":
\* whatever was lost or repeated, no two rows share a run, no run is without its row, and
\* all answers for a key name the one run it has.
OneRunPerKey ==
    /\ {row[k].run : k \in {j \in Keys : Exists(j)}} = 1..made
    /\ made = Cardinality({k \in Keys : Exists(k)})
    /\ \A c \in Clients : Knows(c) => client[c].run = row[KeyOf[c]].run

\* Of all the answers for a key one at most says that the run was created by it.
CreatedOnce ==
    \A c, d \in Clients :
        client[c].created /\ client[d].created /\ KeyOf[c] = KeyOf[d] => c = d

\* Clients that were accepted asked for the same thing, and those that were refused asked
\* for another thing than the row of the key has.
ConflictsAreReal ==
    \A c \in Clients :
        /\ Knows(c) => row[KeyOf[c]].digest = DigestOf[c]
        /\ client[c].stage = "refused" => row[KeyOf[c]].digest # DigestOf[c]

\* A run's local predecessor is an older run: keys that name each other, or themselves, make
\* no cycle.
LineageIsAcyclic == \A k \in Keys : Exists(k) => row[k].predecessor < row[k].run

\* Receipt-gated work succeeds with evidence of its own: a receipt, or the manifest that was
\* registered for this execution and not for another one.
EvidenceIsOwn ==
    \A k \in Keys :
        /\ row[k].completion \in Keys => row[k].completion = k /\ k \in manifest
        /\ row[k].policy = "external_receipt" /\ row[k].outcome = "succeeded"
              => row[k].completion # "none"

\* The state invariant of the rows and of what clients know of them: the parts above,
\* together.
RequestInv == TypeOK /\ OneRunPerKey /\ CreatedOnce /\ ConflictsAreReal /\ LineageIsAcyclic
              /\ EvidenceIsOwn

\* A completion that was recorded stays, whatever is replayed, and so does what a client has
\* read: a verdict is never taken back.
EvidenceIsFinal ==
    [][/\ \A k \in Keys : row[k].completion # "none" => row[k].completion' = row[k].completion
       /\ \A c \in Clients : client[c].read # "none" => client[c].read' = client[c].read]_vars

\* A client that repeats its start under a plain key is refused or reads a verdict in the
\* end, through lost answers, retries, rejected launches and crashes.
VerdictIsRead ==
    \A c \in Clients : KeyOf[c] \in PlainKeys =>
        <>(client[c].stage = "refused" \/ client[c].read # "none")

\* What an inspection shows of a row
Seen(r) ==
    IF r.phase = "none" THEN "absent"
    ELSE IF r.phase = "terminal" THEN r.outcome
    ELSE IF r.phase \in {"queued", "starting"} THEN "pending" ELSE "running"

Contract == INSTANCE IntegrationContract WITH
    Keys <- PlainKeys,
    status <- [k \in PlainKeys |-> Seen(row[k])],
    asked <- {k \in PlainKeys : row[k].asked},
    working <- working \cap PlainKeys

\* The rows of plain keys keep the contract of IntegrationContract, as those of RunManager
\* do, whatever becomes of the other ones.
ContractKept == Contract!Spec
=============================================================================
