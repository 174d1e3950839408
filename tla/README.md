# Monde: a verification development

Monde runs agents ("Mons") on one machine. A local service queues *runs*, gives each Mon a
limited number of harness processes, retries failed attempts, holds conversations, fires
schedules, and reports to plans, operators and integrations what became of the work. These
modules specify the part of it where order, failure and time decide whether it works. Paths
are relative to the repository; `service/` is `packages/service/src/`, and documents
are in `.monde/docs/`.

    RunStore ──► RunManager ──► MCRunManager                  one-shot runs
        │            ├────────► RunManager_proofs ──► RunGuarantees_proofs ──► RunPromises_proofs
        │            └─ implements IntegrationContract ◄─ implemented by ─┐
        └─────► HitlThread ──► MCHitlThread                               │   conversations
                     └────────► HitlThread_proofs                         │
    ExternalRequests ──► MCExternalRequests, ExternalRequests_proofs ─────┘   integrations
    CronSchedules ──► MCCronSchedules, CronSchedules_proofs                   schedules
        └─ implements CronContract
    RunResources ──► MCRunResources, RunResources_proofs      what a run owns, torn handlers
    ThreadRail ──► MCThreadRail, ThreadRail_proofs            the console's list of threads

`──►` is EXTENDS, `implements` an INSTANCE with a refinement mapping that is checked as a
property and proved.

## 1. The system

| Component | State it keeps | Operations | Hard behaviour | What makes it correct |
|---|---|---|---|---|
| Run manager (`service/run-manager.ts`) | maps of running processes, retry timers, conversation turns | start, dispatch, exit and error handlers, timeout, stop, cancel, complete, loss on startup | handlers that await; events of earlier attempts; stops racing exits; crashes | slots, attempts and processes stay in step; no lost wake-up; verdicts are final |
| Run store (`service/repositories/{runs,run-attempts,process-slots}.ts`, `core/src/run-state.ts`) | SQLite rows of runs, attempts, slots | lifecycle patches, begin/finish attempt, reserve/release | two sources of truth (slot row, run status) | the limit holds whichever is stale |
| HITL threads (`run-manager.ts`, `routes.ts`) | turn in flight, idle and hard timer, slot, token | open, message, turn, timeout, close, resolve, review | late output, late answers, close during a turn | a turn is watched, holds its slot, and is answered |
| External executions (`external-executions.ts`) and requests (`external-runs.ts`, `routes.ts`) | a row per execution key: phase, outcome, cancellation, digest, predecessor | reserve, inspect, exit, completion, cancellation, expiry | lost answers, concurrent repeats, any order of exit, receipt, cancellation, deadline | one run per key, one verdict, with evidence, never changed |
| Cron (`cron-scheduler.ts`, `cron-schedules.ts`) | next and pending fire, fires | tick, create, update, disable, delete | missed ticks, outstanding run, changes while a fire is owed | a fire is neither lost nor doubled |
| Run scopes (`scope.ts`, `run-workspaces.ts`) | workspace rows and directories | materialize, seal, sweep | a crash or failure between file and row | every workspace is finally cleaned, none too early |
| Manifests (`execution-manifests.ts`) | one manifest per execution | register, availability, expiry | expiry after registration | an available output exists |
| Tokens and grants (`run-auth.ts`, `external-mcp-grants.ts`) | token hash, grants | issue, accept, revoke | retry, torn revocation | credentials are those of the running attempt |
| Plans (`plans.ts`) | plan, assignments, generated runs | activate, status from run | the status is pushed by every handler that ends a run | the assignment follows its run |
| Web console (`packages/web/src/App.tsx`, `lib/collections.ts`) | thread list, drafts, expansion, sending flags | open, send, close, poll | answers that arrive late or never | the list is stable and converges |
| HTTP routes (`routes.ts`), service (`service.ts`) | none | compose the calls above; start-up order | half-done compositions; listening before the queue is resumed | the records they touch agree |
| Process runner (`basic-process-runner.ts`) | child process | spawn, kill, events | `error` may overtake the caller of `spawn` | each attempt gets exactly one end |
| Run events, database, adapters, scope resolution, tools and MCP server, registry, CLI | none that decides a run | — | — | section 8 |

Interactions. Routes call the run manager and the repositories directly, all in one Node
process; the run manager calls the runner, which calls back (`onSpawn`, `onExit`,
`onError`); timers call the run manager and the scheduler; every end of a run calls
`dispatchQueuedForMon()`, which starts other runs. The database survives a crash, the maps
do not, and detached processes do. Clients, the console among them, only speak HTTP and may
lose any answer. Mons share nothing but the process: every query of the dispatcher filters by Mon.

The hazards this code is exposed to are listed in `PROJECT.json` under `hazards`, each at its line
with the properties that would catch it.

## 2. The modules

### RunStore and RunManager: one-shot runs

**RunStore** holds what is persisted about runs and every statement that changes it, as pure
operators from a state record to a state record. Times are abstract (`retry_at`
is `"none"`, `"future"` or `"due"`), and a run's number is its place in `created_at` order.
The status `blocked` is left out: nothing under the repository writes it.

**RunManager** adds the manager's memory and turns the handlers into actions.

| Variable | In the code |
|---|---|
| `run`, `att`, `slots`, `ext`, `asg` | tables `runs`, `run_attempts`, `process_slots`, `external_executions`, `plan_assignments` |
| `running` | the map of `RunningRun`, with attempt number, stop and timeout flags and the stage of the attempt timer |
| `procs` | live child processes, as run and attempt |
| `pending` | `startRun()` calls that await `runner.startRun()`, and who awaits them |
| `errors` | `error` events of children on Node's tick queue |
| `timers` | the map of retry timers |
| `resume` | the Mons `resumeQueuedRunsOnStartup()` has still to dispatch |
| `service`, `crashes` | up, booting (listening, queue not resumed yet), doomed by an unhandled rejection, down; crashes so far |

A handler runs to its first `await` without interruption, so it is one step, with every
call it makes: dispatching the next run when one ends, the assignment, the external
execution. What comes after an `await` (`Continue`) or waits on the tick queue
(`SpawnError`) is a step of its own. Both happen before the next request, timer or exit
(the guard `Quiet`), and in either order between themselves, because Node drains ticks
first after a timer or an exit and promise continuations first inside one. Handlers call
each other, so they are operators on the record `st` of all variables; an action commits
the record that a handler returns.

| Actions | Code |
|---|---|
| `CreateOperatorRun`, `StartRequest`, `StopRequest`, `CloseRequest`, `ReviewRequest`, `CancelRequest`, `ActivatePlan`, `ReserveExternalRun` | routes of `routes.ts` |
| `CancelExternalExecution`, `CompleteExternalExecution` | the methods of that name, with the replay and conflict rules of the store |
| `Continue` | `startRun()` after the await, and the rest of the dispatch loop |
| `ProcessExit`, `SpawnError` | `handleProcessExit()`, `handleProcessError()` |
| `AttemptTimeout`, `KillTimer`, `RetryWake`, `ExpireCompletion` | timers and the sweep |
| `Crash`, `Restart`, `ResumeQueuedRuns`, `ResumeMon` | end of the process, `markLostRunsOnStartup()`, `resumeQueuedRunsOnStartup()` |
| `BackoffElapses` | the clock passes `retry_at` |

How a launch goes is an input: `spawned`, `event` (the child reports `error` later),
`reject` (the runner throws before it spawns), `mcp` (`buildExternalMcpRuntime()` throws),
`throw` (unusable configuration or scope, found before the queue is compared). What a
failed process leaves behind is `Signs`.

**IntegrationContract** is what an integration that holds an execution key may rely on: the
status it reads, whether its cancellation was recorded, whether a process works for it.
Work starts only on pending keys nobody has cancelled; there is one verdict, given when no
process works any more, cancelled only if asked, succeeded only from running. Both
`RunManager!Contract` and `ExternalRequests!Contract` map their state to it.

### HitlThread: conversations

A thread is a run that is never in the map of running runs: its row, `chat` (what
`execution_json` says of it: error, timeout reason, token, number of turns, close reason),
and, while a turn is in flight, `turn` (`hitlActivities`, with the idle and the hard timer counted
down by `Tick`). `procs` are the harness processes of turns, which may outlive them.
`reply` and `silent` are history: what became of the last message, and how long the turn
has been silent. Actions: `OpenThread`, `PostMessage` (spawned, failed or refused), `ToolCall`,
`CloseThread` (three routes and a reason), `CloseRun`, `Review`, `ProcessOutput`, `ProcessExit`,
`IdleTimeout`, `HardTimeout`, `KillAfterGrace`, `CrashAndRestart`; and `Submit` and
`OneShotExit` of one-shot runs that compete for the slots of the Mon, with RunStore's `ReserveSlot`,
`ReleaseSlot` and lifecycle patches. What follows the await of a turn (the message route)
belongs to the step that ends the turn: the promises in between are settled already.

### ExternalRequests: start requests over HTTP

Clients with a request each (key, digest, policy, predecessor) repeat it until they are
answered; requests are handled any number of times and answers may be lost. `row` is
`external_executions` by key, `run` the status of the key's run, `attempts` its latest attempt, `made` the
runs inserted, `manifest` the registered manifests, `working` the keys a process works for, `pending`
and `errors` what waits on the event loop, `handling` the starts that await the dispatch, `client` what
each client was told. The actions are

- the routes: start (`Reserve`, then `Answer` or `LoseAnswer` after the await; `Repeat`), inspection,
  manifest, completion, cancellation;
- what the run manager does with run and row: `Launch` up to the await of `startRun()`, `Continue`,
  `SpawnError`, `PreparationFails` (the run stays queued), `ProcessExit`, expiry and crash;
- `ReservationFails`: the dispatch that a start awaits throws, for its own run or for another one of the Mon,
  and the `catch` of `reserveExternalRun()` fails the reserved run, whatever has become of it meanwhile;
- `OperatorEnds`: a stop or close by hand, of which the row is told nothing (for the keys in `Handled`).

`LaunchKinds` says for the Mon of each key how launches may go, in the kinds of RunManager; a key is *plain*
(`PlainKeys`) where they start or are rejected and operators stay away. Which queued run
a dispatch takes, slots and timers are left to RunManager, so here any queued run may be launched whenever a handler
runs, and a failed preparation need not be the last word. Both implement the same contract.

### CronSchedules and CronContract

`sched` is `cron_schedules`, `rows` the runs with the `cron_fires` row of each, `mons` the
table, `claims` the execution keys of fires that a client took first. A tick of the
repository is synchronous, one transaction per schedule (`TickSchedule`), then Mons are dispatched one by
one (`DispatchTarget`). An expression is the set of instants it matches; `NextFire` and
`FireAtOrBefore` are what Croner is used for. `Create`, `Update`, `Delete`, `DeleteMon`, `UpsertMon`, `ClaimKey`
are the routes, `CrashAndRestart` may fall between the two statements that delete a Mon.
History: `since`, the time up to which a schedule has been dealt with, from which what it
owes is defined; `gone`, the Mons that were deleted.

**CronContract** says it without columns: instants are owed when they have come, one run covers
all that is owed, nothing is covered twice, only a change of the schedule forgets.

### RunResources: what a run owns, and crashes inside handlers

The other modules let a crash fall between handlers. Here a handler is the *sequence of the
states it passes through*, one committed statement or file change after another: `Handle(h)`
takes it to its end or its next await, or crashes in any of its states. `startRun()` awaits the
runner: `Start` ends there, and `Continue` (activation, or a rejected launch) and `SpawnError` (the child's `error`
event) are handlers of their own, in either order, before the next request, timer or exit. Modelled are `startRun()` with `materializeRunScope()`,
the grants and the launch; exits, retries, stops; `finishTerminalRun()`, `sealRunWorkspace()`;
the manifest's outputs; the sweep of expired scopes; and `markLostRunsOnStartup()` run by run, itself
interruptible. `dir` is the directory on disk, `ws` its row, `grants`, `man` and
`att` the other tables, `known` the manager's map, `pending` and `errors` what waits on the event loop, `procs` the
processes, which are detached and outlive the service.

### ThreadRail: the console

`ui` is the console's state (threads, expansion, sending flags), `srv` the threads of the
service, `ops` the calls of `sendThreadMessage()` with their stage, `list` a thread list on its way. `UpsertById`, `AppendById`,
`ReplaceById` and `MergeServerAndDraftThreads` are the functions of `lib/collections.ts` and
`chatViewModel.ts`. A POST is served and answered in two steps, so that lists read before it may
arrive after it, and a fetch may fail while the service goes on: `refreshAll()` merges a list of threads
it cannot read as an empty one, which empties the rail of its threads, and leaves the rail alone when
another of its fetches fails.

MC modules give constants that a configuration cannot write. Operators marked *Mutant* are
plausible bugs of the definition they stand above: with it in its place, TLC finds the
property violated that `PROJECT.json` names, one at least for each property.

## 3. What the runs show

| Run | Instance | Distinct states | Question |
|---|---|---|---|
| `Dispatch` | 3 operator runs, limit 2, 2 attempts, timeouts, stop, cancel | 20 892 | do slots, attempts, processes and the queue stay in step? |
| `Recovery` | 2 runs, limit 1, every kind of launch and sign, zero backoff, early timers, start requests, 2 crashes | 66 944 | do the limits survive stale continuations, does a slot leak, is a lost run relaunched? |
| `Plans` | 2 plan runs; start, stop, close, review, cancel | 8 561 | does the assignment follow the run? |
| `External` | 2 external runs, one awaiting a receipt, 2 digests, 2 crashes, fairness | 55 167 | is the contract with the integration kept; does everything come to an end? |
| `Hitl` | 2 threads and a one-shot run on one slot, idle 1, hard 2 ticks, 2 turns, a crash | 271 426 | are turns watched, slots and tokens theirs, messages answered? |
| `Cron` | 2 schedules, one owned by an integration, instants 1–3 and 2, 7 runs, one change or crash | 67 985 | is every due instant covered once, and run? |
| `Resources` | 2 runs, limit 1, one isolated and linking, one with grants and missing mounts, every kind of launch, 3 faults at any statement, fairness | 501 513 | what does a torn handler leave, what an overtaken continuation, and is it repaired? |
| `Rail` | one Mon, 2 messages, one failed fetch | 402 423 | is the rail stable, does it converge? |
| `Requests` | 3 clients on 2 keys with 3 digests, predecessors in a cycle, a crash, fairness; launches of the first key start or are rejected, 2 attempts; those of the second also report `error` or fail while they are prepared, and operators end its runs | 1 093 988 | one run per key, true conflicts, own evidence, whatever fails; a readable verdict and the contract where launches are plain? |

The properties, and why they are not obvious:

- `LiveProcessesWithinLimit`, `OneProcessPerRun` count processes, not rows. Slots are
  released by six paths; a stop, a retry or a stale continuation that frees one early
  breaks them several steps later. `SlotIsAccountedFor`: none is kept for nothing.
- `ProcessInv` (with `ProcessIsTracked`, `SlotsMatchProcesses`, `ActiveRunHasProcess`,
  `AttemptsMatchProcesses`) relates database, memory and processes between two handlers.
- `FailureIsRetriedOrFinal`, `WorkConserving`, `NoOvertaking`: every failure leads
  somewhere, a due run waits only for a full Mon or a timer, and the queue is fair.
- `LifecycleIsRespected`, `FinishedIsFinal`, `LostIsFinal` are the lifecycle as the callers
  keep it. No caller uses the transition table of `run-state.ts`.
- `ExternalInv` (`TerminalMeansStopped`, `OutcomesAgree`, `EndedRunSettlesExternal`),
  `SucceededHasEvidence`, `VerdictIsFinal`, `ContractKept`: two records of one
  piece of work, changed by four parties. `AssignmentFollowsRun`: a third, pushed from ten places.
- `QueuedRunLeavesQueue`, `ProcessEnds`, `CancellationIsAnswered`: no wake-up is lost, a
  process that ignores SIGTERM ends, a cancellation is answered, through crashes.
- `ThreadInv` (`SlotsWithinLimit`, `ProcessIsWatched`, `OneConversationPerMon`,
  `ReplyAwaitedMeansTurn`), `TurnHoldsSlot`, `TokenOnlyDuringItsTurn`: late events of one turn
  meet the next one. `CleanCloseMeansAnswered`, `NotKilledWhileActive`, `MessageAnswered`: what
  an operator sees of a turn.
- `ScheduleInv` (`AtMostOneOutstanding`, `FiresDisjoint`, `ColumnsHoldWhatIsOwed`,
  `QueuedRunIsDispatched`), `ImplementsContract`, `OwedIsRun`: three columns written by four
  operations have to say what is owed.
- `HoldingsInv` (`OneProcessPerRun`, `SlotHeldWhileRunning`), `CredentialsOfTheAttempt`,
  `ScratchOfLiveProcess`, `AvailableFileExists`, `ExpiredIsCleaned`: after a crash between any
  two statements, and after one during the repair of the first, and with `error` events that overtake `startRun()`. What
  a slot stands for is therefore an attempt that is open *and* watched or awaited: neither is enough.
- `RequestInv` (`OneRunPerKey`, `CreatedOnce`, `ConflictsAreReal`, `LineageIsAcyclic`,
  `EvidenceIsOwn`), `EvidenceIsFinal`, `VerdictIsRead`: what clients are told is true, whoever
  asked first and whichever answer was lost, and also where a run is failed by a dispatch that failed for another
  one, or is ended by an operator.
- `RailInv` (`ThreadListedOnce`, `ExpandedIsListed`), `RailIsStable` (`OrderIsStable`,
  `DraftIsKept`), `ConsoleConverges`, `SendEnds`: optimistic state against stale answers.

**Bounds.** Two runs are enough for one to wait for the other, three for two to share a
limit of two while a third waits or overtakes. Two attempts give one retry and its last
attempt. One Mon, because Mons are independent. Two digests give a replay and a
conflict; three clients give two concurrent different requests on one key and a second
key that names the first; an equal request arises when a client repeats its own, and for two clients with equal
ones the theorems speak. `MaxCrashes` bounds crashes nobody provoked (those an unhandled
rejection provokes are not counted): two, so that the second meets what the recovery from the
first left. `AttemptCap` bounds launches that fail before the spawn, which in the code can repeat
without limit. Two turns give an early turn whose late events meet the next; a hard
timeout of two ticks and an idle one of one allow activity to push the idle timer back to the hard one.
Three instants give a missed fire, a coalesced one and the next; seven runs are as many as two
schedules of three instants and a claimed key can make. `MaxEvents`, `MaxFaults`, `MaxLosses` bound
changes, faults and failed fetches; three faults are a crash, one during its repair, and a failed cleanup. `CHECK_DEADLOCK FALSE` everywhere, because a finished set of runs,
a closed conversation or the last instant may be the end.

**Launches per run.** `Dispatch`, `Plans` and `External` leave out `event`, `mcp` and
`throw`, because their properties fail under them (section 4). `WorkConserving` and
the rest of `Dispatch` are stated without start requests, since `POST /runs/:id/start` starts
one run and leaves another slot idle. `Recovery` and `Resources` have every kind of launch their module distinguishes; `Requests` has `spawned` and `reject` on
its first key, `spawned`, `event` and `mcp` on the second (`throw` differs from `mcp` there only in that no attempt began).
`VerdictIsRead` and `ContractKept` of ExternalRequests are stated for plain keys. Of the others they are not true: a
preparation that fails leaves a run queued with nothing to wake it (`run-manager.ts:259`); an operator ends a run
and its row is not told (1221), and a cancellation then makes the row of a run that was ended in the queue look as if
it were running; a reservation is recorded as failed while its process works (`routes.ts:277`). The run lets
all of this happen to the second key, so that what is said of all keys holds beside it.

## 4. Where code and documents disagree

Three runs expect a violation; each is a short trace.

| Run | Property | What happens |
|---|---|---|
| `Zombie` | `FinishedIsFinal` | The child's `error` event is handled before `startRun()` goes on; the continuation writes `markRunActive(startingRun)`, the row read before the await, over a finished run (`run-manager.ts:439`; `run-state.ts:79` says `finished: []`). |
| `StoppedExternal` | `EndedRunSettlesExternal` | A stop finishes the row; the exit of a finished run leaves the external execution active (`run-manager.ts:1222`; `run-model.md:195`). A cancellation requested before the stop is never answered for the same reason. |
| `StuckQueue` | `QueuedWorkIsRestartSafe` | A crash after `materializeRunScope()` made the directory and before the attempt begins: every later start of the queued run throws `EEXIST` (`scope.ts:91`; `run-model.md:156`). |

Met while modelling, and visible in the models by widening an input of a run:

- Loss on startup tells the assignment nothing (`run-manager.ts:1109`; `plans.md:55`): `Plans` with crashes.
- A stop clears the timer that would have killed the process (`run-manager.ts:758`; `harnesses.md:191`):
  `ProcessEnds` with stops.
- A failure to build the MCP runtime leaves the run queued, with a failed attempt and no retry
  time (`run-manager.ts:259`; `runtime.md:272`): `FailureIsRetriedOrFinal` with `mcp`.
  Such launches push the number of attempts past `max_attempts`. Only the dispatch of its own reservation
  settles an execution whose run fails so (`routes.ts:277`); from a retry wake, a startup or the end of another run
  its row stays open with nothing to wake it, and so does the row of a run an operator ended
  (`run-manager.ts:1221`): `VerdictIsRead` with `mcp` or operators.
- The dispatch of a reservation fails for another run of the Mon, and the reserved run, whose process was just
  started, is recorded as failed (`routes.ts:277`; `run-model.md:202-204`): `ExternalInv` with `mcp` or `throw`.
- An `error` event that is handled before `startRun()` goes on also releases the slot of an attempt
  that the continuation then enters in the map: `ActiveRunHasProcess` with `event`, and, once the run is retried,
  `SlotsMatchProcesses`. `SlotHeldWhileRunning` speaks of open attempts, and such an attempt is closed.
- The replay of a completion writes outcome `completed` over an operator's later review
  (`run-manager.ts:904`).
- After a crash the slot of an interrupted turn stays until its thread is finished
  (`run-model.md:145`); the answer of a turn shows a closed thread as waiting for its user again
  (`run-model.md:108`).
- A workspace whose seal fails gets no `expires_at` and is never swept (`runtime.md:227`). A run
  that is stopped just before a crash is never sealed, and keeps its token and open attempt
  (neither is accepted any more). A crash inside the first start of an isolated run may leave
  an attempt without a scope, and `isolatedCodexArgs()` then fails each launch.
- An isolated run keeps its scratch for its next attempt. When the next preparation fails after the scope
  was recorded (a read mount is missing, or a crash left the grant issued), the `catch` of `startRun()`
  (`run-manager.ts:256`) seals the scratch though the run stays queued, and the next
  attempt is launched in a sealed directory (`run-model.md:168`, `runtime.md:248`, `harnesses.md:155`):
  `ScratchOfLiveProcess` with an isolated run in `Claims` or `Unmountable`.
- `updateAvailability()` may call an expired output available; outputs in the work root of a run
  with `actor_context` are marked expired with a scope that never held them.
- A client's run under a fire's execution key ends the tick: schedules after it starve. A
  Mon that is deleted and a schedule that is enabled again leave a queued run nobody can
  start. A clock that is set back meets `UNIQUE(cron_id, scheduled_fire_time)`.
- Plan activation inserts runs without dispatching them; a crash between `runs.insert` and
  `updateAssignmentGeneratedRun` (`routes.ts:787`) leaves a queued run that no assignment knows, and the
  next activation makes a second (`plans.md:53`).
- Console: a list that was read before a thread was created, and a list that could not be read (`App.tsx:350`),
  remove threads and their expansion from the rail until the next; a failed message's text is lost; two sends to a thread share one sending flag; answers for
  a run selected before overwrite those for the one selected now (`App.tsx:388`).
- A predecessor is looked up only when the row is made; named before it exists, it is never linked.

## 5. Fairness

Only what the code's scheduling gives, and never that a client acts.

- RunManager `FairSpec`: what is queued on the event loop runs, a doomed
  process dies and the service manager starts a dead service again (`ops/systemd`), time
  passes, timers fire, and a process that was sent SIGKILL ends. Nothing makes any other
  process end. Processes that ignore SIGTERM therefore matter, and a timeout is what ends them.
- HitlThread: time passes and due timers fire while a turn is in flight. No process has to say
  or end anything.
- CronSchedules: weak fairness of the steps of a tick; strong fairness of `RunEnds`, whose guard
  a tick interrupts, but never for ever.
- RunResources: the clock, what waits on the event loop, a startup that is repeated until it is done, and the
  sweep of `service.ts`'s interval. Failed cleanups and crashes are limited, so they do not go on for ever; `DispatchSpec` adds that the dispatcher is called
  time and again, so that `StuckQueue` is not a matter of nobody trying.
- ThreadRail: requests are served, answers arrive, turns end, and the interval runs while a
  thread is expanded. `MaxLosses` lets fetches fail, but not for ever.
- ExternalRequests: what is on the event loop runs; and, of plain keys only, queued runs are launched, processes end
  (`attempt_timeout_seconds`), deadlines pass, and clients repeat and ask until they know a verdict; each request may
  meet a crash. That a queued run is launched is what RunManager's `QueuedRunLeavesQueue` says of the dispatcher
  of a Mon with such launches; of the other keys nothing is assumed.

For composed handlers weak fairness is written out as
`[]<>~g \/ []<><<A>>_vars`, with `g` the condition that enables `A`.

## 6. What is proved

Eight modules of proofs, for every value of the constants: any number of runs, threads, clients,
keys, schedules, expressions, messages and faults, any limits, timers and bounds, any mixture of
requests, failures and crashes. The assumptions are the named ASSUMEs of the modules, which TLC evaluates
on every run: positive limits, runs numbered by positive naturals, inputs drawn from their kinds. Some
guarantees of the run manager hold under some launches, or some requests, only, and are stated so:

| Hypothesis | It says | Why it is needed |
|---|---|---|
| `NoEvent` | no child reports `error` after `spawn()` returned | such a child ends while `startRun()` is still awaited, and the continuation then writes over what the handler wrote (`Zombie`): the run is active again, and its attempt watched without a slot |
| `NoMcp` | `buildExternalMcpRuntime()` does not throw | its failure leaves the run queued with a failed attempt and no retry time (section 4) |
| `Sheltered` | launches are `spawned` or `reject`, and nothing crashes | `throw` and crashes end runs without telling the assignment (section 4); a run that is closed before its process ends keeps an open attempt if the service dies in between, because `markLostRunsOnStartup()` only looks at process-backed runs |
| `PlainLaunches` | launches are `spawned` or `reject` | `throw` leaves a due run at the head of the queue and no timer (`StuckQueue` is such a case), `mcp` and `throw` of another run record a reserved run as failed while it has a process (section 4), `event` is `Zombie` |
| `OperatorsLeaveRunsAlone` | no operator stops, closes, reviews or cancels a run | the execution is not told (`StoppedExternal`), and a review relabels a verdict the integration has read |
| `DispatcherStarts` | no start by name, no plan activation, no early timer | a start by name clears the timer and its continuation does not dispatch; activation inserts runs without dispatching; a timer that fires before `retry_at` is not armed again |
| `PreparationIsSafe` (RunResources) | no isolated run has missing mounts or competing grants | a preparation that fails seals the scratch the next attempt is launched in (section 4) |

All but the last are of RunManager. Those of RunPromises have their counterpart in the statement of ExternalRequests: what is
proved of keys is proved of plain ones. Each hypothesis is what the run that checks the property assumes too. Every other mixture of requests, limits, timeouts,
signs and, but for `Sheltered`, crashes is covered, and each hypothesis is satisfied by configurations under which
the service does real work.

| Theorem | Statement | Run that checks the property |
|---|---|---|
| `RunManager_proofs!Invariance`, `TypeCorrect` | `Spec => []IInv`, `Spec => []TypeOK` | |
| `LimitHolds`, `OneProcessHolds` | `[]LiveProcessesWithinLimit`, `[]OneProcessPerRun` | `Recovery` |
| `RunGuarantees_proofs!EveryStateIsGuaranteed` | `Spec => []GInv` | |
| `NoSlotLeaks`, `LostStaysLost` | `[]SlotIsAccountedFor`, `LostIsFinal` | `Recovery` |
| `SuccessRestsOnEvidence`, `VerdictsAreFinal` | `[]SucceededHasEvidence`, `VerdictIsFinal` | `External` |
| `NothingOvertakes` | `NoOvertaking` | `Dispatch` |
| `FinishedStaysFinished`, `LifecycleHolds` | `NoEvent =>` `FinishedIsFinal`, `LifecycleIsRespected` | `Plans`, `Dispatch` |
| `SlotsAreProcesses`, `ProcessesAreTracked`, `ActiveRunsRun` | `NoEvent =>` `[]SlotsMatchProcesses`, `[]ProcessIsTracked`, `[]ActiveRunHasProcess` | `Dispatch` (in `ProcessInv`) |
| `FailuresAreSettled` | `NoEvent /\ NoMcp => []FailureIsRetriedOrFinal` | `Dispatch` |
| `ProcessesAreInOrder`, `AssignmentsFollowRuns` | `Sheltered =>` `[]ProcessInv`, `[]AssignmentFollowsRun` | `Dispatch`, `Plans` |
| `RunPromises_proofs!ExternalRecordsAgree`, `IntegrationsKeepContract` | `PlainLaunches /\ OperatorsLeaveRunsAlone =>` `[]ExternalInv`; the run manager implements `IntegrationContract` (`ContractKept`) | `External` |
| `NoWakeUpIsLost` | `PlainLaunches /\ DispatcherStarts => []WorkConserving` | `Dispatch` |
| `RunResources_proofs!OneProcessAtATime` | `[]OneProcessPerRun` | `Resources` (in `HoldingsInv`) |
| `RunsHoldWhatTheyShould` | `[]HoldingsInv`, all its parts | `Resources` |
| `NoCredentialOutlivesItsAttempt`, `NoOutputIsPromisedInVain` | `[]CredentialsOfTheAttempt`, `[]AvailableFileExists` | `Resources` |
| `IsolatedProcessKeepsItsScratch` | `PreparationIsSafe => []ScratchOfLiveProcess` | `Resources` |
| `HitlThread_proofs!ThreadTypes`, `ProcessesWatched`, `OneConversationTheorem` | `[]TypeOK`, `[]ProcessIsWatched`, `[]OneConversationPerMon` | `Hitl` (in `ThreadInv`) |
| `HitlThread_proofs!SlotsNeverExceedLimit`, `RepliesHaveTurns` | `[]SlotsWithinLimit`, `[]ReplyAwaitedMeansTurn` | `Hitl` (in `ThreadInv`) |
| `ConversationsConsistent` | `[]ThreadInv`, all its parts | `Hitl` |
| `HitlThread_proofs!TurnsHoldSlots`, `TokensOfTheirTurn` | `[]TurnHoldsSlot`, `[]TokenOnlyDuringItsTurn` | `Hitl` |
| `FailedTurnsAreNotClosedAsDone`, `ActiveTurnsAreNotTimedOut` | `CleanCloseMeansAnswered`, `NotKilledWhileActive` | `Hitl` |
| `ExternalRequests_proofs!RequestsKeepTheirRun` | `[]RequestInv`, all its parts | `Requests` |
| `EvidenceStays` | `EvidenceIsFinal` | `Requests` |
| `RowsKeepContract` | the rows of plain keys implement `IntegrationContract` (`ContractKept`), whatever becomes of the others | `Requests` |
| `CronSchedules_proofs!SchedulesStayConsistent` | `[]ScheduleInv`, all its parts | `Cron` |
| `SchedulesKeepContract` | the tables implement `CronContract` | `Cron` |
| `ThreadRail_proofs!RailStaysConsistent`, `RailKeepsOrderAndDrafts` | `[]RailInv`, `RailIsStable` | `Rail` |

**RunManager.** The limit is not inductive: that processes are few says nothing about the next launch. The
code's argument is that `reserve()` counts slot rows and process-backed rows, and that a
slot is not released before the process is gone. The invariant `Good` says so in parts:

- `SlotLimit`: slot rows within the limit, which `reserve()` keeps, because what it counts
  (`Busy`) contains them. `Busy` is finite, so that counting means something.
- `ProcessOwned`: each live process holds the slot of its run and its attempt is open; it is
  not one whose launch failed. So processes are no more than slots, and, with `OpenIsLast`
  (only the last attempt can be open), one per run.
- `WaitingHasNoProcess`: a queued run has none, so a launch does not add a second.
- `Settled`: a run with a process has a running entry, or its `startRun()` is still pending
  and was not rejected. `StopRun` releases the slot of a run without an entry; this is why
  it may. And a queued run has no open attempt, so `BeginAttempt` hands out a new one.
- `EventsNumbered`: events and continuations carry numbers already handed out, so none can
  later be mistaken for that of a new attempt.

In the middle of a launch or an activation `Settled` does not hold of the run concerned:
`GoodBut(s, X)` exempts the runs in `X`. `SameCore` covers the many statements that only
write external executions, assignments or timers. There is one lemma for every statement
of the store, every handler and every action, and the theorem combines them.

**RunGuarantees** adds what the rows, the entries and the slots say of each other. `Good` speaks of all
runs at once; `Fine(s, r)` speaks of one. Every handler writes one run and then takes one turn of the
dispatch loop, which writes at most one more (the loop goes on in `Continue`). So a lemma about a handler says that the run
it writes is fine again, and that the others are the `Same`.

- `Known`: a process is an open attempt, and events and continuations name attempts that were handed out.
- `Book`: what the rows say of each other after any crash or late event. A succeeded execution rests on a
  succeeded last attempt and, where one is due, on a receipt; only the last attempt can have
  another status than failed; a lost one is that of a finished run; the run of an open
  execution is being stopped only where the cancellation was recorded first.
- `Kept`: the retry bookkeeping and the assignment, under the launches that keep them.
- `Live`: a slot stands for an entry of the running map, a process, or a launch whose continuation
  or event is still to come. It makes the claim of `SlotIsAccountedFor` inductive: the slot of a
  stale continuation is there because somebody else's attempt took it.
- `Calm`: without late events entries, processes, slots and statuses agree one to one, and one launch
  at most is pending (`Sound`). `Continue` may then take it for granted that the run it goes on
  with is as `startRun()` left it, which is what `FinishedIsFinal` and the lifecycle rest on.
- `OpenLives`: without crashes an open attempt has its process.

After a crash (`Forgotten`) the rows are all that is left, and `Book` and `Kept` carry over.
The action properties need more than an invariant: `Moved` says what a handler may do to the run it
handles, `Dispatched` what the dispatch may do to those it starts, `Stepped` is what either allows,
and `NoOvertaking`, `LostIsFinal`, `VerdictIsFinal`, `FinishedIsFinal` and `LifecycleIsRespected`
follow from `Stepped` and `GInv`.

**RunPromises.** Two things the others rely on, both proved along the shape of a handler: its head writes one
run (`Halts`, `Activated`, `Wrote`), then the dispatcher takes one turn, which starts at most the oldest due
run of the Mon (`Takes`).

- The contract. `Story` says of each key what run row, execution and process must tell of one another at each
  stage: waiting, starting, working, ended and awaiting its receipt, settled. It is not a part of `ExternalInv`
  but what makes it inductive: a verdict is given by a handler that reads one of the records, and is
  consistent only because the others agreed before. `Fulfils` says that a step is, for a key, none or one of the steps of the
  contract in terms of the rows; `Told` is both. Each action is shown to be `Told` of the run its head
  writes, of the run the dispatcher starts, and `Unseen` of all others. From `Story` follows
  `ExternalInv`, from `Fulfils` the refinement: the abstract steps are `Contract`'s, key by key.
- The wake-ups. `WorkConserving` speaks of an idle service between two handlers. The invariant `Wakeful` speaks of
  every state: `Woken` ties timers to runs (a queued run that backs off in a running service has one, and
  a run that is not queued or closed has none), and each Mon is `Served`: it is full, or nothing of it
  is due, or it is `Awaited`, by a timer, by the startup's list, or by a launch whose continuation will
  dispatch. A handler that frees a slot or makes a run due breaks this for one Mon (`WakefulBut`), and the
  dispatch at its end restores it (`DispatchWakeful`), since a turn that starts nothing has found the Mon full or
  nothing due, and one that starts a run leaves a continuation that takes the next turn.

**HitlThread.** `GoodAt` is what holds of each thread: its processes have different turn
numbers, none greater than the turns so far, an unsignalled one is that of the turn in
flight, the stored token is that turn's or none, an open thread's turn has its slot.
`OneConversation` relates two threads of a Mon. `ThreadStep` says that a step that leaves other
threads alone needs to be looked at in its own thread only.
`Told` relates the histories to the database: an error the operator was answered with is the one the database
remembers, the silence of a turn and what is left of its idle timer never add up to less than the idle
window, and a thread that is not finished has no verdict. `Says` of a step is `Told` of the state it leads
to and `StepAt` of each thread, from which the two action properties follow.
A second invariant of the same module adds `Fits`, the limit, and `Answered`. The heart of `Fits` is
`DispatchFits`: `dispatchQueuedForMon()` takes slots one by one, in the model all at once, so what
has to be shown is that of the queued runs those with few enough older ones are no more than the
free slots (`OldestFew`, by the rank of the youngest). Every other handler only gives slots back, or
takes one that `FreeSlot` found free. `Answered` needs no crash: a crash ends
the turn and nobody writes the reply.

**ExternalRequests.** `OwnRow` says of a row that it agrees with itself and that success rests on
evidence of its own, `Requested` that it stands for a request somebody made; `Informed` that what a client
has been told, or is about to be told, is true of the row; `OneCreator` that of the clients of a key one at most
can be told "created"; `Numbered` that runs are numbered as they are made, which makes lineage
acyclic. All steps but `Reserve` change a row by `Develops`: it stays, or was open and keeps
what it recorded. `RowsStep` proves the invariant for these at once, whoever takes them: launches, stale
continuations, a reservation that fails, an operator, a crash (`Managed`). For the contract that is not enough, since it
relates the row to the process. `Plain` says of each plain key how run, row, process and pending launch agree at each
stage; each step of such a key keeps it and is `Allowed`, and a step of another key concerns none (`RoughKey`).

**CronSchedules.** `Columns` says how the three columns follow from `since`, `Fired` that what
was fired lies before it, `Turns` where a tick stands. Every step is one of four: a step of
runs, a change of schedules, `AdvanceClock`, or a fire. `FireCoversOwed` shows that the interval a
fire records is exactly what is owed, which is the heart of both the invariant and the refinement (steps
of runs map to `End`, changes to `Forget`, the clock to `Elapse`, fires to `Cover`). A second
invariant, `Dispatched`, counts: a dispatch leaves no queued run beside a free slot.

**RunResources.** A crash may fall between any two statements, so what is proved of a handler is proved of each
state of its sequence. `Torn` is what holds in all of them: grants are those of the last
attempt and a waiting run has none without an open one (`AttemptTorn`); there is one process per run and none of a
waiting run (`ProcessTorn`); an output that is called available though its directory is gone has a
scope that is about to be swept (`ScopeTorn`); an `error` event, or the rejection a continuation carries, is of an attempt that
has no process (`LaunchTorn`), which is why the retry it leads to cannot double one. `Up` holds between the handlers of a
running service and has two parts: `Steady`, on credentials and outputs; and `Sound`, that a slot stands for an open attempt that is in the map or
awaits its runner, that an open attempt whose run is awaited is in the map already or is the one awaited, so that a stale
continuation cannot stand in for it, and that a process that is watched or awaited is of the open attempt. `Down` holds while the startup repairs the runs one by
one. `Passes(r)` are the states a handler of `r` may pass through: torn, with the other runs `Apart`. Each statement
is shown to lead from such a state to such a state, `Through` collects them, and each handler's last state is shown
to be `Up` again.

**ThreadRail.** The functions of `lib/collections.ts` come first: what `Keep`, `Put` and the merge keep of
the entries of a list, of their order (`SameOrder`), and that no id comes twice (`Distinct`). `Keep` filters by an
increasing enumeration, so its lemmas rest on the fact that a set of numbers has one
(`OrderExists`, `OrderCovers`, by counting ranks). `GoodUi` then says that a draft whose
message is on its way is listed as running, so `closeThread()` does not remove it and the answer
finds what it replaces; `GoodOp` which thread and draft each call of `sendThreadMessage()` belongs to; and that a
list on its way names each thread of the server once. `RailIsStable` is proved action by
action from these.

**Only model-checked.** All liveness (`QueuedRunLeavesQueue`, `ProcessEnds`,
`CancellationIsAnswered`, `MessageAnswered`, `OwedIsRun`, `ExpiredIsCleaned`, `ConsoleConverges`,
`SendEnds`, `VerdictIsRead`) and `ENABLED`, which are outside the prover's reach. Every invariant, action property and
refinement that a passing run checks is stated by a theorem, under the hypotheses above where it needs any.
Induction over data is outside the prover's reach too; no module uses RECURSIVE operators.

## 7. What could come next

A module of plans with phases, repeated activation and crashes between its
statements; the run view of the console; the sliding expiry of grants.

## 8. What is not modelled, and why

- Plans: their status, phases, added assignments and a second activation. The status of an
  assignment and the run that drives it are in RunManager.
- Crashes inside a handler are in RunResources only, with what a run owns; in the other
  modules a crash falls between handlers. Detached processes that outlive a crash
  are there too; in RunManager they leave the model with the crash, so its process
  limit is one on the processes of the present service.
- All Mons of an instance have the same retry policy, and wall-clock durations are abstract.
  The clock never goes back.
- The sliding expiry of grants: arithmetic on the wall clock without a competing writer.
- The contents of the scope snapshot, write evidence of Git worktrees, rules on paths,
  sizes and digests of output files, and the text of turns: data that no decision reads, or an input.
- Idempotent reservation that finds its row again changes nothing in RunManager and has no
  action there; ExternalRequests has it.
- Run events: an append-only table with one writer, which no decision of a run reads.
- Database: one transaction of idempotent SQL at startup, before anything else runs.
- Adapters, scope and configuration resolution, canonical JSON, tools and MCP transport, registry,
  artifacts, logs, settings and CLI: data conversion and single-row updates that decide nothing about
  a run. What a harness process does is an arbitrary exit at an arbitrary time.
- The console's run, plan, cron and artifact views replace their state by each answer.
