----------------------------- MODULE HitlThread -----------------------------
(***************************************************************************)
(* Human-in-the-loop conversations: the thread routes of routes.ts and the *)
(* adapter turns of run-manager.ts, which share the process slots of their *)
(* Mon with one-shot runs.  A turn has an idle timer, which any activity   *)
(* of its run resets, and a hard timer, which nothing resets; time is a    *)
(* Tick that counts both down, and a timer that is due fires before the    *)
(* next one.                                                               *)
(*                                                                         *)
(* From a request, a timer or a process event to the next, the handlers of *)
(* a turn only wait for promises that are already settled, so what follows *)
(* an await belongs to the same step.  The one-shot runs are RunManager's: *)
(* here they only queue, hold a slot and end.                              *)
(***************************************************************************)
EXTENDS RunStore

CONSTANTS
    Threads,    \* the runs whose interaction_mode is hitl_thread
    Idle,       \* MONDE_HITL_IDLE_TIMEOUT_MS in ticks; 0 disables the timer
    Hard,       \* MONDE_HITL_HARD_TIMEOUT_MS in ticks; 0 disables the timer
    KillGrace,  \* MONDE_HITL_KILL_GRACE_MS is not 0
    Reasons,    \* the close_reasons clients give
    Outcomes,   \* the outcomes operators give
    MaxTurns,   \* bound: turns of all threads
    MaxCrashes  \* bound: crashes

ASSUME ThreadAssumption == Threads \subseteq Runs /\ External = {} /\ PlanRuns = {}
ASSUME RequestAssumption ==
    /\ Reasons \subseteq {"user_closed_widget", "user_marked_resolved", "user_abandoned",
                          "system_cancelled", "error"}
    /\ Outcomes \subseteq {"completed", "failed", "stopped"}
ASSUME TimerAssumption ==
    /\ {Idle, Hard, MaxTurns, MaxCrashes} \subseteq Nat
    /\ KillGrace \in BOOLEAN

OneShots == Runs \ Threads

VARIABLES
    run, slots,  \* the database, see RunStore
    chat,        \* what execution_json says of each thread
    turn,        \* hitlActivities: the turn in flight of each thread
    procs,       \* the harness processes this service started for turns
    reply,       \* history: what became of the last turn of each thread
    silent,      \* history: ticks since the turn in flight last did something
    crashes      \* the crashes so far

db == <<run, slots, chat>>
vars == <<db, turn, procs, reply, silent, crashes>>

-----------------------------------------------------------------------------
(* Types *)

CloseReason == {"none", "user_closed_widget", "user_marked_resolved", "user_abandoned",
                "system_cancelled", "error", "process_exited"}
ThreadRuntimeState == RuntimeState \cup {"idle_open", "waiting_for_user"}
ThreadRow == [status : RunStatus, process_status : ProcessStatus, outcome : RunOutcome,
              runtime_state : ThreadRuntimeState, outcome_state : OutcomeState]

\* What chat_last_error and hitl_timeout_reason say; the turn whose token hash is stored,
\* 0 for none; the turns so far.
Chat == [error : BOOLEAN, timeout : {"none", "idle_timeout", "hard_timeout"}, token : Nat, turns : Nat,
         close_reason : CloseReason]
NoChat == [error |-> FALSE, timeout |-> "none", token |-> 0, turns |-> 0, close_reason |-> "none"]

Turn == [n : Nat, idle : 0..Idle, hard : 0..Hard]
NoTurn == [n |-> 0, idle |-> 0, hard |-> 0]

Signal == {"none", "SIGTERM", "SIGKILL"}
Proc == [thread : Threads, n : Nat, signal : Signal]

TypeOK ==
    /\ run \in [Runs -> ThreadRow]
    /\ slots \subseteq Runs
    /\ chat \in [Threads -> Chat]
    /\ turn \in [Threads -> Turn]
    /\ procs \subseteq Proc
    /\ reply \in [Threads -> {"none", "awaited", "mon", "error"}]
    /\ silent \in [Threads -> 0..Idle]
    /\ crashes \in 0..MaxCrashes

st == [run |-> run, slots |-> slots, chat |-> chat, turn |-> turn, procs |-> procs,
       reply |-> reply, silent |-> silent]

Commit(s) ==
    /\ run' = s.run /\ slots' = s.slots /\ chat' = s.chat
    /\ turn' = s.turn /\ procs' = s.procs /\ reply' = s.reply /\ silent' = s.silent

Init ==
    /\ run = [r \in Runs |-> NoRow]
    /\ slots = {}
    /\ chat = [t \in Threads |-> NoChat]
    /\ turn = [t \in Threads |-> NoTurn]
    /\ procs = {}
    /\ reply = [t \in Threads |-> "none"]
    /\ silent = [t \in Threads |-> 0]
    /\ crashes = 0

OpenRuntimeState == {"queued", "running", "waiting_for_user", "idle_open"}
IsOpenThread(t) == run[t].status # "none" /\ run[t].runtime_state \in OpenRuntimeState
InFlight(s, t) == s.turn[t].n # 0

-----------------------------------------------------------------------------
(* Slots: a thread holds one only by its row in process_slots *)

HoldsSlot(s, m) ==
    {r \in Runs : /\ MonOf[r] = m
                  /\ r \in s.slots \/ (r \in OneShots /\ s.run[r].status \in ProcessBacked)}

\* Mutant: off by one.
FreeSlotOneMore(s, r) == r \in s.slots \/ Cardinality(HoldsSlot(s, MonOf[r])) <= Limit[MonOf[r]]

FreeSlot(s, r) == r \in s.slots \/ Cardinality(HoldsSlot(s, MonOf[r])) < Limit[MonOf[r]]

\* The one-shot runs dispatchQueuedForMon() starts: the oldest ones, while slots are free.
Dispatched(s, m) ==
    LET queued == {r \in OneShots : MonOf[r] = m /\ s.run[r].status = "queued"}
    IN  {r \in queued : Cardinality(HoldsSlot(s, m)) + Cardinality({q \in queued : q < r})
                          < Limit[m]}

StartAll(s, started) ==
    [s EXCEPT !.slots = @ \cup started,
              !.run = [r \in Runs |-> IF r \in started THEN MarkRunActive(s.run[r])
                                      ELSE s.run[r]]]

Dispatch(s, m) == StartAll(s, Dispatched(s, m))

-----------------------------------------------------------------------------
(* One adapter turn *)

\* Mutant: activity pushes the hard deadline back as well.
NoteRunActivityResetsBoth(s, t) ==
    IF ~InFlight(s, t) THEN s ELSE [s EXCEPT !.turn[t] = [@ EXCEPT !.idle = Idle, !.hard = Hard]]

\* noteRunActivity(): whoever reports it, the turn in flight of the thread profits.
NoteRunActivity(s, t) ==
    IF ~InFlight(s, t) THEN s ELSE [s EXCEPT !.turn[t] = [@ EXCEPT !.idle = Idle]]

\* settle(): forget the activity, revoke the token, give the slot to the next run.
Settle(s, t) ==
    LET cleared == [s EXCEPT !.turn[t] = NoTurn, !.silent[t] = 0,
                             !.chat[t] = [@ EXCEPT !.token = 0]]
    IN  Dispatch(ReleaseSlot(cleared, t), MonOf[t])

\* Mutant: a refused message does not put the thread back to waiting_for_user.
RepliedOnlyToTurns(s, t, what) ==
    IF what = "refused" THEN s
    ELSE [s EXCEPT !.run[t] = [@ EXCEPT !.runtime_state = "waiting_for_user",
                                        !.outcome_state = "unknown"],
                   !.reply[t] = what]

\* How the message route ends, whatever the reply: no look at what happened meanwhile.
Replied(s, t, what) ==
    [s EXCEPT !.run[t] = [@ EXCEPT !.runtime_state = "waiting_for_user",
                                   !.outcome_state = "unknown"],
              !.reply[t] = IF what = "refused" THEN @ ELSE what]

\* Mutant: the error of a failed turn is not recorded.
TurnFailedForgetsError(s, t) == Replied(Settle(s, t), t, "error")

TurnFailed(s, t) ==
    LET settled == Settle(s, t)
    IN  Replied([settled EXCEPT !.chat[t] = [@ EXCEPT !.error = TRUE]], t, "error")

TurnFinished(s, t) ==
    LET settled == Settle(s, t)
    IN  Replied([settled EXCEPT !.chat[t] = [@ EXCEPT !.error = FALSE]], t, "mon")

\* respondToHitlThread() up to the first await: slot, token, activity and timers.
BeginTurn(s, t) ==
    LET n == s.chat[t].turns + 1
    IN  [ReserveSlot(s, t) EXCEPT
            !.chat[t] = [@ EXCEPT !.token = n, !.turns = n, !.timeout = "none"],
            !.turn[t] = [n |-> n, idle |-> Idle, hard |-> Hard],
            !.silent[t] = 0, !.reply[t] = "awaited"]

-----------------------------------------------------------------------------
(* Requests *)

\* Mutant: only threads nobody has written to yet are looked for.
OpenThreadBesideBusy(t) ==
    /\ run[t].status = "none"
    /\ \A u \in Threads : u < t => run[u].status # "none"
    /\ ~\E u \in Threads : MonOf[u] = MonOf[t] /\ run[u].runtime_state = "idle_open"
    /\ Commit([st EXCEPT !.run[t] = [@ EXCEPT !.status = "active", !.process_status = "running",
                                              !.runtime_state = "idle_open"]])
    /\ UNCHANGED crashes

\* POST /mondes/:mondeId/threads: an open thread of the Mon is resumed instead.
OpenThread(t) ==
    /\ run[t].status = "none"
    /\ \A u \in Threads : u < t => run[u].status # "none"
    /\ ~\E u \in Threads : MonOf[u] = MonOf[t] /\ IsOpenThread(u)
    /\ Commit([st EXCEPT !.run[t] = [@ EXCEPT !.status = "active", !.process_status = "running",
                                              !.runtime_state = "idle_open"]])
    /\ UNCHANGED crashes

TurnsLeft == Cardinality({tk \in Threads \X (1..MaxTurns) : tk[2] <= chat[tk[1]].turns}) < MaxTurns

\* POST /runs/:id/messages.  A turn is "spawned", has "failed" to spawn, or is "refused":
\* no usable harness, a turn in flight, or no free slot.
PostMessage(t, how) ==
    /\ IsOpenThread(t)
    /\ how = "refused" \/ (~InFlight(st, t) /\ FreeSlot(st, t) /\ TurnsLeft)
    /\ LET asked == [st EXCEPT !.run[t] = [@ EXCEPT !.runtime_state = "running"]]
           begun == BeginTurn(asked, t)
       IN  Commit(CASE how = "refused" -> Replied(asked, t, "refused")
                    [] how = "failed"  -> TurnFailed(begun, t)
                    [] how = "spawned" ->
                         [begun EXCEPT !.procs = @ \cup {[thread |-> t, n |-> chat[t].turns + 1,
                                                          signal |-> "none"]}])
    /\ UNCHANGED crashes

\* Mutant: the stored hash alone admits a tool call.
IsRunTokenAuthorizedByHash(t, k) ==
    run[t].status \in ProcessBacked /\ chat[t].token = k

\* isRunTokenAuthorized() for the token of turn k.
IsRunTokenAuthorized(t, k) ==
    /\ run[t].status \in ProcessBacked
    /\ InFlight(st, t)
    /\ chat[t].token = k

\* A tool or MCP call with the token of turn k: activity, if it is admitted.
ToolCall(t, k) ==
    /\ k \in 1..chat[t].turns
    /\ IsRunTokenAuthorized(t, k)
    /\ Commit([NoteRunActivity(st, t) EXCEPT !.silent[t] = 0])
    /\ UNCHANGED crashes

\* hitlThreadHasUnresolvedError()
HasUnresolvedError(t) ==
    \/ chat[t].error \/ chat[t].timeout # "none"
    \/ run[t].runtime_state = "failed" \/ run[t].outcome_state = "failed"
    \/ run[t].outcome \in {"failed", "interrupted"}
    \/ run[t].process_status \in {"crashed", "lost"}

\* closeHitlThreadLifecycle()
CloseHitlThreadLifecycle(row, reason, unresolved) ==
    LET succeeded == \/ reason = "user_marked_resolved"
                     \/ reason = "user_closed_widget" /\ ~unresolved
    IN  [status |-> "finished",
         process_status |-> IF reason = "system_cancelled" THEN "killed" ELSE "exited",
         outcome |-> CASE succeeded                  -> "completed"
                       [] reason = "error"           -> "failed"
                       [] reason = "user_abandoned"  -> "stopped"
                       [] OTHER                      -> "unknown",
         runtime_state |-> CASE reason = "error"            -> "failed"
                             [] reason = "system_cancelled" -> "cancelled"
                             [] OTHER                       -> "closed",
         outcome_state |-> CASE succeeded                 -> "succeeded"
                             [] reason = "error"          -> "failed"
                             [] reason = "user_abandoned" -> "abandoned"
                             [] OTHER                     -> "unknown"]

\* closeHitlThread(), by /resolve, /abandon or /close with a close_reason: whatever
\* the state of the thread, and without a word to its turn.
CloseThread(t, reason) ==
    /\ run[t].status # "none"
    /\ Commit([st EXCEPT
            !.run[t] = CloseHitlThreadLifecycle(@, reason, HasUnresolvedError(t)),
            !.chat[t] = [@ EXCEPT !.close_reason = reason]])
    /\ UNCHANGED crashes

ReviewedState(outcome) ==
    CASE outcome = "completed" -> "succeeded" [] outcome = "failed" -> "failed"
      [] outcome = "stopped" -> "abandoned"

\* stopRun(): a thread is not in the map of running runs, so its turn is not signalled
\* and its slot is given back at once.
StopRun(s, t) ==
    [ReleaseSlot(s, t) EXCEPT !.run[t] = FinishRunStopped(@),
                            !.chat[t] = [@ EXCEPT !.token = 0,
                                                  !.close_reason = "system_cancelled"]]

\* /close with an outcome.
CloseRun(t, outcome) ==
    /\ run[t].status # "none"
    /\ LET closed == IF run[t].status = "finished" THEN st
                     ELSE IF outcome = "stopped" THEN StopRun(st, t)
                     ELSE [st EXCEPT !.run[t] = FinishRunFromExit(
                              @, IF outcome = "failed" THEN "nonzero" ELSE "clean"),
                                       !.chat[t] = [@ EXCEPT !.close_reason = "process_exited"]]
       IN  Commit([closed EXCEPT !.run[t] = [@ EXCEPT !.outcome = outcome,
                                                !.outcome_state = ReviewedState(outcome)]])
    /\ UNCHANGED crashes

\* /review of a finished run.
Review(t, outcome) ==
    /\ run[t].status = "finished"
    /\ Commit([st EXCEPT !.run[t] = [@ EXCEPT !.outcome = outcome,
                                              !.outcome_state = ReviewedState(outcome)]])
    /\ UNCHANGED crashes

-----------------------------------------------------------------------------
(* Process events and timers *)

IsCurrent(p) == turn[p.thread].n = p.n

\* Mutant: the output of a turn is not counted as activity.
ProcessOutputIgnored(p) ==
    /\ p \in procs
    /\ Commit([st EXCEPT !.silent[p.thread] = IF IsCurrent(p) THEN 0 ELSE @])
    /\ UNCHANGED crashes

\* onStdout() and onStderr(), of a turn that may be over.
ProcessOutput(p) ==
    /\ p \in procs
    /\ Commit([NoteRunActivity(st, p.thread) EXCEPT
                 !.silent[p.thread] = IF IsCurrent(p) THEN 0 ELSE @])
    /\ UNCHANGED crashes

\* Mutant: the slot is released before the settled flag is looked at.
ProcessExitReleasesFirst(p, clean) ==
    /\ p \in procs
    /\ LET gone == ReleaseSlot([st EXCEPT !.procs = @ \ {p}], p.thread)
       IN  Commit(IF ~IsCurrent(p) THEN gone
                  ELSE IF clean THEN TurnFinished(gone, p.thread)
                  ELSE TurnFailed(gone, p.thread))
    /\ UNCHANGED crashes

\* onExit(): it settles the turn it belongs to, once.
ProcessExit(p, clean) ==
    /\ p \in procs
    /\ LET gone == NoteRunActivity([st EXCEPT !.procs = @ \ {p}], p.thread)
       IN  Commit(IF ~IsCurrent(p) THEN gone
                  ELSE IF clean THEN TurnFinished(gone, p.thread)
                  ELSE TurnFailed(gone, p.thread))
    /\ UNCHANGED crashes

SignalTo(s, t, n, signal) ==
    {IF p.thread = t /\ p.n = n THEN [p EXCEPT !.signal = signal] ELSE p : p \in s.procs}

\* Mutant: the process of a turn that timed out is left alone.
TimeoutHitlTurnNoKill(s, t, reason) ==
    TurnFailed([s EXCEPT !.chat[t] = [@ EXCEPT !.timeout = reason]], t)

\* timeoutHitlTurn()
TimeoutHitlTurn(s, t, reason) ==
    TurnFailed([s EXCEPT !.chat[t] = [@ EXCEPT !.timeout = reason],
                         !.procs = SignalTo(s, t, s.turn[t].n, "SIGTERM")], t)

IdleDue(t) == InFlight(st, t) /\ Idle > 0 /\ turn[t].idle = 0
HardDue(t) == InFlight(st, t) /\ Hard > 0 /\ turn[t].hard = 0

IdleTimeout(t) ==
    /\ IdleDue(t)
    /\ Commit(TimeoutHitlTurn(st, t, "idle_timeout"))
    /\ UNCHANGED crashes

HardTimeout(t) ==
    /\ HardDue(t)
    /\ Commit(TimeoutHitlTurn(st, t, "hard_timeout"))
    /\ UNCHANGED crashes

TimerFires == \E t \in Threads : IdleTimeout(t) \/ HardTimeout(t)

\* The grace period of a turn that timed out is over.
KillAfterGrace(p) ==
    /\ KillGrace /\ p \in procs /\ p.signal = "SIGTERM"
    /\ Commit([st EXCEPT !.procs = SignalTo(st, p.thread, p.n, "SIGKILL")])
    /\ UNCHANGED crashes

\* Mutant: no floor.
DownBelowZero(k) == k - 1

Down(k) == IF k > 0 THEN k - 1 ELSE 0

\* Time passes while a turn is in flight, up to the next timer that is due.
Tick ==
    /\ \E t \in Threads : InFlight(st, t)
    /\ \A t \in Threads : ~IdleDue(t) /\ ~HardDue(t)
    /\ turn' = [t \in Threads |-> [turn[t] EXCEPT !.idle = Down(@), !.hard = Down(@)]]
    /\ silent' = [t \in Threads |-> IF InFlight(st, t) /\ silent[t] < Idle THEN silent[t] + 1
                                    ELSE silent[t]]
    /\ UNCHANGED <<db, procs, reply, crashes>>

-----------------------------------------------------------------------------
(* The one-shot runs beside the threads, and the service *)

\* A run is created: it starts if a slot is free, and queues otherwise.
Submit(r) ==
    /\ run[r].status = "none"
    /\ Commit(Dispatch([st EXCEPT !.run[r] = QueuedRow], MonOf[r]))
    /\ UNCHANGED crashes

OneShotExit(r) ==
    /\ run[r].status = "active"
    /\ Commit(Dispatch(ReleaseSlot([st EXCEPT !.run[r] = FinishRunFromExit(@, "clean")], r),
                       MonOf[r]))
    /\ UNCHANGED crashes

\* markLostRunsOnStartup(): a thread is not a lost run, so the slot of the turn that the
\* crash interrupted is an orphan only if its thread is finished.
MarkLostOnStartup(s) ==
    LET lost == [s EXCEPT !.run = [r \in Runs |->
                   IF r \in OneShots /\ s.run[r].status \in ProcessBacked
                   THEN FinishRunInterrupted(s.run[r], "lost") ELSE s.run[r]]]
    IN  ReleaseOrphans(lost)

\* The service dies and comes back: no activity, no timer and no pipe survives, and the
\* queued runs are dispatched again.
CrashAndRestart ==
    /\ crashes < MaxCrashes
    /\ crashes' = crashes + 1
    /\ LET back == MarkLostOnStartup([st EXCEPT !.turn = [t \in Threads |-> NoTurn],
                                                !.silent = [t \in Threads |-> 0],
                                                !.procs = {}])
       IN  Commit(StartAll(back, UNION {Dispatched(back, m) : m \in Mons}))

-----------------------------------------------------------------------------
ThreadRequest(t) ==
    \/ OpenThread(t)
    \/ \E how \in {"spawned", "failed", "refused"} : PostMessage(t, how)
    \/ \E k \in 1..MaxTurns : ToolCall(t, k)
    \/ \E reason \in Reasons : CloseThread(t, reason)
    \/ \E outcome \in Outcomes : CloseRun(t, outcome) \/ Review(t, outcome)

ProcessEvent(p) ==
    \/ ProcessOutput(p)
    \/ \E clean \in BOOLEAN : ProcessExit(p, clean)
    \/ KillAfterGrace(p)

Next ==
    \/ \E t \in Threads : ThreadRequest(t)
    \/ TimerFires
    \/ \E p \in procs : ProcessEvent(p)
    \/ \E r \in OneShots : Submit(r) \/ OneShotExit(r)
    \/ Tick
    \/ CrashAndRestart

Spec == Init /\ [][Next]_vars

\* The event loop lets time pass, and runs the timers that are due: weak fairness, with
\* what enables the two, a turn in flight, written out.
Fairness ==
    []<>~(\E t \in Threads : InFlight(st, t)) \/ []<><<Tick \/ TimerFires>>_vars

FairSpec == Spec /\ Fairness

-----------------------------------------------------------------------------
(* Safety *)

\* The processes of a Mon that hold a slot never exceed max_active_runs, whichever of
\* turns, one-shot runs, closes, timeouts and crashes gave slots back (reserve()).
SlotsWithinLimit == \A m \in Mons : Cardinality(HoldsSlot(st, m)) <= Limit[m]

\* A process that nobody told to stop is the one of the turn in flight, so some timer
\* still watches it: no turn ends and leaves an unsignalled process behind.
ProcessIsWatched == \A p \in procs : p.signal = "none" => turn[p.thread].n = p.n

\* The turn in flight of a thread that is not finished holds a slot, whatever late
\* events of an earlier turn arrive.
TurnHoldsSlot ==
    \A t \in Threads : InFlight(st, t) /\ run[t].status = "active" => t \in slots

\* A tool call is admitted only with the token of the turn in flight, even after a crash
\* that left the hash of an interrupted turn in the database (isRunTokenAuthorized()).
TokenOnlyDuringItsTurn ==
    \A t \in Threads : \A k \in 1..MaxTurns : IsRunTokenAuthorized(t, k) => turn[t].n = k

\* A Mon has at most one conversation that is not finished.
OneConversationPerMon ==
    \A t, u \in Threads : run[t].status = "active" /\ run[u].status = "active"
                            /\ MonOf[t] = MonOf[u] => t = u

\* Without a crash, a thread that awaits no reply has no turn in flight and is not shown
\* as running; a message that awaits one has a turn.
ReplyAwaitedMeansTurn ==
    crashes = 0 => \A t \in Threads :
        /\ InFlight(st, t) <=> reply[t] = "awaited"
        /\ run[t].runtime_state = "running" => reply[t] = "awaited"

\* The state invariant of the conversations: the parts that belong together.
ThreadInv == TypeOK /\ SlotsWithinLimit /\ ProcessIsWatched /\ OneConversationPerMon
             /\ ReplyAwaitedMeansTurn

-----------------------------------------------------------------------------
(* Action and temporal properties *)

\* A conversation whose last turn failed is never closed as completed by closing its
\* widget (hitlThreadHasUnresolvedError).
CleanCloseMeansAnswered ==
    [][\A t \in Threads :
         /\ run[t].status = "active" /\ run'[t].outcome = "completed"
         /\ chat'[t].close_reason = "user_closed_widget"
         => reply[t] # "error"]_vars

\* The idle timer ends a turn only after a whole idle window without any activity of it.
NotKilledWhileActive ==
    [][\A t \in Threads :
         /\ InFlight(st, t) /\ turn'[t].n = 0
         /\ chat[t].timeout = "none" /\ chat'[t].timeout = "idle_timeout"
         => silent[t] = Idle]_vars

\* Every message gets a reply or an error, however long the harness keeps talking:
\* the hard timer is never pushed back.
MessageAnswered ==
    \A t \in Threads : (reply[t] = "awaited") ~> (reply[t] # "awaited" \/ crashes > 0)
=============================================================================
