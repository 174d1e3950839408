--------------------------- MODULE CronSchedules ---------------------------
(***************************************************************************)
(* Cron schedules: the table and the transactions of                       *)
(* repositories/cron-schedules.ts, the CronScheduler that ticks them, the  *)
(* routes that create, change and delete them, and the runs they fire up   *)
(* to the dispatcher of their Mon (run-manager.ts).                        *)
(*                                                                         *)
(* A tick of the repository is synchronous, one transaction per schedule:  *)
(* nothing but a crash comes between two of them.  The dispatch that       *)
(* follows is awaited, Mon by Mon.  Time is counted in instants and the    *)
(* wall clock only moves forward; an expression, with its timezone, is the *)
(* set of instants it matches.                                             *)
(***************************************************************************)
EXTENDS Integers, FiniteSets

CONSTANTS
    Schedules,    \* the ids of the schedules
    Integration,  \* those an integration owns, registered under a stable key
    Mons,         \* the Mons that may be configured
    Exprs,        \* the expressions clients give
    Occurs,       \* the instants each expression matches
    Limit,        \* max_active_runs of each Mon
    MaxTime,      \* bound: the last instant
    MaxRuns,      \* bound: runs
    MaxEvents     \* bound: crashes, claimed keys and changes of schedules and Mons

ASSUME BoundAssumption == {MaxTime, MaxRuns, MaxEvents} \subseteq Nat
ASSUME NonEmptyAssumption == Mons # {} /\ Exprs # {}
ASSUME ScheduleAssumption == Schedules \subseteq Nat \ {0} /\ Integration \subseteq Schedules
ASSUME OccursAssumption == Occurs \in [Exprs -> SUBSET (1..MaxTime)]
ASSUME LimitAssumption == Limit \in [Mons -> Nat \ {0}]

VARIABLES
    sched,    \* table cron_schedules
    rows,     \* table runs, with the row of cron_fires that points to each run
    made,     \* the number of runs so far: ids in the order of creation
    mons,     \* table mons
    claims,   \* the execution keys of fires that clients used for runs of their own
    phase,    \* of CronScheduler.tick(): "idle", "scan" the schedules, "dispatch" the Mons
    todo,     \* the candidates of this tick that are not done
    targets,  \* the Mons this tick has enqueued runs for
    now,      \* the wall clock
    since,    \* history: the time up to which each schedule has been dealt with
    gone,     \* history: the Mons that have been deleted
    events    \* what MaxEvents bounds

vars == <<sched, rows, made, mons, claims, phase, todo, targets, now, since, gone,
          events>>

-----------------------------------------------------------------------------
(* Types and time *)

NoTime == 0            \* a column that is NULL
Never == MaxTime + 1   \* an instant beyond the bound
Time == 0..MaxTime
Column == 0..(MaxTime + 1)

Schedule == [state : {"none", "live", "archived"}, enabled : BOOLEAN, expr : Exprs, mon : Mons,
             next_fire_at : Column, pending_first_fire_at : Column, pending_fire_at : Column]

\* The scheduled_fire_time and coalesced_from_fire_time of the fire, and the instants of
\* the expression from the one to the other.
Row == [status : {"none", "queued", "active", "finished"}, mon : Mons, cron : Schedules \cup {0},
        at : Column, from : Column, covers : SUBSET (1..MaxTime)]

TypeOK ==
    /\ sched \in [Schedules -> Schedule]
    /\ rows \in [1..MaxRuns -> Row]
    /\ made \in 0..MaxRuns
    /\ mons \subseteq Mons
    /\ claims \subseteq Schedules \X (1..MaxTime)
    /\ phase \in {"idle", "scan", "dispatch"}
    /\ todo \subseteq Schedules
    /\ targets \subseteq Mons
    /\ now \in Time
    /\ since \in [Schedules -> Time] /\ gone \subseteq Mons
    /\ events \in 0..MaxEvents

NoSchedule == [state |-> "none", enabled |-> FALSE, expr |-> CHOOSE e \in Exprs : TRUE,
               mon |-> CHOOSE m \in Mons : TRUE, next_fire_at |-> NoTime,
               pending_first_fire_at |-> NoTime, pending_fire_at |-> NoTime]
NoRow == [status |-> "none", mon |-> CHOOSE m \in Mons : TRUE, cron |-> 0, at |-> NoTime,
          from |-> NoTime, covers |-> {}]

Init ==
    /\ sched = [s \in Schedules |-> NoSchedule]
    /\ rows = [r \in 1..MaxRuns |-> NoRow]
    /\ made = 0 /\ mons = Mons /\ claims = {}
    /\ phase = "idle" /\ todo = {} /\ targets = {}
    /\ now = 0 /\ since = [s \in Schedules |-> 0] /\ gone = {}
    /\ events = 0

\* Mutant: t itself counts.
NextFireFrom(e, t) ==
    IF \E o \in Occurs[e] : o >= t
    THEN CHOOSE o \in Occurs[e] : o >= t /\ \A p \in Occurs[e] : p >= t => o <= p
    ELSE Never

\* nextCronFire(): the first instant of e after t.
NextFire(e, t) ==
    IF \E o \in Occurs[e] : o > t
    THEN CHOOSE o \in Occurs[e] : o > t /\ \A p \in Occurs[e] : p > t => o <= p
    ELSE Never

\* cronFireAtOrBefore(): the last instant of e up to t.
FireAtOrBefore(e, t) == CHOOSE o \in Occurs[e] : o <= t /\ \A p \in Occurs[e] : p <= t => p <= o

Between(e, a, b) == {o \in Occurs[e] : a <= o /\ o <= b}

-----------------------------------------------------------------------------
(* Dispatch *)

Queued(rs, m) == {r \in 1..MaxRuns : rs[r].status = "queued" /\ rs[r].mon = m}
Active(rs, m) == {r \in 1..MaxRuns : rs[r].status = "active" /\ rs[r].mon = m}

\* Mutant: a started run gets a status that is none of table runs.
DispatchWrongStatus(rs, configured, M) ==
    [r \in 1..MaxRuns |->
        IF rs[r].status = "queued" /\ rs[r].mon \in M \cap configured
        THEN [rs[r] EXCEPT !.status = "running"] ELSE rs[r]]

\* dispatchQueuedForMon(): the oldest queued runs start while slots are free.  It throws
\* for a Mon that is not configured.
Dispatch(rs, configured, M) ==
    [r \in 1..MaxRuns |->
        IF /\ rs[r].status = "queued" /\ rs[r].mon \in M \cap configured
           /\ Cardinality(Active(rs, rs[r].mon))
                + Cardinality({q \in Queued(rs, rs[r].mon) : q < r}) < Limit[rs[r].mon]
        THEN [rs[r] EXCEPT !.status = "active"] ELSE rs[r]]

-----------------------------------------------------------------------------
(* Requests, while no tick holds the event loop *)

Request == phase # "scan" /\ UNCHANGED <<phase, todo, targets, now>>

\* create() and createIntegrationOrGet() of a new key.  Registering a key again changes
\* nothing: it replays the schedule, archived or not, or conflicts.
Create(s, e, m, enabled) ==
    /\ Request
    /\ sched[s].state = "none" /\ m \in mons
    /\ sched' = [sched EXCEPT ![s] =
          [state |-> "live", enabled |-> enabled, expr |-> e, mon |-> m,
           next_fire_at |-> IF enabled THEN NextFire(e, now) ELSE NoTime,
           pending_first_fire_at |-> NoTime, pending_fire_at |-> NoTime]]
    /\ since' = [since EXCEPT ![s] = now]
    /\ UNCHANGED <<rows, made, mons, claims, gone, events>>

\* Mutant: a new expression keeps the pending fire of the old one.
ChangedKeepsPending(c, e, m, rescheduled, enabled) ==
    LET fresh == rescheduled \/ (enabled /\ ~c.enabled)
    IN  [c EXCEPT !.expr = e, !.mon = m, !.enabled = enabled,
                  !.next_fire_at = IF ~enabled THEN NoTime
                                   ELSE IF fresh THEN NextFire(e, now) ELSE @,
                  !.pending_first_fire_at = IF ~enabled THEN NoTime ELSE @,
                  !.pending_fire_at = IF ~enabled THEN NoTime ELSE @]

\* update(): rescheduled if the patch names an expression or a timezone.
Changed(c, e, m, rescheduled, enabled) ==
    LET fresh == rescheduled \/ (enabled /\ ~c.enabled)
    IN  [c EXCEPT !.expr = e, !.mon = m, !.enabled = enabled,
                  !.next_fire_at = IF ~enabled THEN NoTime
                                   ELSE IF fresh THEN NextFire(e, now) ELSE @,
                  !.pending_first_fire_at = IF ~enabled \/ fresh THEN NoTime ELSE @,
                  !.pending_fire_at = IF ~enabled \/ fresh THEN NoTime ELSE @]

\* PATCH /cron-schedules/:id.  Only enabled may be given for an integration's schedule, and
\* only a Mon that is given is looked up.
Update(s, e, m, rescheduled, enabled) ==
    /\ Request /\ events < MaxEvents
    /\ sched[s].state = "live"
    /\ rescheduled \/ e = sched[s].expr
    /\ m \in mons \/ m = sched[s].mon
    /\ s \in Integration => ~rescheduled /\ m = sched[s].mon
    /\ sched' = [sched EXCEPT ![s] = Changed(@, e, m, rescheduled, enabled)]
    /\ since' = [since EXCEPT ![s] = IF rescheduled \/ enabled # sched[s].enabled THEN now ELSE @]
    /\ events' = events + 1
    /\ UNCHANGED <<rows, made, mons, claims, gone>>

\* What archiving and disabling clear.
Stopped(c) == [c EXCEPT !.enabled = FALSE, !.next_fire_at = NoTime,
                        !.pending_first_fire_at = NoTime, !.pending_fire_at = NoTime]

\* delete(): the schedule is archived.
Delete(s) ==
    /\ Request /\ events < MaxEvents
    /\ sched[s].state = "live"
    /\ sched' = [sched EXCEPT ![s] = [Stopped(@) EXCEPT !.state = "archived"]]
    /\ events' = events + 1
    /\ UNCHANGED <<rows, made, mons, claims, since, gone>>

\* DELETE /mons/:mondeId/:monId: the Mon goes, then disableForMon() its schedules.
DeleteMon(m) ==
    /\ Request /\ events < MaxEvents
    /\ m \in mons
    /\ mons' = mons \ {m} /\ gone' = gone \cup {m}
    /\ sched' = [s \in Schedules |->
                   IF sched[s].state = "live" /\ sched[s].mon = m THEN Stopped(sched[s])
                   ELSE sched[s]]
    /\ events' = events + 1
    /\ UNCHANGED <<rows, made, claims, since>>

\* PUT /mondes/:mondeId/mons/:monId configures the Mon again.
UpsertMon(m) ==
    /\ Request
    /\ m \notin mons
    /\ mons' = mons \cup {m}
    /\ UNCHANGED <<sched, rows, made, claims, since, gone, events>>

NewRow(m, s, from, at, covers) ==
    [status |-> "queued", mon |-> m, cron |-> s, from |-> from, at |-> at, covers |-> covers]

\* A client starts an integration run under the key that a fire of s at time t will use.
ClaimKey(s, t) ==
    /\ Request /\ events < MaxEvents
    /\ made < MaxRuns /\ s \in Integration /\ sched[s].state # "none" /\ sched[s].mon \in mons
    /\ <<s, t>> \notin claims
    /\ \A r \in 1..made : ~(rows[r].cron = s /\ rows[r].at = t)
    /\ claims' = claims \cup {<<s, t>>} /\ events' = events + 1
    /\ made' = made + 1
    /\ rows' = Dispatch([rows EXCEPT ![made + 1] = NewRow(sched[s].mon, 0, NoTime, NoTime, {})],
                        mons, {sched[s].mon})
    /\ UNCHANGED <<sched, mons, since, gone>>

\* A run ends, and its slot goes to the next one.
RunEnds(r) ==
    /\ Request
    /\ rows[r].status = "active"
    /\ rows' = Dispatch([rows EXCEPT ![r] = [@ EXCEPT !.status = "finished"]], mons, {rows[r].mon})
    /\ UNCHANGED <<sched, made, mons, claims, since, gone, events>>

-----------------------------------------------------------------------------
(* A tick *)

DueAt(s) == IF sched[s].pending_fire_at # NoTime THEN sched[s].pending_fire_at
            ELSE sched[s].next_fire_at

\* Mutant: a fire that is only pending is no candidate.
CandidatesDueOnly ==
    {s \in Schedules : /\ sched[s].state = "live" /\ sched[s].enabled
                       /\ sched[s].next_fire_at # NoTime /\ sched[s].next_fire_at <= now}

Candidates ==
    {s \in Schedules : /\ sched[s].state = "live" /\ sched[s].enabled
                       /\ \/ sched[s].pending_fire_at # NoTime
                          \/ sched[s].next_fire_at # NoTime /\ sched[s].next_fire_at <= now}

\* The timer fires while the last tick is over; without a candidate nothing happens.
StartTick ==
    /\ phase = "idle" /\ Candidates # {}
    /\ phase' = "scan" /\ todo' = Candidates
    /\ UNCHANGED <<sched, rows, made, mons, claims, targets, now, since, gone, events>>

\* Mutant: a later instant replaces the first one that is pending.
CoalescedForgetsFirst(c) ==
    IF c.next_fire_at = NoTime \/ c.next_fire_at > now THEN c
    ELSE [c EXCEPT !.next_fire_at = NextFire(c.expr, now),
                   !.pending_first_fire_at = c.next_fire_at,
                   !.pending_fire_at = FireAtOrBefore(c.expr, now)]

\* The missed instants become one pending fire, from the first one to the latest.
Coalesced(c) ==
    IF c.next_fire_at = NoTime \/ c.next_fire_at > now THEN c
    ELSE [c EXCEPT !.next_fire_at = NextFire(c.expr, now),
                   !.pending_first_fire_at = IF @ = NoTime THEN c.next_fire_at ELSE @,
                   !.pending_fire_at = FireAtOrBefore(c.expr, now)]

\* Mutant: a queued run does not count.
OutstandingIfActive(s) == \E r \in 1..MaxRuns : rows[r].cron = s /\ rows[r].status = "active"

Outstanding(s) ==
    \E r \in 1..MaxRuns : rows[r].cron = s /\ rows[r].status \in {"queued", "active"}

\* The candidate whose turn it is: ORDER BY COALESCE(pending_fire_at, next_fire_at), id.
IsNext(s) ==
    /\ phase = "scan" /\ s \in todo
    /\ \A u \in todo : DueAt(s) < DueAt(u) \/ (DueAt(s) = DueAt(u) /\ s <= u)

\* The transaction of s is over; after the last one the Mons are dispatched.
Scanned(s, enqueued) ==
    /\ todo' = todo \ {s}
    /\ targets' = targets \cup enqueued
    /\ phase' = IF todo # {s} THEN "scan" ELSE IF targets' = {} THEN "idle" ELSE "dispatch"

\* Its last run is outstanding: the fire stays pending.
Defer(s) ==
    /\ IsNext(s) /\ Outstanding(s)
    /\ sched' = [sched EXCEPT ![s] = Coalesced(@)]
    /\ Scanned(s, {})
    /\ UNCHANGED <<rows, made, mons, claims, now, since, gone, events>>

\* A run is created for the pending fire.
Fire(s) ==
    /\ IsNext(s) /\ ~Outstanding(s) /\ made < MaxRuns
    /\ LET c == Coalesced(sched[s])
       IN  /\ <<s, c.pending_fire_at>> \notin claims
           /\ made' = made + 1
           /\ rows' = [rows EXCEPT ![made + 1] =
                         NewRow(c.mon, s, c.pending_first_fire_at, c.pending_fire_at,
                                Between(c.expr, c.pending_first_fire_at, c.pending_fire_at))]
           /\ sched' = [sched EXCEPT ![s] = [c EXCEPT !.pending_first_fire_at = NoTime,
                                                      !.pending_fire_at = NoTime]]
           /\ Scanned(s, {c.mon})
    /\ since' = [since EXCEPT ![s] = now]
    /\ UNCHANGED <<mons, claims, now, gone, events>>

\* The execution key of the fire belongs to another request: the transaction is rolled back
\* and the error ends the tick, without the schedules that follow and without a dispatch.
Conflict(s) ==
    /\ IsNext(s) /\ ~Outstanding(s)
    /\ <<s, Coalesced(sched[s]).pending_fire_at>> \in claims
    /\ phase' = "idle" /\ todo' = {} /\ targets' = {}
    /\ UNCHANGED <<sched, rows, made, mons, claims, now, since, gone, events>>

TickSchedule == \E s \in Schedules : Defer(s) \/ Fire(s) \/ Conflict(s)

\* dispatchQueuedForMon() of one target; an error is reported and the next target follows.
DispatchTarget ==
    /\ phase = "dispatch"
    /\ \E m \in targets :
          /\ rows' = Dispatch(rows, mons, {m})
          /\ targets' = targets \ {m}
          /\ phase' = IF targets' = {} THEN "idle" ELSE "dispatch"
    /\ UNCHANGED <<sched, made, mons, claims, todo, now, since, gone, events>>

AdvanceClock ==
    /\ phase # "scan" /\ now < MaxTime
    /\ now' = now + 1
    /\ UNCHANGED <<sched, rows, made, mons, claims, phase, todo, targets, since, gone, events>>

\* Mutant: queued runs are not resumed on startup.
CrashAndForget(deleted) ==
    /\ events < MaxEvents /\ events' = events + 1
    /\ deleted = {}
    /\ rows' = [r \in 1..MaxRuns |-> IF rows[r].status = "active"
                                     THEN [rows[r] EXCEPT !.status = "finished"] ELSE rows[r]]
    /\ phase' = "idle" /\ todo' = {} /\ targets' = {}
    /\ UNCHANGED <<sched, made, mons, claims, now, since, gone>>

\* The service dies, perhaps between the two statements that delete a Mon, and comes back:
\* active runs are lost, queued ones are dispatched.
CrashAndRestart(deleted) ==
    /\ events < MaxEvents /\ events' = events + 1
    /\ deleted \subseteq mons
    /\ deleted = {} \/ (phase # "scan" /\ Cardinality(deleted) = 1)
    /\ mons' = mons \ deleted /\ gone' = gone \cup deleted
    /\ LET lost == [r \in 1..MaxRuns |-> IF rows[r].status = "active"
                                         THEN [rows[r] EXCEPT !.status = "finished"] ELSE rows[r]]
       IN  rows' = Dispatch(lost, mons', Mons)
    /\ phase' = "idle" /\ todo' = {} /\ targets' = {}
    /\ UNCHANGED <<sched, made, claims, now, since>>

-----------------------------------------------------------------------------
ScheduleRequest(s) ==
    \/ \E e \in Exprs, m \in Mons, enabled \in BOOLEAN :
          \/ Create(s, e, m, enabled)
          \/ \E rescheduled \in BOOLEAN : Update(s, e, m, rescheduled, enabled)
    \/ Delete(s)
    \/ \E t \in 1..MaxTime : ClaimKey(s, t)

Next ==
    \/ \E s \in Schedules : ScheduleRequest(s)
    \/ \E m \in Mons : DeleteMon(m) \/ UpsertMon(m)
    \/ \E r \in 1..MaxRuns : RunEnds(r)
    \/ StartTick \/ TickSchedule \/ DispatchTarget
    \/ AdvanceClock
    \/ \E deleted \in SUBSET Mons : CrashAndRestart(deleted)

Spec == Init /\ [][Next]_vars

\* The timer of the scheduler fires again and again, the event loop runs what is pending,
\* and harness processes end: their exit waits at most for the tick that holds the loop.
Fairness ==
    /\ WF_vars(StartTick) /\ WF_vars(TickSchedule) /\ WF_vars(DispatchTarget)
    /\ \A r \in 1..MaxRuns : SF_vars(RunEnds(r))

FairSpec == Spec /\ Fairness

-----------------------------------------------------------------------------
(* Properties *)

Enabled(s) == sched[s].state = "live" /\ sched[s].enabled

Owed(s) == IF Enabled(s) THEN Between(sched[s].expr, since[s] + 1, now) ELSE {}

\* A schedule has at most one queued or active run (run-model.md, "Cron Semantics"), however
\* ticks, changes of the schedule and crashes interleave.
AtMostOneOutstanding ==
    \A q, r \in 1..MaxRuns :
        /\ rows[q].cron # 0 /\ rows[q].cron = rows[r].cron
        /\ rows[q].status \in {"queued", "active"} /\ rows[r].status \in {"queued", "active"}
        => q = r

\* The intervals two fires of a schedule coalesce never overlap: no instant runs twice.
FiresDisjoint ==
    \A q, r \in 1..MaxRuns :
        rows[q].cron # 0 /\ rows[q].cron = rows[r].cron /\ q < r => rows[q].at < rows[r].from

\* What the columns hold is what is owed: the pending interval, then next_fire_at onwards.
ColumnsHoldWhatIsOwed ==
    \A s \in Schedules :
        Enabled(s) =>
           Owed(s) = (IF sched[s].pending_fire_at = NoTime THEN {}
                      ELSE Between(sched[s].expr, sched[s].pending_first_fire_at,
                                   sched[s].pending_fire_at))
                     \cup Between(sched[s].expr, sched[s].next_fire_at, now)

\* No queued run waits beside a free slot of its Mon unless the tick will dispatch it.  A
\* claimed key may end the tick before, and a Mon that comes back is not dispatched.
QueuedRunIsDispatched ==
    claims = {} =>
        \A m \in Mons \ gone :
            Queued(rows, m) # {} /\ Cardinality(Active(rows, m)) < Limit[m]
            => m \in targets /\ phase # "idle"

\* The state invariant: the parts above, together.
ScheduleInv == TypeOK /\ AtMostOneOutstanding /\ FiresDisjoint /\ ColumnsHoldWhatIsOwed
               /\ QueuedRunIsDispatched

Contract == INSTANCE CronContract WITH
    Instants <- 1..MaxTime,
    owed <- [s \in Schedules |-> Owed(s)],
    covered <- [s \in Schedules |-> UNION {rows[r].covers : r \in {q \in 1..MaxRuns : rows[q].cron = s}}],
    open <- {s \in Schedules : Outstanding(s)}

\* The tables implement the contract of a schedule: each instant that comes while it is in
\* force is covered by exactly one run or is still owed.
ImplementsContract == Contract!Spec

\* What a schedule owes is run in the end, or the schedule is changed, unless a key was
\* claimed or its Mon was deleted.
OwedIsRun ==
    \A s \in Schedules :
        (Owed(s) # {}) ~> (Owed(s) = {} \/ claims # {} \/ sched[s].mon \in gone)
=============================================================================
