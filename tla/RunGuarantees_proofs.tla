------------------------ MODULE RunGuarantees_proofs ------------------------
(***************************************************************************)
(* More theorems about the run manager: what a slot, a shown status, an    *)
(* outcome, a lost run and a start stand for.  The invariant is stated run *)
(* by run.  A handler writes one run and then dispatches, which writes one *)
(* more, so each lemma says what becomes of that run, and Same says that   *)
(* the others are as they were.                                            *)
(***************************************************************************)
EXTENDS RunManager_proofs

-----------------------------------------------------------------------------
(* Which launches and crashes a guarantee is about *)

\* No harness process reports an 'error' event after spawn() has returned.
NoEvent == "event" \notin Launches

\* No launch fails while the MCP servers of the attempt are prepared.
NoMcp == "mcp" \notin Launches

\* Launches start a process or are rejected by the runner, and the service never crashes.
Sheltered == Launches \subseteq {"spawned", "reject"} /\ MaxCrashes = 0

-----------------------------------------------------------------------------
(* The invariant, run by run *)

Dead(s, r) == \A k : <<r, k>> \notin s.procs

LastIs(s, r, status) == s.att[r] # << >> /\ s.att[r][Len(s.att[r])].status = status

EarlierFailed(s, r) ==
    \A k \in DOMAIN s.att[r] : k < Len(s.att[r]) => s.att[r][k].status = "failed"

\* Events carry attempt numbers that were handed out, and a process is an open attempt.
Known(s, r) ==
    /\ s.run[r].status \in {"none", "queued"} => Dead(s, r)
    /\ \A k : <<r, k>> \in s.procs => IsOpen(s, r, k)
    /\ \A k : <<r, k>> \in s.errors => k \in DOMAIN s.att[r]
    /\ \A w \in s.pending : w.run = r => w.attempt \in DOMAIN s.att[r]

\* What the rows say of each other, whatever goes wrong.
Book(s, r) ==
    /\ s.run[r].status = "none" => s.att[r] = << >> /\ s.ext[r] = NoExt
    /\ s.run[r].status = "queued" => s.att[r] = << >> \/ LastIs(s, r, "failed")
    /\ EarlierFailed(s, r)
    /\ LastIs(s, r, "lost") => s.run[r].status = "finished"
    /\ s.ext[r].outcome = "succeeded" =>
          /\ s.ext[r].phase = "terminal"
          /\ LastIs(s, r, "succeeded")
          /\ r \in ReceiptRuns => s.ext[r].completion_digest # "none"
    /\ s.ext[r].exited_clean /\ ExtOpen(s, r) => LastIs(s, r, "succeeded")
    /\ s.ext[r].phase = "cancelling" => CancellationAsked(s, r)
    /\ s.run[r].status # "finished" /\ ExtOpen(s, r) /\ s.run[r].runtime_state = "cancelling"
          => CancellationAsked(s, r)
    /\ s.run[r].status \in {"none", "queued"} => ~s.running[r].stop
    /\ s.run[r].status # "finished" /\ ExtOpen(s, r) /\ s.running[r].stop
          => CancellationAsked(s, r)

FailureFinal(s, r) ==
    LastIs(s, r, "failed") /\ s.att[r][Len(s.att[r])].retry_at = "none"
        => s.run[r].status = "finished"

AttemptsLeft(s, r) ==
    /\ Len(s.att[r]) <= MaxAttempts
    /\ s.run[r].status = "queued" => Len(s.att[r]) < MaxAttempts

AssignmentKept(s, r) ==
    /\ s.asg[r] # "none" =>
          /\ r \in PlanRuns
          /\ s.run[r].status # "none"
          /\ s.run[r].status = "queued" => s.asg[r] = "queued"
          /\ s.run[r].status \in ProcessBacked => s.asg[r] = "active"
          /\ s.run[r].status = "finished" => s.asg[r] = AssignmentStatusFor(s.run[r])
    /\ s.ext[r].phase # "none" => r \in External

\* What they say besides, under the launches that keep it so.
Kept(s, r) ==
    /\ NoEvent /\ NoMcp => FailureFinal(s, r)
    /\ NoMcp => AttemptsLeft(s, r)
    /\ Sheltered => AssignmentKept(s, r)

\* A slot stands for an entry of the running map, a process, or a launch under way.
Live(s, r) ==
    /\ r \in s.slots =>
          \/ s.running[r].attempt # 0
          \/ ~Dead(s, r)
          \/ /\ HasOpenAttempt(s, r)
             /\ \/ \E w \in s.pending : w.run = r /\ w.attempt = Len(s.att[r])
                \/ <<r, Len(s.att[r])>> \in s.errors
    /\ LastIs(s, r, "lost") => \A w \in s.pending : w.run # r

\* Where no 'error' event comes late, statuses, entries, slots and processes agree.
Calm(s, r) ==
    /\ \A k : <<r, k>> \notin s.errors
    /\ s.running[r].attempt # 0 => <<r, s.running[r].attempt>> \in s.procs
    /\ r \in s.slots => ~Dead(s, r) \/ \E w \in s.pending : w.run = r /\ w.rejected
    /\ \A k : <<r, k>> \in s.procs =>
          \/ s.running[r].attempt = k
          \/ \E w \in s.pending : w.run = r /\ w.attempt = k /\ ~w.rejected
    /\ \A w \in s.pending : w.run = r =>
          /\ IsOpen(s, r, w.attempt) /\ r \in s.slots /\ s.running[r].attempt = 0
          /\ s.run[r].status = "starting"
          /\ ~w.rejected => <<r, w.attempt>> \in s.procs
    /\ s.run[r].status = "starting" => \E w \in s.pending : w.run = r
    /\ s.run[r].status = "active" => s.running[r].attempt # 0

\* And, where nothing crashes, an open attempt has its process.
OpenLives(s, r) == HasOpenAttempt(s, r) => ~Dead(s, r) \/ \E w \in s.pending : w.run = r

Fine(s, r) ==
    /\ Known(s, r) /\ Book(s, r) /\ Kept(s, r) /\ Live(s, r)
    /\ NoEvent => Calm(s, r)
    /\ Sheltered => OpenLives(s, r)

\* The invariant of a service that runs; without late events launches do not overlap.
Sound(s) ==
    /\ s \in State
    /\ s.service # "down"
    /\ \A r \in Runs : Fine(s, r)
    /\ NoEvent => \A v, w \in s.pending : v = w
    /\ Sheltered => s.service = "up"

Forgotten(s) ==
    /\ s.procs = {} /\ s.pending = {} /\ s.errors = {}
    /\ \A r \in Runs : s.running[r] = NotRunning

Guaranteed(s) ==
    /\ Good(s)
    /\ s.service # "down" => Sound(s)
    /\ s.service = "down" => Forgotten(s) /\ ~Sheltered /\ \A r \in Runs : Book(s, r) /\ Kept(s, r)

-----------------------------------------------------------------------------
(* What a handler leaves alone *)

\* Run q is in t as it was in s.
Same(s, t, q) ==
    /\ t.run[q] = s.run[q] /\ t.att[q] = s.att[q] /\ t.ext[q] = s.ext[q]
    /\ t.asg[q] = s.asg[q] /\ t.running[q] = s.running[q]
    /\ q \in t.slots <=> q \in s.slots
    /\ \A k : <<q, k>> \in t.procs <=> <<q, k>> \in s.procs
    /\ \A k : <<q, k>> \in t.errors <=> <<q, k>> \in s.errors
    /\ \A w : w.run = q => (w \in t.pending <=> w \in s.pending)

\* Neither a write to run r nor a timer of its own concerns the other runs.
Others(s, t, r) ==
    \A q \in Runs : q # r => Same(s, t, q) /\ (q \in t.timers <=> q \in s.timers)

\* A step that writes nothing but the fields F of run r, and neither starts nor ends anything.
Wrote(s, t, r, F) ==
    /\ t \in State /\ t.service = s.service /\ t.resume = s.resume
    /\ Others(s, t, r)
    /\ t.procs = s.procs /\ t.pending = s.pending /\ t.errors = s.errors
    /\ "run" \in F \/ t.run[r] = s.run[r]
    /\ "att" \in F \/ t.att[r] = s.att[r]
    /\ "ext" \in F \/ t.ext[r] = s.ext[r]
    /\ "asg" \in F \/ t.asg[r] = s.asg[r]
    /\ "running" \in F \/ t.running[r] = s.running[r]
    /\ "slots" \in F \/ (r \in t.slots <=> r \in s.slots)
    /\ "timers" \in F \/ (r \in t.timers <=> r \in s.timers)

\* Such steps compose.
LEMMA WroteTwice ==
    ASSUME NEW s, NEW t, NEW u, NEW r, NEW F, NEW G, NEW H,
           Wrote(s, t, r, F), Wrote(t, u, r, G), F \cup G \subseteq H
    PROVE  Wrote(s, u, r, H)
<1>1. Others(s, u, r)
  BY DEF Wrote, Others, Same
<1>. QED BY <1>1 DEF Wrote

\* A run that is as it was is as fine as it was.
LEMMA SameFine ==
    ASSUME NEW s \in State, NEW t \in State, NEW q \in Runs, Same(s, t, q), Fine(s, q)
    PROVE  Fine(t, q)
<1>1. \A w \in s.pending \cup t.pending : w.run = q => (w \in t.pending <=> w \in s.pending)
  BY DEF Same
<1>2. Dead(t, q) <=> Dead(s, q)
  BY DEF Same, Dead
<1>3. \A status : LastIs(t, q, status) <=> LastIs(s, q, status)
  BY DEF Same, LastIs
<1>4. /\ \A k : IsOpen(t, q, k) <=> IsOpen(s, q, k)
      /\ HasOpenAttempt(t, q) <=> HasOpenAttempt(s, q)
  BY DEF Same, IsOpen, HasOpenAttempt
<1>5. (ExtOpen(t, q) <=> ExtOpen(s, q)) /\ (CancellationAsked(t, q) <=> CancellationAsked(s, q))
  BY DEF Same, ExtOpen, CancellationAsked
<1>6. Known(t, q)
  BY <1>2, <1>4 DEF Same, Fine, Known
<1>7. Book(t, q)
  BY <1>3, <1>5 DEF Same, Fine, Book, EarlierFailed
<1>8. Kept(t, q)
  BY <1>3 DEF Same, Fine, Kept, FailureFinal, AttemptsLeft, AssignmentKept
<1>9. Live(t, q)
  BY <1>2, <1>3, <1>4 DEF Same, Fine, Live
<1>10. Calm(s, q) => Calm(t, q)
  BY <1>2, <1>4 DEF Same, Calm
<1>11. OpenLives(s, q) => OpenLives(t, q)
  BY <1>2, <1>4 DEF Same, OpenLives
<1>. QED BY <1>6, <1>7, <1>8, <1>9, <1>10, <1>11 DEF Fine

\* One write: to the row of a run,
LEMMA WriteRun ==
    ASSUME NEW s \in State, NEW r \in Runs, NEW row \in RunRow
    PROVE  LET t == [s EXCEPT !.run[r] = row]
           IN  Wrote(s, t, r, {"run"}) /\ t.run[r] = row
BY DEF State, Wrote, Others, Same

\* the attempts of a run,
LEMMA WriteAtt ==
    ASSUME NEW s \in State, NEW r \in Runs, NEW rows \in Seq(AttemptRow)
    PROVE  LET t == [s EXCEPT !.att[r] = rows]
           IN  Wrote(s, t, r, {"att"}) /\ t.att[r] = rows
BY DEF State, Wrote, Others, Same

\* its external execution,
LEMMA WriteExt ==
    ASSUME NEW s \in State, NEW r \in Runs, NEW row \in ExtRow
    PROVE  LET t == [s EXCEPT !.ext[r] = row]
           IN  Wrote(s, t, r, {"ext"}) /\ t.ext[r] = row
BY DEF State, Wrote, Others, Same

\* its plan assignment,
LEMMA WriteAsg ==
    ASSUME NEW s \in State, NEW r \in Runs, NEW status \in AssignmentStatus
    PROVE  LET t == [s EXCEPT !.asg[r] = status]
           IN  Wrote(s, t, r, {"asg"}) /\ t.asg[r] = status
BY DEF State, Wrote, Others, Same

\* its entry of the running map,
LEMMA WriteRunning ==
    ASSUME NEW s \in State, NEW r \in Runs, NEW e \in RunningRun
    PROVE  LET t == [s EXCEPT !.running[r] = e]
           IN  Wrote(s, t, r, {"running"}) /\ t.running[r] = e
BY DEF State, Wrote, Others, Same

\* the retry timers,
LEMMA WriteTimers ==
    ASSUME NEW s \in State, NEW r \in Runs, NEW T \in SUBSET Runs,
           \A q \in Runs : q # r => (q \in T <=> q \in s.timers)
    PROVE  Wrote(s, [s EXCEPT !.timers = T], r, {"timers"})
BY DEF State, Wrote, Others, Same

\* its slot row,
LEMMA WriteSlots ==
    ASSUME NEW s \in State, NEW r \in Runs
    PROVE  /\ Wrote(s, ReserveSlot(s, r), r, {"slots"}) /\ r \in ReserveSlot(s, r).slots
           /\ Wrote(s, ReleaseSlot(s, r), r, {"slots"}) /\ r \notin ReleaseSlot(s, r).slots
BY DEF State, Wrote, Others, Same, ReserveSlot, ReleaseSlot

\* or nothing at all.
LEMMA WroteNothing ==
    ASSUME NEW s \in State, NEW r
    PROVE  Wrote(s, s, r, {})
BY DEF Wrote, Others, Same

\* What such a step writes has its type.
LEMMA WroteState ==
    ASSUME NEW s, NEW t, NEW r \in Runs, NEW F, Wrote(s, t, r, F)
    PROVE  /\ t \in State
           /\ t.run[r] \in RunRow /\ t.ext[r] \in ExtRow /\ t.att[r] \in Seq(AttemptRow)
           /\ t.running[r] \in RunningRun /\ t.asg[r] \in AssignmentStatus
BY DEF Wrote, State

-----------------------------------------------------------------------------
(* The statements of the store *)

\* b is a with another last attempt.
Replaced(a, b, row) ==
    /\ a # << >> /\ b # << >> /\ b \in Seq(AttemptRow)
    /\ Len(b) = Len(a) /\ DOMAIN b = DOMAIN a
    /\ b[Len(a)] = row
    /\ \A j \in DOMAIN a : j < Len(a) => b[j] = a[j]

\* b is a with one more attempt.
Extended(a, b, row) ==
    /\ b # << >> /\ b \in Seq(AttemptRow)
    /\ Len(b) = Len(a) + 1 /\ DOMAIN b = DOMAIN a \cup {Len(b)} /\ Len(b) \notin DOMAIN a
    /\ b[Len(b)] = row
    /\ \A j \in DOMAIN a : b[j] = a[j]

\* A new attempt that is then rewritten is a new attempt.
LEMMA ExtendedReplaced ==
    ASSUME NEW a, NEW b, NEW c, NEW x, NEW row, a \in Seq(AttemptRow),
           Extended(a, b, x), Replaced(b, c, row)
    PROVE  Extended(a, c, row)
<1>1. Len(a) \in Nat /\ DOMAIN a = 1 .. Len(a) /\ Len(b) = Len(a) + 1
  BY DEF Extended
<1>2. Len(c) = Len(b) /\ DOMAIN c = DOMAIN b /\ c \in Seq(AttemptRow) /\ c # << >> /\ c[Len(c)] = row
  BY DEF Replaced
<1>3. \A j \in DOMAIN a : c[j] = a[j]
  <2> SUFFICES ASSUME NEW j \in DOMAIN a
               PROVE  c[j] = a[j]
    OBVIOUS
  <2>1. j \in DOMAIN b /\ b[j] = a[j]
    BY DEF Extended
  <2>2. j < Len(b)
    BY <1>1
  <2>. QED BY <2>1, <2>2 DEF Replaced
<1>. QED BY <1>1, <1>2, <1>3 DEF Extended

\* The open attempt is the last one.
LEMMA OpenLast ==
    ASSUME NEW s \in State, NEW r \in Runs, EarlierFailed(s, r), NEW k, IsOpen(s, r, k)
    PROVE  /\ k = Len(s.att[r]) /\ k \in Nat \ {0}
           /\ s.att[r] # << >> /\ HasOpenAttempt(s, r)
           /\ s.att[r][k] \in AttemptRow
<1>1. s.att[r] \in Seq(AttemptRow)
  BY DEF State
<1>2. k \in 1 .. Len(s.att[r]) /\ ~(k < Len(s.att[r]))
  BY <1>1 DEF EarlierFailed, IsOpen, OpenAttempt
<1>3. k = Len(s.att[r]) /\ k \in Nat \ {0}
  BY <1>1, <1>2
<1>. QED BY <1>1, <1>2, <1>3 DEF IsOpen, HasOpenAttempt

\* Writing the last attempt of a run.
LEMMA WriteLast ==
    ASSUME NEW s \in State, NEW r \in Runs, s.att[r] # << >>, NEW row \in AttemptRow
    PROVE  LET t == [s EXCEPT !.att[r][Len(s.att[r])] = row]
           IN  Wrote(s, t, r, {"att"}) /\ Replaced(s.att[r], t.att[r], row)
<1> DEFINE a == s.att[r]
           b == [a EXCEPT ![Len(a)] = row]
<1>1. a \in Seq(AttemptRow) /\ Len(a) \in 1 .. Len(a)
  BY DEF State
<1>2. b \in Seq(AttemptRow) /\ Replaced(a, b, row)
  BY <1>1, SMTT(30) DEF Replaced
<1>3. [s EXCEPT !.att[r][Len(a)] = row] = [s EXCEPT !.att[r] = b]
  OBVIOUS
<1>4. LET t == [s EXCEPT !.att[r] = b]
      IN  Wrote(s, t, r, {"att"}) /\ t.att[r] = b
  <2> HIDE DEF b
  <2>. QED BY <1>2, WriteAtt
<1> HIDE DEF b
<1>. QED BY <1>2, <1>3, <1>4 DEF a

\* finish() of the open attempt.
LEMMA FinishWrites ==
    ASSUME NEW s \in State, NEW r \in Runs, EarlierFailed(s, r), NEW k, IsOpen(s, r, k),
           NEW status \in AttemptStatus, NEW retryAt \in {"none", "future", "due"}
    PROVE  LET t == FinishAttempt(s, r, k, status, retryAt)
           IN  /\ Wrote(s, t, r, {"att"})
               /\ Replaced(s.att[r], t.att[r], [status |-> status, retry_at |-> retryAt])
<1> DEFINE row == [status |-> status, retry_at |-> retryAt]
<1>1. row \in AttemptRow
  BY DEF AttemptRow
<1>2. k = Len(s.att[r]) /\ s.att[r] # << >>
  BY OpenLast
<1>3. FinishAttempt(s, r, k, status, retryAt) = [s EXCEPT !.att[r][Len(s.att[r])] = row]
  BY <1>2 DEF FinishAttempt
<1> HIDE DEF row
<1>4. LET t == FinishAttempt(s, r, k, status, retryAt)
      IN  Wrote(s, t, r, {"att"}) /\ Replaced(s.att[r], t.att[r], row)
  BY <1>1, <1>2, <1>3, WriteLast
<1>. QED BY <1>4 DEF row

\* markActive() of the open attempt.
LEMMA MarkActiveWrites ==
    ASSUME NEW s \in State, NEW r \in Runs, EarlierFailed(s, r), NEW k, IsOpen(s, r, k)
    PROVE  LET t == MarkAttemptActive(s, r, k)
               row == [s.att[r][k] EXCEPT !.status = "active"]
           IN  /\ Wrote(s, t, r, {"att"})
               /\ Replaced(s.att[r], t.att[r], row)
               /\ row.status = "active"
<1> DEFINE row == [s.att[r][k] EXCEPT !.status = "active"]
<1>2. k = Len(s.att[r]) /\ s.att[r] # << >> /\ s.att[r][k] \in AttemptRow
  BY OpenLast
<1>1. row \in AttemptRow /\ row.status = "active"
  BY <1>2 DEF AttemptRow, AttemptStatus
<1>3. MarkAttemptActive(s, r, k) = [s EXCEPT !.att[r][Len(s.att[r])] = row]
  BY <1>2 DEF MarkAttemptActive
<1> HIDE DEF row
<1>4. LET t == MarkAttemptActive(s, r, k)
      IN  Wrote(s, t, r, {"att"}) /\ Replaced(s.att[r], t.att[r], row)
  BY <1>1, <1>2, <1>3, WriteLast
<1>. QED BY <1>1, <1>4 DEF row

\* begin() of a run without an open attempt.
LEMMA BeginWrites ==
    ASSUME NEW s \in State, NEW r \in Runs, ~HasOpenAttempt(s, r)
    PROVE  LET t == BeginAttempt(s, r)
           IN  /\ Wrote(s, t, r, {"att"})
               /\ Extended(s.att[r], t.att[r], [status |-> "starting", retry_at |-> "none"])
<1> DEFINE row == [status |-> "starting", retry_at |-> "none"]
           a == s.att[r]
           b == Append(a, row)
<1>1. row \in AttemptRow
  BY DEF AttemptRow, AttemptStatus
<1>2. a \in Seq(AttemptRow)
  BY DEF State
<1>3. BeginAttempt(s, r) = [s EXCEPT !.att[r] = b]
  BY DEF BeginAttempt
<1> HIDE DEF row, a
<1>4. b \in Seq(AttemptRow) /\ Extended(a, b, row)
  BY <1>1, <1>2 DEF Extended
<1>5. LET t == [s EXCEPT !.att[r] = b]
      IN  Wrote(s, t, r, {"att"}) /\ t.att[r] = b
  <2> HIDE DEF b
  <2>. QED BY <1>4, WriteAtt
<1> HIDE DEF b
<1>. QED BY <1>3, <1>4, <1>5 DEF row, a

\* Clearing a retry timer writes nothing the invariant speaks of.
LEMMA ClearTimerWrites ==
    ASSUME NEW s \in State, NEW r \in Runs
    PROVE  Wrote(s, ClearRetryTimer(s, r), r, {"timers"}) /\ r \notin ClearRetryTimer(s, r).timers
<1>1. s.timers \ {r} \in SUBSET Runs
  BY DEF State
<1>2. ClearRetryTimer(s, r).timers = s.timers \ {r}
  BY DEF ClearRetryTimer, State
<1>. QED BY <1>1, <1>2, WriteTimers DEF ClearRetryTimer

\* The status an assignment has after an update.
Assigned(old, status) == IF old = "none" THEN "none" ELSE status

\* updateAssignment() of the assignment that generated the run.
LEMMA AssignmentWrites ==
    ASSUME NEW s \in State, NEW r \in Runs, NEW status \in AssignmentStatus
    PROVE  LET t == UpdateAssignment(s, r, status)
           IN  Wrote(s, t, r, {"asg"}) /\ t.asg[r] = Assigned(s.asg[r], status)
<1>1. CASE s.asg[r] = "none"
  BY <1>1, WroteNothing DEF UpdateAssignment, Assigned, Wrote
<1>2. CASE s.asg[r] # "none"
  BY <1>2, WriteAsg DEF UpdateAssignment, Assigned
<1>. QED BY <1>1, <1>2

\* The external execution of run r is written if it is open, see ExtOpen.
WroteOpenExt(s, t, r, row) ==
    /\ Wrote(s, t, r, {"ext"})
    /\ ExtOpen(s, r) => t.ext[r] = row
    /\ ~ExtOpen(s, r) => t.ext[r] = s.ext[r]

\* Every update of an execution but a completion has that form.
LEMMA OpenExtWrites ==
    ASSUME NEW s \in State, NEW r \in Runs, NEW row \in ExtRow
    PROVE  WroteOpenExt(s, IF ExtOpen(s, r) THEN [s EXCEPT !.ext[r] = row] ELSE s, r, row)
<1>1. CASE ExtOpen(s, r)
  BY <1>1, WriteExt DEF WroteOpenExt
<1>2. CASE ~ExtOpen(s, r)
  <2>1. Wrote(s, s, r, {"ext"})
    BY WroteNothing DEF Wrote
  <2>. QED BY <1>2, <2>1 DEF WroteOpenExt
<1>. QED BY <1>1, <1>2

\* updatePhase(), markAttemptStartingByRun() and scheduleRetryByRun().
LEMMA PhaseWrites ==
    ASSUME NEW s \in State, NEW r \in Runs
    PROVE  /\ \A phase \in Phase : WroteOpenExt(s, UpdatePhase(s, r, phase), r,
                                                [s.ext[r] EXCEPT !.phase = phase])
           /\ WroteOpenExt(s, MarkAttemptStartingByRun(s, r), r,
                           [s.ext[r] EXCEPT !.phase = "starting", !.outcome = "none"])
           /\ s.ext[r].cancellation_state = "none" =>
                 WroteOpenExt(s, ScheduleRetryByRun(s, r), r,
                              [s.ext[r] EXCEPT !.phase = "queued", !.outcome = "none"])
           /\ s.ext[r].cancellation_state # "none" => ScheduleRetryByRun(s, r) = s
<1>1. s.ext[r] \in ExtRow
  BY ExtRowOf
<1>2. ASSUME NEW phase \in Phase
      PROVE  WroteOpenExt(s, UpdatePhase(s, r, phase), r, [s.ext[r] EXCEPT !.phase = phase])
  <2>1. [s.ext[r] EXCEPT !.phase = phase] \in ExtRow
    BY <1>1, ExtFields
  <2>. QED BY <2>1, OpenExtWrites DEF UpdatePhase
<1>3. [s.ext[r] EXCEPT !.phase = "starting", !.outcome = "none"] \in ExtRow
  BY <1>1 DEF ExtRow, Phase, ExtOutcome
<1>4. [s.ext[r] EXCEPT !.phase = "queued", !.outcome = "none"] \in ExtRow
  BY <1>1 DEF ExtRow, Phase, ExtOutcome
<1>5. WroteOpenExt(s, MarkAttemptStartingByRun(s, r), r,
                   [s.ext[r] EXCEPT !.phase = "starting", !.outcome = "none"])
  BY <1>3, OpenExtWrites DEF MarkAttemptStartingByRun
<1>6. ASSUME s.ext[r].cancellation_state = "none"
      PROVE  WroteOpenExt(s, ScheduleRetryByRun(s, r), r,
                          [s.ext[r] EXCEPT !.phase = "queued", !.outcome = "none"])
  BY <1>4, <1>6, OpenExtWrites DEF ScheduleRetryByRun
<1>7. s.ext[r].cancellation_state # "none" => ScheduleRetryByRun(s, r) = s
  BY DEF ScheduleRetryByRun
<1>. QED BY <1>2, <1>5, <1>6, <1>7

\* recordProcessExit().
LEMMA RecordExitWrites ==
    ASSUME NEW s \in State, NEW r \in Runs, NEW exit
    PROVE  WroteOpenExt(s, RecordProcessExit(s, r, exit), r, ExitedRow(s, r, exit))
<1>1. ExitedRow(s, r, exit) \in ExtRow
  <2> DEFINE row == s.ext[r]
             new == ExitedRow(s, r, exit)
             first == [row EXCEPT !.phase = new.phase]
             second == [first EXCEPT !.outcome = new.outcome]
             third == [second EXCEPT !.cancellation_state = new.cancellation_state]
  <2>1. /\ row \in ExtRow /\ row.cancellation_state \in CancellationState
    BY ExtRowOf, ExtFields
  <2>2. /\ new.phase \in Phase /\ new.outcome \in ExtOutcome
        /\ new.cancellation_state \in CancellationState /\ new.exited_clean \in BOOLEAN
    BY <2>1 DEF ExitedRow, ExtRow, Phase, ExtOutcome, CancellationState
  <2>3. new = [third EXCEPT !.exited_clean = new.exited_clean]
    BY <2>1 DEF ExitedRow, ExtRow
  <2> HIDE DEF row, new
  <2>4. first \in ExtRow
    BY <2>1, <2>2, ExtFields
  <2> HIDE DEF first
  <2>5. second \in ExtRow
    BY <2>2, <2>4, ExtFields
  <2> HIDE DEF second
  <2>6. third \in ExtRow
    BY <2>2, <2>5, ExtFields
  <2> HIDE DEF third
  <2>7. ExitedRow(s, r, exit) \in ExtRow
    BY <2>2, <2>3, <2>6, ExtFields DEF new
  <2>. QED BY <2>7
<1>. QED BY <1>1, OpenExtWrites DEF RecordProcessExit

\* What a failure makes of an execution.
FailedRow(s, r, cancellation) ==
    [s.ext[r] EXCEPT !.phase = "terminal", !.outcome = "failed",
                     !.cancellation_state = IF cancellation = "keep"
                                            THEN s.ext[r].cancellation_state ELSE cancellation]

\* Field by field.
LEMMA FailedFields ==
    ASSUME NEW s \in State, NEW r \in Runs, NEW cancellation
    PROVE  LET row == FailedRow(s, r, cancellation)
           IN  /\ row.phase = "terminal" /\ row.outcome = "failed"
               /\ row.exited_clean = s.ext[r].exited_clean
               /\ row.completion_digest = s.ext[r].completion_digest
               /\ cancellation = "keep" => row.cancellation_state = s.ext[r].cancellation_state
               /\ cancellation # "keep" => row.cancellation_state = cancellation
<1>1. s.ext[r] \in ExtRow
  BY ExtRowOf
<1> DEFINE c == IF cancellation = "keep" THEN s.ext[r].cancellation_state ELSE cancellation
<1>2. FailedRow(s, r, cancellation) =
         [s.ext[r] EXCEPT !.phase = "terminal", !.outcome = "failed", !.cancellation_state = c]
  BY DEF FailedRow
<1>3. /\ cancellation = "keep" => c = s.ext[r].cancellation_state
      /\ cancellation # "keep" => c = cancellation
  OBVIOUS
<1> HIDE DEF c
<1>. QED BY <1>1, <1>2, <1>3 DEF ExtRow

\* markFailedByRun().
LEMMA MarkFailedWrites ==
    ASSUME NEW s \in State, NEW r \in Runs, NEW cancellation \in {"keep", "failed", "lost"}
    PROVE  WroteOpenExt(s, MarkFailedByRun(s, r, cancellation), r, FailedRow(s, r, cancellation))
<1>1. FailedRow(s, r, cancellation) \in ExtRow
  BY ExtRowOf, ExtFields DEF FailedRow, Phase, ExtOutcome, CancellationState
<1>2. MarkFailedByRun(s, r, cancellation) =
         IF ExtOpen(s, r) THEN [s EXCEPT !.ext[r] = FailedRow(s, r, cancellation)] ELSE s
  BY DEF MarkFailedByRun, FailedRow
<1>. QED BY <1>1, <1>2, OpenExtWrites

\* What a request to cancel makes of an execution.
AskedRow(s, r, idle) ==
    [s.ext[r] EXCEPT !.phase = IF idle THEN "terminal" ELSE "cancelling",
                     !.outcome = IF idle THEN "cancelled" ELSE "none",
                     !.cancellation_state = IF idle THEN "acknowledged" ELSE "requested"]

\* requestCancellation().
LEMMA RequestCancellationWrites ==
    ASSUME NEW s \in State, NEW r \in Runs, NEW idle \in BOOLEAN
    PROVE  WroteOpenExt(s, RequestCancellation(s, r, idle), r, AskedRow(s, r, idle))
<1>1. AskedRow(s, r, idle) \in ExtRow
  BY ExtRowOf, ExtFields DEF AskedRow, Phase, ExtOutcome, CancellationState
<1>2. RequestCancellation(s, r, idle) =
         IF ExtOpen(s, r) THEN [s EXCEPT !.ext[r] = AskedRow(s, r, idle)] ELSE s
  BY DEF RequestCancellation, AskedRow
<1>. QED BY <1>1, <1>2, OpenExtWrites

\* markCancellationSignalled().
LEMMA SignalledWrites ==
    ASSUME NEW s \in State, NEW r \in Runs
    PROVE  LET t == MarkCancellationSignalled(s, r)
           IN  /\ Wrote(s, t, r, {"ext"})
               /\ \/ t.ext[r] = s.ext[r]
                  \/ /\ s.ext[r].phase = "cancelling"
                     /\ s.ext[r].cancellation_state = "requested"
                     /\ t.ext[r] = [s.ext[r] EXCEPT !.cancellation_state = "signalled"]
<1>1. [s.ext[r] EXCEPT !.cancellation_state = "signalled"] \in ExtRow
  BY ExtRowOf DEF ExtRow, CancellationState
<1>2. Wrote(s, s, r, {"ext"})
  BY WroteNothing DEF Wrote
<1>. QED BY <1>1, <1>2, WriteExt DEF MarkCancellationSignalled

\* What a completion makes of an execution.
CompletedRow(s, r, digest) ==
    [s.ext[r] EXCEPT !.completion_digest = digest,
                     !.phase = IF s.ext[r].exited_clean THEN "terminal" ELSE s.ext[r].phase,
                     !.outcome = IF s.ext[r].exited_clean THEN "succeeded" ELSE s.ext[r].outcome]

\* recordCompletion().
LEMMA CompletionWrites ==
    ASSUME NEW s \in State, NEW r \in Runs, NEW digest \in Digests
    PROVE  LET t == RecordCompletion(s, r, digest)
           IN  /\ Wrote(s, t, r, {"ext"})
               /\ s.ext[r].completion_digest # "none" => t.ext[r] = s.ext[r]
               /\ s.ext[r].completion_digest = "none" => t.ext[r] = CompletedRow(s, r, digest)
<1>1. CompletedRow(s, r, digest) \in ExtRow
  <2> DEFINE row == s.ext[r]
             phase == IF row.exited_clean THEN "terminal" ELSE row.phase
             outcome == IF row.exited_clean THEN "succeeded" ELSE row.outcome
             first == [row EXCEPT !.completion_digest = digest]
             second == [first EXCEPT !.phase = phase]
  <2>1. row \in ExtRow
    BY ExtRowOf
  <2>2. phase \in Phase /\ outcome \in ExtOutcome
    BY <2>1, ExtFields DEF Phase, ExtOutcome
  <2>3. CompletedRow(s, r, digest) = [second EXCEPT !.outcome = outcome]
    BY DEF CompletedRow
  <2> HIDE DEF row, phase, outcome
  <2>4. first \in ExtRow
    BY <2>1, ExtFields
  <2> HIDE DEF first
  <2>5. second \in ExtRow
    BY <2>2, <2>4, ExtFields
  <2> HIDE DEF second
  <2>. QED BY <2>2, <2>3, <2>5, ExtFields
<1>2. RecordCompletion(s, r, digest) =
         IF s.ext[r].completion_digest # "none" THEN s
         ELSE [s EXCEPT !.ext[r] = CompletedRow(s, r, digest)]
  BY DEF RecordCompletion, CompletedRow
<1>3. Wrote(s, s, r, {"ext"})
  BY WroteNothing DEF Wrote
<1>. QED BY <1>1, <1>2, <1>3, WriteExt

-----------------------------------------------------------------------------
(* What a handler may do to a run before it dispatches, and what a dispatch may do *)

\* A lost run stays as it is.
Stays(s, t, r) ==
    /\ t.run[r].status = "finished"
    /\ Len(t.att[r]) = Len(s.att[r])
    /\ LastIs(t, r, "lost")

Moved(s, t, r) ==
    /\ s.ext[r].phase = "terminal" => t.ext[r] = s.ext[r]
    /\ LastIs(s, r, "lost") => Stays(s, t, r)
    /\ t.run[r].status = "starting" => s.run[r].status = "starting"
    /\ NoEvent =>
          /\ s.run[r].status = "finished" => t.run[r].status = "finished"
          /\ t.run[r].status = "active" => s.run[r].status \in ProcessBacked
          /\ s.run[r].status = "active" /\ t.run[r].status = "queued" =>
                /\ Len(s.att[r]) \in DOMAIN t.att[r]
                /\ t.att[r][Len(s.att[r])].status = "failed"
                /\ t.att[r][Len(s.att[r])].retry_at # "none"

Dispatched(s, t, r) ==
    /\ s.ext[r].phase = "terminal" => t.ext[r] = s.ext[r]
    /\ s.run[r].status # "queued" => t.att[r] = s.att[r]
    /\ \A k \in DOMAIN s.att[r] : k \in DOMAIN t.att[r] /\ t.att[r][k] = s.att[r][k]
    /\ \/ t.run[r].status = s.run[r].status
       \/ t.run[r].status = "finished"
       \/ /\ s.run[r].status = "queued" /\ t.run[r].status = "starting"
          /\ \A q \in Runs : MonOf[q] = MonOf[r] /\ q < r => ~Runnable(t, q)

\* The two together, as the properties put them.
Stepped(s, t) ==
    \A r \in Runs :
        /\ s.ext[r].phase = "terminal" => t.ext[r] = s.ext[r]
        /\ LastIs(s, r, "lost") => Stays(s, t, r)
        /\ s.run[r].status # "starting" /\ t.run[r].status = "starting" =>
              \A q \in Runs : MonOf[q] = MonOf[r] /\ q < r => ~Runnable(t, q)
        /\ NoEvent =>
              /\ s.run[r].status = "finished" => t.run[r].status = "finished"
              /\ t.run[r].status = "active" => s.run[r].status \in ProcessBacked
              /\ s.run[r].status = "active" /\ t.run[r].status \in {"queued", "starting"} =>
                    /\ Len(s.att[r]) \in DOMAIN t.att[r]
                    /\ t.att[r][Len(s.att[r])].status = "failed"
                    /\ t.att[r][Len(s.att[r])].retry_at # "none"

\* A handler and the dispatch that ends it.
LEMMA MovedThenDispatched ==
    ASSUME NEW s, NEW m, NEW t,
           \A r \in Runs : Moved(s, m, r), \A r \in Runs : Dispatched(m, t, r)
    PROVE  Stepped(s, t)
<1> SUFFICES ASSUME NEW r \in Runs
             PROVE  /\ s.ext[r].phase = "terminal" => t.ext[r] = s.ext[r]
                    /\ LastIs(s, r, "lost") => Stays(s, t, r)
                    /\ s.run[r].status # "starting" /\ t.run[r].status = "starting" =>
                          \A q \in Runs : MonOf[q] = MonOf[r] /\ q < r => ~Runnable(t, q)
                    /\ NoEvent =>
                          /\ s.run[r].status = "finished" => t.run[r].status = "finished"
                          /\ t.run[r].status = "active" => s.run[r].status \in ProcessBacked
                          /\ s.run[r].status = "active" /\ t.run[r].status \in {"queued", "starting"} =>
                                /\ Len(s.att[r]) \in DOMAIN t.att[r]
                                /\ t.att[r][Len(s.att[r])].status = "failed"
                                /\ t.att[r][Len(s.att[r])].retry_at # "none"
  BY DEF Stepped
<1>1. Moved(s, m, r) /\ Dispatched(m, t, r)
  OBVIOUS
<1>2. ASSUME LastIs(s, r, "lost")
      PROVE  Stays(s, t, r)
  BY <1>1, <1>2 DEF Moved, Dispatched, Stays, LastIs
<1>3. ASSUME s.run[r].status # "starting", t.run[r].status = "starting"
      PROVE  \A q \in Runs : MonOf[q] = MonOf[r] /\ q < r => ~Runnable(t, q)
  BY <1>1, <1>3 DEF Moved, Dispatched
<1>4. ASSUME NoEvent
      PROVE  /\ s.run[r].status = "finished" => t.run[r].status = "finished"
             /\ t.run[r].status = "active" => s.run[r].status \in ProcessBacked
             /\ s.run[r].status = "active" /\ t.run[r].status \in {"queued", "starting"} =>
                   /\ Len(s.att[r]) \in DOMAIN t.att[r]
                   /\ t.att[r][Len(s.att[r])].status = "failed"
                   /\ t.att[r][Len(s.att[r])].retry_at # "none"
  BY <1>1, <1>4 DEF Moved, Dispatched
<1>5. s.ext[r].phase = "terminal" => t.ext[r] = s.ext[r]
  BY <1>1 DEF Moved, Dispatched
<1>. QED BY <1>2, <1>3, <1>4, <1>5

\* A run that is as it was has not moved, and nobody has dispatched it.
LEMMA SameMoves ==
    ASSUME NEW s, NEW t, NEW r \in Runs, Same(s, t, r), Book(s, r)
    PROVE  Moved(s, t, r) /\ Dispatched(s, t, r)
BY DEF Same, Moved, Dispatched, Stays, LastIs, Book, ProcessBacked

-----------------------------------------------------------------------------
(* Launches *)

\* A handler that writes run r and keeps it fine keeps all runs fine.
LEMMA OthersSound ==
    ASSUME NEW s, NEW t \in State, NEW r \in Runs,
           s \in State, \A q \in Runs : q # r => Fine(s, q),
           Others(s, t, r), Fine(t, r),
           t.service # "down", Sheltered => t.service = "up",
           NoEvent => \A v, w \in t.pending : v = w
    PROVE  Sound(t)
<1>1. ASSUME NEW q \in Runs, q # r
      PROVE  Fine(t, q)
  BY <1>1, SameFine DEF Others
<1>. QED BY <1>1 DEF Sound

\* The state in which startRun() calls the runner.
Ready(s, r) ==
    LET begun == BeginAttempt(ClearRetryTimer(ReserveSlot(s, r), r), r)
        claimed == MarkAttemptStartingByRun(begun, r)
        starting == [claimed EXCEPT !.run[r] = StartRunLifecycle(@)]
    IN  UpdateAssignment(UpdatePhase(starting, r, "starting"), r, "active")

\* The state in which the MCP servers of the attempt turn out to be missing.
Claimed(s, r) ==
    MarkAttemptStartingByRun(BeginAttempt(ClearRetryTimer(ReserveSlot(s, r), r), r), r)

NewAttempt == [status |-> "starting", retry_at |-> "none"]

\* A queued run has no open attempt.
LEMMA QueuedHasNone ==
    ASSUME NEW s, NEW r, Book(s, r), s.run[r].status = "queued"
    PROVE  ~HasOpenAttempt(s, r)
BY DEF Book, LastIs, HasOpenAttempt, OpenAttempt

\* Claiming an execution for a launch keeps it open.
ClaimedExt(old, new) ==
    /\ old.phase \in {"none", "terminal"} => new = old
    /\ old.phase \notin {"none", "terminal"} =>
          /\ new.phase = "starting" /\ new.outcome = "none"
          /\ new.exited_clean = old.exited_clean
          /\ new.cancellation_state = old.cancellation_state

\* Up to there a launch has written the slot, the attempt and the execution.
LEMMA ClaimedWrites ==
    ASSUME NEW s \in State, NEW r \in Runs, ~HasOpenAttempt(s, r)
    PROVE  LET t == Claimed(s, r)
           IN  /\ Wrote(s, t, r, {"slots", "att", "ext", "timers"})
               /\ r \in t.slots /\ r \notin t.timers
               /\ Extended(s.att[r], t.att[r], NewAttempt)
               /\ Len(t.att[r]) = Len(BeginAttempt(ClearRetryTimer(ReserveSlot(s, r), r), r).att[r])
               /\ ClaimedExt(s.ext[r], t.ext[r])
<1> DEFINE reservedSlot == ReserveSlot(s, r)
           cleared == ClearRetryTimer(reservedSlot, r)
           begun == BeginAttempt(cleared, r)
           t == MarkAttemptStartingByRun(begun, r)
<1>1. Wrote(s, reservedSlot, r, {"slots"}) /\ r \in reservedSlot.slots
  BY WriteSlots
<1> HIDE DEF reservedSlot
<1>2. Wrote(reservedSlot, cleared, r, {"timers"}) /\ r \notin cleared.timers
  BY <1>1, WroteState, ClearTimerWrites
<1> HIDE DEF cleared
<1>3. Wrote(s, cleared, r, {"slots", "timers"})
  BY <1>1, <1>2, WroteTwice
<1>4. cleared \in State /\ ~HasOpenAttempt(cleared, r)
  BY <1>3 DEF Wrote, HasOpenAttempt
<1>5. Wrote(cleared, begun, r, {"att"}) /\ Extended(cleared.att[r], begun.att[r], NewAttempt)
  BY <1>4, BeginWrites DEF NewAttempt
<1> HIDE DEF begun
<1>6. Wrote(s, begun, r, {"slots", "att", "timers"})
  BY <1>3, <1>5, WroteTwice
<1>7. WroteOpenExt(begun, t, r, [begun.ext[r] EXCEPT !.phase = "starting", !.outcome = "none"])
  BY <1>6, WroteState, PhaseWrites
<1> HIDE DEF t
<1>8. Wrote(begun, t, r, {"ext"})
  BY <1>7 DEF WroteOpenExt
<1>9. Wrote(s, t, r, {"slots", "att", "ext", "timers"})
  BY <1>6, <1>8, WroteTwice
<1>10. r \in t.slots /\ r \notin t.timers /\ t.att[r] = begun.att[r] /\ Extended(s.att[r], t.att[r], NewAttempt)
  BY <1>1, <1>2, <1>3, <1>5, <1>8 DEF Wrote
<1>11. begun.ext[r] = s.ext[r] /\ s.ext[r] \in ExtRow
  BY <1>6, ExtRowOf DEF Wrote
<1>12. ClaimedExt(s.ext[r], t.ext[r])
  <2>1. CASE ExtOpen(begun, r)
    <3>1. t.ext[r] = [s.ext[r] EXCEPT !.phase = "starting", !.outcome = "none"]
      BY <1>7, <1>11, <2>1 DEF WroteOpenExt
    <3>2. s.ext[r].phase \notin {"none", "terminal"}
      BY <1>11, <2>1 DEF ExtOpen
    <3>. QED BY <1>11, <3>1, <3>2 DEF ClaimedExt, ExtRow
  <2>2. CASE ~ExtOpen(begun, r)
    <3>1. t.ext[r] = s.ext[r]
      BY <1>7, <1>11, <2>2 DEF WroteOpenExt
    <3>2. s.ext[r].phase \in {"none", "terminal"}
      BY <1>11, <2>2 DEF ExtOpen
    <3>. QED BY <3>1, <3>2 DEF ClaimedExt
  <2>. QED BY <2>1, <2>2
<1>. QED BY <1>9, <1>10, <1>12 DEF Claimed, t, begun, cleared, reservedSlot

\* What else the lifecycle patches write that the invariant speaks of.
LEMMA RowValues ==
    ASSUME NEW row \in RunRow
    PROVE  /\ StartRunLifecycle(row).runtime_state = "running"
           /\ MarkRunActive(row).runtime_state = "running"
           /\ CancelQueuedRun(row).outcome = "canceled"
           /\ QueuedRow.runtime_state = "queued"
           /\ \A outcome : Reviewed(row, outcome).outcome = outcome
           /\ FinishRunFromExit(row, "nonzero").outcome = "failed"
           /\ FinishRunFromExit(row, "signal").outcome = "interrupted"
           /\ \A processStatus : FinishRunInterrupted(row, processStatus).outcome = "interrupted"
<1>1. StartRunLifecycle(row).runtime_state = "running" /\ MarkRunActive(row).runtime_state = "running"
  BY DEF StartRunLifecycle, MarkRunActive, RunRow
<1>2. CancelQueuedRun(row).outcome = "canceled" /\ QueuedRow.runtime_state = "queued"
  BY DEF CancelQueuedRun, QueuedRow, NoRow, RunRow
<1>3. \A outcome : Reviewed(row, outcome).outcome = outcome
  BY DEF Reviewed, RunRow
<1>4. FinishRunFromExit(row, "nonzero").outcome = "failed"
  BY DEF FinishRunFromExit, RunRow
<1>5. FinishRunFromExit(row, "signal").outcome = "interrupted"
  BY DEF FinishRunFromExit, RunRow
<1>6. \A processStatus : FinishRunInterrupted(row, processStatus).outcome = "interrupted"
  BY DEF FinishRunInterrupted, RunRow
<1>. QED BY <1>1, <1>2, <1>3, <1>4, <1>5, <1>6

\* And when it calls the runner the row and the assignment too.
LEMMA ReadyWrites ==
    ASSUME NEW s \in State, NEW r \in Runs, ~HasOpenAttempt(s, r)
    PROVE  LET t == Ready(s, r)
           IN  /\ Wrote(s, t, r, {"slots", "att", "ext", "run", "asg", "timers"})
               /\ r \in t.slots /\ r \notin t.timers
               /\ Extended(s.att[r], t.att[r], NewAttempt)
               /\ Len(t.att[r]) = Len(BeginAttempt(ClearRetryTimer(ReserveSlot(s, r), r), r).att[r])
               /\ ClaimedExt(s.ext[r], t.ext[r])
               /\ t.run[r].status = "starting" /\ t.run[r].runtime_state = "running"
               /\ t.asg[r] = Assigned(s.asg[r], "active")
<1> DEFINE claimed == Claimed(s, r)
           row == StartRunLifecycle(claimed.run[r])
           starting == [claimed EXCEPT !.run[r] = row]
           phased == UpdatePhase(starting, r, "starting")
           t == UpdateAssignment(phased, r, "active")
<1>1. /\ Wrote(s, claimed, r, {"slots", "att", "ext", "timers"})
      /\ r \in claimed.slots /\ r \notin claimed.timers
      /\ Extended(s.att[r], claimed.att[r], NewAttempt)
      /\ Len(claimed.att[r]) = Len(BeginAttempt(ClearRetryTimer(ReserveSlot(s, r), r), r).att[r])
      /\ ClaimedExt(s.ext[r], claimed.ext[r])
  BY ClaimedWrites
<1>a. t = Ready(s, r)
  BY DEF Ready, Claimed
<1> HIDE DEF claimed
<1>2. row \in RunRow /\ row.status = "starting" /\ row.runtime_state = "running"
  BY <1>1, WroteState, RowTypes, RowValues
<1> HIDE DEF row
<1>3. Wrote(claimed, starting, r, {"run"}) /\ starting.run[r] = row
  BY <1>1, <1>2, WroteState, WriteRun
<1> HIDE DEF starting
<1>4. WroteOpenExt(starting, phased, r, [starting.ext[r] EXCEPT !.phase = "starting"])
  BY <1>3, WroteState, PhaseWrites DEF Phase
<1> HIDE DEF phased
<1>5. Wrote(starting, phased, r, {"ext"})
  BY <1>4 DEF WroteOpenExt
<1>6. Wrote(phased, t, r, {"asg"}) /\ t.asg[r] = Assigned(phased.asg[r], "active")
  BY <1>5, WroteState, AssignmentWrites DEF AssignmentStatus
<1> HIDE DEF t
<1>7. Wrote(s, t, r, {"slots", "att", "ext", "run", "asg", "timers"})
  <2>1. Wrote(s, starting, r, {"slots", "att", "ext", "run", "asg", "timers"})
    BY <1>1, <1>3, WroteTwice
  <2>2. Wrote(s, phased, r, {"slots", "att", "ext", "run", "asg", "timers"})
    BY <2>1, <1>5, WroteTwice
  <2>. QED BY <2>2, <1>6, WroteTwice
<1>8. r \in t.slots /\ r \notin t.timers /\ t.att[r] = claimed.att[r] /\ t.run[r] = row /\ t.ext[r] = phased.ext[r]
  BY <1>1, <1>3, <1>5, <1>6 DEF Wrote
<1>9. t.asg[r] = Assigned(s.asg[r], "active")
  BY <1>1, <1>3, <1>5, <1>6 DEF Wrote
<1>10. ClaimedExt(s.ext[r], t.ext[r])
  <2>1. starting.ext[r] = claimed.ext[r] /\ claimed.ext[r] \in ExtRow
    BY <1>1, <1>3, WroteState DEF Wrote
  <2>. QED BY <1>1, <1>4, <1>8, <2>1 DEF ClaimedExt, WroteOpenExt, ExtOpen, ExtRow, Phase
<1>. QED BY <1>1, <1>2, <1>7, <1>8, <1>9, <1>10, <1>a

\* Every attempt of a queued run has failed.
LEMMA QueuedAllFailed ==
    ASSUME NEW s \in State, NEW r \in Runs, Book(s, r), s.run[r].status = "queued"
    PROVE  \A k \in DOMAIN s.att[r] : s.att[r][k].status = "failed"
<1>1. s.att[r] \in Seq(AttemptRow)
  BY DEF State
<1> SUFFICES ASSUME NEW k \in DOMAIN s.att[r]
             PROVE  s.att[r][k].status = "failed"
  OBVIOUS
<1>2. k \in 1 .. Len(s.att[r]) /\ Len(s.att[r]) \in Nat
  BY <1>1
<1>3. CASE k < Len(s.att[r])
  BY <1>3 DEF Book, EarlierFailed
<1>4. CASE k = Len(s.att[r])
  <2>1. s.att[r] # << >>
    BY <1>1, <1>2
  <2>. QED BY <1>4, <2>1 DEF Book, LastIs
<1>. QED BY <1>2, <1>3, <1>4

\* A launch that fails while the MCP servers are prepared: the attempt has failed, the slot is
\* free and the run waits as before.
LEMMA McpFine ==
    ASSUME NEW s, Sound(s), NEW r \in Runs, s.run[r].status = "queued",
           NoEvent => s.pending = {}, ~NoMcp, NEW t,
           t = FinishAttempt(ReleaseSlot(Claimed(s, r), r), r, Len(Claimed(s, r).att[r]),
                             "failed", "none")
    PROVE  /\ Wrote(s, t, r, {"slots", "att", "ext", "timers"})
           /\ Fine(t, r) /\ Dispatched(s, t, r)
<1> DEFINE claimed == Claimed(s, r)
           released == ReleaseSlot(claimed, r)
           k == Len(claimed.att[r])
           row == [status |-> "failed", retry_at |-> "none"]
<1>1. s \in State /\ Fine(s, r) /\ Book(s, r)
  BY DEF Sound, Fine
<1>2. ~HasOpenAttempt(s, r) /\ \A j \in DOMAIN s.att[r] : s.att[r][j].status = "failed"
  BY <1>1, QueuedHasNone, QueuedAllFailed
<1>3. /\ Wrote(s, claimed, r, {"slots", "att", "ext", "timers"})
      /\ Extended(s.att[r], claimed.att[r], NewAttempt)
      /\ ClaimedExt(s.ext[r], claimed.ext[r])
  BY <1>1, <1>2, ClaimedWrites
<1>a. t = FinishAttempt(released, r, k, "failed", "none")
  OBVIOUS
<1> HIDE DEF claimed
<1>4. Wrote(claimed, released, r, {"slots"}) /\ r \notin released.slots
  BY <1>3, WroteState, WriteSlots
<1> HIDE DEF released
<1>5. released.att[r] = claimed.att[r]
  BY <1>4 DEF Wrote
<1>6. /\ released \in State /\ EarlierFailed(released, r) /\ IsOpen(released, r, k)
  BY <1>2, <1>3, <1>4, <1>5 DEF Wrote, EarlierFailed, IsOpen, Extended, NewAttempt, OpenAttempt
<1> HIDE DEF k
<1>7. Wrote(released, t, r, {"att"}) /\ Replaced(released.att[r], t.att[r], row)
  BY <1>6, <1>a, FinishWrites DEF AttemptStatus
<1>8. Wrote(s, t, r, {"slots", "att", "ext", "timers"})
  <2>1. Wrote(s, released, r, {"slots", "att", "ext", "timers"})
    BY <1>3, <1>4, WroteTwice
  <2>. QED BY <2>1, <1>7, WroteTwice
<1>9. Extended(s.att[r], t.att[r], row)
  <2>1. s.att[r] \in Seq(AttemptRow) /\ Extended(s.att[r], released.att[r], NewAttempt)
    BY <1>1, <1>3, <1>5 DEF State
  <2>. QED BY <1>7, <2>1, ExtendedReplaced
<1>10. /\ t.ext[r] = claimed.ext[r] /\ r \notin t.slots
       /\ t.run[r] = s.run[r] /\ t.running[r] = s.running[r] /\ t.asg[r] = s.asg[r]
       /\ t.procs = s.procs /\ t.pending = s.pending /\ t.errors = s.errors
  BY <1>4, <1>7, <1>8 DEF Wrote
<1>11. /\ LastIs(t, r, "failed") /\ EarlierFailed(t, r) /\ ~HasOpenAttempt(t, r)
       /\ \A status : LastIs(t, r, status) => status = "failed"
  <2>1. t.att[r] # << >> /\ t.att[r][Len(t.att[r])].status = "failed"
    BY <1>9 DEF Extended
  <2>2. \A j \in DOMAIN t.att[r] : t.att[r][j].status = "failed"
    BY <1>2, <1>9 DEF Extended
  <2>. QED BY <2>1, <2>2 DEF LastIs, EarlierFailed, HasOpenAttempt, OpenAttempt
<1>12. /\ ~LastIs(s, r, "succeeded") /\ ~LastIs(s, r, "lost")
  BY <1>1 DEF Book, LastIs
<1>13. /\ s.ext[r].outcome # "succeeded" /\ ~(s.ext[r].exited_clean /\ ExtOpen(s, r))
       /\ s.ext[r].phase = "cancelling" => CancellationAsked(s, r)
       /\ ~s.running[r].stop
  BY <1>1, <1>12 DEF Book
<1>14. Book(t, r)
  BY <1>1, <1>3, <1>10, <1>11, <1>13
     DEF Book, ClaimedExt, ExtOpen, CancellationAsked
<1>15. Known(t, r)
  <2>1. Dead(s, r)
    BY <1>1 DEF Fine, Known
  <2>2. DOMAIN s.att[r] \subseteq DOMAIN t.att[r]
    BY <1>9 DEF Extended
  <2>. QED BY <1>1, <1>10, <2>1, <2>2 DEF Fine, Known, Dead
<1>16. Kept(t, r)
  <2>1. Sheltered => NoMcp
    BY DEF Sheltered, NoMcp
  <2>. QED BY <2>1 DEF Kept
<1>17. Live(t, r)
  BY <1>10, <1>11 DEF Live
<1>18. NoEvent => Calm(t, r)
  <2> SUFFICES ASSUME NoEvent
               PROVE  Calm(t, r)
    OBVIOUS
  <2>1. Calm(s, r) /\ t.pending = {} /\ Dead(s, r)
    BY <1>1, <1>10 DEF Fine, Known
  <2>. QED BY <2>1, <1>10 DEF Calm, Dead
<1>19. OpenLives(t, r)
  BY <1>11 DEF OpenLives
<1>20. Dispatched(s, t, r)
  BY <1>3, <1>9, <1>10 DEF Dispatched, ClaimedExt, Extended
<1>. QED BY <1>8, <1>14, <1>15, <1>16, <1>17, <1>18, <1>19, <1>20 DEF Fine

\* What a launch that reaches the runner leaves behind.
Launched(s, t, r) ==
    /\ t \in State /\ t.service = s.service /\ t.resume = s.resume /\ Others(s, t, r)
    /\ Fine(t, r)
    /\ NoEvent => \A v, w \in t.pending : v = w
    /\ t.run[r].status = "starting" /\ r \notin t.timers
    /\ ClaimedExt(s.ext[r], t.ext[r])
    /\ \A k \in DOMAIN s.att[r] : k \in DOMAIN t.att[r] /\ t.att[r][k] = s.att[r][k]

\* And which loop now awaits it.
Begun(s, t, r, caller) ==
    /\ s.run[r].status = "queued" /\ Launched(s, t, r)
    /\ \E w \in t.pending : w.run = r /\ w.caller = caller

\* A launch that reaches the runner.
LEMMA SpawnFine ==
    ASSUME NEW s, Sound(s), NEW r \in Runs, s.run[r].status = "queued",
           NoEvent => s.pending = {},
           NEW launch \in Launches, launch \notin {"mcp", "throw"},
           NEW caller \in Caller, NEW reserved \in Runs \cup {0},
           NEW t, t = Spawn(Ready(s, r), r, Len(Ready(s, r).att[r]), launch, caller, reserved)
    PROVE  Begun(s, t, r, caller)
<1> DEFINE ready == Ready(s, r)
           k == Len(ready.att[r])
           opened == IF launch = "reject" THEN ready ELSE MarkAttemptActive(ready, r, k)
           w == [run |-> r, attempt |-> k, caller |-> caller,
                 reserved |-> reserved, rejected |-> launch = "reject"]
<1>1. s \in State /\ Fine(s, r) /\ Book(s, r) /\ Dead(s, r)
  BY DEF Sound, Fine, Known
<1>2. ~HasOpenAttempt(s, r) /\ \A j \in DOMAIN s.att[r] : s.att[r][j].status = "failed"
  BY <1>1, QueuedHasNone, QueuedAllFailed
<1>3. /\ Wrote(s, ready, r, {"slots", "att", "ext", "run", "asg", "timers"})
      /\ r \in ready.slots /\ r \notin ready.timers
      /\ Extended(s.att[r], ready.att[r], NewAttempt)
      /\ ClaimedExt(s.ext[r], ready.ext[r])
      /\ ready.run[r].status = "starting" /\ ready.run[r].runtime_state = "running"
      /\ ready.asg[r] = Assigned(s.asg[r], "active")
  BY <1>1, <1>2, ReadyWrites
<1>a. t = [opened EXCEPT
            !.procs = IF launch = "spawned" THEN @ \cup {<<r, k>>} ELSE @,
            !.errors = IF launch = "event" THEN @ \cup {<<r, k>>} ELSE @,
            !.pending = @ \cup {w}]
  BY DEF Spawn
<1> HIDE DEF ready
<1>4. /\ ready \in State /\ EarlierFailed(ready, r) /\ IsOpen(ready, r, k)
  BY <1>2, <1>3 DEF Wrote, EarlierFailed, IsOpen, Extended, NewAttempt, OpenAttempt
<1>5. s.att[r] \in Seq(AttemptRow) /\ k \in Nat \ {0}
  BY <1>1, <1>4, OpenLast DEF State
<1>6. PICK row : /\ Extended(s.att[r], opened.att[r], row) /\ row.status \in OpenAttempt
                 /\ Wrote(ready, opened, r, {"att"})
                 /\ Len(opened.att[r]) = k
  <2>1. CASE launch = "reject"
    <3>1. Wrote(ready, ready, r, {"att"})
      BY <1>4, WroteNothing DEF Wrote
    <3>. QED BY <1>3, <2>1, <3>1 DEF NewAttempt, OpenAttempt
  <2>2. CASE launch # "reject"
    <3> DEFINE row == [ready.att[r][k] EXCEPT !.status = "active"]
    <3>1. opened = MarkAttemptActive(ready, r, k)
      BY <2>2
    <3>2. LET t2 == MarkAttemptActive(ready, r, k)
          IN  /\ Wrote(ready, t2, r, {"att"})
              /\ Replaced(ready.att[r], t2.att[r], row)
              /\ row.status = "active"
      BY <1>4, MarkActiveWrites
    <3> HIDE DEF row, opened
    <3>3. /\ Wrote(ready, opened, r, {"att"}) /\ Replaced(ready.att[r], opened.att[r], row)
          /\ row.status = "active"
      BY <3>1, <3>2
    <3>4. Extended(s.att[r], ready.att[r], NewAttempt)
      BY <1>3
    <3>5. Extended(s.att[r], opened.att[r], row)
      BY <1>5, <3>3, <3>4, ExtendedReplaced
    <3>. QED BY <3>3, <3>5 DEF OpenAttempt, Replaced
  <2>. QED BY <2>1, <2>2
<1> HIDE DEF opened, k
<1>7. w \in Pending
  BY <1>5 DEF Pending
<1>b. w.run = r /\ w.attempt = k /\ (w.rejected <=> launch = "reject") /\ w.caller = caller
  OBVIOUS
<1> HIDE DEF w
<1>8. Wrote(s, opened, r, {"slots", "att", "ext", "run", "asg", "timers"})
  BY <1>3, <1>6, WroteTwice
<1>9. opened \in State /\ <<r, k>> \in Runs \X Nat
  BY <1>5, <1>8 DEF Wrote
<1>10. /\ t \in State
       /\ t.procs = IF launch = "spawned" THEN s.procs \cup {<<r, k>>} ELSE s.procs
       /\ t.errors = IF launch = "event" THEN s.errors \cup {<<r, k>>} ELSE s.errors
       /\ t.pending = s.pending \cup {w}
       /\ t.run = opened.run /\ t.att = opened.att /\ t.ext = opened.ext /\ t.asg = opened.asg
       /\ t.running = opened.running /\ t.slots = opened.slots /\ t.service = s.service
       /\ t.timers = opened.timers /\ t.resume = s.resume
  <2> DEFINE P == IF launch = "spawned" THEN opened.procs \cup {<<r, k>>} ELSE opened.procs
             E == IF launch = "event" THEN opened.errors \cup {<<r, k>>} ELSE opened.errors
             N == opened.pending \cup {w}
  <2>1. t = [opened EXCEPT !.procs = P, !.errors = E, !.pending = N]
    BY <1>a
  <2>2. P \in SUBSET (Runs \X Nat) /\ E \in SUBSET (Runs \X Nat) /\ N \in SUBSET Pending
    BY <1>7, <1>9 DEF State
  <2>3. opened.procs = s.procs /\ opened.errors = s.errors /\ opened.pending = s.pending
    BY <1>8 DEF Wrote
  <2>4. /\ t.procs = IF launch = "spawned" THEN s.procs \cup {<<r, k>>} ELSE s.procs
        /\ t.errors = IF launch = "event" THEN s.errors \cup {<<r, k>>} ELSE s.errors
        /\ t.pending = s.pending \cup {w}
    <3>1. t.procs = P /\ t.errors = E /\ t.pending = N
      <4> HIDE DEF P, E, N
      <4>. QED BY <1>9, <2>1 DEF State
    <3>. QED BY <2>3, <3>1
  <2> HIDE DEF P, E, N
  <2>5. /\ t.run = opened.run /\ t.att = opened.att /\ t.ext = opened.ext /\ t.asg = opened.asg
        /\ t.running = opened.running /\ t.slots = opened.slots /\ t.service = opened.service
        /\ t.timers = opened.timers /\ t.resume = opened.resume
    BY <1>9, <2>1 DEF State
  <2>6. t \in State
    BY <1>9, <2>1, <2>2 DEF State
  <2>. QED BY <1>8, <2>4, <2>5, <2>6 DEF Wrote
<1>11. /\ t.run[r].status = "starting" /\ t.run[r].runtime_state = "running"
       /\ ClaimedExt(s.ext[r], t.ext[r]) /\ r \in t.slots /\ r \notin t.timers
       /\ t.running[r] = s.running[r] /\ t.asg[r] = Assigned(s.asg[r], "active")
       /\ Extended(s.att[r], t.att[r], row) /\ Len(t.att[r]) = k
  BY <1>3, <1>6, <1>8, <1>10 DEF Wrote
<1>12. Others(s, t, r)
  <2> SUFFICES ASSUME NEW q \in Runs, q # r
               PROVE  Same(s, t, q) /\ (q \in t.timers <=> q \in s.timers)
    BY DEF Others
  <2>1. Same(s, opened, q) /\ (q \in opened.timers <=> q \in s.timers)
    BY <1>8 DEF Wrote, Others
  <2>2. \A j : <<q, j>> # <<r, k>>
    OBVIOUS
  <2>. QED BY <1>8, <1>10, <1>b, <2>1, <2>2 DEF Same, Wrote
<1>13. t.att[r] # << >> /\ t.att[r][k].status \in OpenAttempt /\ k \in DOMAIN t.att[r]
  BY <1>6, <1>11 DEF Extended
<1>14. /\ EarlierFailed(t, r) /\ HasOpenAttempt(t, r) /\ IsOpen(t, r, k)
       /\ \A status : LastIs(t, r, status) => status \in OpenAttempt
  <2>1. \A j \in DOMAIN t.att[r] : j # k => t.att[r][j].status = "failed"
    BY <1>2, <1>11 DEF Extended
  <2>2. EarlierFailed(t, r)
    <3>1. \A j \in DOMAIN t.att[r] : j < Len(t.att[r]) => j # k
      BY <1>5, <1>11
    <3>. QED BY <2>1, <3>1 DEF EarlierFailed
  <2>. QED BY <2>2, <1>11, <1>13 DEF LastIs, IsOpen, HasOpenAttempt
<1>15. /\ ~LastIs(s, r, "succeeded") /\ ~LastIs(s, r, "lost")
  BY <1>1 DEF Book, LastIs
<1>16. /\ s.ext[r].outcome # "succeeded" /\ ~(s.ext[r].exited_clean /\ ExtOpen(s, r))
       /\ s.ext[r].phase = "cancelling" => CancellationAsked(s, r)
       /\ ~s.running[r].stop
  BY <1>1, <1>15 DEF Book
<1>17. Book(t, r)
  <2>1. ~LastIs(t, r, "lost") /\ t.run[r].status = "starting" /\ ~t.running[r].stop
    BY <1>11, <1>14, <1>16 DEF OpenAttempt
  <2>2. t.run[r].runtime_state = "running" /\ EarlierFailed(t, r)
    BY <1>11, <1>14
  <2>3. CASE s.ext[r].phase \in {"none", "terminal"}
    <3>1. t.ext[r] = s.ext[r] /\ ~ExtOpen(t, r)
      BY <1>11, <2>3 DEF ClaimedExt, ExtOpen
    <3>. QED BY <1>16, <2>1, <2>2, <2>3, <3>1 DEF Book
  <2>4. CASE s.ext[r].phase \notin {"none", "terminal"}
    <3>1. t.ext[r].phase = "starting" /\ t.ext[r].outcome = "none" /\ ~t.ext[r].exited_clean
      BY <1>11, <1>16, <2>4 DEF ClaimedExt, ExtOpen
    <3>. QED BY <2>1, <2>2, <3>1 DEF Book
  <2>. QED BY <2>3, <2>4
<1>18. Known(t, r)
  <2>1. DOMAIN s.att[r] \subseteq DOMAIN t.att[r]
    BY <1>11 DEF Extended
  <2>2. \A j : <<r, j>> \in t.procs => j = k
    BY <1>1, <1>10 DEF Dead
  <2>3. \A j : <<r, j>> \in t.errors => <<r, j>> \in s.errors \/ j = k
    BY <1>10
  <2>4. \A v \in t.pending : v \in s.pending \/ v = w
    BY <1>10
  <2>5. /\ \A j : <<r, j>> \in s.errors => j \in DOMAIN s.att[r]
        /\ \A v \in s.pending : v.run = r => v.attempt \in DOMAIN s.att[r]
    BY <1>1 DEF Fine, Known
  <2>6. \A j : <<r, j>> \in t.errors => j \in DOMAIN t.att[r]
    BY <1>13, <2>1, <2>3, <2>5
  <2>7. \A v \in t.pending : v.run = r => v.attempt \in DOMAIN t.att[r]
    BY <1>13, <1>b, <2>1, <2>4, <2>5
  <2>8. \A j : <<r, j>> \in t.procs => IsOpen(t, r, j)
    BY <1>14, <2>2
  <2>. QED BY <1>11, <2>6, <2>7, <2>8 DEF Known
<1>19. Kept(t, r)
  <2>1. FailureFinal(t, r)
    BY <1>14 DEF FailureFinal, OpenAttempt
  <2>2. NoMcp => AttemptsLeft(t, r)
    <3>1. AttemptsLeft(s, r) => Len(s.att[r]) < MaxAttempts
      BY DEF AttemptsLeft
    <3>2. Len(t.att[r]) = Len(s.att[r]) + 1 /\ Len(s.att[r]) \in Nat /\ MaxAttempts \in Nat
      BY <1>5, <1>11, PolicyAssumption DEF Extended
    <3>. QED BY <1>1, <1>11, <3>1, <3>2 DEF Fine, Kept, AttemptsLeft
  <2>3. Sheltered => AssignmentKept(t, r)
    <3> SUFFICES ASSUME Sheltered
                 PROVE  AssignmentKept(t, r)
      OBVIOUS
    <3>1. AssignmentKept(s, r)
      BY <1>1 DEF Fine, Kept
    <3>2. s.asg[r] # "none" => r \in PlanRuns
      BY <3>1 DEF AssignmentKept
    <3>3. t.ext[r].phase # "none" => s.ext[r].phase # "none"
      BY <1>11 DEF ClaimedExt
    <3>. QED BY <1>11, <3>1, <3>2, <3>3 DEF AssignmentKept, Assigned, ProcessBacked
  <2>. QED BY <2>1, <2>2, <2>3 DEF Kept
<1>20. Live(t, r)
  <2>1. w \in t.pending
    BY <1>10
  <2>2. ~LastIs(t, r, "lost")
    BY <1>14 DEF OpenAttempt
  <2>. QED BY <1>11, <1>14, <1>b, <2>1, <2>2 DEF Live
<1>21. NoEvent => Calm(t, r) /\ \A u, v \in t.pending : u = v
  <2> SUFFICES ASSUME NoEvent
               PROVE  Calm(t, r) /\ \A u, v \in t.pending : u = v
    OBVIOUS
  <2>1. Calm(s, r) /\ t.pending = {w} /\ launch # "event"
    BY <1>1, <1>10 DEF Fine, NoEvent
  <2>2. s.running[r].attempt = 0 /\ \A j : <<r, j>> \notin t.errors
    BY <1>1, <1>10, <2>1 DEF Calm, Dead
  <2>3. launch \in {"spawned", "reject"}
    BY <2>1, EnvironmentAssumption DEF LaunchKind
  <2>4. CASE launch = "spawned"
    <3>1. \A j : <<r, j>> \in t.procs <=> j = k
      BY <1>1, <1>10, <2>4 DEF Dead
    <3>2. w \in t.pending /\ ~w.rejected /\ \A v \in t.pending : v = w
      BY <1>10, <1>b, <2>1, <2>4
    <3>3. /\ IsOpen(t, r, w.attempt) /\ r \in t.slots /\ t.running[r].attempt = 0
          /\ t.run[r].status = "starting"
      BY <1>11, <1>14, <1>b, <2>2
    <3>4. ~Dead(t, r) /\ <<r, w.attempt>> \in t.procs
      BY <1>b, <3>1 DEF Dead
    <3>. QED BY <1>14, <1>b, <2>1, <2>2, <3>1, <3>2, <3>3, <3>4 DEF Calm
  <2>5. CASE launch = "reject"
    <3>1. \A j : <<r, j>> \notin t.procs
      BY <1>1, <1>10, <2>5 DEF Dead
    <3>2. w \in t.pending /\ w.rejected /\ \A v \in t.pending : v = w
      BY <1>10, <1>b, <2>1, <2>5
    <3>3. /\ IsOpen(t, r, w.attempt) /\ r \in t.slots /\ t.running[r].attempt = 0
          /\ t.run[r].status = "starting"
      BY <1>11, <1>14, <1>b, <2>2
    <3>. QED BY <1>14, <1>b, <2>1, <2>2, <3>1, <3>2, <3>3 DEF Calm
  <2>. QED BY <2>3, <2>4, <2>5
<1>22. OpenLives(t, r)
  BY <1>10, <1>b DEF OpenLives
<1>23. /\ ClaimedExt(s.ext[r], t.ext[r])
       /\ \A j \in DOMAIN s.att[r] : j \in DOMAIN t.att[r] /\ t.att[r][j] = s.att[r][j]
  BY <1>11 DEF ClaimedExt, Extended
<1>24. Fine(t, r)
  BY <1>17, <1>18, <1>19, <1>20, <1>21, <1>22 DEF Fine
<1>. QED BY <1>10, <1>11, <1>12, <1>21, <1>23, <1>24, <1>b DEF Begun, Launched

\* startRun() as it is called, whether it launches the run or declines.
LEMMA StartRunSound ==
    ASSUME NEW s, Sound(s), NEW r \in Runs, NoEvent => s.pending = {},
           NEW launch \in Launches, NEW caller \in Caller, NEW reserved \in Runs \cup {0},
           NEW t, t = StartRun(s, r, launch, caller, reserved)
    PROVE  /\ Sound(t) /\ t.service = s.service
           /\ \A x \in Runs : Dispatched(s, t, x)
           /\ launch \notin {"mcp", "throw"} =>
                 \/ t = s /\ ~(IsOldestQueued(s, r) /\ CanReserve(s, r))
                 \/ Begun(s, t, r, caller)
           /\ launch \in {"mcp", "throw"} =>
                 /\ NoEvent => t.pending = {}
                 /\ \A x \in Runs : t.run[x].status = s.run[x].status
<1>1. /\ s \in State /\ s.service # "down"
      /\ Sheltered => s.service = "up"
      /\ \A x \in Runs : Fine(s, x) /\ Book(s, x)
      /\ NoEvent => \A v, w \in s.pending : v = w
  BY DEF Sound, Fine
<1>2. CASE ~(launch # "throw" /\ IsOldestQueued(s, r) /\ CanReserve(s, r))
  <2>1. t = s
    BY <1>2 DEF StartRun
  <2>2. \A x \in Runs : Same(s, t, x)
    BY <2>1 DEF Same
  <2>. QED BY <1>1, <1>2, <2>1, <2>2, SameMoves
<1>3. CASE launch # "throw" /\ IsOldestQueued(s, r) /\ CanReserve(s, r)
  <2>1. s.run[r].status = "queued" /\ \A q \in Runs : MonOf[q] = MonOf[r] /\ Runnable(s, q) => r <= q
    BY <1>3 DEF IsOldestQueued, Runnable
  <2>2. ~HasOpenAttempt(s, r)
    BY <1>1, <2>1, QueuedHasNone
  <2>3. t = Launch(s, r, launch, caller, reserved)
    BY <1>3 DEF StartRun
  <2>4. CASE launch = "mcp"
    <3>0. s \in State
      BY <1>1
    <3>1. Len(Claimed(s, r).att[r]) = Len(BeginAttempt(ClearRetryTimer(ReserveSlot(s, r), r), r).att[r])
      BY <3>0, <2>2, ClaimedWrites
    <3>2. t = FinishAttempt(ReleaseSlot(Claimed(s, r), r), r, Len(Claimed(s, r).att[r]),
                            "failed", "none")
      BY <2>3, <2>4, <3>1 DEF Launch, Claimed
    <3>3. Wrote(s, t, r, {"slots", "att", "ext", "timers"}) /\ Fine(t, r) /\ Dispatched(s, t, r)
      BY <2>1, <2>4, <3>2, McpFine DEF NoMcp
    <3>4. Sound(t)
      <4>1. s \in State /\ t \in State /\ Others(s, t, r) /\ \A q \in Runs : q # r => Fine(s, q)
        BY <1>1, <3>3 DEF Wrote
      <4>2. /\ t.service # "down" /\ (Sheltered => t.service = "up")
            /\ NoEvent => \A v, w \in t.pending : v = w
        BY <1>1, <3>3 DEF Wrote
      <4>. QED BY <3>3, <4>1, <4>2, OthersSound
    <3>5. ASSUME NEW x \in Runs
          PROVE  Dispatched(s, t, x) /\ t.run[x].status = s.run[x].status
      <4>1. CASE x = r
        BY <3>3, <4>1 DEF Wrote
      <4>2. CASE x # r
        <5>1. Same(s, t, x)
          BY <3>3, <4>2 DEF Wrote, Others
        <5>. QED BY <1>1, <5>1, SameMoves DEF Same
      <4>. QED BY <4>1, <4>2
    <3>. QED BY <2>4, <3>3, <3>4, <3>5 DEF Wrote
  <2>5. CASE launch # "mcp"
    <3>0. s \in State
      BY <1>1
    <3>1. Len(Ready(s, r).att[r]) = Len(BeginAttempt(ClearRetryTimer(ReserveSlot(s, r), r), r).att[r])
      BY <3>0, <2>2, ReadyWrites
    <3>2. t = Spawn(Ready(s, r), r, Len(Ready(s, r).att[r]), launch, caller, reserved)
      BY <2>3, <2>5, <3>1 DEF Launch, Ready
    <3>b. Begun(s, t, r, caller)
      <4>1. launch \notin {"mcp", "throw"}
        BY <1>3, <2>5
      <4>2. s.run[r].status = "queued"
        BY <2>1
      <4>. QED BY <3>2, <4>1, <4>2, SpawnFine
    <3>3. Launched(s, t, r)
      BY <3>b DEF Begun
    <3>4. Sound(t)
      <4>1. s \in State /\ \A q \in Runs : q # r => Fine(s, q)
        BY <1>1
      <4>2. t.service # "down" /\ (Sheltered => t.service = "up")
        BY <1>1, <3>3 DEF Launched
      <4>. QED BY <3>3, <4>1, <4>2, OthersSound DEF Launched
    <3>5. ASSUME NEW q \in Runs, MonOf[q] = MonOf[r], q < r
          PROVE  ~Runnable(t, q)
      <4>1. q \in Nat /\ r \in Nat
        BY RunsAssumption
      <4>2. ~Runnable(s, q) /\ Same(s, t, q)
        BY <2>1, <3>3, <3>5, <4>1 DEF Others, Launched
      <4>. QED BY <4>2 DEF Runnable, InBackoff, Same
    <3>6. ASSUME NEW x \in Runs
          PROVE  Dispatched(s, t, x)
      <4>1. CASE x = r
        BY <2>1, <3>3, <3>5, <4>1 DEF Dispatched, Launched, ClaimedExt
      <4>2. CASE x # r
        <5>1. Same(s, t, x)
          BY <3>3, <4>2 DEF Others, Launched
        <5>. QED BY <1>1, <5>1, SameMoves
      <4>. QED BY <4>1, <4>2
    <3>. QED BY <1>3, <2>5, <3>b, <3>3, <3>4, <3>6 DEF Launched
  <2>. QED BY <2>4, <2>5
<1>. QED BY <1>2, <1>3

\* A reservation that fails finishes its run, whatever has become of it.
LEMMA FailReservationFine ==
    ASSUME NEW s, Sound(s), NEW q \in Runs, NoEvent => s.pending = {}, ~Sheltered,
           NEW t, t = FailReservation(s, q)
    PROVE  /\ Wrote(s, t, q, {"ext", "run"}) /\ Fine(t, q)
           /\ t.run[q].status = "finished"
           /\ s.ext[q].phase = "terminal" => t.ext[q] = s.ext[q]
<1> DEFINE failed == MarkFailedByRun(s, q, "keep")
           row == [status |-> "finished", process_status |-> "not_started",
                   outcome |-> "failed", runtime_state |-> "failed", outcome_state |-> "failed"]
<1>1. s \in State /\ Fine(s, q) /\ Book(s, q)
  BY DEF Sound, Fine
<1>2. WroteOpenExt(s, failed, q, FailedRow(s, q, "keep"))
  BY <1>1, MarkFailedWrites
<1>a. t = [failed EXCEPT !.run[q] = row]
  BY DEF FailReservation
<1> HIDE DEF failed
<1>3. row \in RunRow /\ row.status = "finished"
  BY DEF RunRow, RunStatus, ProcessStatus, RunOutcome, RuntimeState, OutcomeState
<1> HIDE DEF row
<1>4. Wrote(failed, t, q, {"run"}) /\ t.run[q] = row
  <2>1. failed \in State
    BY <1>2 DEF WroteOpenExt, Wrote
  <2>2. LET u == [failed EXCEPT !.run[q] = row]
        IN  Wrote(failed, u, q, {"run"}) /\ u.run[q] = row
    BY <1>3, <2>1, WriteRun
  <2>. QED BY <1>a, <2>2
<1>5. Wrote(s, t, q, {"ext", "run"})
  BY <1>2, <1>4, WroteTwice DEF WroteOpenExt
<1>6. /\ t.ext[q] = failed.ext[q] /\ t.run[q].status = "finished"
      /\ t.att[q] = s.att[q] /\ t.running[q] = s.running[q]
      /\ (q \in t.slots <=> q \in s.slots)
      /\ t.procs = s.procs /\ t.pending = s.pending /\ t.errors = s.errors
  BY <1>3, <1>4, <1>5 DEF Wrote
<1>7. s.ext[q] \in ExtRow
  BY <1>1, ExtRowOf
<1>8. \/ t.ext[q] = s.ext[q] /\ ~ExtOpen(s, q)
      \/ t.ext[q].phase = "terminal" /\ t.ext[q].outcome = "failed" /\ ExtOpen(s, q)
  BY <1>1, <1>2, <1>6, FailedFields DEF WroteOpenExt
<1>9. \A status : LastIs(t, q, status) <=> LastIs(s, q, status)
  BY <1>6 DEF LastIs
<1>10. Book(t, q)
  BY <1>1, <1>6, <1>8, <1>9 DEF Book, EarlierFailed, ExtOpen, CancellationAsked
<1>11. Known(t, q)
  BY <1>1, <1>6 DEF Fine, Known, IsOpen
<1>12. Kept(t, q)
  BY <1>1, <1>6 DEF Fine, Kept, FailureFinal, AttemptsLeft
<1>13. Live(t, q)
  BY <1>1, <1>6, <1>9 DEF Fine, Live, Dead, HasOpenAttempt
<1>14. NoEvent => Calm(t, q)
  BY <1>1, <1>6 DEF Fine, Calm, Dead
<1>15. Fine(t, q)
  BY <1>10, <1>11, <1>12, <1>13, <1>14 DEF Fine
<1>. QED BY <1>5, <1>6, <1>8, <1>15 DEF ExtOpen

\* One turn of the dispatch loop keeps the invariant and starts no run before an older one.
LEMMA DispatchSound ==
    ASSUME NEW s, Sound(s), NoEvent => s.pending = {},
           NEW m, NEW launch \in Launches, NEW caller \in Caller, NEW reserved \in Runs \cup {0},
           caller = "reserve" => reserved \in Runs,
           NEW t, t = Dispatch(s, m, launch, caller, reserved)
    PROVE  Sound(t) /\ \A x \in Runs : Dispatched(s, t, x)
<1>1. CASE OldestQueued(s, m) = {}
  <2>1. t = s
    BY <1>1 DEF Dispatch
  <2>2. \A x \in Runs : Same(s, t, x) /\ Book(s, x)
    BY <2>1 DEF Same, Sound, Fine
  <2>. QED BY <2>1, <2>2, SameMoves
<1>2. CASE OldestQueued(s, m) # {}
  <2> DEFINE r == CHOOSE r \in OldestQueued(s, m) : TRUE
             u == StartRun(s, r, launch, caller, reserved)
  <2>1. r \in Runs
    BY <1>2 DEF OldestQueued
  <2>2. t = IF Throws(s, r, launch) THEN Rejected(u, caller, reserved) ELSE u
    BY <1>2 DEF Dispatch
  <2> HIDE DEF r, u
  <2>3. /\ Sound(u) /\ u.service = s.service
        /\ \A x \in Runs : Dispatched(s, u, x)
        /\ launch \in {"mcp", "throw"} =>
              /\ NoEvent => u.pending = {}
              /\ \A x \in Runs : u.run[x].status = s.run[x].status
    BY <2>1, StartRunSound DEF u
  <2>4. CASE ~Throws(s, r, launch)
    BY <2>2, <2>3, <2>4
  <2>5. CASE Throws(s, r, launch)
    <3>1. /\ launch \in {"mcp", "throw"} /\ ~Sheltered
          /\ NoEvent => u.pending = {}
          /\ \A x \in Runs : u.run[x].status = s.run[x].status
      BY <2>3, <2>5 DEF Throws, Sheltered
    <3>2. CASE caller = "void"
      <4>1. t = [u EXCEPT !.service = "doomed"]
        BY <2>2, <2>5, <3>2 DEF Rejected
      <4>2. u \in State /\ \A x \in Runs : Fine(u, x)
        BY <2>3 DEF Sound
      <4>3. /\ t \in State /\ t.service = "doomed" /\ t.pending = u.pending
            /\ \A x \in Runs : Same(u, t, x)
        BY <4>1, <4>2 DEF State, Service, Same
      <4>4. Sound(t)
        BY <2>3, <3>1, <4>2, <4>3, SameFine DEF Sound
      <4>5. ASSUME NEW x \in Runs
            PROVE  Dispatched(s, t, x)
        <5>1. \A q \in Runs : Runnable(t, q) <=> Runnable(u, q)
          BY <4>3 DEF Same, Runnable, InBackoff
        <5>. QED BY <2>3, <4>3, <5>1 DEF Same, Dispatched
      <4>. QED BY <4>4, <4>5
    <3>3. CASE caller = "reserve"
      <4>1. t = FailReservation(u, reserved) /\ reserved \in Runs
        BY <2>2, <2>5, <3>3 DEF Rejected
      <4>2. /\ Wrote(u, t, reserved, {"ext", "run"}) /\ Fine(t, reserved)
            /\ t.run[reserved].status = "finished"
            /\ u.ext[reserved].phase = "terminal" => t.ext[reserved] = u.ext[reserved]
        BY <2>3, <3>1, <4>1, FailReservationFine
      <4>3. Sound(t)
        BY <2>3, <3>1, <4>1, <4>2, OthersSound DEF Wrote, Sound
      <4>4. ASSUME NEW x \in Runs
            PROVE  Dispatched(s, t, x)
        <5>1. CASE x = reserved
          BY <2>3, <4>2, <5>1 DEF Dispatched, Wrote
        <5>2. CASE x # reserved
          <6>1. Same(u, t, x)
            BY <4>2, <5>2 DEF Wrote, Others
          <6>2. t.run[x].status = s.run[x].status
            BY <3>1, <6>1 DEF Same
          <6>. QED BY <2>3, <6>1, <6>2 DEF Same, Dispatched
        <5>. QED BY <5>1, <5>2
      <4>. QED BY <4>3, <4>4
    <3>4. CASE caller \notin {"void", "reserve"}
      <4>1. t = u
        BY <2>2, <2>5, <3>4 DEF Rejected
      <4>. QED BY <2>3, <4>1
    <3>. QED BY <3>2, <3>3, <3>4
  <2>. QED BY <2>4, <2>5
<1>. QED BY <1>1, <1>2

-----------------------------------------------------------------------------
(* The end of an attempt *)

\* The process or the launch of run r is over and its event has been taken from its queue.
Over(s, r) ==
    /\ s \in State /\ s.service # "down"
    /\ Sheltered => s.service = "up"
    /\ \A q \in Runs : q # r => Fine(s, q)
    /\ Dead(s, r) /\ Book(s, r) /\ Kept(s, r)
    /\ \A k : <<r, k>> \in s.errors => k \in DOMAIN s.att[r]
    /\ \A w \in s.pending : w.run = r => w.attempt \in DOMAIN s.att[r]
    /\ NoEvent => s.pending = {} /\ \A k : <<r, k>> \notin s.errors

\* What the end of an attempt makes of an open execution; row and x are the rows it writes.
Settles(s, r, row, x) ==
    s.run[r].status # "finished" /\ ExtOpen(s, r)
        /\ (CancellationAsked(s, r) => s.ext[r].phase = "cancelling") =>
    \/ /\ CancellationAsked(s, r)
       /\ row.status = "finished" /\ row.outcome = "canceled"
       /\ x.phase = "terminal" /\ x.outcome = "cancelled" /\ x.cancellation_state # "none"
    \/ /\ x.cancellation_state = s.ext[r].cancellation_state
       /\ \/ /\ row.status = "finished"
             /\ \/ /\ x.phase = "terminal" /\ x.outcome = "succeeded"
                   /\ row.outcome = "completed" /\ ~CancellationAsked(s, r)
                \/ /\ x.phase = "terminal" /\ x.outcome = "failed"
                   /\ row.outcome \in {"failed", "interrupted"}
                \/ /\ x.phase = "awaiting_completion" /\ x.outcome = "none"
                   /\ x.exited_clean /\ ~CancellationAsked(s, r)
          \/ /\ row.status = "queued" /\ ~CancellationAsked(s, r)
             /\ s.ext[r].cancellation_state = "none" =>
                   /\ x.phase = "queued" /\ x.outcome = "none"
                   /\ x.exited_clean = s.ext[r].exited_clean

\* Run r has no attempt, slot or map entry any more.
AllFields == {"run", "att", "ext", "asg", "running", "slots", "timers"}

Ended(s, t, r) ==
    /\ Wrote(s, t, r, AllFields)
    /\ r \notin t.slots /\ t.running[r] = NotRunning
    /\ DOMAIN t.att[r] = DOMAIN s.att[r]
    /\ ~HasOpenAttempt(t, r) /\ ~LastIs(t, r, "lost")
    /\ Book(t, r) /\ Kept(t, r)
    /\ t.run[r].status = "finished" \/ (t.run[r].status = "queued" /\ r \in t.timers)
    /\ Settles(s, r, t.run[r], t.ext[r])
    /\ Moved(s, t, r)

\* That is all the invariant asks of a run that does nothing.
LEMMA EndedSound ==
    ASSUME NEW s, NEW t, NEW r \in Runs, Over(s, r), Ended(s, t, r)
    PROVE  /\ Sound(t) /\ \A x \in Runs : Moved(s, t, x)
           /\ NoEvent => t.pending = {}
<1>1. /\ t \in State /\ t.service = s.service /\ Others(s, t, r)
      /\ t.procs = s.procs /\ t.pending = s.pending /\ t.errors = s.errors
      /\ r \notin t.slots /\ t.running[r].attempt = 0
  BY DEF Ended, Wrote, NotRunning
<1>2. Known(t, r)
  BY <1>1 DEF Over, Ended, Known, Dead
<1>3. Live(t, r)
  BY <1>1 DEF Ended, Live
<1>4. NoEvent => Calm(t, r)
  BY <1>1 DEF Over, Ended, Calm, Dead, ProcessBacked
<1>5. OpenLives(t, r)
  BY DEF Ended, OpenLives
<1>6. Fine(t, r)
  BY <1>2, <1>3, <1>4, <1>5 DEF Ended, Fine
<1>7. s \in State /\ \A q \in Runs : q # r => Fine(s, q)
  BY DEF Over
<1>8. /\ t.service # "down"
      /\ Sheltered => t.service = "up"
      /\ NoEvent => t.pending = {}
  BY <1>1 DEF Over
<1>9. Sound(t)
  BY <1>1, <1>6, <1>7, <1>8, OthersSound
<1>10. ASSUME NEW x \in Runs
       PROVE  Moved(s, t, x)
  <2>1. CASE x = r
    BY <2>1 DEF Ended
  <2>2. CASE x # r
    BY <1>1, <1>7, <2>2, SameMoves DEF Others, Fine
  <2>. QED BY <2>1, <2>2
<1>. QED BY <1>8, <1>9, <1>10

\* The map entry and the slot are dropped.
LEMMA DropWrites ==
    ASSUME NEW s \in State, NEW r \in Runs
    PROVE  LET t == Drop(s, r)
           IN  /\ Wrote(s, t, r, {"running", "slots"})
               /\ r \notin t.slots /\ t.running[r] = NotRunning
<1> DEFINE gone == [s EXCEPT !.running[r] = NotRunning]
           t == ReleaseSlot(gone, r)
<1>1. NotRunning \in RunningRun
  BY DEF NotRunning, RunningRun, Timer
<1>2. Wrote(s, gone, r, {"running"}) /\ gone.running[r] = NotRunning
  <2> HIDE DEF NotRunning
  <2>. QED BY <1>1, WriteRunning
<1> HIDE DEF gone
<1>3. Wrote(gone, t, r, {"slots"}) /\ r \notin t.slots
  BY <1>2, WroteState, WriteSlots
<1> HIDE DEF t
<1>4. Wrote(s, t, r, {"running", "slots"})
  BY <1>2, <1>3, WroteTwice
<1>5. t.running[r] = NotRunning
  <2> HIDE DEF NotRunning
  <2>. QED BY <1>2, <1>3 DEF Wrote
<1>. QED BY <1>3, <1>4, <1>5 DEF Drop, gone, t

\* What an exit makes of an open execution, field by field.
LEMMA ExitedFields ==
    ASSUME NEW s \in State, NEW r \in Runs, NEW exit
    PROVE  LET row == ExitedRow(s, r, exit)
           IN  /\ row.completion_digest = s.ext[r].completion_digest
               /\ \/ row.phase = "terminal"
                  \/ /\ row.phase = "awaiting_completion" /\ row.outcome = "none"
                     /\ exit = "clean" /\ ~CancellationAsked(s, r)
               /\ row.outcome = "succeeded" =>
                     /\ row.phase = "terminal" /\ exit = "clean"
                     /\ r \in ReceiptRuns => s.ext[r].completion_digest # "none"
               /\ CancellationAsked(s, r) => row.outcome = "cancelled"
<1> DEFINE awaits == /\ ~CancellationAsked(s, r) /\ exit = "clean"
                     /\ ~(r \notin ReceiptRuns \/ s.ext[r].completion_digest # "none")
           phase == IF awaits THEN "awaiting_completion" ELSE "terminal"
           outcome == IF CancellationAsked(s, r) THEN "cancelled"
                      ELSE IF awaits THEN "none"
                      ELSE IF exit = "clean" THEN "succeeded" ELSE "failed"
           state == IF CancellationAsked(s, r) THEN "acknowledged" ELSE s.ext[r].cancellation_state
           row == ExitedRow(s, r, exit)
<1>1. s.ext[r] \in ExtRow
  BY ExtRowOf
<1>2. row = [s.ext[r] EXCEPT !.phase = phase, !.outcome = outcome,
                             !.cancellation_state = state, !.exited_clean = (exit = "clean")]
  BY DEF ExitedRow
<1> HIDE DEF phase, outcome, state, row
<1>3. /\ row.phase = phase /\ row.outcome = outcome
      /\ row.completion_digest = s.ext[r].completion_digest
  BY <1>1, <1>2 DEF ExtRow
<1> SUFFICES /\ row.completion_digest = s.ext[r].completion_digest
             /\ \/ row.phase = "terminal"
                \/ /\ row.phase = "awaiting_completion" /\ row.outcome = "none"
                   /\ exit = "clean" /\ ~CancellationAsked(s, r)
             /\ row.outcome = "succeeded" =>
                   /\ row.phase = "terminal" /\ exit = "clean"
                   /\ r \in ReceiptRuns => s.ext[r].completion_digest # "none"
             /\ CancellationAsked(s, r) => row.outcome = "cancelled"
  BY DEF row
<1>4. CASE awaits
  BY <1>3, <1>4 DEF phase, outcome
<1>5. CASE ~awaits
  BY <1>3, <1>5 DEF phase, outcome
<1>. QED BY <1>4, <1>5

\* The verdict of an exit.
LEMMA ExitedVerdict ==
    ASSUME NEW s \in State, NEW r \in Runs, NEW exit
    PROVE  LET row == ExitedRow(s, r, exit)
           IN  /\ CancellationAsked(s, r) =>
                     /\ row.phase = "terminal" /\ row.outcome = "cancelled"
                     /\ row.cancellation_state = "acknowledged"
               /\ ~CancellationAsked(s, r) =>
                     /\ row.cancellation_state = s.ext[r].cancellation_state
                     /\ exit # "clean" => row.phase = "terminal" /\ row.outcome = "failed"
                     /\ exit = "clean" =>
                           \/ row.phase = "terminal" /\ row.outcome = "succeeded"
                           \/ /\ row.phase = "awaiting_completion" /\ row.outcome = "none"
                              /\ row.exited_clean
<1> DEFINE asked == CancellationAsked(s, r)
           awaits == /\ ~asked /\ exit = "clean"
                     /\ ~(r \notin ReceiptRuns \/ s.ext[r].completion_digest # "none")
           phase == IF awaits THEN "awaiting_completion" ELSE "terminal"
           outcome == IF asked THEN "cancelled"
                      ELSE IF awaits THEN "none"
                      ELSE IF exit = "clean" THEN "succeeded" ELSE "failed"
           state == IF asked THEN "acknowledged" ELSE s.ext[r].cancellation_state
           clean == exit = "clean"
           row == ExitedRow(s, r, exit)
<1>1. s.ext[r] \in ExtRow
  BY ExtRowOf
<1>2. row = [s.ext[r] EXCEPT !.phase = phase, !.outcome = outcome,
                             !.cancellation_state = state, !.exited_clean = clean]
  BY DEF ExitedRow
<1>3. /\ asked => phase = "terminal" /\ outcome = "cancelled" /\ state = "acknowledged"
      /\ ~asked =>
            /\ state = s.ext[r].cancellation_state
            /\ exit # "clean" => phase = "terminal" /\ outcome = "failed"
            /\ exit = "clean" => \/ phase = "terminal" /\ outcome = "succeeded"
                                 \/ phase = "awaiting_completion" /\ outcome = "none"
      /\ exit = "clean" => clean
  OBVIOUS
<1> HIDE DEF phase, outcome, state, clean, row
<1>4. /\ row.phase = phase /\ row.outcome = outcome /\ row.cancellation_state = state
      /\ row.exited_clean = clean
  BY <1>1, <1>2, ZenonT(30) DEF ExtRow
<1>5. exit = "clean" => row.exited_clean
  BY <1>3, <1>4
<1>6. /\ asked => /\ row.phase = "terminal" /\ row.outcome = "cancelled"
                  /\ row.cancellation_state = "acknowledged"
      /\ ~asked =>
            /\ row.cancellation_state = s.ext[r].cancellation_state
            /\ exit # "clean" => row.phase = "terminal" /\ row.outcome = "failed"
            /\ exit = "clean" => \/ row.phase = "terminal" /\ row.outcome = "succeeded"
                                 \/ /\ row.phase = "awaiting_completion" /\ row.outcome = "none"
  BY <1>3, <1>4
<1>. QED BY <1>5, <1>6 DEF row, asked

\* What may become of the execution of a run whose attempt ends with the given status.
ExtEnded(s, t, r, status) ==
    \/ t.ext[r] = s.ext[r]
    \/ /\ ExtOpen(s, r) /\ t.ext[r].phase = "terminal"
       /\ t.ext[r].outcome = "succeeded" =>
             status = "succeeded" /\ (r \in ReceiptRuns => t.ext[r].completion_digest # "none")
    \/ /\ ExtOpen(s, r) /\ t.ext[r].phase = "awaiting_completion"
       /\ t.ext[r].outcome # "succeeded" /\ status = "succeeded"

\* An attempt that ends with its run, whatever its execution becomes.
LEMMA FinishedEnds ==
    ASSUME NEW s, NEW t, NEW r \in Runs, Over(s, r), NEW k, IsOpen(s, r, k),
           Wrote(s, t, r, AllFields), r \notin t.slots, t.running[r] = NotRunning,
           NEW status \in {"succeeded", "failed", "cancelled"}, NEW retryAt,
           Replaced(s.att[r], t.att[r], [status |-> status, retry_at |-> retryAt]),
           t.run[r].status = "finished",
           \/ t.asg[r] = Assigned(s.asg[r], AssignmentStatusFor(t.run[r]))
           \/ t.asg[r] = s.asg[r] /\ t.run[r] = s.run[r],
           ExtEnded(s, t, r, status), Settles(s, r, t.run[r], t.ext[r])
    PROVE  Ended(s, t, r)
<1>1. s \in State /\ Book(s, r) /\ Kept(s, r)
  BY DEF Over
<1>2. HasOpenAttempt(s, r)
  BY <1>1, OpenLast DEF Book
<1>3. ~LastIs(s, r, "succeeded") /\ ~LastIs(s, r, "lost")
  BY <1>2 DEF HasOpenAttempt, LastIs, OpenAttempt
<1>4. /\ t.att[r] # << >> /\ t.att[r][Len(t.att[r])].status = status
      /\ DOMAIN t.att[r] = DOMAIN s.att[r] /\ Len(t.att[r]) = Len(s.att[r])
      /\ \A j \in DOMAIN t.att[r] : j < Len(t.att[r]) => t.att[r][j] = s.att[r][j]
  BY DEF Replaced
<1>5. /\ \A other : LastIs(t, r, other) <=> other = status
      /\ ~HasOpenAttempt(t, r) /\ ~LastIs(t, r, "lost")
  BY <1>4 DEF LastIs, HasOpenAttempt, OpenAttempt
<1>6. EarlierFailed(t, r)
  BY <1>1, <1>4 DEF Book, EarlierFailed
<1>7. /\ s.ext[r].outcome # "succeeded" /\ ~(s.ext[r].exited_clean /\ ExtOpen(s, r))
      /\ s.ext[r].phase = "cancelling" => CancellationAsked(s, r)
  BY <1>1, <1>3 DEF Book
<1>8. Book(t, r)
  <2>1. CASE t.ext[r] = s.ext[r]
    BY <1>5, <1>6, <1>7, <2>1 DEF Book, ExtOpen, CancellationAsked
  <2>2. CASE t.ext[r] # s.ext[r]
    BY <1>5, <1>6, <2>2 DEF Book, ExtEnded, ExtOpen
  <2>. QED BY <2>1, <2>2
<1>9. Kept(t, r)
  <2>1. FailureFinal(t, r)
    BY DEF FailureFinal
  <2>2. AttemptsLeft(s, r) => AttemptsLeft(t, r)
    BY <1>4 DEF AttemptsLeft
  <2>3. AssignmentKept(s, r) => AssignmentKept(t, r)
    <3>1. t.ext[r].phase # "none" => s.ext[r].phase # "none"
      BY DEF ExtEnded, ExtOpen
    <3>. QED BY <3>1 DEF AssignmentKept, Assigned, ProcessBacked
  <2>. QED BY <1>1, <2>1, <2>2, <2>3 DEF Kept
<1>10. Moved(s, t, r)
  <2>1. s.ext[r].phase = "terminal" => t.ext[r] = s.ext[r]
    BY DEF ExtEnded, ExtOpen
  <2>. QED BY <1>3, <2>1 DEF Moved
<1>. QED BY <1>4, <1>5, <1>8, <1>9, <1>10 DEF Ended, ProcessBacked

\* Dropping the run and closing its attempt, with which every end begins.
LEMMA ClosedWrites ==
    ASSUME NEW s, NEW r \in Runs, Over(s, r), NEW k, IsOpen(s, r, k),
           NEW status \in {"succeeded", "failed", "cancelled"},
           NEW retryAt \in {"none", "future", "due"},
           NEW t, t = FinishAttempt(Drop(s, r), r, k, status, retryAt)
    PROVE  /\ Wrote(s, t, r, {"running", "slots", "att"})
           /\ r \notin t.slots /\ t.running[r] = NotRunning
           /\ Replaced(s.att[r], t.att[r], [status |-> status, retry_at |-> retryAt])
<1> DEFINE dropped == Drop(s, r)
<1>1. s \in State /\ EarlierFailed(s, r)
  BY DEF Over, Book
<1>2. /\ Wrote(s, dropped, r, {"running", "slots"})
      /\ r \notin dropped.slots /\ dropped.running[r] = NotRunning
  BY <1>1, DropWrites
<1>3. t = FinishAttempt(dropped, r, k, status, retryAt)
  OBVIOUS
<1> HIDE DEF dropped
<1>4. dropped \in State /\ EarlierFailed(dropped, r) /\ IsOpen(dropped, r, k)
      /\ dropped.att[r] = s.att[r]
  BY <1>1, <1>2 DEF Wrote, EarlierFailed, IsOpen
<1>5. status \in AttemptStatus
  BY DEF AttemptStatus
<1>6. /\ Wrote(dropped, t, r, {"att"})
      /\ Replaced(dropped.att[r], t.att[r], [status |-> status, retry_at |-> retryAt])
  BY <1>3, <1>4, <1>5, FinishWrites
<1>7. Wrote(s, t, r, {"running", "slots", "att"})
  BY <1>2, <1>6, WroteTwice
<1>8. r \notin t.slots /\ t.running[r] = NotRunning
  <2> HIDE DEF NotRunning
  <2>. QED BY <1>2, <1>6 DEF Wrote
<1>. QED BY <1>4, <1>6, <1>7, <1>8

\* finishTerminalRun() up to its dispatch.
LEMMA TerminalWrites ==
    ASSUME NEW s \in State, NEW r \in Runs
    PROVE  LET status == AssignmentStatusFor(s.run[r])
               t == UpdateAssignment(ClearRetryTimer(s, r), r, status)
           IN  Wrote(s, t, r, {"asg", "timers"}) /\ t.asg[r] = Assigned(s.asg[r], status)
<1> DEFINE status == AssignmentStatusFor(s.run[r])
           cleared == ClearRetryTimer(s, r)
           t == UpdateAssignment(cleared, r, status)
<1>1. status \in AssignmentStatus
  BY RowTypes DEF State
<1>2. Wrote(s, cleared, r, {"timers"})
  BY ClearTimerWrites
<1> HIDE DEF cleared, status
<1>3. Wrote(cleared, t, r, {"asg"}) /\ t.asg[r] = Assigned(cleared.asg[r], status)
  BY <1>1, <1>2, WroteState, AssignmentWrites
<1> HIDE DEF t
<1>4. Wrote(s, t, r, {"asg", "timers"})
  BY <1>2, <1>3, WroteTwice
<1>5. cleared.asg[r] = s.asg[r]
  BY <1>2 DEF Wrote
<1>. QED BY <1>3, <1>4, <1>5 DEF t, cleared, status

\* An attempt that is closed, with its execution settled and its row finished.
LEMMA TerminalEnds ==
    ASSUME NEW s, NEW r \in Runs, Over(s, r), NEW k, IsOpen(s, r, k),
           NEW status \in {"succeeded", "failed", "cancelled"},
           NEW c, c = FinishAttempt(Drop(s, r), r, k, status, "none"),
           NEW e, Wrote(c, e, r, {"ext"}), ExtEnded(s, e, r, status),
           NEW row \in RunRow, row.status = "finished", Settles(s, r, row, e.ext[r]),
           NEW t, t = [e EXCEPT !.run[r] = row], NEW launch
    PROVE  \E m : /\ Ended(s, m, r) /\ LastIs(m, r, status)
                  /\ FinishTerminalRun(t, r, launch) = DispatchMonOf(m, r, launch)
<1> DEFINE after == AssignmentStatusFor(t.run[r])
           m == UpdateAssignment(ClearRetryTimer(t, r), r, after)
<1>1. /\ Wrote(s, c, r, {"running", "slots", "att"})
      /\ r \notin c.slots /\ c.running[r] = NotRunning
      /\ Replaced(s.att[r], c.att[r], [status |-> status, retry_at |-> "none"])
  BY ClosedWrites
<1>2. Wrote(e, t, r, {"run"}) /\ t.run[r] = row
  <2>1. e \in State
    BY DEF Wrote
  <2>2. LET u == [e EXCEPT !.run[r] = row]
        IN  Wrote(e, u, r, {"run"}) /\ u.run[r] = row
    BY <2>1, WriteRun
  <2>. QED BY <2>2
<1>3. Wrote(t, m, r, {"asg", "timers"}) /\ m.asg[r] = Assigned(t.asg[r], after)
  BY <1>2, WroteState, TerminalWrites
<1>4. FinishTerminalRun(t, r, launch) = DispatchMonOf(m, r, launch)
  BY DEF FinishTerminalRun
<1> HIDE DEF m
<1>5. Wrote(s, m, r, AllFields)
  <2>1. Wrote(s, e, r, AllFields)
    BY <1>1, WroteTwice DEF AllFields
  <2>2. Wrote(s, t, r, AllFields)
    BY <2>1, <1>2, WroteTwice DEF AllFields
  <2>. QED BY <2>2, <1>3, WroteTwice DEF AllFields
<1>6. /\ r \notin m.slots /\ m.att[r] = c.att[r]
      /\ m.ext[r] = e.ext[r] /\ m.run[r] = t.run[r] /\ t.asg[r] = s.asg[r]
  BY <1>1, <1>2, <1>3 DEF Wrote
<1>7. m.running[r] = NotRunning
  <2> HIDE DEF NotRunning
  <2>. QED BY <1>1, <1>2, <1>3 DEF Wrote
<1>8. m.asg[r] = Assigned(s.asg[r], AssignmentStatusFor(m.run[r])) /\ m.run[r].status = "finished"
  BY <1>2, <1>3, <1>6
<1>9. ExtEnded(s, m, r, status)
  BY <1>6 DEF ExtEnded
<1>10. Replaced(s.att[r], m.att[r], [status |-> status, retry_at |-> "none"])
  BY <1>1, <1>6
<1>12. Settles(s, r, m.run[r], m.ext[r])
  BY <1>2, <1>6
<1>11. Ended(s, m, r)
  <2> HIDE DEF NotRunning
  <2>. QED BY <1>5, <1>6, <1>7, <1>8, <1>9, <1>10, <1>12, FinishedEnds
<1>13. LastIs(m, r, status)
  <2>1. HasOpenAttempt(s, r)
    BY OpenLast DEF Over, Book
  <2>2. k = Len(s.att[r])
    BY OpenLast DEF Over, Book
  <2>. QED BY <1>10, <2>1, <2>2 DEF Replaced, LastIs
<1>. QED BY <1>4, <1>11, <1>13

\* What closing an attempt leaves of the execution.
LEMMA ClosedExt ==
    ASSUME NEW s, NEW c, NEW r \in Runs, Wrote(s, c, r, {"running", "slots", "att"})
    PROVE  /\ c \in State /\ c.ext[r] = s.ext[r] /\ c.run[r] = s.run[r]
           /\ ExtOpen(c, r) <=> ExtOpen(s, r)
           /\ CancellationAsked(c, r) <=> CancellationAsked(s, r)
BY DEF Wrote, ExtOpen, CancellationAsked

\* A failure settles the execution,
LEMMA FailedExt ==
    ASSUME NEW s, NEW c, NEW r \in Runs, Wrote(s, c, r, {"running", "slots", "att"}),
           NEW status, NEW e, WroteOpenExt(c, e, r, FailedRow(c, r, "keep"))
    PROVE  Wrote(c, e, r, {"ext"}) /\ ExtEnded(s, e, r, status)
<1>1. /\ c \in State /\ c.ext[r] = s.ext[r]
      /\ ExtOpen(c, r) <=> ExtOpen(s, r)
  BY ClosedExt
<1>2. FailedRow(c, r, "keep").phase = "terminal" /\ FailedRow(c, r, "keep").outcome = "failed"
  BY <1>1, FailedFields
<1>. QED BY <1>1, <1>2 DEF WroteOpenExt, ExtEnded

\* and so does an exit that is clean only where the attempt has succeeded.
LEMMA ExitedExt ==
    ASSUME NEW s, NEW c, NEW r \in Runs, Wrote(s, c, r, {"running", "slots", "att"}),
           NEW status, NEW exit, NEW e, WroteOpenExt(c, e, r, ExitedRow(c, r, exit)),
           \/ status = "succeeded"
           \/ exit # "clean"
           \/ ExtOpen(s, r) => CancellationAsked(s, r)
    PROVE  Wrote(c, e, r, {"ext"}) /\ ExtEnded(s, e, r, status)
<1> DEFINE row == ExitedRow(c, r, exit)
<1>1. /\ c \in State /\ c.ext[r] = s.ext[r]
      /\ ExtOpen(c, r) <=> ExtOpen(s, r)
      /\ CancellationAsked(c, r) <=> CancellationAsked(s, r)
  BY ClosedExt
<1>2. /\ row.completion_digest = c.ext[r].completion_digest
      /\ \/ row.phase = "terminal"
         \/ /\ row.phase = "awaiting_completion" /\ row.outcome = "none"
            /\ exit = "clean" /\ ~CancellationAsked(c, r)
      /\ row.outcome = "succeeded" =>
            /\ row.phase = "terminal" /\ exit = "clean"
            /\ r \in ReceiptRuns => c.ext[r].completion_digest # "none"
      /\ CancellationAsked(c, r) => row.outcome = "cancelled"
  BY <1>1, ExitedFields
<1>3. Wrote(c, e, r, {"ext"}) /\ (ExtOpen(c, r) => e.ext[r] = row) /\ (~ExtOpen(c, r) => e.ext[r] = c.ext[r])
  BY DEF WroteOpenExt
<1> HIDE DEF row
<1>4. CASE ~ExtOpen(s, r)
  BY <1>1, <1>3, <1>4 DEF ExtEnded
<1>5. CASE ExtOpen(s, r)
  <2>1. e.ext[r] = row
    BY <1>1, <1>3, <1>5
  <2>2. row.outcome = "succeeded" => status = "succeeded"
    BY <1>1, <1>2, <1>5
  <2>3. row.phase = "awaiting_completion" => status = "succeeded"
    BY <1>1, <1>2, <1>5
  <2>. QED BY <1>2, <1>3, <1>5, <2>1, <2>2, <2>3 DEF ExtEnded
<1>. QED BY <1>4, <1>5

\* The exit of an attempt that was asked to stop.
LEMMA CancelledExitEnds ==
    ASSUME NEW s, NEW r \in Runs, Over(s, r), NEW k, IsOpen(s, r, k),
           ExtOpen(s, r) => CancellationAsked(s, r), NEW exit, NEW launch
    PROVE  \E m : /\ Ended(s, m, r)
                  /\ CancelledExit(Drop(s, r), r, k, exit, launch) = DispatchMonOf(m, r, launch)
<1> DEFINE c == FinishAttempt(Drop(s, r), r, k, "cancelled", "none")
           e == RecordProcessExit(c, r, exit)
           outcome == IF e.ext[r].outcome = "cancelled" THEN "canceled" ELSE "stopped"
           row == [FinishRunStopped(e.run[r]) EXCEPT !.outcome = outcome]
           t == [e EXCEPT !.run[r] = row]
<1>1. Wrote(s, c, r, {"running", "slots", "att"})
  BY ClosedWrites
<1>a. CancelledExit(Drop(s, r), r, k, exit, launch) = FinishTerminalRun(t, r, launch)
  BY DEF CancelledExit
<1>b. c = FinishAttempt(Drop(s, r), r, k, "cancelled", "none")
  OBVIOUS
<1> HIDE DEF c
<1>2. WroteOpenExt(c, e, r, ExitedRow(c, r, exit))
  BY <1>1, ClosedExt, RecordExitWrites
<1> HIDE DEF e
<1>3. Wrote(c, e, r, {"ext"}) /\ ExtEnded(s, e, r, "cancelled")
  BY <1>1, <1>2, ExitedExt
<1>4. row \in RunRow /\ row.status = "finished"
  <2>1. FinishRunStopped(e.run[r]) \in RunRow /\ FinishRunStopped(e.run[r]).status = "finished"
    BY <1>3, WroteState, RowTypes
  <2>. QED BY <2>1 DEF RunRow, RunOutcome
<1>6. row.outcome = outcome
  <2>1. FinishRunStopped(e.run[r]) \in RunRow
    BY <1>3, WroteState, RowTypes
  <2> HIDE DEF outcome
  <2>. QED BY <2>1 DEF RunRow
<1>7. Settles(s, r, row, e.ext[r])
  <2> SUFFICES ASSUME ExtOpen(s, r)
               PROVE  /\ CancellationAsked(s, r)
                      /\ row.outcome = "canceled"
                      /\ e.ext[r].phase = "terminal" /\ e.ext[r].outcome = "cancelled"
                      /\ e.ext[r].cancellation_state # "none"
    BY <1>4 DEF Settles
  <2>1. /\ c \in State /\ ExtOpen(c, r) /\ CancellationAsked(c, r) /\ CancellationAsked(s, r)
    BY <1>1, ClosedExt
  <2>2. e.ext[r] = ExitedRow(c, r, exit)
    BY <1>2, <2>1 DEF WroteOpenExt
  <2>3. /\ e.ext[r].phase = "terminal" /\ e.ext[r].outcome = "cancelled"
        /\ e.ext[r].cancellation_state = "acknowledged"
    BY <2>1, <2>2, ExitedVerdict
  <2>. QED BY <1>6, <2>1, <2>3
<1> HIDE DEF row
<1>5. t = [e EXCEPT !.run[r] = row]
  OBVIOUS
<1> HIDE DEF t
<1>. QED BY <1>a, <1>b, <1>3, <1>4, <1>5, <1>7, TerminalEnds

\* The exit of a failed attempt that is not retried.
LEMMA FailedExitEnds ==
    ASSUME NEW s, NEW r \in Runs, Over(s, r), NEW k, IsOpen(s, r, k),
           s.ext[r].phase # "cancelling", NEW exit \in Exit, NEW launch
    PROVE  \E m : /\ Ended(s, m, r)
                  /\ FailedExit(Drop(s, r), r, k, exit, launch) = DispatchMonOf(m, r, launch)
<1> DEFINE c == FinishAttempt(Drop(s, r), r, k, "failed", "none")
           e == IF exit = "clean" THEN MarkFailedByRun(c, r, "keep") ELSE RecordProcessExit(c, r, exit)
           cause == IF exit = "clean" THEN "nonzero" ELSE exit
           row == FinishRunFromExit(e.run[r], cause)
           t == [e EXCEPT !.run[r] = row]
<1>1. Wrote(s, c, r, {"running", "slots", "att"})
  BY ClosedWrites
<1>a. FailedExit(Drop(s, r), r, k, exit, launch) = FinishTerminalRun(t, r, launch)
  BY DEF FailedExit
<1>b. c = FinishAttempt(Drop(s, r), r, k, "failed", "none")
  OBVIOUS
<1> HIDE DEF c
<1>2. Wrote(c, e, r, {"ext"}) /\ ExtEnded(s, e, r, "failed")
  <2>1. c \in State
    BY <1>1, ClosedExt
  <2>2. CASE exit = "clean"
    <3>1. WroteOpenExt(c, e, r, FailedRow(c, r, "keep"))
      BY <2>1, <2>2, MarkFailedWrites
    <3> HIDE DEF e
    <3>. QED BY <1>1, <3>1, FailedExt
  <2>3. CASE exit # "clean"
    <3>1. WroteOpenExt(c, e, r, ExitedRow(c, r, exit))
      BY <2>1, <2>3, RecordExitWrites
    <3> HIDE DEF e
    <3>. QED BY <1>1, <2>3, <3>1, ExitedExt
  <2>. QED BY <2>2, <2>3
<1> HIDE DEF e, cause
<1>3. e.run[r] \in RunRow
  BY <1>2, WroteState
<1>4. row \in RunRow /\ row.status = "finished"
  <2>1. \A x : /\ FinishRunFromExit(e.run[r], x) \in RunRow
               /\ FinishRunFromExit(e.run[r], x).status = "finished"
    BY <1>3, RowTypes
  <2>. QED BY <2>1
<1>6. row.outcome \in {"failed", "interrupted"}
  <2>1. cause \in {"nonzero", "signal"}
    BY DEF cause, Exit
  <2>. QED BY <1>3, <2>1, RowValues
<1>7. Settles(s, r, row, e.ext[r])
  <2> SUFFICES ASSUME ExtOpen(s, r), ~CancellationAsked(s, r)
               PROVE  /\ e.ext[r].phase = "terminal" /\ e.ext[r].outcome = "failed"
                      /\ e.ext[r].cancellation_state = s.ext[r].cancellation_state
    BY <1>4, <1>6 DEF Settles
  <2>1. c \in State /\ c.ext[r] = s.ext[r] /\ ExtOpen(c, r) /\ ~CancellationAsked(c, r)
    BY <1>1, ClosedExt
  <2>2. CASE exit = "clean"
    <3>1. e.ext[r] = FailedRow(c, r, "keep")
      <4>1. WroteOpenExt(c, MarkFailedByRun(c, r, "keep"), r, FailedRow(c, r, "keep"))
        BY <2>1, MarkFailedWrites
      <4>2. e = MarkFailedByRun(c, r, "keep")
        BY <2>2 DEF e
      <4>. QED BY <2>1, <4>1, <4>2 DEF WroteOpenExt
    <3>. QED BY <2>1, <3>1, FailedFields
  <2>3. CASE exit # "clean"
    <3>1. e.ext[r] = ExitedRow(c, r, exit)
      <4>1. WroteOpenExt(c, RecordProcessExit(c, r, exit), r, ExitedRow(c, r, exit))
        BY <2>1, RecordExitWrites
      <4>2. e = RecordProcessExit(c, r, exit)
        BY <2>3 DEF e
      <4>. QED BY <2>1, <4>1, <4>2 DEF WroteOpenExt
    <3>. QED BY <2>1, <2>3, <3>1, ExitedVerdict
  <2>. QED BY <2>2, <2>3
<1> HIDE DEF row
<1>5. t = [e EXCEPT !.run[r] = row]
  OBVIOUS
<1> HIDE DEF t
<1>. QED BY <1>a, <1>b, <1>2, <1>4, <1>5, <1>7, TerminalEnds

\* The clean exit.
LEMMA SucceededExitEnds ==
    ASSUME NEW s, NEW r \in Runs, Over(s, r), NEW k, IsOpen(s, r, k),
           s.ext[r].phase # "cancelling", NEW launch
    PROVE  \E m : /\ Ended(s, m, r)
                  /\ SucceededExit(Drop(s, r), r, k, launch) = DispatchMonOf(m, r, launch)
<1> DEFINE c == FinishAttempt(Drop(s, r), r, k, "succeeded", "none")
           e == RecordProcessExit(c, r, "clean")
           row == FinishRunFromExit(e.run[r], "clean")
           reported == IF e.ext[r].phase = "awaiting_completion"
                       THEN [row EXCEPT !.runtime_state = "awaiting_completion"]
                       ELSE IF e.ext[r].outcome = "succeeded"
                       THEN [row EXCEPT !.outcome = "completed", !.outcome_state = "succeeded"]
                       ELSE row
           t == [e EXCEPT !.run[r] = reported]
<1>1. Wrote(s, c, r, {"running", "slots", "att"})
  BY ClosedWrites
<1>a. SucceededExit(Drop(s, r), r, k, launch) = FinishTerminalRun(t, r, launch)
  BY DEF SucceededExit
<1>b. c = FinishAttempt(Drop(s, r), r, k, "succeeded", "none")
  OBVIOUS
<1> HIDE DEF c
<1>2. WroteOpenExt(c, e, r, ExitedRow(c, r, "clean"))
  BY <1>1, ClosedExt, RecordExitWrites
<1> HIDE DEF e
<1>3. Wrote(c, e, r, {"ext"}) /\ ExtEnded(s, e, r, "succeeded")
  BY <1>1, <1>2, ExitedExt
<1>c. e.run[r] \in RunRow
  BY <1>3, WroteState
<1>4. row \in RunRow /\ row.status = "finished"
  BY <1>c, RowTypes
<1> HIDE DEF row
<1>6. reported \in RunRow /\ reported.status = "finished"
  BY <1>4 DEF RunRow, RunOutcome, RuntimeState, OutcomeState
<1>7. Settles(s, r, reported, e.ext[r])
  <2> SUFFICES ASSUME ExtOpen(s, r), ~CancellationAsked(s, r)
               PROVE  /\ e.ext[r].cancellation_state = s.ext[r].cancellation_state
                      /\ \/ /\ e.ext[r].phase = "terminal" /\ e.ext[r].outcome = "succeeded"
                            /\ reported.outcome = "completed"
                         \/ /\ e.ext[r].phase = "awaiting_completion" /\ e.ext[r].outcome = "none"
                            /\ e.ext[r].exited_clean
    BY <1>6 DEF Settles
  <2>1. c \in State /\ c.ext[r] = s.ext[r] /\ ExtOpen(c, r) /\ ~CancellationAsked(c, r)
    BY <1>1, ClosedExt
  <2>2. e.ext[r] = ExitedRow(c, r, "clean")
    BY <1>2, <2>1 DEF WroteOpenExt
  <2>3. /\ e.ext[r].cancellation_state = s.ext[r].cancellation_state
        /\ \/ e.ext[r].phase = "terminal" /\ e.ext[r].outcome = "succeeded"
           \/ /\ e.ext[r].phase = "awaiting_completion" /\ e.ext[r].outcome = "none"
              /\ e.ext[r].exited_clean
    BY <2>1, <2>2, ExitedVerdict
  <2>4. e.ext[r].phase = "terminal" /\ e.ext[r].outcome = "succeeded" => reported.outcome = "completed"
    BY <1>4 DEF reported, RunRow
  <2>. QED BY <2>3, <2>4
<1> HIDE DEF reported
<1>5. t = [e EXCEPT !.run[r] = reported]
  OBVIOUS
<1> HIDE DEF t
<1>. QED BY <1>a, <1>b, <1>3, <1>5, <1>6, <1>7, TerminalEnds

\* The failure of a launch that is not retried.
LEMMA ErrorEnds ==
    ASSUME NEW s, NEW r \in Runs, Over(s, r), NEW k, IsOpen(s, r, k), NEW launch,
           NEW failed, failed = FinishAttempt(Drop(s, r), r, k, "failed", "none"),
           NEW t, t = MarkFailedByRun([failed EXCEPT !.run[r] = FinishRunInterrupted(@, "crashed")],
                                      r, "keep")
    PROVE  \E m : /\ Ended(s, m, r) /\ LastIs(m, r, "failed")
                  /\ FinishTerminalRun(t, r, launch) = DispatchMonOf(m, r, launch)
<1> DEFINE row == FinishRunInterrupted(failed.run[r], "crashed")
           e == MarkFailedByRun(failed, r, "keep")
<1>1. Wrote(s, failed, r, {"running", "slots", "att"})
  BY ClosedWrites
<1>2. failed \in State
  BY <1>1, ClosedExt
<1>3. WroteOpenExt(failed, e, r, FailedRow(failed, r, "keep"))
  BY <1>2, MarkFailedWrites
<1>4. row \in RunRow /\ row.status = "finished"
  BY <1>1, WroteState, RowTypes DEF ProcessStatus
<1>5. t = [e EXCEPT !.run[r] = row]
  BY <1>2 DEF MarkFailedByRun, ExtOpen, State
<1>7. row.outcome = "interrupted"
  BY <1>1, WroteState, RowValues
<1> HIDE DEF e, row
<1>6. Wrote(failed, e, r, {"ext"}) /\ ExtEnded(s, e, r, "failed")
  BY <1>1, <1>3, FailedExt
<1>8. Settles(s, r, row, e.ext[r])
  <2> SUFFICES ASSUME ExtOpen(s, r)
               PROVE  /\ e.ext[r].phase = "terminal" /\ e.ext[r].outcome = "failed"
                      /\ e.ext[r].cancellation_state = s.ext[r].cancellation_state
    BY <1>4, <1>7 DEF Settles
  <2>1. ExtOpen(failed, r) /\ failed.ext[r] = s.ext[r]
    BY <1>1, ClosedExt
  <2>2. e.ext[r] = FailedRow(failed, r, "keep")
    BY <1>3, <2>1 DEF WroteOpenExt
  <2>. QED BY <1>2, <2>1, <2>2, FailedFields
<1>. QED BY <1>4, <1>5, <1>6, <1>8, TerminalEnds

\* A run that was finished before its process ended only closes its attempt.
LEMMA ClosedRunEnds ==
    ASSUME NEW s, NEW r \in Runs, Over(s, r), NEW k, IsOpen(s, r, k),
           s.run[r].status = "finished", NEW status \in {"failed", "cancelled"},
           NEW t, t = FinishAttempt(Drop(s, r), r, k, status, "none")
    PROVE  Ended(s, t, r)
<1>1. /\ Wrote(s, t, r, {"running", "slots", "att"})
      /\ r \notin t.slots /\ t.running[r] = NotRunning
      /\ Replaced(s.att[r], t.att[r], [status |-> status, retry_at |-> "none"])
  BY ClosedWrites
<1>2. Wrote(s, t, r, AllFields)
  BY <1>1 DEF Wrote, AllFields
<1>3. t.asg[r] = s.asg[r] /\ t.run[r] = s.run[r] /\ t.ext[r] = s.ext[r]
  BY <1>1 DEF Wrote
<1>4. /\ ExtEnded(s, t, r, status) /\ t.run[r].status = "finished"
      /\ Settles(s, r, t.run[r], t.ext[r])
  BY <1>3 DEF ExtEnded, Settles
<1> HIDE DEF NotRunning
<1>. QED BY <1>1, <1>2, <1>3, <1>4, FinishedEnds

\* A failed attempt that is retried: the run is queued again with a retry time.
LEMMA RetryEnds ==
    ASSUME NEW s, NEW r \in Runs, Over(s, r), NEW k, IsOpen(s, r, k),
           s.run[r].status # "finished", k < MaxAttempts, ~CancellationAsked(s, r), NEW launch
    PROVE  \E m : /\ Ended(s, m, r) /\ LastIs(m, r, "failed")
                  /\ Retry(Drop(s, r), r, k, launch) = DispatchMonOf(m, r, launch)
<1> DEFINE retryAt == IF ZeroBackoff THEN "due" ELSE "future"
           failed == FinishAttempt(Drop(s, r), r, k, "failed", retryAt)
           requeued == [failed EXCEPT !.run[r] = QueuedRow]
           scheduled == ScheduleRetryByRun(requeued, r)
           waiting == UpdateAssignment(scheduled, r, "queued")
           m == [waiting EXCEPT !.timers = @ \cup {r}]
<1>1. s \in State /\ Book(s, r) /\ Kept(s, r)
  BY DEF Over
<1>2. retryAt \in {"none", "future", "due"} /\ retryAt # "none"
  OBVIOUS
<1>a. Retry(Drop(s, r), r, k, launch) = DispatchMonOf(m, r, launch)
  BY DEF Retry
<1> HIDE DEF retryAt
<1>3. /\ Wrote(s, failed, r, {"running", "slots", "att"})
      /\ r \notin failed.slots /\ failed.running[r] = NotRunning
      /\ Replaced(s.att[r], failed.att[r], [status |-> "failed", retry_at |-> retryAt])
  BY <1>2, ClosedWrites
<1> HIDE DEF failed
<1>4. Wrote(failed, requeued, r, {"run"}) /\ requeued.run[r] = QueuedRow
  <2>1. failed \in State /\ failed.run[r] \in RunRow
    BY <1>3, WroteState
  <2>2. QueuedRow \in RunRow
    BY <2>1, RowTypes
  <2> HIDE DEF QueuedRow
  <2>. QED BY <2>1, <2>2, WriteRun
<1> HIDE DEF requeued
<1>5. /\ Wrote(requeued, scheduled, r, {"ext"})
      /\ \/ scheduled.ext[r] = s.ext[r]
         \/ /\ ExtOpen(s, r)
            /\ scheduled.ext[r] = [s.ext[r] EXCEPT !.phase = "queued", !.outcome = "none"]
  <2>1. requeued \in State /\ requeued.ext[r] = s.ext[r]
    BY <1>3, <1>4, WroteState DEF Wrote
  <2>2. ExtOpen(requeued, r) <=> ExtOpen(s, r)
    BY <2>1 DEF ExtOpen
  <2>3. CASE s.ext[r].cancellation_state = "none"
    <3>1. WroteOpenExt(requeued, scheduled, r,
                       [requeued.ext[r] EXCEPT !.phase = "queued", !.outcome = "none"])
      BY <2>1, <2>3, PhaseWrites
    <3>. QED BY <2>1, <2>2, <3>1 DEF WroteOpenExt
  <2>4. CASE s.ext[r].cancellation_state # "none"
    <3>1. scheduled = requeued
      BY <2>1, <2>4, PhaseWrites
    <3>2. Wrote(requeued, requeued, r, {"ext"})
      BY <2>1, WroteNothing DEF Wrote
    <3>. QED BY <2>1, <3>1, <3>2
  <2>. QED BY <2>3, <2>4
<1>b. s.ext[r].cancellation_state = "none" /\ ExtOpen(s, r) =>
         scheduled.ext[r] = [s.ext[r] EXCEPT !.phase = "queued", !.outcome = "none"]
  <2> SUFFICES ASSUME s.ext[r].cancellation_state = "none", ExtOpen(s, r)
               PROVE  scheduled.ext[r] = [s.ext[r] EXCEPT !.phase = "queued", !.outcome = "none"]
    OBVIOUS
  <2>1. requeued \in State /\ requeued.ext[r] = s.ext[r]
    BY <1>3, <1>4, WroteState DEF Wrote
  <2>2. ExtOpen(requeued, r)
    BY <2>1 DEF ExtOpen
  <2>3. WroteOpenExt(requeued, scheduled, r,
                     [requeued.ext[r] EXCEPT !.phase = "queued", !.outcome = "none"])
    BY <2>1, PhaseWrites
  <2>. QED BY <2>1, <2>2, <2>3 DEF WroteOpenExt
<1> HIDE DEF scheduled
<1>6. Wrote(scheduled, waiting, r, {"asg"}) /\ waiting.asg[r] = Assigned(scheduled.asg[r], "queued")
  BY <1>5, WroteState, AssignmentWrites DEF AssignmentStatus
<1> HIDE DEF waiting
<1>7. Wrote(waiting, m, r, {"timers"}) /\ m.asg[r] = waiting.asg[r] /\ r \in m.timers
  <2> DEFINE T == waiting.timers \cup {r}
  <2>1. /\ waiting \in State /\ T \in SUBSET Runs /\ r \in T
        /\ \A q \in Runs : q # r => (q \in T <=> q \in waiting.timers)
    BY <1>6 DEF Wrote, State
  <2>2. m = [waiting EXCEPT !.timers = T]
    OBVIOUS
  <2> HIDE DEF T
  <2>3. Wrote(waiting, m, r, {"timers"})
    BY <2>1, <2>2, WriteTimers
  <2>4. m.timers = T
    BY <2>1, <2>2 DEF State
  <2>. QED BY <2>1, <2>3, <2>4 DEF Wrote
<1> HIDE DEF m
<1>8. Wrote(s, m, r, AllFields)
  <2>1. Wrote(s, requeued, r, AllFields)
    BY <1>3, <1>4, WroteTwice DEF AllFields
  <2>2. Wrote(s, scheduled, r, AllFields)
    BY <2>1, <1>5, WroteTwice DEF AllFields
  <2>3. Wrote(s, waiting, r, AllFields)
    BY <2>2, <1>6, WroteTwice DEF AllFields
  <2>. QED BY <2>3, <1>7, WroteTwice DEF AllFields
<1>9. /\ r \notin m.slots /\ m.att[r] = failed.att[r] /\ m.run[r] = QueuedRow
      /\ m.ext[r] = scheduled.ext[r] /\ m.asg[r] = Assigned(s.asg[r], "queued")
  <2>1. r \notin m.slots /\ m.att[r] = failed.att[r] /\ m.ext[r] = scheduled.ext[r]
    BY <1>3, <1>4, <1>5, <1>6, <1>7 DEF Wrote
  <2>2. m.run[r] = QueuedRow /\ scheduled.asg[r] = s.asg[r]
    <3> HIDE DEF QueuedRow
    <3>. QED BY <1>3, <1>4, <1>5, <1>6, <1>7 DEF Wrote
  <2>. QED BY <2>1, <2>2, <1>6, <1>7
<1>10. m.running[r] = NotRunning
  <2> HIDE DEF NotRunning
  <2>. QED BY <1>3, <1>4, <1>5, <1>6, <1>7 DEF Wrote
<1>11. m.run[r].status = "queued" /\ m.run[r].runtime_state = "queued" /\ ~m.running[r].stop
  BY <1>9, <1>10 DEF QueuedRow, NoRow, NotRunning
<1>12. k = Len(s.att[r]) /\ k \in Nat \ {0} /\ HasOpenAttempt(s, r)
  BY <1>1, OpenLast DEF Book
<1>13. /\ m.att[r] # << >> /\ Len(m.att[r]) = k /\ DOMAIN m.att[r] = DOMAIN s.att[r]
       /\ m.att[r][k].status = "failed" /\ m.att[r][k].retry_at = retryAt
       /\ k \in DOMAIN m.att[r]
       /\ \A j \in DOMAIN m.att[r] : j < k => m.att[r][j] = s.att[r][j]
  BY <1>3, <1>9, <1>12 DEF Replaced, IsOpen
<1>14. /\ \A status : LastIs(m, r, status) <=> status = "failed"
       /\ ~HasOpenAttempt(m, r) /\ ~LastIs(m, r, "lost")
  BY <1>13 DEF LastIs, HasOpenAttempt, OpenAttempt
<1>15. EarlierFailed(m, r)
  BY <1>1, <1>12, <1>13 DEF Book, EarlierFailed
<1>16. ~LastIs(s, r, "succeeded") /\ ~LastIs(s, r, "lost")
  BY <1>12 DEF HasOpenAttempt, LastIs, OpenAttempt
<1>17. /\ s.ext[r].outcome # "succeeded" /\ ~(s.ext[r].exited_clean /\ ExtOpen(s, r))
       /\ s.ext[r].phase # "cancelling" /\ s.ext[r] \in ExtRow
  BY <1>1, <1>16, ExtRowOf DEF Book
<1>18. /\ m.ext[r].outcome # "succeeded" /\ ~(m.ext[r].exited_clean /\ ExtOpen(m, r))
       /\ m.ext[r].phase # "cancelling"
       /\ s.ext[r].phase = "terminal" => m.ext[r] = s.ext[r]
       /\ m.ext[r].phase # "none" => s.ext[r].phase # "none"
  <2>1. CASE m.ext[r] = s.ext[r]
    BY <1>17, <2>1 DEF ExtOpen
  <2>2. CASE ExtOpen(s, r) /\ m.ext[r] = [s.ext[r] EXCEPT !.phase = "queued", !.outcome = "none"]
    <3>1. m.ext[r].outcome = "none" /\ m.ext[r].phase = "queued"
          /\ m.ext[r].exited_clean = s.ext[r].exited_clean
      BY <1>17, <2>2 DEF ExtRow
    <3>. QED BY <1>17, <2>2, <3>1 DEF ExtOpen
  <2>. QED BY <1>5, <1>9, <2>1, <2>2
<1>19. Book(m, r)
  BY <1>11, <1>14, <1>15, <1>18 DEF Book
<1>20. Kept(m, r)
  <2>1. FailureFinal(m, r)
    BY <1>2, <1>13 DEF FailureFinal
  <2>2. AttemptsLeft(m, r)
    BY <1>12, <1>13, PolicyAssumption DEF AttemptsLeft
  <2>3. AssignmentKept(s, r) => AssignmentKept(m, r)
    <3> SUFFICES ASSUME AssignmentKept(s, r)
                 PROVE  AssignmentKept(m, r)
      OBVIOUS
    <3>1. s.asg[r] # "none" => r \in PlanRuns
      BY DEF AssignmentKept
    <3>2. m.ext[r].phase # "none" => r \in External
      BY <1>18 DEF AssignmentKept
    <3>3. m.asg[r] = IF s.asg[r] = "none" THEN "none" ELSE "queued"
      BY <1>9 DEF Assigned
    <3>. QED BY <1>11, <3>1, <3>2, <3>3 DEF AssignmentKept, ProcessBacked
  <2>. QED BY <1>1, <2>1, <2>2, <2>3 DEF Kept
<1>21. Moved(s, m, r)
  BY <1>2, <1>11, <1>12, <1>13, <1>16, <1>18 DEF Moved
<1>23. Settles(s, r, m.run[r], m.ext[r])
  <2>1. s.ext[r].cancellation_state = "none" /\ ExtOpen(s, r) =>
           m.ext[r] = [s.ext[r] EXCEPT !.phase = "queued", !.outcome = "none"]
    BY <1>b, <1>9
  <2>2. CASE m.ext[r] = s.ext[r] /\ ~(s.ext[r].cancellation_state = "none" /\ ExtOpen(s, r))
    BY <1>11, <2>2 DEF Settles
  <2>3. CASE m.ext[r] = [s.ext[r] EXCEPT !.phase = "queued", !.outcome = "none"]
    <3>1. /\ m.ext[r].phase = "queued" /\ m.ext[r].outcome = "none"
          /\ m.ext[r].cancellation_state = s.ext[r].cancellation_state
      BY <1>17, <2>3 DEF ExtRow
    <3>2. m.ext[r].exited_clean = s.ext[r].exited_clean
      BY <1>17, <2>3 DEF ExtRow
    <3>. QED BY <1>11, <3>1, <3>2 DEF Settles
  <2>. QED BY <1>5, <1>9, <2>1, <2>2, <2>3
<1>22. Ended(s, m, r)
  <2>1. m.run[r].status = "queued" /\ r \in m.timers
    BY <1>7, <1>11
  <2> HIDE DEF NotRunning
  <2>. QED BY <1>8, <1>9, <1>10, <1>13, <1>14, <1>19, <1>20, <1>21, <1>23, <2>1 DEF Ended
<1>. QED BY <1>a, <1>14, <1>22

-----------------------------------------------------------------------------
(* Process exits and launch failures *)

\* What ends with a dispatch.
LEMMA EndThenDispatch ==
    ASSUME NEW s, NEW m, NEW r \in Runs, Over(s, r), Ended(s, m, r), NEW launch \in Launches,
           NEW t, t = DispatchMonOf(m, r, launch)
    PROVE  Sound(t) /\ Stepped(s, t)
<1>1. /\ Sound(m) /\ \A x \in Runs : Moved(s, m, x)
      /\ NoEvent => m.pending = {}
  BY EndedSound
<1>2. t = Dispatch(m, MonOf[r], launch, "void", 0) /\ "void" \in Caller /\ 0 \in Runs \cup {0}
  BY DEF DispatchMonOf, Caller
<1>3. Sound(t) /\ \A x \in Runs : Dispatched(m, t, x)
  BY <1>1, <1>2, DispatchSound
<1>. QED BY <1>1, <1>3, MovedThenDispatched

\* What ends without one.
LEMMA MovedStepped ==
    ASSUME NEW s, NEW t, \A x \in Runs : Moved(s, t, x)
    PROVE  Stepped(s, t)
<1>1. \A x \in Runs : Dispatched(t, t, x)
  BY DEF Dispatched
<1>. QED BY <1>1, MovedThenDispatched

\* A run whose rows are as they were has not moved.
LEMMA SameRowsMoved ==
    ASSUME NEW s, NEW t, NEW r, Book(s, r),
           t.run[r] = s.run[r], t.att[r] = s.att[r], t.ext[r] = s.ext[r]
    PROVE  Moved(s, t, r)
BY DEF Moved, Stays, LastIs, Book, ProcessBacked

\* handleProcessExit() of an attempt that has not ended: the attempt ends, and then the slot
\* is offered.
LEMMA ExitEnds ==
    ASSUME NEW s, NEW r \in Runs, Over(s, r), NEW k, ~Stale(s, r, k),
           NEW exit \in Exit, NEW sign, NEW launch,
           NEW t, t = HandleProcessExit(s, r, k, exit, sign, launch)
    PROVE  \E m : Ended(s, m, r) /\ t = DispatchMonOf(m, r, launch)
<1> DEFINE e == s.running[r]
           condition == FailureCondition(e, exit, sign)
           closing == IF e.stop THEN "cancelled" ELSE "failed"
           dropped == Drop(s, r)
<1>1. IsOpen(s, r, k) /\ Book(s, r)
  BY DEF Stale, Over
<1>2. t = IF s.run[r].status = "finished"
          THEN DispatchMonOf(FinishAttempt(dropped, r, k, closing, "none"), r, launch)
          ELSE IF Cancelling(s, r) THEN CancelledExit(dropped, r, k, exit, launch)
          ELSE IF condition = "none" THEN SucceededExit(dropped, r, k, launch)
          ELSE IF ShouldRetry(s, r, k, condition) THEN Retry(dropped, r, k, launch)
          ELSE FailedExit(dropped, r, k, exit, launch)
  BY DEF HandleProcessExit
<1>3. CASE s.run[r].status = "finished"
  <2>1. closing \in {"failed", "cancelled"}
    OBVIOUS
  <2> HIDE DEF closing
  <2>2. Ended(s, FinishAttempt(dropped, r, k, closing, "none"), r)
    BY <1>1, <1>3, <2>1, ClosedRunEnds
  <2>. QED BY <1>2, <1>3, <2>2
<1>4. CASE s.run[r].status # "finished"
  <2> HIDE DEF condition
  <2>1. CASE Cancelling(s, r)
    <3>1. ExtOpen(s, r) => CancellationAsked(s, r)
      BY <1>1, <1>4, <2>1 DEF Cancelling, Book
    <3>. QED BY <1>1, <1>2, <1>4, <2>1, <3>1, CancelledExitEnds
  <2>2. CASE ~Cancelling(s, r) /\ condition = "none"
    <3>1. s.ext[r].phase # "cancelling"
      BY <2>2 DEF Cancelling
    <3>. QED BY <1>1, <1>2, <1>4, <2>2, <3>1, SucceededExitEnds
  <2>3. CASE ~Cancelling(s, r) /\ condition # "none" /\ ShouldRetry(s, r, k, condition)
    <3>1. k < MaxAttempts /\ ~CancellationAsked(s, r)
      BY <2>3 DEF ShouldRetry
    <3>. QED BY <1>1, <1>2, <1>4, <2>3, <3>1, RetryEnds
  <2>4. CASE ~Cancelling(s, r) /\ condition # "none" /\ ~ShouldRetry(s, r, k, condition)
    <3>1. s.ext[r].phase # "cancelling"
      BY <2>4 DEF Cancelling
    <3>. QED BY <1>1, <1>2, <1>4, <2>4, <3>1, FailedExitEnds
  <2>. QED BY <2>1, <2>2, <2>3, <2>4
<1>. QED BY <1>3, <1>4

\* So does handleProcessError(), of a run that nobody has finished.
LEMMA LaunchFailureEnds ==
    ASSUME NEW s, NEW r \in Runs, Over(s, r), NEW k, ~Stale(s, r, k),
           s.run[r].status # "finished", NEW sign, NEW launch,
           NEW t, t = HandleProcessError(s, r, k, sign, launch)
    PROVE  \E m : Ended(s, m, r) /\ LastIs(m, r, "failed") /\ t = DispatchMonOf(m, r, launch)
<1> DEFINE failed == FinishAttempt(Drop(s, r), r, k, "failed", "none")
           ended == MarkFailedByRun([failed EXCEPT !.run[r] = FinishRunInterrupted(@, "crashed")],
                                    r, "keep")
           condition == ErrorCondition(s.running[r], sign)
<1>1. IsOpen(s, r, k)
  BY DEF Stale
<1>2. t = IF ShouldRetry(s, r, k, condition) THEN Retry(Drop(s, r), r, k, launch)
          ELSE FinishTerminalRun(ended, r, launch)
  BY DEF HandleProcessError
<1> HIDE DEF condition
<1>3. CASE ShouldRetry(s, r, k, condition)
  <2>1. k < MaxAttempts /\ ~CancellationAsked(s, r)
    BY <1>3 DEF ShouldRetry
  <2>. QED BY <1>1, <1>2, <1>3, <2>1, RetryEnds
<1>4. CASE ~ShouldRetry(s, r, k, condition)
  <2>1. t = FinishTerminalRun(ended, r, launch)
    BY <1>2, <1>4
  <2> HIDE DEF failed
  <2>2. failed = FinishAttempt(Drop(s, r), r, k, "failed", "none")
    BY DEF failed
  <2>3. \E m : /\ Ended(s, m, r) /\ LastIs(m, r, "failed")
               /\ FinishTerminalRun(ended, r, launch) = DispatchMonOf(m, r, launch)
    BY <1>1, <2>2, ErrorEnds
  <2>. QED BY <2>1, <2>3
<1>. QED BY <1>3, <1>4

\* Either way the invariant is kept.
LEMMA ExitSound ==
    ASSUME NEW s, NEW r \in Runs, Over(s, r), NEW k, ~Stale(s, r, k),
           NEW exit \in Exit, NEW sign, NEW launch \in Launches,
           NEW t, t = HandleProcessExit(s, r, k, exit, sign, launch)
    PROVE  Sound(t) /\ Stepped(s, t)
BY ExitEnds, EndThenDispatch

\* An 'error' event may come when the run is finished.
LEMMA ErrorSound ==
    ASSUME NEW s, NEW r \in Runs, Over(s, r), NEW k, ~Stale(s, r, k),
           NoEvent => s.run[r].status # "finished",
           NEW sign, NEW launch \in Launches,
           NEW t, t = HandleProcessError(s, r, k, sign, launch)
    PROVE  Sound(t) /\ Stepped(s, t)
<1> DEFINE dropped == Drop(s, r)
<1>1. IsOpen(s, r, k) /\ Book(s, r) /\ s \in State
  BY DEF Stale, Over
<1>2. s.run[r].status = "finished" => t = dropped
  BY DEF HandleProcessError
<1>3. CASE s.run[r].status = "finished"
  <2>1. Wrote(s, dropped, r, {"running", "slots"}) /\ r \notin dropped.slots /\ dropped.running[r] = NotRunning
    BY <1>1, DropWrites
  <2>2. t = dropped /\ ~NoEvent /\ ~Sheltered
    BY <1>2, <1>3, EnvironmentAssumption DEF NoEvent, Sheltered
  <2> HIDE DEF dropped
  <2>3. /\ t.run[r] = s.run[r] /\ t.att[r] = s.att[r] /\ t.ext[r] = s.ext[r]
        /\ t.procs = s.procs /\ t.pending = s.pending /\ t.errors = s.errors
        /\ t.service = s.service /\ t \in State /\ Others(s, t, r)
    BY <2>1, <2>2 DEF Wrote
  <2>4. /\ \A status : LastIs(t, r, status) <=> LastIs(s, r, status)
        /\ ~LastIs(t, r, "lost")
    <3>1. HasOpenAttempt(s, r)
      BY <1>1, OpenLast DEF Book
    <3>. QED BY <2>3, <3>1 DEF LastIs, HasOpenAttempt, OpenAttempt
  <2>5. Book(t, r)
    BY <1>1, <1>3, <2>3, <2>4 DEF Book, EarlierFailed, ExtOpen, CancellationAsked
  <2>6. Fine(t, r)
    <3>1. Known(t, r)
      BY <2>3 DEF Over, Known, Dead
    <3>2. Kept(t, r)
      BY <2>2, <2>3 DEF Over, Kept, AttemptsLeft
    <3>3. Live(t, r)
      BY <2>1, <2>2, <2>4 DEF Live
    <3>. QED BY <2>2, <2>5, <3>1, <3>2, <3>3 DEF Fine
  <2>7. Sound(t)
    <3>1. s \in State /\ t \in State /\ Others(s, t, r) /\ \A q \in Runs : q # r => Fine(s, q)
      BY <2>3 DEF Over
    <3>2. t.service # "down"
      BY <2>3 DEF Over
    <3>. QED BY <2>2, <2>6, <3>1, <3>2, OthersSound
  <2>8. ASSUME NEW x \in Runs
        PROVE  Moved(s, t, x)
    <3>1. CASE x = r
      BY <1>1, <2>3, <3>1, SameRowsMoved
    <3>2. CASE x # r
      <4>1. Same(s, t, x) /\ Book(s, x)
        BY <2>3, <3>2 DEF Others, Over, Fine
      <4>. QED BY <4>1, SameMoves
    <3>. QED BY <3>1, <3>2
  <2>. QED BY <2>7, <2>8, MovedStepped
<1>4. CASE s.run[r].status # "finished"
  BY <1>4, LaunchFailureEnds, EndThenDispatch
<1>. QED BY <1>3, <1>4

-----------------------------------------------------------------------------
(* The steps of the run manager, one lemma each *)

\* What a step that commits t has to show of t.
Keeps(s, t) == Sound(t) /\ Stepped(s, t)

\* A step that commits such a state.
LEMMA CommitKeeps ==
    ASSUME NEW t, Keeps(st, t), Commit(t)
    PROVE  Sound(st') /\ Stepped(st, st')
<1>1. st' = t
  BY DEF Keeps, Sound, State, Commit, st
<1>. QED BY <1>1 DEF Keeps

\* Taking an event from its queue writes no row.
LEMMA SteppedFrom ==
    ASSUME NEW s, NEW u, u.run = s.run, u.att = s.att, u.ext = s.ext, NEW t, Keeps(u, t)
    PROVE  Keeps(s, t)
BY DEF Keeps, Stepped, Stays, LastIs

\* Run r when an event of its attempt k has been taken from its queue: either nothing is left of
\* the attempt, or it is stale and the run is as fine as before.
LEMMA EventTaken ==
    ASSUME NEW s, Sound(s), NEW r \in Runs, NEW k,
           NEW u \in State, u.run = s.run, u.att = s.att, u.ext = s.ext, u.asg = s.asg,
           u.running = s.running, u.slots = s.slots, u.service = s.service,
           \A j : <<r, j>> \in u.procs <=> <<r, j>> \in s.procs /\ j # k,
           \A j : <<r, j>> \in u.errors => <<r, j>> \in s.errors,
           u.pending \subseteq s.pending,
           Others(s, u, r),
           IsOpen(s, r, k) \/ ~NoEvent,
           NoEvent => u.pending = {},
           \A j : j # k /\ <<r, j>> \in s.errors => <<r, j>> \in u.errors,
           \A w : w.run = r /\ w.attempt # k /\ w \in s.pending => w \in u.pending
    PROVE  /\ ~Stale(u, r, k) => Over(u, r)
           /\ Stale(u, r, k) => Keeps(s, u)
           /\ Stale(u, r, k) => ~NoEvent
<1>1. s \in State /\ Fine(s, r) /\ Book(s, r) /\ Known(s, r) /\ Kept(s, r)
  BY DEF Sound, Fine
<1>2. /\ \A status : LastIs(u, r, status) <=> LastIs(s, r, status)
      /\ \A j : IsOpen(u, r, j) <=> IsOpen(s, r, j)
      /\ HasOpenAttempt(u, r) <=> HasOpenAttempt(s, r)
  BY DEF LastIs, IsOpen, HasOpenAttempt
<1>3. Book(u, r)
  BY <1>1, <1>2 DEF Book, EarlierFailed, ExtOpen, CancellationAsked
<1>4. Kept(u, r)
  BY <1>1, <1>2 DEF Kept, FailureFinal, AttemptsLeft, AssignmentKept
<1>5. \A q \in Runs : q # r => Fine(u, q)
  BY <1>1, SameFine DEF Others, Sound
<1>6. /\ \A j : <<r, j>> \in u.errors => j \in DOMAIN u.att[r]
      /\ \A w \in u.pending : w.run = r => w.attempt \in DOMAIN u.att[r]
  BY <1>1 DEF Known
<1>7. NoEvent => u.pending = {} /\ \A j : <<r, j>> \notin u.errors
  BY <1>1 DEF Fine, Calm
<1>8. /\ u.service # "down"
      /\ Sheltered => u.service = "up"
  BY DEF Sound
<1>9. ASSUME ~Stale(u, r, k)
      PROVE  Over(u, r)
  <2>1. IsOpen(s, r, k)
    BY <1>2, <1>9 DEF Stale
  <2>2. Dead(u, r)
    <3> SUFFICES ASSUME NEW j, <<r, j>> \in u.procs
                 PROVE  FALSE
      BY DEF Dead
    <3>1. IsOpen(s, r, j) /\ j # k
      BY <1>1 DEF Known
    <3>. QED BY <1>1, <2>1, <3>1, OpenLast DEF Book
  <2>. QED BY <1>3, <1>4, <1>5, <1>6, <1>7, <1>8, <2>2 DEF Over
<1>10. ASSUME Stale(u, r, k)
       PROVE  ~NoEvent \/ s.running[r].attempt \notin {0, k}
  BY <1>2, <1>10 DEF Stale
<1>11. ASSUME Stale(u, r, k)
       PROVE  Keeps(s, u) /\ ~NoEvent
  <2>1. Known(u, r)
    <3>1. \A j : <<r, j>> \in u.procs => <<r, j>> \in s.procs
      OBVIOUS
    <3>. QED BY <1>1, <1>2, <1>6, <3>1 DEF Known, Dead
  <2>2. Live(u, r)
    <3>1. LastIs(u, r, "lost") => \A w \in u.pending : w.run # r
      BY <1>1, <1>2 DEF Fine, Live
    <3> SUFFICES ASSUME r \in u.slots, u.running[r].attempt = 0, Dead(u, r)
                 PROVE  /\ HasOpenAttempt(u, r)
                        /\ \/ \E w \in u.pending : w.run = r /\ w.attempt = Len(u.att[r])
                           \/ <<r, Len(u.att[r])>> \in u.errors
      BY <3>1 DEF Live
    <3>2. ~IsOpen(s, r, k)
      BY <1>2, <1>11 DEF Stale
    <3>3. Dead(s, r)
      BY <1>1, <3>2 DEF Dead, Known
    <3>4. /\ HasOpenAttempt(s, r)
          /\ \/ \E w \in s.pending : w.run = r /\ w.attempt = Len(s.att[r])
             \/ <<r, Len(s.att[r])>> \in s.errors
      BY <1>1, <3>3 DEF Fine, Live
    <3>5. Len(s.att[r]) # k
      <4>1. s.att[r] \in Seq(AttemptRow)
        BY <1>1 DEF State
      <4>. QED BY <3>2, <3>4, <4>1 DEF HasOpenAttempt, IsOpen
    <3>. QED BY <1>2, <3>4, <3>5
  <2>3. ~NoEvent
    <3> SUFFICES ASSUME NoEvent
                 PROVE  FALSE
      OBVIOUS
    <3>1. Calm(s, r) /\ s.running[r].attempt \notin {0, k} /\ IsOpen(s, r, k)
      BY <1>1, <1>10, <1>11 DEF Fine
    <3>2. <<r, s.running[r].attempt>> \in s.procs
      BY <3>1 DEF Calm
    <3>3. IsOpen(s, r, s.running[r].attempt)
      BY <1>1, <3>2 DEF Known
    <3>. QED BY <1>1, <3>1, <3>3, OpenLast DEF Book
  <2>4. Fine(u, r)
    BY <1>3, <1>4, <2>1, <2>2, <2>3, EnvironmentAssumption DEF Fine, NoEvent, Sheltered
  <2>5. Sound(u)
    BY <1>5, <1>8, <2>3, <2>4 DEF Sound
  <2>6. \A x \in Runs : Moved(s, u, x)
    BY SameRowsMoved DEF Sound, Fine
  <2>. QED BY <2>3, <2>5, <2>6, MovedStepped DEF Keeps
<1>. QED BY <1>9, <1>11

\* A process of the run has ended.
LEMMA ProcessExitKeeps ==
    ASSUME Sound(st), NEW r \in Runs, NEW k, NEW exit \in Exit, NEW sign, NEW launch \in Launches,
           ProcessExit(r, k, exit, sign, launch)
    PROVE  Sound(st') /\ Stepped(st, st')
<1> DEFINE u == [st EXCEPT !.procs = st.procs \ {<<r, k>>}]
           t == HandleProcessExit(u, r, k, exit, sign, launch)
<1>1. st \in State /\ <<r, k>> \in st.procs /\ st.pending = {} /\ Fine(st, r)
  BY StFields DEF Sound, ProcessExit, Quiet
<1>2. /\ u \in State /\ u.run = st.run /\ u.att = st.att /\ u.ext = st.ext /\ u.asg = st.asg
      /\ u.running = st.running /\ u.slots = st.slots /\ u.service = st.service
      /\ u.procs = st.procs \ {<<r, k>>} /\ u.errors = st.errors /\ u.pending = {}
      /\ u.timers = st.timers /\ u.resume = st.resume
  BY <1>1 DEF State
<1>3. Commit(t)
  BY DEF ProcessExit
<1> HIDE DEF u
<1>4. Others(st, u, r)
  BY <1>1, <1>2 DEF Others, Same
<1>5. IsOpen(st, r, k)
  BY <1>1 DEF Fine, Known
<1>6. \A j : <<r, j>> \in u.procs <=> <<r, j>> \in st.procs /\ j # k
  BY <1>2
<1>7. /\ ~Stale(u, r, k) => Over(u, r)
      /\ Stale(u, r, k) => Keeps(st, u)
  BY <1>1, <1>2, <1>4, <1>5, <1>6, EventTaken
<1>8. Keeps(st, t)
  <2>1. CASE Stale(u, r, k)
    BY <1>7, <2>1 DEF HandleProcessExit
  <2>2. CASE ~Stale(u, r, k)
    <3>1. Keeps(u, t)
      BY <1>7, <2>2, ExitSound DEF Keeps
    <3>. QED BY <1>2, <3>1, SteppedFrom
  <2>. QED BY <2>1, <2>2
<1>. QED BY <1>3, <1>8, CommitKeeps

\* A late 'error' event.
LEMMA SpawnErrorKeeps ==
    ASSUME Good(st), Sound(st), NEW r \in Runs, NEW k, NEW sign, NEW launch \in Launches,
           SpawnError(r, k, sign, launch)
    PROVE  Sound(st') /\ Stepped(st, st')
<1> DEFINE u == [st EXCEPT !.errors = st.errors \ {<<r, k>>}]
           t == HandleProcessError(u, r, k, sign, launch)
<1>1. st \in State /\ <<r, k>> \in st.errors /\ Fine(st, r)
  BY StFields DEF Sound, SpawnError
<1>2. /\ u \in State /\ u.run = st.run /\ u.att = st.att /\ u.ext = st.ext /\ u.asg = st.asg
      /\ u.running = st.running /\ u.slots = st.slots /\ u.service = st.service
      /\ u.procs = st.procs /\ u.errors = st.errors \ {<<r, k>>} /\ u.pending = st.pending
      /\ u.timers = st.timers /\ u.resume = st.resume
  BY <1>1 DEF State
<1>3. Commit(t)
  BY DEF SpawnError
<1> HIDE DEF u
<1>4. Others(st, u, r)
  BY <1>1, <1>2 DEF Others, Same
<1>5. ~NoEvent
  BY <1>1 DEF Fine, Calm
<1>6. \A j : <<r, j>> \in u.procs <=> <<r, j>> \in st.procs /\ j # k
  BY <1>1, <1>2 DEF Good, GoodBut, ProcessOwned
<1>9. \A j : j # k /\ <<r, j>> \in st.errors => <<r, j>> \in u.errors
  BY <1>2
<1>7. /\ ~Stale(u, r, k) => Over(u, r)
      /\ Stale(u, r, k) => Keeps(st, u)
  BY <1>1, <1>2, <1>4, <1>5, <1>6, <1>9, EventTaken
<1>8. Keeps(st, t)
  <2>1. CASE Stale(u, r, k)
    BY <1>7, <2>1 DEF HandleProcessError
  <2>2. CASE ~Stale(u, r, k)
    <3>1. Keeps(u, t)
      BY <1>5, <1>7, <2>2, ErrorSound DEF Keeps
    <3>. QED BY <1>2, <3>1, SteppedFrom
  <2>. QED BY <2>1, <2>2
<1>. QED BY <1>3, <1>8, CommitKeeps

\* A rejected launch.
LEMMA RejectionKeeps ==
    ASSUME Good(st), Sound(st), NEW w \in st.pending, w.rejected, NEW sign, NEW launch \in Launches,
           Continue(w, sign, launch)
    PROVE  Sound(st') /\ Stepped(st, st')
<1> DEFINE r == w.run
           k == w.attempt
           u == [st EXCEPT !.pending = st.pending \ {w}]
           t == HandleProcessError(u, r, k, sign, launch)
<1>1. st \in State /\ w \in Pending /\ r \in Runs /\ Fine(st, r)
  BY DEF Sound, State, Pending
<1>2. /\ u \in State /\ u.run = st.run /\ u.att = st.att /\ u.ext = st.ext /\ u.asg = st.asg
      /\ u.running = st.running /\ u.slots = st.slots /\ u.service = st.service
      /\ u.procs = st.procs /\ u.errors = st.errors /\ u.pending = st.pending \ {w}
      /\ u.timers = st.timers /\ u.resume = st.resume
  BY <1>1 DEF State
<1>3. Commit(t)
  BY DEF Continue
<1>a. \A v : v.run = r /\ v.attempt # k /\ v \in st.pending => v \in u.pending
  BY <1>2
<1>b. \A q \in Runs : q # r => \A v : v.run = q => (v \in u.pending <=> v \in st.pending)
  BY <1>2
<1> HIDE DEF u
<1>4. Others(st, u, r)
  BY <1>1, <1>2, <1>b DEF Others, Same
<1>5. NoEvent => IsOpen(st, r, k) /\ st.run[r].status = "starting"
  BY <1>1 DEF Fine, Calm
<1>6. \A j : <<r, j>> \in u.procs <=> <<r, j>> \in st.procs /\ j # k
  BY <1>1, <1>2 DEF Good, GoodBut, ProcessOwned
<1>c. NoEvent => u.pending = {}
  BY <1>2 DEF Sound
<1> HIDE DEF r, k
<1>7. /\ ~Stale(u, r, k) => Over(u, r)
      /\ Stale(u, r, k) => Keeps(st, u)
  BY <1>1, <1>2, <1>4, <1>5, <1>6, <1>a, <1>c, EventTaken
<1>8. Keeps(st, t)
  <2>1. CASE Stale(u, r, k)
    BY <1>7, <2>1 DEF HandleProcessError
  <2>2. CASE ~Stale(u, r, k)
    <3>1. Over(u, r) /\ (NoEvent => u.run[r].status # "finished")
      BY <1>2, <1>5, <1>7, <2>2
    <3>2. Keeps(u, t)
      BY <1>1, <2>2, <3>1, ErrorSound DEF Keeps
    <3>. QED BY <1>2, <3>2, SteppedFrom
  <2>. QED BY <2>1, <2>2
<1>. QED BY <1>3, <1>8, CommitKeeps

\* What the continuation of startRun() writes.
Activated(s, t, r, k) ==
    /\ Wrote(s, t, r, {"att", "running", "run", "ext"})
    /\ t.run[r].status = "active" /\ t.run[r].runtime_state = "running"
    /\ t.running[r].attempt = k /\ ~t.running[r].stop
    /\ \/ ~IsOpen(s, r, k) /\ t.att[r] = s.att[r]
       \/ IsOpen(s, r, k) /\ \E row : row.status = "active" /\ Replaced(s.att[r], t.att[r], row)
    /\ \/ t.ext[r] = s.ext[r]
       \/ s.ext[r].phase = "cancelling"
          /\ t.ext[r] = [s.ext[r] EXCEPT !.cancellation_state = "signalled"]
       \/ ExtOpen(s, r) /\ t.ext[r] = [s.ext[r] EXCEPT !.phase = "active"]
    /\ ExtOpen(s, r) /\ s.ext[r].phase # "cancelling" =>
          t.ext[r] = [s.ext[r] EXCEPT !.phase = "active"]

\* What startRun() writes after its await.
LEMMA ActivateWrites ==
    ASSUME NEW s \in State, NEW r \in Runs, EarlierFailed(s, r), NEW k \in Nat,
           NEW t, t = Activate(s, r, k)
    PROVE  Activated(s, t, r, k)
<1> DEFINE entry == [NotRunning EXCEPT !.attempt = k,
                                       !.timer = IF HasTimeout THEN "armed" ELSE "none"]
           opened == MarkAttemptActive(s, r, k)
           row == MarkRunActive(opened.run[r])
           entered == [opened EXCEPT !.running[r] = entry]
           active == [entered EXCEPT !.run[r] = row]
<1>1. /\ Wrote(s, opened, r, {"att"})
      /\ \/ ~IsOpen(s, r, k) /\ opened.att[r] = s.att[r]
         \/ IsOpen(s, r, k) /\ \E a : a.status = "active" /\ Replaced(s.att[r], opened.att[r], a)
  <2>1. CASE IsOpen(s, r, k)
    BY <2>1, MarkActiveWrites
  <2>2. CASE ~IsOpen(s, r, k)
    <3>1. opened = s
      BY <2>2 DEF MarkAttemptActive
    <3>2. Wrote(s, s, r, {"att"})
      BY WroteNothing DEF Wrote
    <3>. QED BY <2>2, <3>1, <3>2
  <2>. QED BY <2>1, <2>2
<1>a. t = IF s.ext[r].phase = "cancelling" THEN MarkCancellationSignalled(active, r)
          ELSE UpdatePhase(active, r, "active")
  <2>1. opened \in State
    BY <1>1, WroteState
  <2> DEFINE both == [opened EXCEPT !.running[r] = entry, !.run[r] = MarkRunActive(@)]
  <2>2. t = IF s.ext[r].phase = "cancelling" THEN MarkCancellationSignalled(both, r)
            ELSE UpdatePhase(both, r, "active")
    BY DEF Activate
  <2>3. both = active
    <3> HIDE DEF opened, entry
    <3>. QED BY <2>1 DEF State
  <2> HIDE DEF both, active
  <2>. QED BY <2>2, <2>3
<1> HIDE DEF opened
<1>2. entry \in RunningRun /\ entry.attempt = k /\ ~entry.stop
  BY DEF NotRunning, RunningRun, Timer
<1> HIDE DEF entry
<1>3. Wrote(opened, entered, r, {"running"}) /\ entered.running[r] = entry
  <2>1. opened \in State
    BY <1>1, WroteState
  <2>. QED BY <1>2, <2>1, WriteRunning
<1>4. row \in RunRow /\ row.status = "active" /\ row.runtime_state = "running"
  <2>1. opened.run[r] \in RunRow
    BY <1>1, WroteState
  <2>. QED BY <2>1, RowTypes, RowValues
<1> HIDE DEF row, entered
<1>5. Wrote(entered, active, r, {"run"}) /\ active.run[r] = row
  <2>1. entered \in State
    BY <1>3, WroteState
  <2>. QED BY <1>4, <2>1, WriteRun
<1> HIDE DEF active
<1>6. active \in State /\ active.ext[r] = s.ext[r] /\ (ExtOpen(active, r) <=> ExtOpen(s, r))
  BY <1>1, <1>3, <1>5 DEF Wrote, ExtOpen
<1>7. /\ Wrote(active, t, r, {"ext"})
      /\ \/ t.ext[r] = s.ext[r]
         \/ s.ext[r].phase = "cancelling"
            /\ t.ext[r] = [s.ext[r] EXCEPT !.cancellation_state = "signalled"]
         \/ ExtOpen(s, r) /\ t.ext[r] = [s.ext[r] EXCEPT !.phase = "active"]
      /\ ExtOpen(s, r) /\ s.ext[r].phase # "cancelling" =>
            t.ext[r] = [s.ext[r] EXCEPT !.phase = "active"]
  <2>1. CASE s.ext[r].phase = "cancelling"
    <3>1. t = MarkCancellationSignalled(active, r)
      BY <1>a, <2>1
    <3>. QED BY <1>6, <2>1, <3>1, SignalledWrites
  <2>2. CASE s.ext[r].phase # "cancelling"
    <3>1. t = UpdatePhase(active, r, "active")
      BY <1>a, <2>2
    <3>2. WroteOpenExt(active, t, r, [active.ext[r] EXCEPT !.phase = "active"])
      BY <1>6, <3>1, PhaseWrites DEF Phase
    <3>. QED BY <1>6, <3>2 DEF WroteOpenExt
  <2>. QED BY <2>1, <2>2
<1>8. Wrote(s, t, r, {"att", "running", "run", "ext"})
  <2>1. Wrote(s, entered, r, {"att", "running", "run", "ext"})
    BY <1>1, <1>3, WroteTwice
  <2>2. Wrote(s, active, r, {"att", "running", "run", "ext"})
    BY <2>1, <1>5, WroteTwice
  <2>. QED BY <2>2, <1>7, WroteTwice
<1>9. t.run[r] = row /\ t.running[r] = entry /\ t.att[r] = opened.att[r]
  BY <1>3, <1>5, <1>7 DEF Wrote
<1>. QED BY <1>1, <1>2, <1>4, <1>7, <1>8, <1>9 DEF Activated

\* The run whose launch went through is active, whatever happened to it meanwhile.
LEMMA ActivateSound ==
    ASSUME NEW s, Sound(s), NEW w \in s.pending, ~w.rejected,
           NEW t, t = Activate([s EXCEPT !.pending = s.pending \ {w}], w.run, w.attempt)
    PROVE  /\ Sound(t) /\ \A x \in Runs : Moved(s, t, x)
           /\ NoEvent => t.pending = {}
<1> DEFINE r == w.run
           k == w.attempt
           u == [s EXCEPT !.pending = s.pending \ {w}]
<1>1. s \in State /\ w \in Pending /\ r \in Runs /\ k \in Nat /\ Fine(s, r)
  BY DEF Sound, State, Pending
<1>2. /\ u \in State /\ u.run = s.run /\ u.att = s.att /\ u.ext = s.ext /\ u.asg = s.asg
      /\ u.running = s.running /\ u.slots = s.slots /\ u.service = s.service
      /\ u.procs = s.procs /\ u.errors = s.errors /\ u.pending = s.pending \ {w}
      /\ u.timers = s.timers /\ u.resume = s.resume
  BY <1>1 DEF State
<1>a. t = Activate(u, r, k)
  OBVIOUS
<1>b. \A q \in Runs : q # r => \A v : v.run = q => (v \in u.pending <=> v \in s.pending)
  BY <1>2
<1> HIDE DEF u
<1>3. Others(s, u, r)
  BY <1>1, <1>2, <1>b DEF Others, Same
<1>4. EarlierFailed(u, r) /\ (IsOpen(u, r, k) <=> IsOpen(s, r, k)) /\ (ExtOpen(u, r) <=> ExtOpen(s, r))
  BY <1>1, <1>2 DEF Fine, Book, EarlierFailed, IsOpen, ExtOpen
<1>c. w.run = r /\ w.attempt = k /\ w \in s.pending
  OBVIOUS
<1> HIDE DEF r, k
<1>5. /\ Wrote(u, t, r, {"att", "running", "run", "ext"})
      /\ t.run[r].status = "active" /\ t.run[r].runtime_state = "running"
      /\ t.running[r].attempt = k /\ ~t.running[r].stop
      /\ \/ ~IsOpen(s, r, k) /\ t.att[r] = s.att[r]
         \/ IsOpen(s, r, k) /\ \E row : row.status = "active" /\ Replaced(s.att[r], t.att[r], row)
      /\ \/ t.ext[r] = s.ext[r]
         \/ s.ext[r].phase = "cancelling"
            /\ t.ext[r] = [s.ext[r] EXCEPT !.cancellation_state = "signalled"]
         \/ ExtOpen(s, r) /\ t.ext[r] = [s.ext[r] EXCEPT !.phase = "active"]
  <2>1. Activated(u, t, r, k)
    BY <1>1, <1>2, <1>4, <1>a, ActivateWrites
  <2>. QED BY <1>2, <1>4, <2>1 DEF Activated
<1>6. /\ t \in State /\ t.service = s.service /\ t.asg[r] = s.asg[r]
      /\ (r \in t.slots <=> r \in s.slots)
      /\ t.procs = s.procs /\ t.errors = s.errors /\ t.pending = s.pending \ {w}
  BY <1>2, <1>5 DEF Wrote
<1>7. Others(s, t, r)
  <2> SUFFICES ASSUME NEW q \in Runs, q # r
               PROVE  Same(s, t, q) /\ (q \in t.timers <=> q \in s.timers)
    BY DEF Others
  <2>1. Same(u, t, q) /\ (q \in t.timers <=> q \in u.timers)
    BY <1>5 DEF Wrote, Others
  <2>2. Same(s, u, q) /\ (q \in u.timers <=> q \in s.timers)
    BY <1>3 DEF Others
  <2>. QED BY <2>1, <2>2 DEF Same
<1>8. ~LastIs(s, r, "lost") /\ k \in DOMAIN s.att[r] /\ k # 0
  <2>1. ~LastIs(s, r, "lost") /\ k \in DOMAIN s.att[r]
    BY <1>1, <1>c DEF Fine, Live, Known
  <2>2. s.att[r] \in Seq(AttemptRow)
    BY <1>1 DEF State
  <2>. QED BY <2>1, <2>2
<1>9. IsOpen(s, r, k) => k = Len(s.att[r]) /\ HasOpenAttempt(s, r)
  BY <1>1, OpenLast DEF Fine, Book
<1>10. /\ Len(t.att[r]) = Len(s.att[r]) /\ DOMAIN t.att[r] = DOMAIN s.att[r]
       /\ \A j : IsOpen(t, r, j) <=> IsOpen(s, r, j)
       /\ \A status \in {"succeeded", "lost"} : LastIs(t, r, status) <=> LastIs(s, r, status)
       /\ EarlierFailed(t, r)
       /\ IsOpen(s, r, k) => t.att[r] # << >> /\ t.att[r][Len(t.att[r])].status = "active"
  <2>1. CASE ~IsOpen(s, r, k)
    BY <1>1, <1>5, <2>1 DEF IsOpen, LastIs, Fine, Book, EarlierFailed
  <2>2. CASE IsOpen(s, r, k)
    <3>1. PICK row : row.status = "active" /\ Replaced(s.att[r], t.att[r], row)
      BY <1>5, <2>2
    <3>2. k = Len(s.att[r]) /\ HasOpenAttempt(s, r)
      BY <1>9, <2>2
    <3>3. /\ Len(t.att[r]) = Len(s.att[r]) /\ DOMAIN t.att[r] = DOMAIN s.att[r]
          /\ t.att[r] # << >> /\ t.att[r][k].status = "active"
          /\ \A j \in DOMAIN s.att[r] : j < k => t.att[r][j] = s.att[r][j]
      BY <3>1, <3>2 DEF Replaced
    <3>4. \A j \in DOMAIN s.att[r] : j = k \/ j < k
      <4>1. s.att[r] \in Seq(AttemptRow)
        BY <1>1 DEF State
      <4>. QED BY <3>2, <4>1
    <3>5. \A j : IsOpen(t, r, j) <=> IsOpen(s, r, j)
      BY <2>2, <3>3, <3>4 DEF IsOpen, OpenAttempt
    <3>6. \A status \in {"succeeded", "lost"} : LastIs(t, r, status) <=> LastIs(s, r, status)
      BY <3>2, <3>3 DEF LastIs, HasOpenAttempt, OpenAttempt
    <3>7. EarlierFailed(t, r)
      <4>1. EarlierFailed(s, r)
        BY <1>1 DEF Fine, Book
      <4>2. \A j \in DOMAIN t.att[r] : j < Len(t.att[r]) => t.att[r][j].status = "failed"
        BY <3>2, <3>3, <4>1 DEF EarlierFailed
      <4>. QED BY <4>2 DEF EarlierFailed
    <3>. QED BY <3>2, <3>3, <3>5, <3>6, <3>7
  <2>. QED BY <2>1, <2>2
<1>11. /\ t.ext[r].outcome = s.ext[r].outcome /\ t.ext[r].exited_clean = s.ext[r].exited_clean
       /\ t.ext[r].completion_digest = s.ext[r].completion_digest
       /\ (ExtOpen(t, r) <=> ExtOpen(s, r))
       /\ t.ext[r].phase = "cancelling" => s.ext[r].phase = "cancelling" /\ (CancellationAsked(s, r) => CancellationAsked(t, r))
       /\ s.ext[r].phase = "terminal" => t.ext[r] = s.ext[r]
       /\ s.ext[r].phase = "none" => t.ext[r].phase = "none"
  <2>1. s.ext[r] \in ExtRow
    BY <1>1, ExtRowOf
  <2>2. CASE t.ext[r] = s.ext[r]
    BY <2>2 DEF ExtOpen, CancellationAsked
  <2>3. CASE s.ext[r].phase = "cancelling"
             /\ t.ext[r] = [s.ext[r] EXCEPT !.cancellation_state = "signalled"]
    BY <2>1, <2>3 DEF ExtRow, ExtOpen, CancellationAsked
  <2>4. CASE ExtOpen(s, r) /\ t.ext[r] = [s.ext[r] EXCEPT !.phase = "active"]
    BY <2>1, <2>4 DEF ExtRow, ExtOpen, CancellationAsked
  <2>. QED BY <1>5, <2>2, <2>3, <2>4
<1>12. Book(t, r)
  <2>1. Book(s, r)
    BY <1>1 DEF Fine
  <2>2. s.ext[r].outcome = "succeeded" => t.ext[r].phase = "terminal"
    BY <1>11, <2>1 DEF Book
  <2>. QED BY <1>5, <1>8, <1>10, <1>11, <2>1, <2>2 DEF Book
<1>13. Known(t, r)
  BY <1>1, <1>5, <1>6, <1>10 DEF Fine, Known, Dead
<1>14. Live(t, r)
  BY <1>5, <1>8, <1>10 DEF Live
<1>15. NoEvent =>
          /\ Calm(s, r) /\ IsOpen(s, r, k) /\ s.run[r].status = "starting"
          /\ <<r, k>> \in s.procs /\ t.pending = {}
  <2>1. NoEvent => Calm(s, r) /\ t.pending = {}
    BY <1>1, <1>6 DEF Fine, Sound
  <2>. QED BY <1>c, <2>1 DEF Calm
<1>16. NoEvent => Calm(t, r)
  <2> SUFFICES ASSUME NoEvent
               PROVE  Calm(t, r)
    OBVIOUS
  <2>1. \A j : <<r, j>> \in t.procs => j = k
    <3> SUFFICES ASSUME NEW j, <<r, j>> \in t.procs
                 PROVE  j = k
      OBVIOUS
    <3>1. IsOpen(s, r, j)
      BY <1>1, <1>6 DEF Fine, Known
    <3>. QED BY <1>1, <1>9, <1>15, <3>1, OpenLast DEF Fine, Book
  <2>. QED BY <1>5, <1>6, <1>8, <1>15, <2>1 DEF Calm, Dead
<1>17. Sheltered => NoEvent
  BY DEF Sheltered, NoEvent
<1>18. Sheltered => OpenLives(t, r)
  BY <1>6, <1>15, <1>17 DEF OpenLives, Dead
<1>19. Kept(t, r)
  <2>1. Kept(s, r)
    BY <1>1 DEF Fine
  <2>2. NoEvent => FailureFinal(t, r)
    BY <1>10, <1>15 DEF FailureFinal, LastIs
  <2>3. AttemptsLeft(s, r) => AttemptsLeft(t, r)
    BY <1>5, <1>10 DEF AttemptsLeft
  <2>4. Sheltered /\ AssignmentKept(s, r) => AssignmentKept(t, r)
    BY <1>5, <1>6, <1>11, <1>15, <1>17 DEF AssignmentKept, ProcessBacked
  <2>. QED BY <2>1, <2>2, <2>3, <2>4 DEF Kept
<1>20. Fine(t, r)
  BY <1>12, <1>13, <1>14, <1>16, <1>18, <1>19 DEF Fine
<1>21. Sound(t)
  <2>1. /\ \A q \in Runs : q # r => Fine(s, q)
        /\ t.service # "down"
        /\ Sheltered => t.service = "up"
        /\ NoEvent => \A v, x \in t.pending : v = x
    BY <1>6, <1>15 DEF Sound
  <2>. QED BY <1>1, <1>6, <1>7, <1>20, <2>1, OthersSound
<1>22. ASSUME NEW x \in Runs
       PROVE  Moved(s, t, x)
  <2>1. CASE x = r
    BY <1>5, <1>8, <1>11, <1>15, <2>1 DEF Moved, ProcessBacked
  <2>2. CASE x # r
    <3>1. Same(s, t, x) /\ Book(s, x)
      BY <1>7, <2>2 DEF Others, Sound, Fine
    <3>. QED BY <3>1, SameMoves
  <2>. QED BY <2>1, <2>2
<1>. QED BY <1>15, <1>21, <1>22

\* A handler that ends with a dispatch.
LEMMA DispatchKeeps ==
    ASSUME NEW s, NEW m, Sound(m), \A x \in Runs : Moved(s, m, x), NoEvent => m.pending = {},
           NEW mon, NEW launch \in Launches, NEW caller \in Caller, NEW reserved \in Runs \cup {0},
           caller = "reserve" => reserved \in Runs
    PROVE  Keeps(s, Dispatch(m, mon, launch, caller, reserved))
<1> DEFINE t == Dispatch(m, mon, launch, caller, reserved)
<1>1. t = Dispatch(m, mon, launch, caller, reserved)
  OBVIOUS
<1> HIDE DEF t
<1>2. Sound(t) /\ \A x \in Runs : Dispatched(m, t, x)
  BY <1>1, DispatchSound
<1>3. Stepped(s, t)
  BY <1>2, MovedThenDispatched
<1>. QED BY <1>1, <1>2, <1>3 DEF Keeps

\* A startRun() goes on after its await, or its rejection is handled.
LEMMA ContinueKeeps ==
    ASSUME Good(st), Sound(st), NEW w, NEW sign, NEW launch \in Launches, Continue(w, sign, launch)
    PROVE  Sound(st') /\ Stepped(st, st')
<1> DEFINE u == [st EXCEPT !.pending = st.pending \ {w}]
           active == Activate(u, w.run, w.attempt)
<1>1. w \in st.pending
  BY StFields DEF Continue
<1>2. w \in Pending
  BY <1>1 DEF Sound, State
<1>3. /\ w.caller \in Caller /\ w.reserved \in Runs \cup {0}
      /\ w.caller = "reserve" => w.reserved \in Runs
  BY <1>1, <1>2 DEF Pending, Good, GoodBut, EventsNumbered
<1>4. CASE w.rejected
  BY <1>1, <1>4, RejectionKeeps
<1>5. CASE ~w.rejected
  <2>1. Commit(active) \/ Commit(Dispatch(active, MonOf[w.run], launch, w.caller, w.reserved))
    BY <1>5 DEF Continue
  <2>2. active = Activate([st EXCEPT !.pending = st.pending \ {w}], w.run, w.attempt)
    OBVIOUS
  <2> HIDE DEF active
  <2>3. /\ Sound(active) /\ \A x \in Runs : Moved(st, active, x)
        /\ NoEvent => active.pending = {}
    BY <1>1, <1>5, <2>2, ActivateSound
  <2>4. Keeps(st, active)
    BY <2>3, MovedStepped DEF Keeps
  <2>5. Keeps(st, Dispatch(active, MonOf[w.run], launch, w.caller, w.reserved))
    BY <1>3, <2>3, DispatchKeeps
  <2>. QED BY <2>1, <2>4, <2>5, CommitKeeps
<1>. QED BY <1>4, <1>5

\* A handler that writes run r between two others, opens no attempt and takes no run back to
\* the queue.
LEMMA QuietStep ==
    ASSUME NEW s, Sound(s), s.pending = {}, NEW r \in Runs, NEW F, NEW t, Wrote(s, t, r, F),
           t.att[r] = s.att[r], t.running[r].attempt = s.running[r].attempt,
           r \in t.slots => r \in s.slots,
           \/ t.run[r].status = s.run[r].status
           \/ t.run[r].status = "finished"
           \/ s.run[r].status = "none" /\ t.run[r].status = "queued",
           Book(t, r), Sheltered => AssignmentKept(t, r),
           s.ext[r].phase = "terminal" => t.ext[r] = s.ext[r]
    PROVE  /\ Sound(t) /\ \A x \in Runs : Moved(s, t, x)
           /\ t.pending = {} /\ Keeps(s, t)
<1>1. /\ s \in State /\ t \in State /\ Fine(s, r) /\ Book(s, r) /\ s.service # "down"
      /\ Others(s, t, r) /\ t.service = s.service
      /\ t.procs = s.procs /\ t.pending = {} /\ t.errors = s.errors
      /\ \A q \in Runs : Fine(s, q)
      /\ Sheltered => s.service = "up"
  BY DEF Sound, Fine, Wrote
<1>2. /\ Dead(t, r) <=> Dead(s, r)
      /\ \A status : LastIs(t, r, status) <=> LastIs(s, r, status)
      /\ \A k : IsOpen(t, r, k) <=> IsOpen(s, r, k)
      /\ HasOpenAttempt(t, r) <=> HasOpenAttempt(s, r)
  BY <1>1 DEF Dead, LastIs, IsOpen, HasOpenAttempt
<1>3. s.run[r].status = "none" => s.att[r] = << >>
  BY <1>1 DEF Book
<1>4. Known(t, r)
  BY <1>1, <1>2 DEF Fine, Known
<1>5. Live(t, r)
  BY <1>1, <1>2 DEF Fine, Live
<1>6. NoEvent => Calm(t, r)
  BY <1>1, <1>2 DEF Fine, Calm
<1>7. Sheltered => OpenLives(t, r)
  BY <1>1, <1>2 DEF Fine, OpenLives
<1>8. Kept(t, r)
  <2>1. Kept(s, r)
    BY <1>1 DEF Fine
  <2>2. FailureFinal(s, r) => FailureFinal(t, r)
    BY <1>2, <1>3 DEF FailureFinal, LastIs
  <2>3. AttemptsLeft(s, r) => AttemptsLeft(t, r)
    <3>1. s.att[r] = << >> => Len(s.att[r]) < MaxAttempts
      BY PolicyAssumption
    <3>. QED BY <1>3, <3>1 DEF AttemptsLeft
  <2>. QED BY <2>1, <2>2, <2>3 DEF Kept
<1>9. Fine(t, r)
  BY <1>4, <1>5, <1>6, <1>7, <1>8 DEF Fine
<1>10. Sound(t)
  BY <1>1, <1>9, OthersSound
<1>11. ASSUME NEW x \in Runs
       PROVE  Moved(s, t, x)
  <2>1. CASE x = r
    <3>1. LastIs(s, r, "lost") => s.run[r].status = "finished"
      BY <1>1 DEF Book
    <3>. QED BY <1>3, <2>1, <3>1 DEF Moved, Stays, ProcessBacked, LastIs
  <2>2. CASE x # r
    <3>1. Same(s, t, x) /\ Book(s, x)
      BY <1>1, <2>2 DEF Others, Fine
    <3>. QED BY <3>1, SameMoves
  <2>. QED BY <2>1, <2>2
<1>. QED BY <1>1, <1>10, <1>11, MovedStepped DEF Keeps

\* Requests, timers and exits are handled while nothing is queued to run first.
LEMMA QuietFields ==
    ASSUME Sound(st), Quiet, NEW r \in Runs
    PROVE  /\ st \in State /\ st.pending = {} /\ st.errors = {} /\ Fine(st, r) /\ Book(st, r)
           /\ Sheltered => AssignmentKept(st, r)
           /\ st.run[r] = run[r] /\ st.ext[r] = ext[r] /\ st.running[r] = running[r]
BY StFields DEF Sound, Quiet, Fine, Kept

\* A timer of an attempt fires, or sends SIGKILL.
LEMMA TimerKeeps ==
    ASSUME Sound(st), NEW r \in Runs, AttemptTimeout(r) \/ KillTimer(r)
    PROVE  Sound(st') /\ Stepped(st, st')
<1>1. Quiet /\ running[r] \in RunningRun
  BY StFields DEF AttemptTimeout, KillTimer, Sound, State
<1>2. PICK e \in RunningRun : /\ e.attempt = running[r].attempt /\ e.stop = running[r].stop
                              /\ running' = [running EXCEPT ![r] = e]
                              /\ UNCHANGED <<db, procs, pending, errors, timers, resume,
                                            service, crashes>>
  <2>1. CASE AttemptTimeout(r)
    <3> DEFINE e == [running[r] EXCEPT !.timedOut = TRUE, !.timer = "grace"]
    <3>1. e \in RunningRun /\ e.attempt = running[r].attempt /\ e.stop = running[r].stop
      BY <1>1 DEF RunningRun, Timer
    <3>2. running' = [running EXCEPT ![r] = e]
      <4>1. running \in [Runs -> RunningRun]
        BY StFields DEF Sound, State
      <4>. QED BY <1>1, <2>1, <4>1 DEF AttemptTimeout, RunningRun
    <3>. QED BY <2>1, <3>1, <3>2 DEF AttemptTimeout
  <2>2. CASE KillTimer(r)
    <3> DEFINE e == [running[r] EXCEPT !.timer = "killed"]
    <3>1. e \in RunningRun /\ e.attempt = running[r].attempt /\ e.stop = running[r].stop
      BY <1>1 DEF RunningRun, Timer
    <3>2. running' = [running EXCEPT ![r] = e]
      BY <2>2 DEF KillTimer
    <3>. QED BY <2>2, <3>1, <3>2 DEF KillTimer
  <2>. QED BY <2>1, <2>2
<1> DEFINE t == [st EXCEPT !.running[r] = e]
<1>3. Commit(t)
  BY <1>2 DEF Commit, st, db
<1>4. /\ st \in State /\ st.pending = {} /\ Book(st, r)
      /\ Sheltered => AssignmentKept(st, r)
      /\ st.running[r] = running[r]
  BY <1>1, QuietFields
<1>5. LET u == [st EXCEPT !.running[r] = e]
      IN  Wrote(st, u, r, {"running"}) /\ u.running[r] = e
  BY <1>4, WriteRunning
<1>6. Wrote(st, t, r, {"running"}) /\ t.running[r] = e
  BY <1>5
<1> HIDE DEF t
<1>7. /\ t.run[r] = st.run[r] /\ t.att[r] = st.att[r] /\ t.ext[r] = st.ext[r]
      /\ t.asg[r] = st.asg[r] /\ (r \in t.slots <=> r \in st.slots)
      /\ t.running[r].attempt = st.running[r].attempt /\ t.running[r].stop = st.running[r].stop
  BY <1>2, <1>4, <1>6 DEF Wrote
<1>8. Book(t, r)
  BY <1>4, <1>7 DEF Book, LastIs, EarlierFailed, ExtOpen, CancellationAsked
<1>9. Sheltered => AssignmentKept(t, r)
  BY <1>4, <1>7 DEF AssignmentKept
<1>. QED BY <1>3, <1>4, <1>6, <1>7, <1>8, <1>9, QuietStep, CommitKeeps

\* A retry timer fires.
LEMMA RetryWakeKeeps ==
    ASSUME Sound(st), NEW r \in Runs, NEW launch \in Launches, RetryWake(r, launch)
    PROVE  Sound(st') /\ Stepped(st, st')
<1> DEFINE m == ClearRetryTimer(st, r)
<1>1. Commit(Dispatch(m, MonOf[r], launch, "caught", 0)) /\ Quiet
  BY DEF RetryWake
<1>2. /\ st \in State /\ st.pending = {} /\ Book(st, r)
      /\ Sheltered => AssignmentKept(st, r)
  BY <1>1, QuietFields
<1>3. Wrote(st, m, r, {"timers"})
  BY <1>2, ClearTimerWrites
<1> HIDE DEF m
<1>4. /\ m.run[r] = st.run[r] /\ m.att[r] = st.att[r] /\ m.ext[r] = st.ext[r]
      /\ m.asg[r] = st.asg[r] /\ (r \in m.slots <=> r \in st.slots)
      /\ m.running[r] = st.running[r]
  BY <1>3 DEF Wrote
<1>5. Book(m, r)
  BY <1>2, <1>4 DEF Book, LastIs, EarlierFailed, ExtOpen, CancellationAsked
<1>6. Sheltered => AssignmentKept(m, r)
  BY <1>2, <1>4 DEF AssignmentKept
<1>7. Sound(m) /\ (\A x \in Runs : Moved(st, m, x)) /\ m.pending = {}
  BY <1>2, <1>3, <1>4, <1>5, <1>6, QuietStep
<1>8. Keeps(st, Dispatch(m, MonOf[r], launch, "caught", 0))
  BY <1>7, DispatchKeeps DEF Caller
<1>. QED BY <1>1, <1>8, CommitKeeps

\* The deadline of an awaited completion.
LEMMA ExpireCompletionKeeps ==
    ASSUME Sound(st), NEW r \in Runs, ExpireCompletion(r)
    PROVE  Sound(st') /\ Stepped(st, st')
<1> DEFINE s == MarkFailedByRun(st, r, "keep")
           row == [s.run[r] EXCEPT !.outcome = "failed", !.outcome_state = "failed",
                                   !.runtime_state = "failed"]
           t == [s EXCEPT !.run[r] = row]
<1>1. Quiet /\ ExtOpen(st, r) /\ Commit(t)
  BY StFields DEF ExpireCompletion, ExtOpen
<1>2. /\ st \in State /\ st.pending = {} /\ Book(st, r)
      /\ Sheltered => AssignmentKept(st, r)
  BY <1>1, QuietFields
<1>3. Wrote(st, s, r, {"ext"}) /\ s.ext[r] = FailedRow(st, r, "keep")
  BY <1>1, <1>2, MarkFailedWrites DEF WroteOpenExt
<1> HIDE DEF s
<1>4. row \in RunRow /\ row.status = st.run[r].status /\ row.runtime_state = "failed"
  <2>1. s.run[r] \in RunRow /\ s.run[r] = st.run[r]
    BY <1>3, WroteState DEF Wrote
  <2>. QED BY <2>1 DEF RunRow, RunOutcome, OutcomeState, RuntimeState
<1> HIDE DEF row
<1>5. LET u == [s EXCEPT !.run[r] = row]
      IN  Wrote(s, u, r, {"run"}) /\ u.run[r] = row
  BY <1>3, <1>4, WriteRun DEF Wrote
<1>6. Wrote(s, t, r, {"run"}) /\ t.run[r] = row
  BY <1>5
<1> HIDE DEF t
<1>7. Wrote(st, t, r, {"ext", "run"})
  BY <1>3, <1>6, WroteTwice
<1>8. /\ t.run[r].status = st.run[r].status /\ t.run[r].runtime_state = "failed"
      /\ t.att[r] = st.att[r] /\ t.asg[r] = st.asg[r] /\ t.running[r] = st.running[r]
      /\ (r \in t.slots <=> r \in st.slots)
  BY <1>4, <1>6, <1>7 DEF Wrote
<1>9. t.ext[r].phase = "terminal" /\ t.ext[r].outcome = "failed"
  <2>1. t.ext[r] = FailedRow(st, r, "keep")
    BY <1>3, <1>6 DEF Wrote
  <2>. QED BY <1>2, <2>1, FailedFields
<1>10. st.run[r].status # "none"
  BY <1>1, <1>2 DEF Book, ExtOpen, NoExt
<1>11. Book(t, r)
  BY <1>2, <1>8, <1>9, <1>10 DEF Book, LastIs, EarlierFailed, ExtOpen
<1>12. Sheltered => AssignmentKept(t, r)
  <2>1. Sheltered => r \in External /\ st.asg[r] = "none"
    BY <1>1, <1>2, KindAssumption DEF AssignmentKept, ExtOpen
  <2>. QED BY <1>8, <2>1 DEF AssignmentKept
<1>13. st.ext[r].phase # "terminal"
  BY <1>1 DEF ExtOpen
<1>. QED BY <1>1, <1>2, <1>7, <1>8, <1>11, <1>12, <1>13, QuietStep, CommitKeeps

-----------------------------------------------------------------------------
\* A new run row, and what its kind of run comes with.
LEMMA InsertedKeeps ==
    ASSUME Sound(st), Quiet, NEW r \in Runs, Insertable(r), NEW F, NEW t, Wrote(st, t, r, F),
           t.run[r] = QueuedRow, t.att[r] = st.att[r], t.running[r] = st.running[r],
           r \in t.slots <=> r \in st.slots,
           t.asg[r] = st.asg[r] \/ (r \in PlanRuns /\ t.asg[r] = "queued"),
           t.ext[r] = st.ext[r] \/ (r \in External /\ t.ext[r] = [st.ext[r] EXCEPT !.phase = "queued"])
    PROVE  Sound(t) /\ (\A x \in Runs : Moved(st, t, x)) /\ t.pending = {} /\ Keeps(st, t)
<1>1. /\ st \in State /\ st.pending = {} /\ Book(st, r)
      /\ Sheltered => AssignmentKept(st, r)
      /\ st.run[r].status = "none"
  BY QuietFields DEF Insertable
<1>2. st.att[r] = << >> /\ st.ext[r] = NoExt /\ ~st.running[r].stop
  BY <1>1 DEF Book
<1>3. t.run[r].status = "queued" /\ t.run[r].runtime_state = "queued"
  BY DEF QueuedRow, NoRow
<1>4. t.ext[r].outcome = "none" /\ ~t.ext[r].exited_clean /\ t.ext[r].phase \in {"none", "queued"}
  BY <1>2 DEF NoExt
<1>5. Book(t, r)
  BY <1>2, <1>3, <1>4 DEF Book, LastIs, EarlierFailed
<1>6. Sheltered => AssignmentKept(t, r)
  <2>1. Sheltered => st.asg[r] = "none"
    BY <1>1 DEF AssignmentKept
  <2>2. t.ext[r].phase # "none" => r \in External
    BY <1>2 DEF NoExt
  <2>. QED BY <1>3, <2>1, <2>2 DEF AssignmentKept, ProcessBacked
<1>7. st.ext[r].phase # "terminal"
  BY <1>2 DEF NoExt
<1>. QED BY <1>1, <1>3, <1>5, <1>6, <1>7, QuietStep

\* The insertion itself.
LEMMA InsertedWrites ==
    ASSUME Sound(st), NEW r \in Runs
    PROVE  /\ Wrote(st, Inserted(r), r, {"run"}) /\ Inserted(r).run[r] = QueuedRow
           /\ Inserted(r) \in State
<1>1. st \in State /\ QueuedRow \in RunRow
  <2>1. st \in State /\ st.run[r] \in RunRow
    BY DEF Sound, State
  <2>. QED BY <2>1, RowTypes
<1>2. LET t == [st EXCEPT !.run[r] = QueuedRow]
      IN  Wrote(st, t, r, {"run"}) /\ t.run[r] = QueuedRow
  <2> HIDE DEF QueuedRow
  <2>. QED BY <1>1, WriteRun
<1>. QED BY <1>2 DEF Inserted, Wrote

\* POST /runs/operator.
LEMMA CreateOperatorRunKeeps ==
    ASSUME Sound(st), NEW r \in Runs, NEW launch \in Launches, CreateOperatorRun(r, launch)
    PROVE  Sound(st') /\ Stepped(st, st')
<1> DEFINE m == Inserted(r)
           t == StartRun(m, r, launch, "start", 0)
<1>1. /\ Quiet /\ Insertable(r)
      /\ Commit(Dispatch(m, MonOf[r], launch, "caught", 0)) \/ Commit(t)
  BY DEF CreateOperatorRun
<1>2. Wrote(st, m, r, {"run"}) /\ m.run[r] = QueuedRow
  BY InsertedWrites
<1> HIDE DEF m
<1>3. Sound(m) /\ (\A x \in Runs : Moved(st, m, x)) /\ m.pending = {}
  <2>1. /\ m.att[r] = st.att[r] /\ m.running[r] = st.running[r] /\ m.asg[r] = st.asg[r]
        /\ m.ext[r] = st.ext[r] /\ (r \in m.slots <=> r \in st.slots)
    BY <1>2 DEF Wrote
  <2>. QED BY <1>1, <1>2, <2>1, InsertedKeeps
<1>4. Keeps(st, Dispatch(m, MonOf[r], launch, "caught", 0))
  BY <1>3, DispatchKeeps DEF Caller
<1>5. Keeps(st, t)
  <2>1. t = StartRun(m, r, launch, "start", 0) /\ "start" \in Caller /\ 0 \in Runs \cup {0}
    BY DEF Caller
  <2> HIDE DEF t
  <2>2. Sound(t) /\ \A x \in Runs : Dispatched(m, t, x)
    BY <1>3, <2>1, StartRunSound
  <2>. QED BY <1>3, <2>2, MovedThenDispatched DEF Keeps
<1>. QED BY <1>1, <1>4, <1>5, CommitKeeps

\* Plan activation.
LEMMA ActivatePlanKeeps ==
    ASSUME Sound(st), NEW r \in Runs, ActivatePlan(r)
    PROVE  Sound(st') /\ Stepped(st, st')
<1> DEFINE s == Inserted(r)
           t == [s EXCEPT !.asg[r] = "queued"]
<1>1. Quiet /\ Insertable(r) /\ r \in PlanRuns /\ Commit(t)
  BY DEF ActivatePlan
<1>2. Wrote(st, s, r, {"run"}) /\ s.run[r] = QueuedRow /\ s \in State
  BY InsertedWrites
<1> HIDE DEF s
<1>3. LET u == [s EXCEPT !.asg[r] = "queued"]
      IN  Wrote(s, u, r, {"asg"}) /\ u.asg[r] = "queued"
  BY <1>2, WriteAsg DEF AssignmentStatus
<1>4. Wrote(s, t, r, {"asg"}) /\ t.asg[r] = "queued"
  BY <1>3
<1> HIDE DEF t
<1>5. Wrote(st, t, r, {"run", "asg"})
  BY <1>2, <1>4, WroteTwice
<1>6. /\ t.run[r] = QueuedRow /\ t.att[r] = st.att[r] /\ t.running[r] = st.running[r]
      /\ t.ext[r] = st.ext[r] /\ (r \in t.slots <=> r \in st.slots)
  BY <1>2, <1>4, <1>5 DEF Wrote
<1>. QED BY <1>1, <1>4, <1>5, <1>6, InsertedKeeps, CommitKeeps

\* reserveExternalRun().
LEMMA ReserveExternalRunKeeps ==
    ASSUME Sound(st), NEW r \in Runs, NEW launch \in Launches, ReserveExternalRun(r, launch)
    PROVE  Sound(st') /\ Stepped(st, st')
<1> DEFINE s == Inserted(r)
           row == [s.ext[r] EXCEPT !.phase = "queued"]
           m == [s EXCEPT !.ext[r] = row]
<1>1. Quiet /\ Insertable(r) /\ r \in External /\ Commit(Dispatch(m, MonOf[r], launch, "reserve", r))
  BY DEF ReserveExternalRun
<1>2. Wrote(st, s, r, {"run"}) /\ s.run[r] = QueuedRow /\ s \in State
  BY InsertedWrites
<1> HIDE DEF s
<1>3. row \in ExtRow
  BY <1>2, ExtRowOf, ExtFields DEF Phase
<1>a. row = [st.ext[r] EXCEPT !.phase = "queued"]
  BY <1>2 DEF Wrote
<1> HIDE DEF row
<1>4. LET u == [s EXCEPT !.ext[r] = row]
      IN  Wrote(s, u, r, {"ext"}) /\ u.ext[r] = row
  BY <1>2, <1>3, WriteExt
<1>5. Wrote(s, m, r, {"ext"}) /\ m.ext[r] = row
  BY <1>4
<1> HIDE DEF m
<1>6. Wrote(st, m, r, {"run", "ext"})
  BY <1>2, <1>5, WroteTwice
<1>7. /\ m.run[r] = QueuedRow /\ m.att[r] = st.att[r] /\ m.running[r] = st.running[r]
      /\ m.asg[r] = st.asg[r] /\ (r \in m.slots <=> r \in st.slots)
  BY <1>2, <1>5, <1>6 DEF Wrote
<1>8. Sound(m) /\ (\A x \in Runs : Moved(st, m, x)) /\ m.pending = {}
  BY <1>1, <1>a, <1>5, <1>6, <1>7, InsertedKeeps
<1>9. Keeps(st, Dispatch(m, MonOf[r], launch, "reserve", r))
  BY <1>8, DispatchKeeps DEF Caller
<1>. QED BY <1>1, <1>9, CommitKeeps

\* POST /runs/:id/start.
LEMMA StartRequestKeeps ==
    ASSUME Sound(st), NEW r \in Runs, NEW launch \in Launches, StartRequest(r, launch)
    PROVE  Sound(st') /\ Stepped(st, st')
<1> DEFINE t == StartRun(st, r, launch, "start", 0)
<1>1. Quiet /\ Commit(t) /\ t = StartRun(st, r, launch, "start", 0)
  BY DEF StartRequest
<1> HIDE DEF t
<1>2. st.pending = {} /\ "start" \in Caller /\ 0 \in Runs \cup {0}
  BY <1>1, QuietFields DEF Caller
<1>3. Sound(t) /\ \A x \in Runs : Dispatched(st, t, x)
  BY <1>1, <1>2, StartRunSound
<1>4. ASSUME NEW x \in Runs
      PROVE  Moved(st, st, x)
  BY SameRowsMoved DEF Sound, Fine
<1>5. Stepped(st, t)
  BY <1>3, <1>4, MovedThenDispatched
<1>. QED BY <1>1, <1>3, <1>5, CommitKeeps DEF Keeps

-----------------------------------------------------------------------------
\* A step that writes no field the invariant speaks of, whatever is queued to run.
LEMMA UnseenSound ==
    ASSUME NEW s, Sound(s), NEW t \in State,
           t.run = s.run, t.att = s.att, t.ext = s.ext, t.asg = s.asg, t.running = s.running,
           t.slots = s.slots, t.procs = s.procs, t.pending = s.pending, t.errors = s.errors,
           t.service # "down", Sheltered => t.service = "up"
    PROVE  Sound(t) /\ (\A x \in Runs : Moved(s, t, x)) /\ Keeps(s, t)
<1>1. s \in State /\ \A q \in Runs : Same(s, t, q) /\ Fine(s, q) /\ Book(s, q)
  BY DEF Same, Sound, Fine
<1>2. \A q \in Runs : Fine(t, q)
  BY <1>1, SameFine
<1>3. Sound(t)
  BY <1>2 DEF Sound
<1>4. \A x \in Runs : Moved(s, t, x)
  BY <1>1, SameMoves
<1>. QED BY <1>3, <1>4, MovedStepped DEF Keeps

\* resumeQueuedRunsOnStartup() lists the queue and arms timers.
LEMMA ResumeQueuedRunsKeeps ==
    ASSUME Sound(st), ResumeQueuedRuns
    PROVE  Sound(st') /\ Stepped(st, st')
<1>1. /\ run' = run /\ att' = att /\ slots' = slots /\ ext' = ext /\ asg' = asg
      /\ running' = running /\ procs' = procs /\ pending' = pending /\ errors' = errors
      /\ service' = "up" /\ crashes' = crashes
  BY DEF ResumeQueuedRuns, db
<1>2. timers' \in SUBSET Runs /\ resume' \in SUBSET Mons
  <2>1. {MonOf[r] : r \in {q \in Runs : Runnable(st, q)}} \subseteq Mons
    BY MonAssumption
  <2>. QED BY <2>1, StFields DEF ResumeQueuedRuns, Sound, State
<1>3. st' \in State
  BY <1>1, <1>2 DEF st, State, Service, Sound
<1>4. /\ st'.run = st.run /\ st'.att = st.att /\ st'.ext = st.ext /\ st'.asg = st.asg
      /\ st'.running = st.running /\ st'.slots = st.slots /\ st'.procs = st.procs
      /\ st'.pending = st.pending /\ st'.errors = st.errors /\ st'.service = "up"
  BY <1>1 DEF st
<1>. QED BY <1>3, <1>4, UnseenSound DEF Keeps

\* One Mon of that list is dispatched.
LEMMA ResumeMonKeeps ==
    ASSUME Sound(st), NEW m \in Mons, NEW launch \in Launches, ResumeMon(m, launch)
    PROVE  Sound(st') /\ Stepped(st, st')
<1> DEFINE u == [st EXCEPT !.resume = st.resume \ {m}]
<1>1. st \in State /\ st.pending = {} /\ Commit(Dispatch(u, m, launch, "caught", 0))
  BY StFields DEF ResumeMon, Sound
<1>2. /\ u \in State /\ u.run = st.run /\ u.att = st.att /\ u.ext = st.ext /\ u.asg = st.asg
      /\ u.running = st.running /\ u.slots = st.slots /\ u.procs = st.procs
      /\ u.pending = {} /\ u.errors = st.errors /\ u.service = st.service
  BY <1>1 DEF State
<1> HIDE DEF u
<1>3. Sound(u) /\ \A x \in Runs : Moved(st, u, x)
  BY <1>1, <1>2, UnseenSound DEF Sound
<1>4. Keeps(st, Dispatch(u, m, launch, "caught", 0))
  BY <1>2, <1>3, DispatchKeeps DEF Caller
<1>. QED BY <1>1, <1>4, CommitKeeps

-----------------------------------------------------------------------------
\* assignmentStatusFor() of the outcomes an operator gives.
LEMMA AssignmentStatusOf ==
    ASSUME NEW row
    PROVE  /\ row.outcome = "canceled" => AssignmentStatusFor(row) = "canceled"
           /\ row.outcome = "stopped" => AssignmentStatusFor(row) = "blocked"
           /\ row.outcome = "failed" => AssignmentStatusFor(row) = "blocked"
           /\ row.outcome = "completed" => AssignmentStatusFor(row) = "satisfied"
<1>1. row.outcome = "canceled" => AssignmentStatusFor(row) = "canceled"
  BY DEF AssignmentStatusFor
<1>2. row.outcome = "stopped" => AssignmentStatusFor(row) = "blocked"
  BY DEF AssignmentStatusFor
<1>3. row.outcome = "failed" => AssignmentStatusFor(row) = "blocked"
  BY DEF AssignmentStatusFor
<1>4. row.outcome = "completed" => AssignmentStatusFor(row) = "satisfied"
  BY DEF AssignmentStatusFor
<1>. QED BY <1>1, <1>2, <1>3, <1>4

\* And of a reviewed row.
LEMMA ReviewedStatus ==
    ASSUME NEW row \in RunRow, NEW outcome \in {"completed", "failed", "stopped"}
    PROVE  AssignmentStatusFor(Reviewed(row, outcome)) = ReviewedAssignment(outcome)
<1>1. Reviewed(row, outcome).outcome = outcome
  BY RowValues
<1>. QED BY <1>1, AssignmentStatusOf DEF ReviewedAssignment

\* A request that finishes run r, and its assignment with it, between two handlers.
LEMMA FinishedKeeps ==
    ASSUME Sound(st), Quiet, NEW r \in Runs, NEW F, NEW t, Wrote(st, t, r, F),
           st.run[r].status # "none",
           t.run[r].status = "finished",
           t.asg[r] = Assigned(st.asg[r], AssignmentStatusFor(t.run[r])),
           t.att[r] = st.att[r], t.running[r].attempt = st.running[r].attempt,
           r \in t.slots => r \in st.slots,
           \/ t.ext[r] = st.ext[r]
           \/ /\ ExtOpen(st, r) /\ t.ext[r].phase = "terminal"
              /\ t.ext[r].outcome # "succeeded"
    PROVE  Sound(t) /\ (\A x \in Runs : Moved(st, t, x)) /\ t.pending = {} /\ Keeps(st, t)
<1>1. /\ st \in State /\ st.pending = {} /\ Book(st, r)
      /\ Sheltered => AssignmentKept(st, r)
  BY QuietFields
<1>2. Book(t, r)
  BY <1>1 DEF Book, LastIs, EarlierFailed, ExtOpen, CancellationAsked
<1>3. Sheltered => AssignmentKept(t, r)
  BY <1>1 DEF AssignmentKept, Assigned, ProcessBacked, ExtOpen
<1>4. st.ext[r].phase = "terminal" => t.ext[r] = st.ext[r]
  BY DEF ExtOpen
<1>. QED BY <1>1, <1>2, <1>3, <1>4, QuietStep

\* stopRun().
LEMMA StopRunWrites ==
    ASSUME NEW s \in State, NEW r \in Runs, NEW t, t = StopRun(s, r)
    PROVE  /\ Wrote(s, t, r, {"run", "running", "slots", "asg", "timers"})
           /\ t.run[r] \in RunRow /\ t.run[r].status = "finished"
           /\ t.asg[r] = Assigned(s.asg[r], "blocked")
           /\ t.running[r].attempt = s.running[r].attempt
           /\ r \in t.slots => r \in s.slots
           /\ s.running[r].attempt # 0 => (r \in t.slots <=> r \in s.slots)
<1> DEFINE row == FinishRunStopped(s.run[r])
           finished == [s EXCEPT !.run[r] = row]
           stopped == ClearRetryTimer(finished, r)
           e == [ClearAttemptTimers(stopped.running[r]) EXCEPT !.stop = TRUE]
           signalled == [stopped EXCEPT !.running[r] = e]
           released == ReleaseSlot(stopped, r)
           settled == IF s.running[r].attempt # 0 THEN signalled ELSE released
<1>1. row \in RunRow /\ row.status = "finished"
  BY RowTypes DEF State
<1> HIDE DEF row
<1>2. LET u == [s EXCEPT !.run[r] = row]
      IN  Wrote(s, u, r, {"run"}) /\ u.run[r] = row
  BY <1>1, WriteRun
<1>3. Wrote(s, finished, r, {"run"}) /\ finished.run[r] = row
  BY <1>2
<1> HIDE DEF finished
<1>4. Wrote(finished, stopped, r, {"timers"})
  BY <1>3, ClearTimerWrites DEF Wrote
<1> HIDE DEF stopped
<1>5. Wrote(s, stopped, r, {"run", "timers"}) /\ stopped.run[r] = row
  <2>1. Wrote(s, stopped, r, {"run", "timers"})
    BY <1>3, <1>4, WroteTwice
  <2>. QED BY <1>3, <1>4, <2>1 DEF Wrote
<1>6. e \in RunningRun /\ e.attempt = s.running[r].attempt
  <2>1. stopped.running[r] \in RunningRun /\ stopped.running[r] = s.running[r]
    BY <1>5, WroteState DEF Wrote
  <2>. QED BY <2>1 DEF RunningRun, ClearAttemptTimers, Timer
<1> HIDE DEF e
<1>7. LET u == [stopped EXCEPT !.running[r] = e]
      IN  Wrote(stopped, u, r, {"running"}) /\ u.running[r] = e
  BY <1>5, <1>6, WriteRunning DEF Wrote
<1>8. Wrote(stopped, signalled, r, {"running"}) /\ signalled.running[r] = e
  BY <1>7
<1>9. Wrote(stopped, released, r, {"slots"}) /\ r \notin released.slots
  BY <1>5, WriteSlots DEF Wrote
<1> HIDE DEF signalled, released
<1>10. /\ Wrote(stopped, settled, r, {"running", "slots"})
       /\ settled.running[r].attempt = s.running[r].attempt
       /\ r \in settled.slots => r \in s.slots
       /\ s.running[r].attempt # 0 => (r \in settled.slots <=> r \in s.slots)
  <2>1. CASE s.running[r].attempt # 0
    BY <1>5, <1>6, <1>8, <2>1 DEF Wrote
  <2>2. CASE s.running[r].attempt = 0
    BY <1>5, <1>9, <2>2 DEF Wrote
  <2>. QED BY <2>1, <2>2
<1> HIDE DEF settled
<1>11. t = UpdateAssignment(settled, r, "blocked")
  BY DEF StopRun, settled, signalled, released, e, stopped, finished, row
<1>12. Wrote(settled, t, r, {"asg"}) /\ t.asg[r] = Assigned(settled.asg[r], "blocked")
  <2>1. settled \in State /\ "blocked" \in AssignmentStatus
    BY <1>10 DEF Wrote, AssignmentStatus
  <2>. QED BY <1>11, <2>1, AssignmentWrites
<1>13. Wrote(s, settled, r, {"run", "running", "slots", "timers"})
  BY <1>5, <1>10, WroteTwice
<1>14. Wrote(s, t, r, {"run", "running", "slots", "asg", "timers"})
  BY <1>12, <1>13, WroteTwice
<1>15. /\ t.run[r] = row /\ t.running[r] = settled.running[r] /\ settled.asg[r] = s.asg[r]
       /\ (r \in t.slots <=> r \in settled.slots)
  BY <1>5, <1>10, <1>12, <1>13 DEF Wrote
<1>. QED BY <1>1, <1>10, <1>12, <1>14, <1>15

\* POST /runs/:id/close with outcome "stopped" of a run that has a process.
LEMMA StopRequestWrites ==
    ASSUME Sound(st), NEW r \in Runs, StopRequest(r)
    PROVE  \E t : /\ Quiet /\ st.run[r].status # "none" /\ Commit(t)
                  /\ Wrote(st, t, r, {"run", "running", "slots", "asg", "timers"})
                  /\ t.run[r].status = "finished"
                  /\ t.asg[r] = Assigned(st.asg[r], AssignmentStatusFor(t.run[r]))
                  /\ t.att[r] = st.att[r] /\ t.ext[r] = st.ext[r]
                  /\ t.running[r].attempt = st.running[r].attempt
                  /\ r \in t.slots => r \in st.slots
                  /\ st.running[r].attempt # 0 => (r \in t.slots <=> r \in st.slots)
<1> DEFINE s == StopRun(st, r)
           row == Reviewed(s.run[r], "stopped")
           t == [s EXCEPT !.run[r] = row]
<1>1. Quiet /\ run[r].status # "none" /\ Commit(t)
  BY DEF StopRequest, ProcessBacked
<1>2. st \in State /\ st.run[r].status # "none"
  BY <1>1, QuietFields
<1>a. s = StopRun(st, r)
  OBVIOUS
<1> HIDE DEF s
<1>3. /\ Wrote(st, s, r, {"run", "running", "slots", "asg", "timers"})
      /\ s.run[r] \in RunRow /\ s.run[r].status = "finished"
      /\ s.asg[r] = Assigned(st.asg[r], "blocked")
      /\ s.running[r].attempt = st.running[r].attempt
      /\ r \in s.slots => r \in st.slots
      /\ st.running[r].attempt # 0 => (r \in s.slots <=> r \in st.slots)
  BY <1>2, <1>a, StopRunWrites
<1>4. row \in RunRow /\ row.status = "finished" /\ AssignmentStatusFor(row) = "blocked"
  <2>1. row \in RunRow /\ row.status = s.run[r].status
    BY <1>3, ReviewedRow
  <2>2. AssignmentStatusFor(row) = ReviewedAssignment("stopped")
    BY <1>3, ReviewedStatus
  <2>. QED BY <1>3, <2>1, <2>2 DEF ReviewedAssignment
<1> HIDE DEF row
<1>5. LET u == [s EXCEPT !.run[r] = row]
      IN  Wrote(s, u, r, {"run"}) /\ u.run[r] = row
  BY <1>3, <1>4, WriteRun DEF Wrote
<1>6. Wrote(s, t, r, {"run"}) /\ t.run[r] = row
  BY <1>5
<1> HIDE DEF t
<1>7. Wrote(st, t, r, {"run", "running", "slots", "asg", "timers"})
  BY <1>3, <1>6, WroteTwice
<1>8. /\ t.run[r].status = "finished"
      /\ t.asg[r] = Assigned(st.asg[r], AssignmentStatusFor(t.run[r]))
      /\ t.att[r] = st.att[r] /\ t.ext[r] = st.ext[r]
      /\ t.running[r].attempt = st.running[r].attempt
      /\ r \in t.slots => r \in st.slots
      /\ st.running[r].attempt # 0 => (r \in t.slots <=> r \in st.slots)
  BY <1>3, <1>4, <1>6, <1>7 DEF Wrote
<1>. QED BY <1>1, <1>2, <1>7, <1>8

LEMMA StopRequestKeeps ==
    ASSUME Sound(st), NEW r \in Runs, StopRequest(r)
    PROVE  Sound(st') /\ Stepped(st, st')
<1>1. PICK t : /\ Quiet /\ st.run[r].status # "none" /\ Commit(t)
               /\ Wrote(st, t, r, {"run", "running", "slots", "asg", "timers"})
               /\ t.run[r].status = "finished"
               /\ t.asg[r] = Assigned(st.asg[r], AssignmentStatusFor(t.run[r]))
               /\ t.att[r] = st.att[r] /\ t.ext[r] = st.ext[r]
               /\ t.running[r].attempt = st.running[r].attempt
               /\ r \in t.slots => r \in st.slots
  BY StopRequestWrites
<1>. QED BY <1>1, FinishedKeeps, CommitKeeps

\* A row and an assignment written by an operator's verdict.
LEMMA VerdictWrites ==
    ASSUME Sound(st), Quiet, NEW r \in Runs, st.run[r].status # "none", NEW row \in RunRow,
           row.status = "finished", NEW outcome \in {"completed", "failed", "stopped"},
           Commit(UpdateAssignment([st EXCEPT !.run[r] = Reviewed(row, outcome)],
                                   r, ReviewedAssignment(outcome)))
    PROVE  \E t : /\ Commit(t) /\ Wrote(st, t, r, {"run", "asg"})
                  /\ t.run[r].status = "finished"
                  /\ t.asg[r] = Assigned(st.asg[r], AssignmentStatusFor(t.run[r]))
<1> DEFINE reviewed == Reviewed(row, outcome)
           s == [st EXCEPT !.run[r] = reviewed]
           t == UpdateAssignment(s, r, ReviewedAssignment(outcome))
<1>1. st \in State /\ Commit(t)
  BY QuietFields
<1>2. /\ reviewed \in RunRow /\ reviewed.status = "finished"
      /\ AssignmentStatusFor(reviewed) = ReviewedAssignment(outcome)
      /\ ReviewedAssignment(outcome) \in AssignmentStatus
  BY ReviewedRow, ReviewedStatus
<1> HIDE DEF reviewed
<1>3. LET u == [st EXCEPT !.run[r] = reviewed]
      IN  Wrote(st, u, r, {"run"}) /\ u.run[r] = reviewed
  BY <1>1, <1>2, WriteRun
<1>4. Wrote(st, s, r, {"run"}) /\ s.run[r] = reviewed
  BY <1>3
<1> HIDE DEF s
<1>5. Wrote(s, t, r, {"asg"}) /\ t.asg[r] = Assigned(s.asg[r], ReviewedAssignment(outcome))
  BY <1>2, <1>4, AssignmentWrites DEF Wrote
<1> HIDE DEF t
<1>6. Wrote(st, t, r, {"run", "asg"})
  BY <1>4, <1>5, WroteTwice
<1>7. /\ t.run[r].status = "finished"
      /\ t.asg[r] = Assigned(st.asg[r], AssignmentStatusFor(t.run[r]))
  BY <1>2, <1>4, <1>5, <1>6 DEF Wrote
<1>. QED BY <1>1, <1>6, <1>7

LEMMA VerdictKeeps ==
    ASSUME Sound(st), Quiet, NEW r \in Runs, st.run[r].status # "none", NEW row \in RunRow,
           row.status = "finished", NEW outcome \in {"completed", "failed", "stopped"},
           Commit(UpdateAssignment([st EXCEPT !.run[r] = Reviewed(row, outcome)],
                                   r, ReviewedAssignment(outcome)))
    PROVE  Sound(st') /\ Stepped(st, st')
<1>1. PICK t : /\ Commit(t) /\ Wrote(st, t, r, {"run", "asg"})
               /\ t.run[r].status = "finished"
               /\ t.asg[r] = Assigned(st.asg[r], AssignmentStatusFor(t.run[r]))
  BY VerdictWrites
<1>2. /\ t.att[r] = st.att[r] /\ t.ext[r] = st.ext[r]
      /\ t.running[r].attempt = st.running[r].attempt
      /\ r \in t.slots => r \in st.slots
  BY <1>1 DEF Wrote
<1>. QED BY <1>1, <1>2, FinishedKeeps, CommitKeeps

\* POST /runs/:id/close otherwise.
LEMMA CloseRequestKeeps ==
    ASSUME Sound(st), NEW r \in Runs, NEW outcome \in {"completed", "failed", "stopped"},
           CloseRequest(r, outcome)
    PROVE  Sound(st') /\ Stepped(st, st')
<1> DEFINE exit == IF outcome = "failed" THEN "nonzero" ELSE "clean"
           row == IF run[r].status = "finished" THEN run[r] ELSE FinishRunFromExit(run[r], exit)
<1>1. Quiet /\ st.run[r] = run[r] /\ run[r].status # "none" /\ run[r] \in RunRow
  BY StFields DEF CloseRequest, Sound, State
<1>2. Commit(UpdateAssignment([st EXCEPT !.run[r] = Reviewed(row, outcome)],
                              r, ReviewedAssignment(outcome)))
  BY DEF CloseRequest
<1>3. row \in RunRow /\ row.status = "finished"
  BY <1>1, RowTypes
<1> HIDE DEF row
<1>. QED BY <1>1, <1>2, <1>3, VerdictKeeps

\* POST /runs/:id/review.
LEMMA ReviewRequestKeeps ==
    ASSUME Sound(st), NEW r \in Runs, NEW outcome \in {"completed", "failed", "stopped"},
           ReviewRequest(r, outcome)
    PROVE  Sound(st') /\ Stepped(st, st')
<1> DEFINE row == st.run[r]
<1>1. Quiet /\ row \in RunRow /\ row.status = "finished" /\ st.run[r].status # "none"
  BY StFields DEF ReviewRequest, Sound, State
<1>2. Commit(UpdateAssignment([st EXCEPT !.run[r] = Reviewed(row, outcome)],
                              r, ReviewedAssignment(outcome)))
  BY DEF ReviewRequest
<1> HIDE DEF row
<1>. QED BY <1>1, <1>2, VerdictKeeps

\* cancelRun() up to its dispatch.
LEMMA CancelRunWrites ==
    ASSUME NEW s \in State, NEW r \in Runs, NEW launch
    PROVE  \E m : /\ CancelRun(s, r, launch) = Dispatch(m, MonOf[r], launch, "void", 0)
                  /\ Wrote(s, m, r, {"run", "slots", "asg", "timers"})
                  /\ m.run[r].status = "finished" /\ m.run[r].outcome = "canceled"
                  /\ r \notin m.slots
                  /\ m.asg[r] = Assigned(s.asg[r], AssignmentStatusFor(m.run[r]))
<1> DEFINE cleared == ClearRetryTimer(s, r)
           row == CancelQueuedRun(cleared.run[r])
           cancelled == [cleared EXCEPT !.run[r] = row]
           released == ReleaseSlot(cancelled, r)
           m == UpdateAssignment(released, r, "canceled")
<1>1. Wrote(s, cleared, r, {"timers"})
  BY ClearTimerWrites
<1> HIDE DEF cleared
<1>2. /\ row \in RunRow /\ row.status = "finished" /\ row.outcome = "canceled"
      /\ AssignmentStatusFor(row) = "canceled"
  <2>1. cleared.run[r] \in RunRow
    BY <1>1, WroteState
  <2>2. row.outcome = "canceled"
    BY <2>1, RowValues
  <2>. QED BY <2>1, <2>2, RowTypes, AssignmentStatusOf
<1> HIDE DEF row
<1>3. LET u == [cleared EXCEPT !.run[r] = row]
      IN  Wrote(cleared, u, r, {"run"}) /\ u.run[r] = row
  BY <1>1, <1>2, WriteRun DEF Wrote
<1>4. Wrote(cleared, cancelled, r, {"run"}) /\ cancelled.run[r] = row
  BY <1>3
<1> HIDE DEF cancelled
<1>5. Wrote(cancelled, released, r, {"slots"}) /\ r \notin released.slots
  BY <1>4, WriteSlots DEF Wrote
<1> HIDE DEF released
<1>6. Wrote(released, m, r, {"asg"}) /\ m.asg[r] = Assigned(released.asg[r], "canceled")
  <2>1. released \in State /\ "canceled" \in AssignmentStatus
    BY <1>5 DEF Wrote, AssignmentStatus
  <2>. QED BY <2>1, AssignmentWrites
<1>7. CancelRun(s, r, launch) = Dispatch(m, MonOf[r], launch, "void", 0)
  BY DEF CancelRun, DispatchMonOf, m, released, cancelled, row, cleared
<1> HIDE DEF m
<1>8. Wrote(s, cancelled, r, {"run", "timers"})
  BY <1>1, <1>4, WroteTwice
<1>9. Wrote(s, released, r, {"run", "slots", "timers"})
  BY <1>5, <1>8, WroteTwice
<1>10. Wrote(s, m, r, {"run", "slots", "asg", "timers"})
  BY <1>6, <1>9, WroteTwice
<1>11. m.run[r] = row /\ r \notin m.slots /\ released.asg[r] = s.asg[r]
  BY <1>4, <1>5, <1>6, <1>9 DEF Wrote
<1>. QED BY <1>2, <1>6, <1>7, <1>10, <1>11

\* A queued run is cancelled, after its execution was if it has one.
LEMMA CancelKeeps ==
    ASSUME Sound(st), Quiet, NEW r \in Runs, st.run[r].status = "queued",
           NEW launch \in Launches, NEW s, Wrote(st, s, r, {"ext"}),
           \/ s.ext[r] = st.ext[r]
           \/ /\ ExtOpen(st, r) /\ s.ext[r].phase = "terminal"
              /\ s.ext[r].outcome # "succeeded"
    PROVE  Keeps(st, CancelRun(s, r, launch))
<1>1. s \in State
  BY DEF Wrote
<1>2. PICK m : /\ CancelRun(s, r, launch) = Dispatch(m, MonOf[r], launch, "void", 0)
               /\ Wrote(s, m, r, {"run", "slots", "asg", "timers"})
               /\ m.run[r].status = "finished" /\ r \notin m.slots
               /\ m.asg[r] = Assigned(s.asg[r], AssignmentStatusFor(m.run[r]))
  BY <1>1, CancelRunWrites
<1>3. Wrote(st, m, r, {"ext", "run", "slots", "asg", "timers"})
  BY <1>2, WroteTwice
<1>4. /\ m.asg[r] = Assigned(st.asg[r], AssignmentStatusFor(m.run[r]))
      /\ m.att[r] = st.att[r] /\ m.ext[r] = s.ext[r]
      /\ m.running[r].attempt = st.running[r].attempt
      /\ r \in m.slots => r \in st.slots
  BY <1>2, <1>3 DEF Wrote
<1>5. Sound(m) /\ (\A x \in Runs : Moved(st, m, x)) /\ m.pending = {}
  BY <1>2, <1>3, <1>4, FinishedKeeps
<1>6. Keeps(st, Dispatch(m, MonOf[r], launch, "void", 0))
  BY <1>5, DispatchKeeps DEF Caller
<1>. QED BY <1>2, <1>6

\* POST /runs/:id/cancel.
LEMMA CancelRequestKeeps ==
    ASSUME Sound(st), NEW r \in Runs, NEW launch \in Launches, CancelRequest(r, launch)
    PROVE  Sound(st') /\ Stepped(st, st')
<1>1. Quiet /\ st.run[r].status = "queued" /\ Commit(CancelRun(st, r, launch))
  BY StFields DEF CancelRequest
<1>2. Wrote(st, st, r, {"ext"})
  <2>1. Wrote(st, st, r, {})
    BY WroteNothing DEF Sound
  <2>. QED BY <2>1 DEF Wrote
<1>3. Keeps(st, CancelRun(st, r, launch))
  BY <1>1, <1>2, CancelKeeps
<1>. QED BY <1>1, <1>3, CommitKeeps

\* An execution and its run are updated between two handlers, and the run keeps its status.
LEMMA ExternalKeeps ==
    ASSUME Sound(st), Quiet, NEW r \in Runs, NEW F, NEW t, Wrote(st, t, r, F),
           st.ext[r].phase # "none",
           t.run[r].status = st.run[r].status,
           t.att[r] = st.att[r], t.asg[r] = st.asg[r],
           t.running[r].attempt = st.running[r].attempt,
           r \in t.slots <=> r \in st.slots,
           Book(t, r), st.ext[r].phase = "terminal" => t.ext[r] = st.ext[r]
    PROVE  Keeps(st, t)
<1>1. /\ st \in State /\ st.pending = {}
      /\ Sheltered => AssignmentKept(st, r)
  BY QuietFields
<1>2. Sheltered => AssignmentKept(t, r)
  <2>1. Sheltered => r \in External /\ st.asg[r] = "none"
    BY <1>1, KindAssumption DEF AssignmentKept
  <2>. QED BY <2>1 DEF AssignmentKept
<1>. QED BY <1>1, <1>2, QuietStep

\* cancelExternalExecution() of a run that is under way: the request is recorded, and the
\* process signalled if there is one.
Signalling(asked, r, active) ==
    IF asked.running[r].attempt # 0
    THEN [MarkCancellationSignalled(asked, r) EXCEPT !.running[r].stop = TRUE]
    ELSE IF active THEN MarkFailedByRun(asked, r, "failed")
    ELSE asked

BeingCancelled(asked, t, r) ==
    /\ Wrote(asked, t, r, {"ext", "running", "run"})
    /\ t.run[r].status = asked.run[r].status
    /\ t.running[r].attempt = asked.running[r].attempt
    /\ \/ t.ext[r] = asked.ext[r]
       \/ /\ asked.ext[r].phase = "cancelling"
          /\ t.ext[r] = [asked.ext[r] EXCEPT !.cancellation_state = "signalled"]
       \/ /\ ExtOpen(asked, r) /\ t.ext[r].phase = "terminal"
          /\ t.ext[r].outcome = "failed" /\ asked.running[r].attempt = 0

\* What cancelExternalExecution() writes after it has recorded the request.
LEMMA CancellingWrites ==
    ASSUME NEW asked \in State, NEW r \in Runs, NEW active \in BOOLEAN,
           NEW t, t = [Signalling(asked, r, active) EXCEPT !.run[r].runtime_state = "cancelling"]
    PROVE  BeingCancelled(asked, t, r)
<1> DEFINE marked == MarkCancellationSignalled(asked, r)
           e == [marked.running[r] EXCEPT !.stop = TRUE]
           stopping == [marked EXCEPT !.running[r] = e]
           failed == MarkFailedByRun(asked, r, "failed")
           signalled == IF asked.running[r].attempt # 0 THEN stopping
                        ELSE IF active THEN failed ELSE asked
           row == [signalled.run[r] EXCEPT !.runtime_state = "cancelling"]
<1>1. t = [signalled EXCEPT !.run[r] = row]
  BY DEF Signalling
<1>2. /\ Wrote(asked, marked, r, {"ext"})
      /\ \/ marked.ext[r] = asked.ext[r]
         \/ /\ asked.ext[r].phase = "cancelling"
            /\ marked.ext[r] = [asked.ext[r] EXCEPT !.cancellation_state = "signalled"]
  BY SignalledWrites
<1> HIDE DEF marked
<1>3. e \in RunningRun /\ e.attempt = asked.running[r].attempt
  <2>1. marked.running[r] \in RunningRun /\ marked.running[r] = asked.running[r]
    BY <1>2, WroteState DEF Wrote
  <2>. QED BY <2>1 DEF RunningRun
<1> HIDE DEF e
<1>4. LET u == [marked EXCEPT !.running[r] = e]
      IN  Wrote(marked, u, r, {"running"}) /\ u.running[r] = e
  BY <1>2, <1>3, WriteRunning DEF Wrote
<1>5. Wrote(marked, stopping, r, {"running"}) /\ stopping.running[r] = e
  BY <1>4
<1> HIDE DEF stopping
<1>6. WroteOpenExt(asked, failed, r, FailedRow(asked, r, "failed"))
  BY MarkFailedWrites
<1> HIDE DEF failed
<1>7. /\ Wrote(asked, signalled, r, {"ext", "running"})
      /\ signalled.running[r].attempt = asked.running[r].attempt
      /\ \/ signalled.ext[r] = asked.ext[r]
         \/ /\ asked.ext[r].phase = "cancelling"
            /\ signalled.ext[r] = [asked.ext[r] EXCEPT !.cancellation_state = "signalled"]
         \/ /\ ExtOpen(asked, r) /\ signalled.ext[r].phase = "terminal"
            /\ signalled.ext[r].outcome = "failed" /\ asked.running[r].attempt = 0
  <2>1. CASE asked.running[r].attempt # 0
    <3>1. signalled = stopping
      BY <2>1
    <3>2. Wrote(asked, stopping, r, {"ext", "running"})
      BY <1>2, <1>5, WroteTwice
    <3>3. stopping.ext[r] = marked.ext[r]
      BY <1>5 DEF Wrote
    <3>. QED BY <1>2, <1>3, <1>5, <2>1, <3>1, <3>2, <3>3
  <2>2. CASE asked.running[r].attempt = 0 /\ active
    <3>1. signalled = failed
      BY <2>2
    <3>2. Wrote(asked, failed, r, {"ext", "running"}) /\ failed.running[r] = asked.running[r]
      BY <1>6 DEF WroteOpenExt, Wrote
    <3>. QED BY <1>6, <2>2, <3>1, <3>2, FailedFields DEF WroteOpenExt
  <2>3. CASE asked.running[r].attempt = 0 /\ ~active
    <3>1. Wrote(asked, asked, r, {"ext", "running"})
      BY WroteNothing DEF Wrote
    <3>. QED BY <2>3, <3>1
  <2>. QED BY <2>1, <2>2, <2>3
<1> HIDE DEF signalled
<1>8. row \in RunRow /\ row.status = asked.run[r].status
  <2>1. signalled.run[r] \in RunRow /\ signalled.run[r] = asked.run[r]
    BY <1>7, WroteState DEF Wrote
  <2>. QED BY <2>1 DEF RunRow, RuntimeState
<1> HIDE DEF row
<1>9. LET u == [signalled EXCEPT !.run[r] = row]
      IN  Wrote(signalled, u, r, {"run"}) /\ u.run[r] = row
  BY <1>7, <1>8, WriteRun DEF Wrote
<1>10. Wrote(signalled, t, r, {"run"}) /\ t.run[r] = row
  BY <1>1, <1>9
<1>11. Wrote(asked, t, r, {"ext", "running", "run"})
  BY <1>7, <1>10, WroteTwice
<1>12. t.ext[r] = signalled.ext[r] /\ t.running[r] = signalled.running[r]
  BY <1>10 DEF Wrote
<1>. QED BY <1>7, <1>8, <1>10, <1>11, <1>12 DEF BeingCancelled

\* What a request to cancel an execution does to its run.  Where the run is queued it is
\* cancelled at once,
CancelledQueued(s, r, launch) ==
    /\ s.run[r].status = "queued"
    /\ \E a : /\ Wrote(s, a, r, {"ext"}) /\ Commit(CancelRun(a, r, launch))
              /\ \/ ~ExtOpen(s, r) /\ a.ext[r] = s.ext[r]
                 \/ /\ ExtOpen(s, r) /\ a.ext[r].phase = "terminal"
                    /\ a.ext[r].outcome = "cancelled"
                    /\ a.ext[r].cancellation_state = "acknowledged"

\* where it has ended and its receipt is awaited, so is the execution,
CancelledAwaiting(s, t, r) ==
    /\ s.run[r].status = "finished" /\ s.ext[r].phase = "awaiting_completion"
    /\ Wrote(s, t, r, {"ext", "run"})
    /\ t.run[r].status = "finished" /\ t.run[r].outcome = "canceled"
    /\ t.ext[r].phase = "terminal" /\ t.ext[r].outcome = "cancelled"
    /\ t.ext[r].cancellation_state = "acknowledged"

\* where the execution is terminal nothing happens,
CancelledAlready(s, t, r) ==
    s.ext[r].phase = "terminal" /\ Wrote(s, t, r, {"ext"}) /\ t.ext[r] = s.ext[r]

\* and else the request is recorded, unless there is nothing to signal.
CancelledRunning(s, t, r) ==
    /\ s.run[r].status # "queued"
    /\ ~(s.run[r].status = "finished" /\ s.ext[r].phase = "awaiting_completion")
    /\ ExtOpen(s, r) /\ Wrote(s, t, r, {"ext", "running", "run"})
    /\ t.run[r].status = s.run[r].status /\ t.running[r].attempt = s.running[r].attempt
    /\ \/ /\ t.ext[r].phase = "cancelling" /\ t.ext[r].outcome = "none"
          /\ t.ext[r].exited_clean = s.ext[r].exited_clean /\ CancellationAsked(t, r)
       \/ /\ t.ext[r].phase = "terminal" /\ t.ext[r].outcome = "failed"
          /\ s.running[r].attempt = 0

\* cancelExternalExecution() up to its dispatch.
LEMMA CancelExternalWrites ==
    ASSUME Sound(st), NEW r \in Runs, NEW launch, CancelExternalExecution(r, launch)
    PROVE  /\ Quiet /\ st.run[r].status # "none" /\ st.ext[r].phase # "none"
           /\ \/ CancelledQueued(st, r, launch)
              \/ \E t : /\ Commit(t)
                        /\ \/ CancelledAwaiting(st, t, r)
                           \/ CancelledAlready(st, t, r)
                           \/ CancelledRunning(st, t, r)
<1> DEFINE queued == run[r].status = "queued"
           awaiting == run[r].status = "finished" /\ ext[r].phase = "awaiting_completion"
           idle == queued \/ awaiting
           asked == RequestCancellation(st, r, idle)
           row == [asked.run[r] EXCEPT !.outcome = "canceled",
                              !.runtime_state = "cancelled", !.outcome_state = "unknown"]
           cancelled == [asked EXCEPT !.run[r] = row]
           active == run[r].status = "active"
           signalled == IF running[r].attempt # 0
                        THEN [MarkCancellationSignalled(asked, r) EXCEPT !.running[r].stop = TRUE]
                        ELSE IF active THEN MarkFailedByRun(asked, r, "failed")
                        ELSE asked
           cancelling == [signalled EXCEPT !.run[r].runtime_state = "cancelling"]
<1>1. /\ Quiet /\ ext[r].phase # "none"
      /\ Commit(IF queued THEN CancelRun(asked, r, launch)
                ELSE IF awaiting THEN cancelled
                ELSE IF ext[r].phase = "terminal" THEN asked
                ELSE cancelling)
  BY DEF CancelExternalExecution
<1>2. /\ st \in State /\ Book(st, r)
      /\ st.run[r] = run[r] /\ st.ext[r] = ext[r] /\ st.running[r] = running[r]
  BY <1>1, QuietFields
<1>3. st.run[r].status # "none"
  <2>1. NoExt.phase = "none"
    BY DEF NoExt
  <2> HIDE DEF cancelling
  <2>. QED BY <1>1, <1>2, <2>1 DEF Book
<1>4. idle \in BOOLEAN /\ (ExtOpen(st, r) <=> ext[r].phase # "terminal")
  BY <1>1, <1>2 DEF ExtOpen
<1>5. WroteOpenExt(st, asked, r, AskedRow(st, r, idle))
  <2> HIDE DEF idle
  <2>. QED BY <1>2, <1>4, RequestCancellationWrites
<1>6. LET a == AskedRow(st, r, idle)
      IN  /\ a.exited_clean = st.ext[r].exited_clean
          /\ idle => /\ a.phase = "terminal" /\ a.outcome = "cancelled"
                     /\ a.cancellation_state = "acknowledged"
          /\ ~idle => /\ a.phase = "cancelling" /\ a.outcome = "none"
                      /\ a.cancellation_state = "requested"
  <2>1. st.ext[r] \in ExtRow
    BY <1>2, ExtRowOf
  <2> HIDE DEF idle
  <2>. QED BY <1>4, <2>1 DEF AskedRow, ExtRow
<1> HIDE DEF asked
<1>7. Wrote(st, asked, r, {"ext"})
  BY <1>5 DEF WroteOpenExt
<1>8. CASE queued
  <2>1. \/ ~ExtOpen(st, r) /\ asked.ext[r] = st.ext[r]
        \/ /\ ExtOpen(st, r) /\ asked.ext[r].phase = "terminal"
           /\ asked.ext[r].outcome = "cancelled"
           /\ asked.ext[r].cancellation_state = "acknowledged"
    BY <1>5, <1>6, <1>8 DEF WroteOpenExt
  <2>2. Commit(CancelRun(asked, r, launch)) /\ st.run[r].status = "queued"
    BY <1>1, <1>2, <1>8
  <2>3. CancelledQueued(st, r, launch)
    BY <1>7, <2>1, <2>2 DEF CancelledQueued
  <2>. QED BY <1>1, <1>2, <1>3, <2>3
<1>9. CASE awaiting
  <2>1. ~queued /\ idle /\ ExtOpen(st, r)
    BY <1>4, <1>9
  <2>2. row \in RunRow /\ row.status = st.run[r].status /\ row.outcome = "canceled"
    <3>1. asked.run[r] \in RunRow /\ asked.run[r] = st.run[r]
      BY <1>7, WroteState DEF Wrote
    <3>. QED BY <3>1 DEF RunRow, RunOutcome, RuntimeState, OutcomeState
  <2> HIDE DEF row
  <2>3. LET u == [asked EXCEPT !.run[r] = row]
        IN  Wrote(asked, u, r, {"run"}) /\ u.run[r] = row
    BY <1>7, <2>2, WriteRun DEF Wrote
  <2>4. Wrote(asked, cancelled, r, {"run"}) /\ cancelled.run[r] = row
    BY <2>3
  <2>5. Commit(cancelled)
    BY <1>1, <1>9, <2>1
  <2> HIDE DEF cancelled
  <2>6. Wrote(st, cancelled, r, {"ext", "run"}) /\ cancelled.ext[r] = asked.ext[r]
    <3>1. Wrote(st, cancelled, r, {"ext"} \cup {"run"})
      BY <1>7, <2>4, WroteTwice
    <3>2. {"ext"} \cup {"run"} = {"ext", "run"}
      OBVIOUS
    <3>3. cancelled.ext[r] = asked.ext[r]
      BY <2>4 DEF Wrote
    <3>. QED BY <3>1, <3>2, <3>3
  <2>7. /\ asked.ext[r].phase = "terminal" /\ asked.ext[r].outcome = "cancelled"
        /\ asked.ext[r].cancellation_state = "acknowledged"
    BY <1>5, <1>6, <2>1 DEF WroteOpenExt
  <2>8. st.run[r].status = "finished" /\ st.ext[r].phase = "awaiting_completion"
    BY <1>2, <1>9
  <2>9. CancelledAwaiting(st, cancelled, r)
    BY <2>2, <2>4, <2>6, <2>7, <2>8 DEF CancelledAwaiting
  <2>. QED BY <1>1, <1>2, <1>3, <2>5, <2>9
<1>10. CASE ~queued /\ ~awaiting /\ ext[r].phase = "terminal"
  <2>1. asked.ext[r] = st.ext[r] /\ st.ext[r].phase = "terminal"
    BY <1>2, <1>4, <1>5, <1>10 DEF WroteOpenExt
  <2>2. Commit(asked)
    BY <1>1, <1>10
  <2>3. CancelledAlready(st, asked, r)
    BY <1>7, <2>1 DEF CancelledAlready
  <2>. QED BY <1>1, <1>2, <1>3, <2>2, <2>3
<1>11. CASE ~queued /\ ~awaiting /\ ext[r].phase # "terminal"
  <2>1. /\ ~idle /\ ExtOpen(st, r) /\ asked.ext[r] = AskedRow(st, r, idle)
    BY <1>4, <1>5, <1>11 DEF WroteOpenExt
  <2>2. /\ asked.ext[r].phase = "cancelling" /\ asked.ext[r].outcome = "none"
        /\ asked.ext[r].exited_clean = st.ext[r].exited_clean
        /\ asked.ext[r].cancellation_state = "requested"
    BY <1>6, <2>1
  <2>3. /\ asked.run[r] = st.run[r] /\ asked.running[r] = st.running[r]
        /\ asked \in State
    BY <1>7 DEF Wrote
  <2>a. Commit(cancelling)
    BY <1>1, <1>11
  <2>4. BeingCancelled(asked, cancelling, r)
    <3>1. active \in BOOLEAN /\ running[r].attempt = asked.running[r].attempt
      BY <1>2, <2>3
    <3> HIDE DEF active
    <3>2. cancelling = [Signalling(asked, r, active) EXCEPT !.run[r].runtime_state = "cancelling"]
      BY <3>1 DEF Signalling
    <3> HIDE DEF cancelling
    <3>. QED BY <2>3, <3>1, <3>2, CancellingWrites
  <2> HIDE DEF cancelling
  <2>5. Wrote(st, cancelling, r, {"ext", "running", "run"})
    BY <1>7, <2>4, WroteTwice DEF BeingCancelled
  <2>6. /\ cancelling.run[r].status = st.run[r].status
        /\ cancelling.running[r].attempt = st.running[r].attempt
    BY <2>3, <2>4 DEF BeingCancelled
  <2>7. \/ /\ cancelling.ext[r].phase = "cancelling" /\ cancelling.ext[r].outcome = "none"
           /\ cancelling.ext[r].exited_clean = st.ext[r].exited_clean
           /\ CancellationAsked(cancelling, r)
        \/ /\ cancelling.ext[r].phase = "terminal" /\ cancelling.ext[r].outcome = "failed"
           /\ st.running[r].attempt = 0
    <3>1. asked.ext[r] \in ExtRow
      BY <2>3, ExtRowOf
    <3>. QED BY <2>2, <2>3, <2>4, <3>1 DEF BeingCancelled, CancellationAsked, ExtRow
  <2>8. /\ st.run[r].status # "queued"
        /\ ~(st.run[r].status = "finished" /\ st.ext[r].phase = "awaiting_completion")
    BY <1>2, <1>11
  <2>9. CancelledRunning(st, cancelling, r)
    BY <2>1, <2>5, <2>6, <2>7, <2>8 DEF CancelledRunning
  <2>. QED BY <1>1, <1>2, <1>3, <2>a, <2>9
<1>. QED BY <1>8, <1>9, <1>10, <1>11

\* It keeps the invariant.
LEMMA CancelExternalKeeps ==
    ASSUME Sound(st), NEW r \in Runs, NEW launch \in Launches,
           CancelExternalExecution(r, launch)
    PROVE  Sound(st') /\ Stepped(st, st')
<1>1. /\ Quiet /\ st.run[r].status # "none" /\ st.ext[r].phase # "none"
      /\ \/ CancelledQueued(st, r, launch)
         \/ \E t : /\ Commit(t)
                   /\ \/ CancelledAwaiting(st, t, r)
                      \/ CancelledAlready(st, t, r)
                      \/ CancelledRunning(st, t, r)
  BY CancelExternalWrites
<1>2. Book(st, r)
  BY <1>1, QuietFields
<1>3. CASE CancelledQueued(st, r, launch)
  <2>1. PICK a : /\ Wrote(st, a, r, {"ext"}) /\ Commit(CancelRun(a, r, launch))
                 /\ \/ a.ext[r] = st.ext[r]
                    \/ /\ ExtOpen(st, r) /\ a.ext[r].phase = "terminal"
                       /\ a.ext[r].outcome # "succeeded"
    BY <1>3 DEF CancelledQueued
  <2>2. Keeps(st, CancelRun(a, r, launch))
    BY <1>1, <1>3, <2>1, CancelKeeps DEF CancelledQueued
  <2>. QED BY <2>1, <2>2, CommitKeeps
<1>4. ASSUME NEW t, Commit(t), CancelledAwaiting(st, t, r)
      PROVE  Sound(st') /\ Stepped(st, st')
  <2>1. /\ Wrote(st, t, r, {"ext", "run"}) /\ t.run[r].status = st.run[r].status
        /\ st.ext[r].phase \notin {"none", "terminal"}
        /\ t.run[r].status # "none" /\ t.run[r].status = "finished"
        /\ t.ext[r].phase = "terminal" /\ t.ext[r].outcome = "cancelled"
    BY <1>4 DEF CancelledAwaiting
  <2>2. /\ t.att[r] = st.att[r] /\ t.asg[r] = st.asg[r] /\ t.running[r] = st.running[r]
        /\ (r \in t.slots <=> r \in st.slots)
    BY <2>1 DEF Wrote
  <2>3. Book(t, r)
    BY <1>1, <1>2, <2>1, <2>2 DEF Book, LastIs, EarlierFailed, ExtOpen
  <2>4. Keeps(st, t)
    BY <1>1, <2>1, <2>2, <2>3, ExternalKeeps
  <2>. QED BY <1>4, <2>4, CommitKeeps
<1>5. ASSUME NEW t, Commit(t), CancelledAlready(st, t, r)
      PROVE  Sound(st') /\ Stepped(st, st')
  <2>1. Wrote(st, t, r, {"ext"}) /\ t.ext[r] = st.ext[r]
    BY <1>5 DEF CancelledAlready
  <2>2. /\ t.run[r] = st.run[r] /\ t.att[r] = st.att[r] /\ t.asg[r] = st.asg[r]
        /\ t.running[r] = st.running[r] /\ (r \in t.slots <=> r \in st.slots)
    BY <2>1 DEF Wrote
  <2>3. Book(t, r)
    BY <1>2, <2>1, <2>2 DEF Book, LastIs, EarlierFailed, ExtOpen, CancellationAsked
  <2>4. Keeps(st, t)
    BY <1>1, <2>1, <2>2, <2>3, ExternalKeeps
  <2>. QED BY <1>5, <2>4, CommitKeeps
<1>6. ASSUME NEW t, Commit(t), CancelledRunning(st, t, r)
      PROVE  Sound(st') /\ Stepped(st, st')
  <2>1. /\ Wrote(st, t, r, {"ext", "running", "run"}) /\ ExtOpen(st, r)
        /\ t.run[r].status = st.run[r].status /\ st.run[r].status # "queued"
        /\ t.running[r].attempt = st.running[r].attempt
        /\ \/ /\ t.ext[r].phase = "cancelling" /\ t.ext[r].outcome = "none"
              /\ t.ext[r].exited_clean = st.ext[r].exited_clean
              /\ CancellationAsked(t, r)
           \/ t.ext[r].phase = "terminal" /\ t.ext[r].outcome = "failed"
    BY <1>6 DEF CancelledRunning
  <2>2. /\ t.att[r] = st.att[r] /\ t.asg[r] = st.asg[r] /\ (r \in t.slots <=> r \in st.slots)
    BY <2>1 DEF Wrote
  <2>3. Book(t, r)
    BY <1>1, <1>2, <2>1, <2>2 DEF Book, LastIs, EarlierFailed, ExtOpen
  <2>4. Keeps(st, t)
    <3>1. st.ext[r].phase \notin {"none", "terminal"}
      BY <2>1 DEF ExtOpen
    <3>. QED BY <1>1, <2>1, <2>2, <2>3, <3>1, ExternalKeeps
  <2>. QED BY <1>6, <2>4, CommitKeeps
<1>. QED BY <1>1, <1>3, <1>4, <1>5, <1>6

\* completeExternalExecution().
LEMMA CompleteExternalKeeps ==
    ASSUME Sound(st), NEW r \in Runs, NEW digest \in Digests,
           CompleteExternalExecution(r, digest)
    PROVE  Sound(st') /\ Stepped(st, st')
<1> DEFINE s == RecordCompletion(st, r, digest)
           row == [s.run[r] EXCEPT !.outcome = "completed",
                     !.outcome_state = "succeeded", !.runtime_state = "closed"]
           t == [s EXCEPT !.run[r] = row]
<1>1. /\ Quiet /\ ext[r].phase # "none" /\ ~CompletionConflicts(st, r, digest)
      /\ Commit(s) \/ Commit(t)
  BY DEF CompleteExternalExecution
<1>2. st \in State /\ Book(st, r) /\ st.ext[r] = ext[r] /\ st.ext[r] \in ExtRow
  BY <1>1, QuietFields, ExtRowOf
<1>3. st.run[r].status # "none"
  BY <1>1, <1>2 DEF Book, NoExt
<1>4. /\ Wrote(st, s, r, {"ext"})
      /\ st.ext[r].completion_digest # "none" => s.ext[r] = st.ext[r]
      /\ st.ext[r].completion_digest = "none" => s.ext[r] = CompletedRow(st, r, digest)
  BY <1>2, CompletionWrites
<1> HIDE DEF s
<1>5. row \in RunRow /\ row.status = st.run[r].status /\ row.runtime_state = "closed"
  <2>1. s.run[r] \in RunRow /\ s.run[r] = st.run[r]
    BY <1>4, WroteState DEF Wrote
  <2>. QED BY <2>1 DEF RunRow, RunOutcome, OutcomeState, RuntimeState
<1> HIDE DEF row
<1>6. LET u == [s EXCEPT !.run[r] = row]
      IN  Wrote(s, u, r, {"run"}) /\ u.run[r] = row
  BY <1>4, <1>5, WriteRun DEF Wrote
<1>7. Wrote(s, t, r, {"run"}) /\ t.run[r] = row
  BY <1>6
<1> HIDE DEF t
<1>8. Wrote(st, t, r, {"ext", "run"})
  BY <1>4, <1>7, WroteTwice
<1>9. \/ s.ext[r] = st.ext[r]
      \/ /\ ExtOpen(st, r) /\ s.ext[r].completion_digest # "none"
         /\ s.ext[r].cancellation_state = st.ext[r].cancellation_state
         /\ s.ext[r].exited_clean = st.ext[r].exited_clean
         /\ \/ /\ st.ext[r].exited_clean
               /\ s.ext[r].phase = "terminal" /\ s.ext[r].outcome = "succeeded"
            \/ /\ s.ext[r].phase = st.ext[r].phase /\ s.ext[r].outcome = st.ext[r].outcome
  <2>1. CASE st.ext[r].completion_digest # "none"
    BY <1>4, <2>1
  <2>2. CASE st.ext[r].completion_digest = "none"
    <3>1. ExtOpen(st, r)
      BY <1>1, <1>2, <2>2 DEF CompletionConflicts, ExtOpen
    <3>2. s.ext[r] = CompletedRow(st, r, digest) /\ digest # "none"
      BY <1>4, <2>2, DigestAssumption
    <3> DEFINE phase == IF st.ext[r].exited_clean THEN "terminal" ELSE st.ext[r].phase
               outcome == IF st.ext[r].exited_clean THEN "succeeded" ELSE st.ext[r].outcome
    <3>3. s.ext[r] = [st.ext[r] EXCEPT !.completion_digest = digest, !.phase = phase,
                                       !.outcome = outcome]
      BY <3>2 DEF CompletedRow
    <3>4. \/ /\ st.ext[r].exited_clean /\ phase = "terminal" /\ outcome = "succeeded"
          \/ phase = st.ext[r].phase /\ outcome = st.ext[r].outcome
      OBVIOUS
    <3> HIDE DEF phase, outcome
    <3>5. /\ s.ext[r].completion_digest = digest /\ s.ext[r].phase = phase
          /\ s.ext[r].outcome = outcome
          /\ s.ext[r].cancellation_state = st.ext[r].cancellation_state
          /\ s.ext[r].exited_clean = st.ext[r].exited_clean
      BY <1>2, <3>3 DEF ExtRow
    <3>. QED BY <3>1, <3>2, <3>4, <3>5
  <2>. QED BY <2>1, <2>2
<1>10. st.ext[r].phase = "terminal" => s.ext[r] = st.ext[r]
  BY <1>9 DEF ExtOpen
<1>11. Keeps(st, s)
  <2>1. /\ s.run[r] = st.run[r] /\ s.att[r] = st.att[r] /\ s.asg[r] = st.asg[r]
        /\ s.running[r] = st.running[r] /\ (r \in s.slots <=> r \in st.slots)
    BY <1>4 DEF Wrote
  <2>2. Book(s, r)
    BY <1>2, <1>3, <1>9, <2>1
       DEF Book, LastIs, EarlierFailed, ExtOpen, CancellationAsked
  <2>. QED BY <1>1, <1>2, <1>4, <1>10, <2>1, <2>2, ExternalKeeps
<1>12. Keeps(st, t)
  <2>1. /\ t.run[r] = row /\ t.att[r] = st.att[r] /\ t.asg[r] = st.asg[r]
        /\ t.ext[r] = s.ext[r]
        /\ t.running[r] = st.running[r] /\ (r \in t.slots <=> r \in st.slots)
    BY <1>7, <1>8 DEF Wrote
  <2>2. Book(t, r)
    BY <1>2, <1>3, <1>5, <1>9, <2>1
       DEF Book, LastIs, EarlierFailed, ExtOpen, CancellationAsked
  <2>. QED BY <1>1, <1>2, <1>5, <1>8, <1>10, <2>1, <2>2, ExternalKeeps
<1>. QED BY <1>1, <1>11, <1>12, CommitKeeps

-----------------------------------------------------------------------------
(* Steps that may happen while the service is down *)

\* The passing of a retry time touches the last attempt of a run, and not its status.
LEMMA BackoffWrites ==
    ASSUME st \in State, NEW r \in Runs, BackoffElapses(r)
    PROVE  /\ Wrote(st, st', r, {"att"}) /\ Len(st'.att[r]) = Len(st.att[r])
           /\ DOMAIN st'.att[r] = DOMAIN st.att[r] /\ st'.att[r] # << >> /\ st.att[r] # << >>
           /\ \A j \in DOMAIN st.att[r] : st'.att[r][j].status = st.att[r][j].status
           /\ st'.att[r][Len(st.att[r])].retry_at = "due"
           /\ st.att[r][Len(st.att[r])].retry_at = "future"
<1> DEFINE k == Len(st.att[r])
           row == [st.att[r][k] EXCEPT !.retry_at = "due"]
           t == [st EXCEPT !.att[r][k] = row]
<1>1. st.att[r] \in Seq(AttemptRow) /\ st.att[r] # << >> /\ st.att[r][k].retry_at = "future"
  BY DEF State, BackoffElapses, InBackoff
<1>2. k \in 1 .. Len(st.att[r]) /\ st.att[r][k] \in AttemptRow
  BY <1>1
<1>3. row \in AttemptRow /\ row.status = st.att[r][k].status /\ row.retry_at = "due"
  BY <1>2 DEF AttemptRow
<1>4. st' = t
  <2> DEFINE b == [st.att[r] EXCEPT ![k] = row]
  <2>1. att' = [st.att EXCEPT ![r] = b]
    BY StFields DEF BackoffElapses
  <2>2. t = [st EXCEPT !.att = [st.att EXCEPT ![r] = b]]
    OBVIOUS
  <2> HIDE DEF t, b
  <2>. QED BY <2>1, <2>2 DEF BackoffElapses, st
<1> HIDE DEF row
<1>5. LET u == [st EXCEPT !.att[r][Len(st.att[r])] = row]
      IN  Wrote(st, u, r, {"att"}) /\ Replaced(st.att[r], u.att[r], row)
  BY <1>1, <1>3, WriteLast
<1>6. Wrote(st, st', r, {"att"}) /\ Replaced(st.att[r], st'.att[r], row)
  BY <1>4, <1>5
<1> HIDE DEF t
<1>7. \A j \in DOMAIN st.att[r] : j = k \/ j < k
  BY <1>1
<1>8. \A j \in DOMAIN st.att[r] : st'.att[r][j].status = st.att[r][j].status
  BY <1>3, <1>6, <1>7 DEF Replaced
<1>. QED BY <1>1, <1>3, <1>6, <1>8 DEF Replaced

\* So the invariant does not notice.
LEMMA BackoffKeeps ==
    ASSUME Guaranteed(st), NEW r \in Runs, BackoffElapses(r)
    PROVE  /\ st.service # "down" => Sound(st')
           /\ st.service = "down" => /\ Forgotten(st') /\ ~Sheltered /\ st'.service = "down"
                                     /\ \A q \in Runs : Book(st', q) /\ Kept(st', q)
           /\ Stepped(st, st')
<1> DEFINE t == st'
<1>1. st \in State
  BY DEF Guaranteed, Good, GoodBut
<1>2. /\ Wrote(st, t, r, {"att"}) /\ Len(t.att[r]) = Len(st.att[r])
      /\ DOMAIN t.att[r] = DOMAIN st.att[r] /\ t.att[r] # << >> /\ st.att[r] # << >>
      /\ \A j \in DOMAIN st.att[r] : t.att[r][j].status = st.att[r][j].status
      /\ t.att[r][Len(st.att[r])].retry_at = "due"
      /\ st.att[r][Len(st.att[r])].retry_at = "future"
  BY <1>1, BackoffWrites
<1>a. t.running = st.running
  BY DEF st, BackoffElapses
<1> HIDE DEF t
<1>3. Len(st.att[r]) \in DOMAIN st.att[r]
  <2>1. st.att[r] \in Seq(AttemptRow)
    BY <1>1 DEF State
  <2>. QED BY <1>2, <2>1
<1>4. /\ \A status : LastIs(t, r, status) <=> LastIs(st, r, status)
      /\ \A k : IsOpen(t, r, k) <=> IsOpen(st, r, k)
      /\ (HasOpenAttempt(t, r) <=> HasOpenAttempt(st, r))
      /\ (EarlierFailed(st, r) => EarlierFailed(t, r))
  BY <1>2, <1>3 DEF LastIs, IsOpen, HasOpenAttempt, EarlierFailed
<1>5. /\ t.run[r] = st.run[r] /\ t.ext[r] = st.ext[r] /\ t.asg[r] = st.asg[r]
      /\ t.running[r] = st.running[r] /\ (r \in t.slots <=> r \in st.slots)
      /\ t.procs = st.procs /\ t.pending = st.pending /\ t.errors = st.errors
      /\ t.service = st.service /\ t \in State /\ Others(st, t, r)
  BY <1>2 DEF Wrote
<1>6. Book(st, r) => Book(t, r)
  BY <1>2, <1>4, <1>5 DEF Book, ExtOpen, CancellationAsked
<1>7. Kept(st, r) => Kept(t, r)
  <2>1. FailureFinal(t, r)
    BY <1>2 DEF FailureFinal
  <2>2. AttemptsLeft(st, r) => AttemptsLeft(t, r)
    BY <1>2, <1>5 DEF AttemptsLeft
  <2>3. AssignmentKept(st, r) => AssignmentKept(t, r)
    BY <1>5 DEF AssignmentKept
  <2>. QED BY <2>1, <2>2, <2>3 DEF Kept
<1>8. \A q \in Runs : Book(st, q) /\ Kept(st, q)
  BY DEF Guaranteed, Sound, Fine
<1>9. ASSUME NEW x \in Runs
      PROVE  Moved(st, t, x)
  <2>1. CASE x = r
    <3>1. LastIs(st, r, "lost") => st.run[r].status = "finished"
      BY <1>8 DEF Book
    <3>. QED BY <1>2, <1>5, <2>1, <3>1 DEF Moved, Stays, LastIs, ProcessBacked
  <2>2. CASE x # r
    <3>1. Same(st, t, x) /\ Book(st, x)
      BY <1>5, <1>8, <2>2 DEF Others
    <3>. QED BY <3>1, SameMoves
  <2>. QED BY <2>1, <2>2
<1>10. ASSUME st.service # "down"
       PROVE  Sound(t)
  <2>1. Sound(st) /\ Fine(st, r)
    BY <1>10 DEF Guaranteed, Sound
  <2>2. Known(t, r)
    BY <1>2, <1>4, <1>5, <2>1 DEF Fine, Known, Dead
  <2>3. Live(t, r)
    BY <1>2, <1>4, <1>5, <2>1 DEF Fine, Live, Dead
  <2>4. NoEvent => Calm(t, r)
    BY <1>4, <1>5, <2>1 DEF Fine, Calm, Dead
  <2>5. Sheltered => OpenLives(t, r)
    BY <1>4, <1>5, <2>1 DEF Fine, OpenLives, Dead
  <2>6. Fine(t, r)
    BY <1>6, <1>7, <1>8, <2>2, <2>3, <2>4, <2>5 DEF Fine
  <2>7. /\ \A q \in Runs : q # r => Fine(st, q)
        /\ t.service # "down"
        /\ Sheltered => t.service = "up"
        /\ NoEvent => \A v, w \in t.pending : v = w
    BY <1>5, <1>10, <2>1 DEF Sound
  <2>. QED BY <1>1, <1>5, <2>6, <2>7, OthersSound
<1>11. ASSUME st.service = "down"
       PROVE  /\ Forgotten(t) /\ ~Sheltered /\ t.service = "down"
              /\ \A q \in Runs : Book(t, q) /\ Kept(t, q)
  <2>1. Forgotten(st) /\ ~Sheltered
    BY <1>11 DEF Guaranteed
  <2>2. Forgotten(t)
    BY <1>a, <1>5, <2>1 DEF Forgotten
  <2>3. ASSUME NEW q \in Runs, q # r
        PROVE  Book(t, q) /\ Kept(t, q)
    <3>1. Same(st, t, q) /\ Book(st, q) /\ Kept(st, q)
      BY <1>5, <1>8, <2>3 DEF Others
    <3>2. \A status : LastIs(t, q, status) <=> LastIs(st, q, status)
      BY <3>1 DEF Same, LastIs
    <3>3. Book(t, q)
      BY <3>1, <3>2 DEF Same, Book, EarlierFailed, ExtOpen, CancellationAsked
    <3>4. Kept(t, q)
      BY <3>1, <3>2 DEF Same, Kept, FailureFinal, AttemptsLeft, AssignmentKept
    <3>. QED BY <3>3, <3>4
  <2>. QED BY <1>5, <1>6, <1>7, <1>8, <1>11, <2>1, <2>2, <2>3
<1>12. Stepped(st, t)
  BY <1>9, MovedStepped
<1>. QED BY <1>10, <1>11, <1>12 DEF t

\* A crash forgets everything but the database.
LEMMA CrashKeeps ==
    ASSUME Sound(st), Crash
    PROVE  /\ st'.service = "down" /\ Forgotten(st') /\ ~Sheltered
           /\ \A q \in Runs : Book(st', q) /\ Kept(st', q)
           /\ Stepped(st, st')
<1> DEFINE t == st'
<1>1. /\ t.run = st.run /\ t.att = st.att /\ t.ext = st.ext /\ t.asg = st.asg
      /\ t.procs = {} /\ t.pending = {} /\ t.errors = {} /\ t.service = "down"
      /\ \A q \in Runs : t.running[q] = NotRunning
  BY DEF Crash, db, st
<1>2. ~Sheltered
  <2>1. service = "doomed" \/ crashes < MaxCrashes
    BY DEF Crash
  <2>2. crashes \in Nat
    BY StFields DEF Sound, State
  <2>. QED BY <2>1, <2>2, StFields DEF Sound, Sheltered
<1> HIDE DEF t
<1>3. ASSUME NEW q \in Runs
      PROVE  Book(t, q) /\ Kept(t, q) /\ Moved(st, t, q)
  <2>1. Book(st, q) /\ Kept(st, q)
    BY DEF Sound, Fine
  <2>2. \A status : LastIs(t, q, status) <=> LastIs(st, q, status)
    BY <1>1 DEF LastIs
  <2>3. ~t.running[q].stop
    BY <1>1 DEF NotRunning
  <2>4. Book(t, q)
    BY <1>1, <2>1, <2>2, <2>3 DEF Book, EarlierFailed, ExtOpen, CancellationAsked
  <2>5. Kept(t, q)
    BY <1>1, <2>1, <2>2 DEF Kept, FailureFinal, AttemptsLeft, AssignmentKept
  <2>. QED BY <1>1, <2>1, <2>4, <2>5, SameRowsMoved
<1>4. Forgotten(t)
  BY <1>1 DEF Forgotten
<1>5. Stepped(st, t)
  BY <1>3, MovedStepped
<1>. QED BY <1>1, <1>2, <1>3, <1>4, <1>5 DEF t

\* What the rows say depends on the rows alone.
LEMMA SameRowsKept ==
    ASSUME NEW s, NEW t, NEW r, Book(s, r), Kept(s, r),
           t.run[r] = s.run[r], t.att[r] = s.att[r], t.ext[r] = s.ext[r], t.asg[r] = s.asg[r],
           t.running[r] = s.running[r]
    PROVE  Book(t, r) /\ Kept(t, r)
<1>1. \A status : LastIs(t, r, status) <=> LastIs(s, r, status)
  BY DEF LastIs
<1>2. Book(t, r)
  BY <1>1 DEF Book, EarlierFailed, ExtOpen, CancellationAsked
<1>3. Kept(t, r)
  BY <1>1 DEF Kept, FailureFinal, AttemptsLeft, AssignmentKept
<1>. QED BY <1>2, <1>3

\* markLostRunsOnStartup() of a run that was starting or active.
LEMMA LoseRunKeeps ==
    ASSUME NEW s \in State, NEW r \in Runs, Book(s, r), Kept(s, r), ~Sheltered,
           s.run[r].status \in ProcessBacked, NEW t, t = LoseRun(s, r)
    PROVE  /\ t \in State /\ t.run[r].status = "finished"
           /\ Book(t, r) /\ Kept(t, r) /\ Moved(s, t, r)
           /\ t.asg[r] = s.asg[r] /\ t.running[r] = s.running[r]
           /\ t.run[r].outcome = "interrupted"
           /\ ExtOpen(s, r) =>
                 /\ t.ext[r].phase = "terminal" /\ t.ext[r].outcome = "failed"
                 /\ t.ext[r].cancellation_state # "none"
                       <=> s.ext[r].cancellation_state # "none"
<1> DEFINE k == Len(s.att[r])
           ended == IF HasOpenAttempt(s, r) THEN FinishAttempt(s, r, k, "lost", "none") ELSE s
           row == FinishRunInterrupted(ended.run[r], "lost")
           finished == [ended EXCEPT !.run[r] = row]
           cancellation == IF CancellationAsked(finished, r) THEN "lost" ELSE "keep"
<1>1. t = MarkFailedByRun(finished, r, cancellation)
  BY DEF LoseRun, MarkProcessLostByRun
<1>2. EarlierFailed(s, r) /\ s.att[r] \in Seq(AttemptRow)
  BY DEF Book, State
<1>3. /\ Wrote(s, ended, r, {"att"})
      /\ \/ ~HasOpenAttempt(s, r) /\ ended.att[r] = s.att[r]
         \/ HasOpenAttempt(s, r)
            /\ \E a : Replaced(s.att[r], ended.att[r], a)
  <2>1. CASE HasOpenAttempt(s, r)
    <3>1. IsOpen(s, r, k)
      BY <1>2, <2>1 DEF HasOpenAttempt, IsOpen
    <3>2. ended = FinishAttempt(s, r, k, "lost", "none")
      BY <2>1
    <3> HIDE DEF ended
    <3>3. /\ Wrote(s, ended, r, {"att"})
          /\ Replaced(s.att[r], ended.att[r], [status |-> "lost", retry_at |-> "none"])
      BY <1>2, <3>1, <3>2, FinishWrites DEF AttemptStatus
    <3>. QED BY <2>1, <3>3
  <2>2. CASE ~HasOpenAttempt(s, r)
    <3>1. ended = s
      BY <2>2
    <3>2. Wrote(s, s, r, {"att"})
      BY WroteNothing DEF Wrote
    <3>. QED BY <2>2, <3>1, <3>2
  <2>. QED BY <2>1, <2>2
<1> HIDE DEF ended
<1>4. row \in RunRow /\ row.status = "finished" /\ row.outcome = "interrupted"
  <2>1. ended.run[r] \in RunRow
    BY <1>3, WroteState
  <2>2. row \in RunRow /\ row.status = "finished"
    BY <2>1, RowTypes DEF ProcessStatus
  <2>3. row.outcome = "interrupted"
    BY <2>1, RowValues
  <2>. QED BY <2>2, <2>3
<1> HIDE DEF row
<1>5. LET u == [ended EXCEPT !.run[r] = row]
      IN  Wrote(ended, u, r, {"run"}) /\ u.run[r] = row
  BY <1>3, <1>4, WriteRun DEF Wrote
<1>6. Wrote(ended, finished, r, {"run"}) /\ finished.run[r] = row
  BY <1>5
<1> HIDE DEF finished
<1>7. WroteOpenExt(finished, t, r, FailedRow(finished, r, cancellation))
  <2>1. finished \in State /\ cancellation \in {"keep", "failed", "lost"}
    BY <1>6 DEF Wrote
  <2> HIDE DEF cancellation
  <2>. QED BY <1>1, <2>1, MarkFailedWrites
<1>8. /\ t.run[r].status = "finished" /\ t.run[r].outcome = "interrupted"
      /\ t.att[r] = ended.att[r]
      /\ t.asg[r] = s.asg[r] /\ t.running[r] = s.running[r] /\ t \in State
  BY <1>3, <1>4, <1>6, <1>7 DEF WroteOpenExt, Wrote
<1>9. \/ ~ExtOpen(s, r) /\ t.ext[r] = s.ext[r]
      \/ /\ ExtOpen(s, r) /\ t.ext[r].phase = "terminal" /\ t.ext[r].outcome = "failed"
         /\ t.ext[r].cancellation_state # "none" <=> s.ext[r].cancellation_state # "none"
  <2>1. finished.ext[r] = s.ext[r] /\ (ExtOpen(finished, r) <=> ExtOpen(s, r))
    BY <1>3, <1>6 DEF Wrote, ExtOpen
  <2>2. CASE ExtOpen(s, r)
    <3>1. t.ext[r] = FailedRow(finished, r, cancellation) /\ finished \in State
      BY <1>6, <1>7, <2>1, <2>2 DEF WroteOpenExt, Wrote
    <3>2. \/ cancellation = "keep"
          \/ cancellation = "lost" /\ s.ext[r].cancellation_state # "none"
      BY <2>1 DEF CancellationAsked
    <3> HIDE DEF cancellation
    <3>3. /\ t.ext[r].phase = "terminal" /\ t.ext[r].outcome = "failed"
          /\ cancellation = "keep" =>
                t.ext[r].cancellation_state = finished.ext[r].cancellation_state
          /\ cancellation # "keep" => t.ext[r].cancellation_state = cancellation
      BY <3>1, FailedFields
    <3>. QED BY <2>1, <2>2, <3>2, <3>3
  <2>3. CASE ~ExtOpen(s, r)
    BY <1>7, <2>1, <2>3 DEF WroteOpenExt
  <2>. QED BY <2>2, <2>3
<1>10. /\ Len(t.att[r]) = Len(s.att[r]) /\ DOMAIN t.att[r] = DOMAIN s.att[r]
       /\ EarlierFailed(t, r)
       /\ LastIs(s, r, "succeeded") => LastIs(t, r, "succeeded")
  <2>1. CASE ~HasOpenAttempt(s, r)
    BY <1>2, <1>3, <1>8, <2>1 DEF EarlierFailed, LastIs
  <2>2. CASE HasOpenAttempt(s, r)
    <3>1. PICK a : Replaced(s.att[r], t.att[r], a)
      BY <1>3, <1>8, <2>2
    <3>2. ~LastIs(s, r, "succeeded")
      BY <2>2 DEF LastIs, HasOpenAttempt, OpenAttempt
    <3>. QED BY <1>2, <3>1, <3>2 DEF Replaced, EarlierFailed
  <2>. QED BY <2>1, <2>2
<1>11. Book(t, r)
  BY <1>8, <1>9, <1>10 DEF Book, ExtOpen
<1>12. Kept(t, r)
  BY <1>8, <1>10 DEF Kept, FailureFinal, AttemptsLeft
<1>13. Moved(s, t, r)
  <2>1. ~LastIs(s, r, "lost")
    BY DEF Book, ProcessBacked
  <2>. QED BY <1>8, <1>9, <2>1 DEF Moved, ExtOpen
<1>. QED BY <1>8, <1>9, <1>11, <1>12, <1>13

\* Restart: markLostRunsOnStartup() and releaseOrphans().
LEMMA RestartKeeps ==
    ASSUME Guaranteed(st), Restart
    PROVE  Sound(st') /\ Stepped(st, st')
<1> DEFINE lost == {r \in Runs : run[r].status \in ProcessBacked}
           rows == [r \in Runs |-> IF r \in lost THEN LoseRun(st, r).run[r] ELSE st.run[r]]
           atts == [r \in Runs |-> IF r \in lost THEN LoseRun(st, r).att[r] ELSE st.att[r]]
           exts == [r \in Runs |-> IF r \in lost THEN LoseRun(st, r).ext[r] ELSE st.ext[r]]
           recovered == [st EXCEPT !.run = rows, !.att = atts, !.ext = exts,
                                   !.service = "booting"]
           t == ReleaseOrphans(recovered)
<1>1. /\ st \in State /\ st.run = run /\ Forgotten(st) /\ ~Sheltered
      /\ \A r \in Runs : Book(st, r) /\ Kept(st, r)
  BY StFields DEF Restart, Guaranteed, Good, GoodBut
<1>2. Commit(t)
  BY DEF Restart
<1>3. ASSUME NEW r \in lost
      PROVE  LET u == LoseRun(st, r)
             IN  /\ u \in State /\ u.run[r].status = "finished"
                 /\ Book(u, r) /\ Kept(u, r) /\ Moved(st, u, r)
                 /\ u.asg[r] = st.asg[r] /\ u.running[r] = st.running[r]
  <2> DEFINE u == LoseRun(st, r)
  <2>1. r \in Runs /\ st.run[r].status \in ProcessBacked /\ u = LoseRun(st, r)
    BY <1>1
  <2> HIDE DEF u
  <2>2. /\ u \in State /\ u.run[r].status = "finished"
        /\ Book(u, r) /\ Kept(u, r) /\ Moved(st, u, r)
        /\ u.asg[r] = st.asg[r] /\ u.running[r] = st.running[r]
    BY <1>1, <2>1, LoseRunKeeps
  <2>. QED BY <2>2 DEF u
<1>4. /\ rows \in [Runs -> RunRow] /\ atts \in [Runs -> Seq(AttemptRow)]
      /\ exts \in [Runs -> ExtRow]
  <2>1. \A r \in lost : /\ LoseRun(st, r).run[r] \in RunRow
                        /\ LoseRun(st, r).att[r] \in Seq(AttemptRow)
                        /\ LoseRun(st, r).ext[r] \in ExtRow
    BY <1>3 DEF State
  <2>. QED BY <1>1, <2>1 DEF State
<1>5. \A r \in Runs :
         /\ r \in lost => /\ rows[r] = LoseRun(st, r).run[r] /\ atts[r] = LoseRun(st, r).att[r]
                          /\ exts[r] = LoseRun(st, r).ext[r]
         /\ r \notin lost => /\ rows[r] = st.run[r] /\ atts[r] = st.att[r]
                             /\ exts[r] = st.ext[r] /\ st.run[r].status \notin ProcessBacked
  BY <1>1
<1> HIDE DEF rows, atts, exts
<1>6. /\ t \in State /\ t.run = rows /\ t.att = atts /\ t.ext = exts /\ t.asg = st.asg
      /\ t.slots = {r \in st.slots : rows[r].status \in ProcessBacked}
      /\ t.running = st.running /\ t.procs = {} /\ t.pending = {}
      /\ t.errors = {} /\ t.service = "booting"
  BY <1>1, <1>4 DEF State, ReleaseOrphans, Service, Forgotten
<1> HIDE DEF t, lost
<1>7. ASSUME NEW r \in Runs
      PROVE  /\ t.run[r].status \notin ProcessBacked
             /\ Book(t, r) /\ Kept(t, r) /\ Moved(st, t, r)
  <2>1. CASE r \in lost
    <3> DEFINE u == LoseRun(st, r)
    <3>1. /\ u \in State /\ u.run[r].status = "finished"
          /\ Book(u, r) /\ Kept(u, r) /\ Moved(st, u, r)
          /\ u.asg[r] = st.asg[r] /\ u.running[r] = st.running[r]
      BY <1>3, <2>1
    <3>2. /\ t.run[r] = u.run[r] /\ t.att[r] = u.att[r] /\ t.ext[r] = u.ext[r]
          /\ t.asg[r] = u.asg[r] /\ t.running[r] = u.running[r]
      BY <1>5, <1>6, <2>1, <3>1
    <3> HIDE DEF u
    <3>3. Book(t, r) /\ Kept(t, r)
      BY <3>1, <3>2, SameRowsKept
    <3>4. Moved(st, t, r)
      BY <3>1, <3>2 DEF Moved, Stays, LastIs
    <3>. QED BY <3>1, <3>2, <3>3, <3>4 DEF ProcessBacked
  <2>2. CASE r \notin lost
    <3>1. /\ t.run[r] = st.run[r] /\ t.att[r] = st.att[r] /\ t.ext[r] = st.ext[r]
          /\ t.asg[r] = st.asg[r] /\ t.running[r] = st.running[r]
          /\ st.run[r].status \notin ProcessBacked
      BY <1>5, <1>6, <2>2
    <3>2. Book(st, r) /\ Kept(st, r)
      BY <1>1
    <3>3. Book(t, r) /\ Kept(t, r)
      BY <3>1, <3>2, SameRowsKept
    <3>. QED BY <3>1, <3>2, <3>3, SameRowsMoved
  <2>. QED BY <2>1, <2>2
<1>8. t.slots = {}
  <2>1. st.slots \subseteq Runs
    BY <1>1 DEF State
  <2>. QED BY <1>6, <1>7, <2>1
<1>9. ASSUME NEW r \in Runs
      PROVE  Fine(t, r)
  <2>1. Dead(t, r) /\ t.running[r].attempt = 0
    BY <1>1, <1>6 DEF Dead, Forgotten, NotRunning
  <2>2. Known(t, r)
    BY <1>6, <2>1 DEF Known, Dead
  <2>3. Live(t, r)
    BY <1>6, <1>8 DEF Live
  <2>4. Calm(t, r)
    BY <1>6, <1>7, <1>8, <2>1 DEF Calm, Dead, ProcessBacked
  <2>. QED BY <1>1, <1>7, <2>2, <2>3, <2>4 DEF Fine
<1>10. Sound(t)
  BY <1>1, <1>6, <1>9 DEF Sound
<1>11. Stepped(st, t)
  BY <1>7, MovedStepped
<1>. QED BY <1>2, <1>10, <1>11, CommitKeeps DEF Keeps

-----------------------------------------------------------------------------
(* The invariant *)

\* It holds of an empty database.
LEMMA InitGuaranteed ==
    ASSUME Init
    PROVE  Guaranteed(st)
<1>1. Good(st) /\ st \in State
  BY InitGood DEF Good, GoodBut
<1>2. /\ st.slots = {} /\ st.procs = {} /\ st.pending = {} /\ st.errors = {} /\ st.service = "up"
      /\ \A r \in Runs : /\ st.run[r] = NoRow /\ st.att[r] = << >> /\ st.ext[r] = NoExt
                         /\ st.asg[r] = "none" /\ st.running[r] = NotRunning
  BY StFields DEF Init
<1>3. /\ NoRow.status = "none" /\ NoExt.phase = "none" /\ NoExt.outcome = "none"
      /\ NoExt.exited_clean = FALSE /\ NotRunning.attempt = 0 /\ NotRunning.stop = FALSE
  BY DEF NoRow, NoExt, NotRunning
<1>4. ASSUME NEW r \in Runs
      PROVE  Fine(st, r)
  <2> DEFINE s == st
  <2>1. /\ s.run[r].status = "none" /\ s.att[r] = << >> /\ s.ext[r] = NoExt /\ s.asg[r] = "none"
        /\ s.ext[r].phase = "none" /\ s.ext[r].outcome = "none" /\ s.ext[r].exited_clean = FALSE
        /\ s.running[r].attempt = 0 /\ s.running[r].stop = FALSE
        /\ s.slots = {} /\ s.procs = {} /\ s.pending = {} /\ s.errors = {}
    BY <1>2, <1>3
  <2> HIDE DEF s
  <2>2. /\ \A status : ~LastIs(s, r, status)
        /\ EarlierFailed(s, r) /\ ~HasOpenAttempt(s, r) /\ Dead(s, r) /\ ~ExtOpen(s, r)
    BY <2>1 DEF LastIs, EarlierFailed, HasOpenAttempt, Dead, ExtOpen
  <2>3. Known(s, r)
    BY <2>1, <2>2 DEF Known
  <2>4. Book(s, r)
    BY <2>1, <2>2 DEF Book
  <2>5. AttemptsLeft(s, r)
    BY <2>1, PolicyAssumption DEF AttemptsLeft
  <2>6. Kept(s, r)
    BY <2>1, <2>2, <2>5 DEF Kept, FailureFinal, AssignmentKept
  <2>7. Live(s, r) /\ Calm(s, r) /\ OpenLives(s, r)
    BY <2>1, <2>2 DEF Live, Calm, OpenLives
  <2>. QED BY <2>3, <2>4, <2>6, <2>7 DEF Fine, s
<1>. QED BY <1>1, <1>2, <1>4 DEF Guaranteed, Sound

\* A dead service only comes back or lets time pass.
LEMMA DownSteps ==
    ASSUME Next, st.service = "down"
    PROVE  Restart \/ \E r \in Runs : BackoffElapses(r)
<1>1. ~Alive /\ ~Quiet /\ service = "down"
  BY StFields DEF Alive, Quiet
<1>2. ASSUME NEW r \in Runs, RunStep(r)
      PROVE  BackoffElapses(r)
  BY <1>1, <1>2
     DEF RunStep, SpawnError, ProcessExit, RetryWake, AttemptTimeout, KillTimer, ExpireCompletion
<1>3. ASSUME NEW r \in Runs, Request(r)
      PROVE  FALSE
  BY <1>1, <1>3
     DEF Request, CreateOperatorRun, ReserveExternalRun, StartRequest, CancelRequest,
         CancelExternalExecution, ActivatePlan, StopRequest, CloseRequest, ReviewRequest,
         CompleteExternalExecution
<1>4. ServiceStep => Restart
  BY <1>1 DEF ServiceStep, Continue, ResumeMon, ResumeQueuedRuns, Crash
<1>. QED BY <1>2, <1>3, <1>4 DEF Next

\* What a step of a service that runs leads to.
LedTo(s, t) ==
    /\ Stepped(s, t)
    /\ \/ Sound(t)
       \/ /\ t.service = "down" /\ Forgotten(t) /\ ~Sheltered
          /\ \A q \in Runs : Book(t, q) /\ Kept(t, q)

\* Every step of it leads there: one lemma for each action.
LEMMA UpSteps ==
    ASSUME Guaranteed(st), Next, st.service # "down"
    PROVE  LedTo(st, st')
<1>1. Good(st) /\ Sound(st)
  BY DEF Guaranteed
<1>2. \A launch : LaunchAllowed(launch) => launch \in Launches
  BY DEF LaunchAllowed
<1>3. CASE ServiceStep
  <2>1. CASE \E p \in pending, sign \in Signs, launch \in Launches :
                LaunchAllowed(launch) /\ Continue(p, sign, launch)
    BY <1>1, <2>1, ContinueKeeps DEF LedTo
  <2>2. CASE \E m \in Mons, launch \in Launches : LaunchAllowed(launch) /\ ResumeMon(m, launch)
    BY <1>1, <2>2, ResumeMonKeeps DEF LedTo
  <2>3. CASE ResumeQueuedRuns
    BY <1>1, <2>3, ResumeQueuedRunsKeeps DEF LedTo
  <2>4. CASE Crash
    BY <1>1, <2>4, CrashKeeps DEF LedTo
  <2>5. CASE Restart
    BY <2>5, RestartKeeps DEF LedTo
  <2>. QED BY <1>3, <2>1, <2>2, <2>3, <2>4, <2>5 DEF ServiceStep
<1>4. ASSUME NEW r \in Runs, RunStep(r)
      PROVE  LedTo(st, st')
  <2>1. CASE \E k \in DOMAIN att[r], sign \in Signs, launch \in Launches :
                LaunchAllowed(launch) /\ SpawnError(r, k, sign, launch)
    BY <1>1, <2>1, SpawnErrorKeeps DEF LedTo
  <2>2. CASE \E k \in DOMAIN att[r], sign \in Signs, launch \in Launches, exit \in Exit :
                LaunchAllowed(launch) /\ ProcessExit(r, k, exit, sign, launch)
    BY <1>1, <2>2, ProcessExitKeeps DEF LedTo
  <2>3. CASE \E launch \in Launches : LaunchAllowed(launch) /\ RetryWake(r, launch)
    BY <1>1, <2>3, RetryWakeKeeps DEF LedTo
  <2>4. CASE AttemptTimeout(r) \/ KillTimer(r)
    BY <1>1, <2>4, TimerKeeps DEF LedTo
  <2>5. CASE BackoffElapses(r)
    BY <1>1, <2>5, BackoffKeeps DEF LedTo
  <2>6. CASE ExpireCompletion(r)
    BY <1>1, <2>6, ExpireCompletionKeeps DEF LedTo
  <2>. QED BY <1>4, <2>1, <2>2, <2>3, <2>4, <2>5, <2>6 DEF RunStep
<1>5. ASSUME NEW r \in Runs, Request(r)
      PROVE  LedTo(st, st')
  <2>1. ASSUME NEW launch \in Launches,
               \/ CreateOperatorRun(r, launch)
               \/ ReserveExternalRun(r, launch)
               \/ StartRequest(r, launch)
               \/ CancelRequest(r, launch)
               \/ CancelExternalExecution(r, launch)
        PROVE  LedTo(st, st')
    BY <1>1, <2>1, CreateOperatorRunKeeps, ReserveExternalRunKeeps, StartRequestKeeps,
       CancelRequestKeeps, CancelExternalKeeps DEF LedTo
  <2>2. CASE ActivatePlan(r)
    BY <1>1, <2>2, ActivatePlanKeeps DEF LedTo
  <2>3. CASE StopRequest(r)
    BY <1>1, <2>3, StopRequestKeeps DEF LedTo
  <2>4. ASSUME NEW outcome \in {"completed", "failed", "stopped"},
               CloseRequest(r, outcome) \/ ReviewRequest(r, outcome)
        PROVE  LedTo(st, st')
    BY <1>1, <2>4, CloseRequestKeeps, ReviewRequestKeeps DEF LedTo
  <2>5. ASSUME NEW digest \in Digests, CompleteExternalExecution(r, digest)
        PROVE  LedTo(st, st')
    BY <1>1, <2>5, CompleteExternalKeeps DEF LedTo
  <2>. QED BY <1>5, <2>1, <2>2, <2>3, <2>4, <2>5 DEF Request
<1>. QED BY <1>3, <1>4, <1>5 DEF Next

\* Every step keeps the invariant, and is one the action properties allow.
LEMMA NextGuaranteed ==
    ASSUME Guaranteed(st), Next
    PROVE  Guaranteed(st') /\ Stepped(st, st')
<1>1. Good(st')
  BY NextGood DEF Guaranteed
<1>2. CASE st.service # "down"
  BY <1>1, <1>2, UpSteps DEF LedTo, Guaranteed, Sound
<1>3. CASE st.service = "down"
  <2>1. CASE Restart
    BY <1>1, <2>1, RestartKeeps DEF Guaranteed, Sound
  <2>2. ASSUME NEW r \in Runs, BackoffElapses(r)
        PROVE  Guaranteed(st') /\ Stepped(st, st')
    BY <1>1, <1>3, <2>2, BackoffKeeps DEF Guaranteed
  <2>. QED BY <1>3, <2>1, <2>2, DownSteps
<1>. QED BY <1>2, <1>3

GInv == Guaranteed(st)

\* A step as the action properties see it.
GStep == Stepped(st, st')

\* A step that changes nothing is one of them.
LEMMA StutterStepped ==
    ASSUME Guaranteed(st), UNCHANGED vars
    PROVE  Guaranteed(st') /\ Stepped(st, st')
<1>1. st' = st
  BY DEF vars, db, st
<1>2. \A r \in Runs : Book(st, r)
  BY DEF Guaranteed, Sound, Fine
<1>3. \A r \in Runs : Moved(st, st, r)
  BY <1>2, SameRowsMoved
<1>4. Stepped(st, st)
  BY <1>3, MovedStepped
<1>. QED BY <1>1, <1>4

\* Every reachable state of the run manager is as the invariant says: for every number of
\* runs and Mons and every limit, with every request, launch, exit and crash.
THEOREM EveryStateIsGuaranteed == Spec => []GInv
<1>1. Init => GInv
  BY InitGuaranteed DEF GInv
<1>2. GInv /\ [Next]_vars => GInv'
  BY NextGuaranteed, StutterStepped DEF GInv
<1>. QED BY <1>1, <1>2, PTL DEF Spec

\* And every step is as it says.
LEMMA StepIsGuaranteed ==
    ASSUME GInv, [Next]_vars
    PROVE  GInv' /\ GStep
BY NextGuaranteed, StutterStepped DEF GInv, GStep

-----------------------------------------------------------------------------
(* What that means: states *)

\* Between two handlers nothing is under way.
LEMMA QuietHasNoEvents ==
    ASSUME Quiet
    PROVE  st.pending = {} /\ st.errors = {} /\ st.service # "down"
BY StFields DEF Quiet

\* process-slots.ts reserve and release: between two handlers a slot without a live process
\* is that of a run the manager counts as running, in every reachable state and with every
\* launch and crash.  No failure before the spawn, no stop and no restart leaks one.
THEOREM NoSlotLeaks == Spec => []SlotIsAccountedFor
<1>1. ASSUME GInv, Quiet, NEW r \in slots
      PROVE  running[r].attempt # 0 \/ \E p \in procs : p[1] = r
  <2>1. Sound(st) /\ st.pending = {} /\ st.errors = {} /\ r \in Runs
    <3>1. st.slots \subseteq Runs
      BY <1>1 DEF GInv, Guaranteed, Good, GoodBut, State
    <3>. QED BY <1>1, <3>1, QuietHasNoEvents, StFields DEF GInv, Guaranteed
  <2>2. Live(st, r) /\ r \in st.slots
    BY <1>1, <2>1, StFields DEF Sound, Fine
  <2>3. st.running[r].attempt # 0 \/ ~Dead(st, r)
    BY <2>1, <2>2 DEF Live
  <2>. QED BY <2>3, StFields DEF Dead
<1>2. GInv => SlotIsAccountedFor
  BY <1>1 DEF SlotIsAccountedFor
<1>. QED BY <1>2, EveryStateIsGuaranteed, PTL

\* run-manager.ts finishTerminalRun() and the external store: a success rests on a clean exit
\* of the last attempt and, where the policy asks for it, on a recorded receipt; in every
\* reachable state, whatever was launched, replayed, cancelled or lost in a crash.
THEOREM SuccessRestsOnEvidence == Spec => []SucceededHasEvidence
<1>1. ASSUME GInv, NEW r \in External, ext[r].outcome = "succeeded"
      PROVE  /\ ext[r].phase = "terminal"
             /\ att[r] # << >> /\ att[r][Len(att[r])].status = "succeeded"
             /\ r \in ReceiptRuns => ext[r].completion_digest # "none"
  <2>1. r \in Runs
    BY KindAssumption
  <2>2. Book(st, r)
    BY <1>1, <2>1 DEF GInv, Guaranteed, Sound, Fine
  <2>. QED BY <1>1, <2>2, StFields DEF Book, LastIs
<1>2. GInv => SucceededHasEvidence
  BY <1>1 DEF SucceededHasEvidence
<1>. QED BY <1>2, EveryStateIsGuaranteed, PTL

\* Without late events the manager can signal every live process: it is the open attempt of
\* its run, holds a slot, and is in the running map or about to be put there.
THEOREM ProcessesAreTracked ==
    ASSUME NoEvent
    PROVE  Spec => []ProcessIsTracked
<1>1. ASSUME GInv, NEW p \in procs
      PROVE  /\ IsOpen(st, p[1], p[2])
             /\ p[1] \in slots
             /\ \/ running[p[1]].attempt = p[2]
                \/ \E w \in pending : w.run = p[1] /\ w.attempt = p[2] /\ ~w.rejected
  <2>1. Good(st) /\ p \in st.procs
    BY <1>1, StFields DEF GInv, Guaranteed
  <2>2. p = <<p[1], p[2]>> /\ p[1] \in Runs
    BY <2>1, OpenProcess
  <2>3. st.service # "down"
    BY <2>1 DEF Good, GoodBut
  <2>4. Calm(st, p[1])
    BY <1>1, <2>2, <2>3 DEF GInv, Guaranteed, Sound, Fine
  <2>5. \/ st.running[p[1]].attempt = p[2]
        \/ \E w \in st.pending : w.run = p[1] /\ w.attempt = p[2] /\ ~w.rejected
    BY <2>1, <2>2, <2>4 DEF Calm
  <2>. QED BY <2>1, <2>5, StFields DEF Good, GoodBut, ProcessOwned
<1>2. GInv => ProcessIsTracked
  BY <1>1 DEF ProcessIsTracked
<1>. QED BY <1>2, EveryStateIsGuaranteed, PTL

\* Without late events the slots are, between two handlers, the runs with a live process.
LEMMA SlotsMatch ==
    ASSUME NoEvent, GInv
    PROVE  SlotsMatchProcesses
<1> SUFFICES ASSUME Quiet
             PROVE  slots = {p[1] : p \in procs}
  BY DEF SlotsMatchProcesses
<1>1. Sound(st) /\ st.pending = {} /\ Good(st)
  BY QuietHasNoEvents DEF GInv, Guaranteed
<1>2. ASSUME NEW r \in st.slots
      PROVE  \E p \in st.procs : p[1] = r
  <2>1. r \in Runs
    BY <1>1 DEF Good, GoodBut, State
  <2>2. Calm(st, r)
    BY <1>1, <2>1 DEF Sound, Fine
  <2>. QED BY <1>1, <1>2, <2>2 DEF Calm, Dead
<1>3. \A p \in st.procs : p[1] \in st.slots
  BY <1>1 DEF Good, GoodBut, ProcessOwned
<1>. QED BY <1>2, <1>3, StFields

\* So a run shown as active has a process that can still end.
LEMMA ActiveHasProcess ==
    ASSUME NoEvent, GInv
    PROVE  ActiveRunHasProcess
<1> SUFFICES ASSUME Quiet, NEW r \in Runs, run[r].status = "active"
             PROVE  ~Alone(r)
  BY DEF ActiveRunHasProcess
<1>1. Sound(st) /\ st.run[r].status = "active"
  BY QuietHasNoEvents, StFields DEF GInv, Guaranteed
<1>2. Calm(st, r)
  BY <1>1 DEF Sound, Fine
<1>3. <<r, st.running[r].attempt>> \in st.procs
  BY <1>1, <1>2 DEF Calm
<1>. QED BY <1>3, StFields DEF Alone, ProcessesOf

\* process-slots.ts: between two handlers the slot rows are exactly the runs with a live
\* process, across stop, close, retry, failure, crash and restart.
THEOREM SlotsAreProcesses ==
    ASSUME NoEvent
    PROVE  Spec => []SlotsMatchProcesses
<1>1. GInv => SlotsMatchProcesses
  BY SlotsMatch
<1>. QED BY <1>1, EveryStateIsGuaranteed, PTL

\* And a run the console shows as active has a process.
THEOREM ActiveRunsRun ==
    ASSUME NoEvent
    PROVE  Spec => []ActiveRunHasProcess
<1>1. GInv => ActiveRunHasProcess
  BY ActiveHasProcess
<1>. QED BY <1>1, EveryStateIsGuaranteed, PTL

\* runtime.md:271: a failure that is not retried ends the run.  It needs launches that fail
\* neither late nor while their MCP servers are prepared: those leave a run in the queue.
THEOREM FailuresAreSettled ==
    ASSUME NoEvent, NoMcp
    PROVE  Spec => []FailureIsRetriedOrFinal
<1>1. ASSUME GInv, Quiet, NEW r \in Runs,
             att[r] # << >>, att[r][Len(att[r])].status = "failed",
             att[r][Len(att[r])].retry_at = "none"
      PROVE  run[r].status = "finished"
  <2>1. FailureFinal(st, r)
    BY <1>1, QuietHasNoEvents DEF GInv, Guaranteed, Sound, Fine, Kept
  <2>. QED BY <1>1, <2>1, StFields DEF FailureFinal, LastIs
<1>2. GInv => FailureIsRetriedOrFinal
  BY <1>1 DEF FailureIsRetriedOrFinal
<1>. QED BY <1>2, EveryStateIsGuaranteed, PTL

\* Where launches start a process or are rejected and nothing crashes, the invariant is that
\* of a service that runs.
LEMMA ShelteredSound ==
    ASSUME Sheltered, GInv
    PROVE  Sound(st) /\ NoEvent /\ NoMcp
BY DEF Sheltered, GInv, Guaranteed, NoEvent, NoMcp

\* The attempts of a run and its processes.
LEMMA AttemptsMatch ==
    ASSUME Sheltered, GInv
    PROVE  AttemptsMatchProcesses
<1>1. ASSUME NEW r \in Runs
      PROVE  /\ Len(att[r]) <= MaxAttempts
             /\ \A k \in 1 .. (Len(att[r]) - 1) : att[r][k].status \in {"failed", "lost"}
             /\ Quiet => (HasOpenAttempt(st, r) <=> ~Alone(r))
  <2>1. Fine(st, r) /\ Sound(st) /\ NoMcp /\ st \in State
    BY ShelteredSound DEF Sound
  <2>2. Book(st, r) /\ Known(st, r) /\ AttemptsLeft(st, r) /\ OpenLives(st, r)
    BY <2>1 DEF Fine, Kept
  <2>3. Len(att[r]) <= MaxAttempts
    BY <2>2, StFields DEF AttemptsLeft
  <2>4. ASSUME NEW k \in 1 .. (Len(att[r]) - 1)
        PROVE  att[r][k].status \in {"failed", "lost"}
    <3>1. att[r] \in Seq(AttemptRow)
      BY <2>1, StFields DEF State
    <3>2. k \in DOMAIN att[r] /\ k < Len(att[r])
      BY <2>4, <3>1
    <3>. QED BY <2>2, <3>2, StFields DEF Book, EarlierFailed
  <2>5. ASSUME Quiet
        PROVE  HasOpenAttempt(st, r) <=> ~Alone(r)
    <3>1. HasOpenAttempt(st, r) => ~Alone(r)
      BY <2>2, <2>5, QuietHasNoEvents, StFields DEF OpenLives, Dead, Alone, ProcessesOf
    <3>2. ASSUME ~Alone(r)
          PROVE  HasOpenAttempt(st, r)
      <4>1. PICK p \in st.procs : p[1] = r
        BY <3>2, StFields DEF Alone, ProcessesOf
      <4>2. p = <<r, p[2]>>
        BY <4>1, OpenProcess DEF GInv, Guaranteed
      <4>3. IsOpen(st, r, p[2])
        BY <2>2, <4>1, <4>2 DEF Known
      <4>. QED BY <2>1, <2>2, <4>3, OpenLast DEF Book
    <3>. QED BY <3>1, <3>2
  <2>. QED BY <2>3, <2>4, <2>5
<1>. QED BY <1>1 DEF AttemptsMatchProcesses

\* run-manager.ts: processes, slots, attempts and statuses agree in every reachable state of a
\* service whose launches start a process or are rejected and that does not crash.  (After a
\* crash the attempt of a run that was closed while its process lived stays open for ever:
\* markLostRunsOnStartup() only looks at runs that count as running.)
THEOREM ProcessesAreInOrder ==
    ASSUME Sheltered
    PROVE  Spec => []ProcessInv
<1>1. NoEvent
  BY DEF Sheltered, NoEvent
<1>2. GInv => SlotsMatchProcesses /\ ActiveRunHasProcess /\ AttemptsMatchProcesses
  BY <1>1, SlotsMatch, ActiveHasProcess, AttemptsMatch
<1>3. Spec => []ProcessIsTracked
  BY <1>1, ProcessesAreTracked
<1>4. (/\ TypeOK /\ LiveProcessesWithinLimit /\ OneProcessPerRun /\ ProcessIsTracked
       /\ SlotsMatchProcesses /\ ActiveRunHasProcess /\ AttemptsMatchProcesses) => ProcessInv
  BY DEF ProcessInv
<1>. QED BY <1>2, <1>3, <1>4, EveryStateIsGuaranteed, TypeCorrect, LimitHolds,
            OneProcessHolds, PTL

\* plans.md:55: the status of an assignment is the one its run stands for, through stop, close,
\* review, cancel and retry.
THEOREM AssignmentsFollowRuns ==
    ASSUME Sheltered
    PROVE  Spec => []AssignmentFollowsRun
<1>1. ASSUME GInv, NEW r \in Runs, asg[r] # "none"
      PROVE  asg[r] = CASE run[r].status = "queued"        -> "queued"
                        [] run[r].status \in ProcessBacked -> "active"
                        [] OTHER                           -> AssignmentStatusFor(run[r])
  <2>1. Fine(st, r) /\ st \in State
    BY <1>1, ShelteredSound DEF Sound
  <2>2. AssignmentKept(st, r)
    BY <2>1 DEF Fine, Kept
  <2>3. /\ run[r].status \in {"queued", "starting", "active", "finished"}
        /\ run[r].status = "queued" => asg[r] = "queued"
        /\ run[r].status \in ProcessBacked => asg[r] = "active"
        /\ run[r].status = "finished" => asg[r] = AssignmentStatusFor(run[r])
    BY <1>1, <2>1, <2>2, StFields DEF AssignmentKept, State, RunRow, RunStatus
  <2>4. CASE run[r].status = "queued"
    <3>1. run[r].status \notin ProcessBacked
      BY <2>4 DEF ProcessBacked
    <3>. QED BY <2>3, <2>4, <3>1, Zenon
  <2>5. CASE run[r].status \in ProcessBacked
    <3>1. run[r].status # "queued"
      BY <2>5 DEF ProcessBacked
    <3>. QED BY <2>3, <2>5, <3>1, Zenon
  <2>6. CASE run[r].status = "finished"
    <3>1. run[r].status # "queued" /\ run[r].status \notin ProcessBacked
      BY <2>6 DEF ProcessBacked
    <3>. QED BY <2>3, <2>6, <3>1, Zenon
  <2>7. run[r].status = "queued" \/ run[r].status \in ProcessBacked \/ run[r].status = "finished"
    BY <2>3 DEF ProcessBacked
  <2>. QED BY <2>4, <2>5, <2>6, <2>7
<1>2. GInv => AssignmentFollowsRun
  BY <1>1 DEF AssignmentFollowsRun
<1>. QED BY <1>2, EveryStateIsGuaranteed, PTL

-----------------------------------------------------------------------------
(* What that means: steps *)

LostStep ==
    \A r \in Runs :
        att[r] # << >> /\ att[r][Len(att[r])].status = "lost" =>
            /\ run[r].status = "finished" /\ run'[r].status = "finished"
            /\ Len(att'[r]) = Len(att[r])
            /\ \A p \in procs' : p[1] # r

\* The variables after a step.
LEMMA StPrimed ==
    /\ st'.run = run' /\ st'.att = att' /\ st'.ext = ext' /\ st'.procs = procs'
BY DEF st

\* runtime.md:181: a run whose process was lost in a crash is finished, stays so, gets no
\* further attempt and no process; whatever is requested and launched afterwards.
THEOREM LostStaysLost == Spec => LostIsFinal
<1>1. ASSUME GInv, [Next]_vars, NEW r \in Runs,
             att[r] # << >>, att[r][Len(att[r])].status = "lost"
      PROVE  /\ run[r].status = "finished" /\ run'[r].status = "finished"
             /\ Len(att'[r]) = Len(att[r])
             /\ \A p \in procs' : p[1] # r
  <2>1. Guaranteed(st) /\ Guaranteed(st') /\ Stepped(st, st')
    BY <1>1, StepIsGuaranteed DEF GInv, GStep
  <2>2. LastIs(st, r, "lost")
    BY <1>1, StFields DEF LastIs
  <2>3. Stays(st, st', r)
    BY <2>1, <2>2 DEF Stepped
  <2>4. Book(st, r)
    BY <2>1 DEF Guaranteed, Sound, Fine
  <2>5. run[r].status = "finished"
    BY <2>2, <2>4, StFields DEF Book
  <2>6. ASSUME NEW p \in st'.procs, p[1] = r
        PROVE  FALSE
    <3>1. p[2] = Len(st'.att[r])
      BY <2>1, <2>6, OpenProcess DEF Guaranteed
    <3>2. IsOpen(st', r, p[2])
      BY <2>1, <2>6 DEF Guaranteed, Good, GoodBut, ProcessOwned
    <3>. QED BY <2>3, <3>1, <3>2 DEF Stays, LastIs, IsOpen, OpenAttempt
  <2>. QED BY <2>3, <2>5, <2>6, StPrimed, StFields DEF Stays
<1>2. GInv /\ [Next]_vars => [LostStep]_vars
  BY <1>1 DEF LostStep
<1>3. Spec => [][LostStep]_vars
  BY <1>2, EveryStateIsGuaranteed, PTL DEF Spec
<1>. QED BY <1>3 DEF LostIsFinal, LostStep

OvertakingStep ==
    \A q, r \in Runs :
        /\ MonOf[q] = MonOf[r] /\ q < r
        /\ run[r].status # "starting" /\ run'[r].status = "starting"
        => ~(Runnable(st, q) /\ Runnable(st', q))

\* runtime.md:239: a start never overtakes an older run of the Mon that is due, whatever
\* request, exit, timer or restart made the dispatcher run.
THEOREM NothingOvertakes == Spec => NoOvertaking
<1>1. ASSUME GInv, [Next]_vars, NEW q \in Runs, NEW r \in Runs, MonOf[q] = MonOf[r], q < r,
             run[r].status # "starting", run'[r].status = "starting"
      PROVE  ~(Runnable(st, q) /\ Runnable(st', q))
  <2>1. Stepped(st, st')
    BY <1>1, StepIsGuaranteed DEF GStep
  <2>2. ~Runnable(st', q)
    BY <1>1, <2>1, StPrimed, StFields DEF Stepped
  <2>. QED BY <2>2
<1>2. GInv /\ [Next]_vars => [OvertakingStep]_vars
  BY <1>1 DEF OvertakingStep
<1>3. Spec => [][OvertakingStep]_vars
  BY <1>2, EveryStateIsGuaranteed, PTL DEF Spec
<1>. QED BY <1>3 DEF NoOvertaking, OvertakingStep

VerdictStep == \A r \in External : ext[r].phase = "terminal" => ext'[r] = ext[r]

\* The external store: a terminal execution is never written again; replays of completions and
\* cancellations, late exits, expiries and restarts included.
THEOREM VerdictsAreFinal == Spec => VerdictIsFinal
<1>1. ASSUME GInv, [Next]_vars, NEW r \in External, ext[r].phase = "terminal"
      PROVE  ext'[r] = ext[r]
  <2>1. Stepped(st, st') /\ r \in Runs
    BY <1>1, StepIsGuaranteed, KindAssumption DEF GStep
  <2>. QED BY <1>1, <2>1, StPrimed, StFields DEF Stepped
<1>2. GInv /\ [Next]_vars => [VerdictStep]_vars
  BY <1>1 DEF VerdictStep
<1>3. Spec => [][VerdictStep]_vars
  BY <1>2, EveryStateIsGuaranteed, PTL DEF Spec
<1>. QED BY <1>3 DEF VerdictIsFinal, VerdictStep

FinishedStep == \A r \in Runs : run[r].status = "finished" => run'[r].status = "finished"

\* run-state.ts:79: without late events no step takes a run out of finished.
THEOREM FinishedStaysFinished ==
    ASSUME NoEvent
    PROVE  Spec => FinishedIsFinal
<1>1. ASSUME GInv, [Next]_vars, NEW r \in Runs, run[r].status = "finished"
      PROVE  run'[r].status = "finished"
  <2>1. Stepped(st, st')
    BY <1>1, StepIsGuaranteed DEF GStep
  <2>. QED BY <1>1, <2>1, StPrimed, StFields DEF Stepped
<1>2. GInv /\ [Next]_vars => [FinishedStep]_vars
  BY <1>1 DEF FinishedStep
<1>3. Spec => [][FinishedStep]_vars
  BY <1>2, EveryStateIsGuaranteed, PTL DEF Spec
<1>. QED BY <1>3 DEF FinishedIsFinal, FinishedStep

LifecycleStep ==
    \A r \in Runs :
        /\ run[r].status = "finished" => run'[r].status = "finished"
        /\ run'[r].status = "active" => run[r].status \in ProcessBacked
        /\ run[r].status = "active" /\ run'[r].status \in {"queued", "starting"} =>
              /\ att'[r][Len(att[r])].status = "failed"
              /\ att'[r][Len(att[r])].retry_at # "none"
              /\ \A p \in procs' : p[1] = r => p \notin procs

\* run-state.ts as its callers keep it: without late events a run becomes active only from
\* starting, and goes back to the queue, or straight to its next attempt, only by a retry: the
\* attempt that was open has failed with a retry time and its process is gone.
THEOREM LifecycleHolds ==
    ASSUME NoEvent
    PROVE  Spec => LifecycleIsRespected
<1>1. ASSUME GInv, [Next]_vars, NEW r \in Runs
      PROVE  /\ run[r].status = "finished" => run'[r].status = "finished"
             /\ run'[r].status = "active" => run[r].status \in ProcessBacked
             /\ run[r].status = "active" /\ run'[r].status \in {"queued", "starting"} =>
                   /\ att'[r][Len(att[r])].status = "failed"
                   /\ att'[r][Len(att[r])].retry_at # "none"
                   /\ \A p \in procs' : p[1] = r => p \notin procs
  <2>1. Guaranteed(st) /\ Guaranteed(st') /\ Stepped(st, st')
    BY <1>1, StepIsGuaranteed DEF GInv, GStep
  <2>2. /\ st.run[r].status = "finished" => st'.run[r].status = "finished"
        /\ st'.run[r].status = "active" => st.run[r].status \in ProcessBacked
    BY <2>1 DEF Stepped
  <2>3. ASSUME st.run[r].status = "active", st'.run[r].status \in {"queued", "starting"}
        PROVE  /\ st'.att[r][Len(st.att[r])].status = "failed"
               /\ st'.att[r][Len(st.att[r])].retry_at # "none"
               /\ \A p \in st'.procs : p[1] = r => p \notin st.procs
    <3>1. /\ st'.att[r][Len(st.att[r])].status = "failed"
          /\ st'.att[r][Len(st.att[r])].retry_at # "none"
      BY <2>1, <2>3 DEF Stepped
    <3>2. ASSUME NEW p \in st'.procs, p[1] = r, p \in st.procs
          PROVE  FALSE
      <4>1. p[2] = Len(st.att[r])
        BY <2>1, <3>2, OpenProcess DEF Guaranteed
      <4>2. IsOpen(st', r, p[2])
        BY <2>1, <3>2 DEF Guaranteed, Good, GoodBut, ProcessOwned
      <4>. QED BY <3>1, <4>1, <4>2 DEF IsOpen, OpenAttempt
    <3>. QED BY <3>1, <3>2
  <2>. QED BY <2>2, <2>3, StPrimed, StFields
<1>2. GInv /\ [Next]_vars => [LifecycleStep]_vars
  BY <1>1 DEF LifecycleStep
<1>3. Spec => [][LifecycleStep]_vars
  BY <1>2, EveryStateIsGuaranteed, PTL DEF Spec
<1>. QED BY <1>3 DEF LifecycleIsRespected, LifecycleStep
=============================================================================
