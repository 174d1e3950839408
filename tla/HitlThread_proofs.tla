-------------------------- MODULE HitlThread_proofs --------------------------
(***************************************************************************)
(* Theorems about conversations, for every value of the constants.  The    *)
(* invariant, Good, is stated on state records.  It says of each thread    *)
(* what GoodAt says, and that a Mon has one conversation; a step of one    *)
(* thread leaves the others alone (ThreadStep).  A second invariant, Fits  *)
(* and Answered, is about the limit of slots and about replies.            *)
(***************************************************************************)
EXTENDS HitlThread, TLAPS, FiniteSetTheorems, WellFoundedInduction

State == [run : [Runs -> ThreadRow], slots : SUBSET Runs, chat : [Threads -> Chat],
          turn : [Threads -> Turn], procs : SUBSET Proc,
          reply : [Threads -> {"none", "awaited", "mon", "error"}],
          silent : [Threads -> 0..Idle]]

\* The processes of thread t.
ProcsOf(s, t) == {p \in s.procs : p.thread = t}

GoodAt(s, t) ==
    /\ \A p, q \in ProcsOf(s, t) : p.n = q.n => p = q
    /\ \A p \in ProcsOf(s, t) : p.n \in 1 .. s.chat[t].turns
    /\ \A p \in ProcsOf(s, t) : p.signal = "none" => s.turn[t].n = p.n
    /\ s.turn[t].n # 0 => s.chat[t].token \in {0, s.turn[t].n}
    /\ s.turn[t].n # 0 /\ s.run[t].status = "active" => t \in s.slots
    /\ s.run[t].status \in {"none", "active", "finished"}
    /\ s.run[t].status = "none" => s.turn[t].n = 0
    /\ s.run[t].status = "active" => s.run[t].runtime_state \in OpenRuntimeState

OneConversation(s) ==
    \A t, u \in Threads : s.run[t].status = "active" /\ s.run[u].status = "active"
                            /\ MonOf[t] = MonOf[u] => t = u

Good(s) ==
    /\ s \in State
    /\ \A t \in Threads : GoodAt(s, t)
    /\ OneConversation(s)

\* x differs from s at most in thread t, in rows and slots of one-shot runs and in history.
OnlyThread(s, x, t) ==
    /\ \A u \in Threads \ {t} :
          /\ x.run[u] = s.run[u] /\ x.chat[u] = s.chat[u] /\ x.turn[u] = s.turn[u]
          /\ u \in x.slots <=> u \in s.slots
          /\ ProcsOf(x, u) = ProcsOf(s, u)

-----------------------------------------------------------------------------
\* The lifecycle patches keep rows well-formed.
LEMMA RowTypes ==
    ASSUME NEW row \in ThreadRow
    PROVE  /\ MarkRunActive(row) \in ThreadRow
           /\ FinishRunStopped(row) \in ThreadRow
           /\ FinishRunInterrupted(row, "lost") \in ThreadRow
           /\ FinishRunFromExit(row, "clean") \in ThreadRow
           /\ FinishRunFromExit(row, "nonzero") \in ThreadRow
           /\ QueuedRow \in ThreadRow
           /\ NoRow \in ThreadRow
<1> USE DEF ThreadRow, RunStatus, ProcessStatus, RunOutcome, ThreadRuntimeState, RuntimeState,
            OutcomeState
<1>1. MarkRunActive(row) \in ThreadRow
  BY DEF MarkRunActive
<1>2. FinishRunStopped(row) \in ThreadRow
  BY DEF FinishRunStopped
<1>3. FinishRunInterrupted(row, "lost") \in ThreadRow
  BY DEF FinishRunInterrupted
<1>4. FinishRunFromExit(row, "clean") \in ThreadRow
  BY DEF FinishRunFromExit
<1>5. FinishRunFromExit(row, "nonzero") \in ThreadRow
  BY DEF FinishRunFromExit
<1>6. QueuedRow \in ThreadRow /\ NoRow \in ThreadRow
  BY DEF QueuedRow, NoRow
<1> QED
  BY <1>1, <1>2, <1>3, <1>4, <1>5, <1>6

\* A step of one thread keeps the invariant if it keeps what it says of that thread.
LEMMA ThreadStep ==
    ASSUME NEW s, Good(s), NEW x \in State, NEW t \in Threads,
           OnlyThread(s, x, t), GoodAt(x, t),
           x.run[t].status = "active" => s.run[t].status = "active"
    PROVE  Good(x)
<1>1. \A u \in Threads : GoodAt(x, u)
  <2> SUFFICES ASSUME NEW u \in Threads, u # t PROVE GoodAt(x, u)
    OBVIOUS
  <2>1. GoodAt(s, u)
    BY DEF Good
  <2>2. x.run[u] = s.run[u] /\ x.chat[u] = s.chat[u] /\ x.turn[u] = s.turn[u]
        /\ (u \in x.slots <=> u \in s.slots) /\ ProcsOf(x, u) = ProcsOf(s, u)
    BY DEF OnlyThread
  <2> QED
    BY <2>1, <2>2 DEF GoodAt
<1>2. OneConversation(x)
  <2>1. \A u \in Threads : x.run[u].status = "active" => s.run[u].status = "active"
    BY DEF OnlyThread
  <2> QED
    BY <2>1 DEF Good, OneConversation
<1> QED
  BY <1>1, <1>2 DEF Good

\* Starting one-shot runs touches no thread.
LEMMA StartAllFrame ==
    ASSUME NEW s \in State, NEW started \in SUBSET OneShots
    PROVE  /\ StartAll(s, started) \in State
           /\ StartAll(s, started).chat = s.chat
           /\ StartAll(s, started).turn = s.turn
           /\ StartAll(s, started).procs = s.procs
           /\ StartAll(s, started).reply = s.reply
           /\ StartAll(s, started).silent = s.silent
           /\ \A t \in Threads : StartAll(s, started).run[t] = s.run[t]
           /\ \A t \in Threads : t \in StartAll(s, started).slots <=> t \in s.slots
<1> DEFINE x == StartAll(s, started)
<1>1. x = [s EXCEPT !.slots = s.slots \cup started,
              !.run = [r \in Runs |-> IF r \in started THEN MarkRunActive(s.run[r])
                                      ELSE s.run[r]]]
  BY DEF StartAll
<1>2. [r \in Runs |-> IF r \in started THEN MarkRunActive(s.run[r]) ELSE s.run[r]]
        \in [Runs -> ThreadRow]
  <2>1. \A r \in Runs : s.run[r] \in ThreadRow /\ MarkRunActive(s.run[r]) \in ThreadRow
    BY RowTypes DEF State
  <2> QED
    BY <2>1
<1>3. started \subseteq Runs /\ \A t \in Threads : t \notin started
  BY DEF OneShots
<1>4. x \in State
  BY <1>1, <1>2, <1>3 DEF State
<1>5. x.chat = s.chat /\ x.turn = s.turn /\ x.procs = s.procs
      /\ x.reply = s.reply /\ x.silent = s.silent
  BY <1>1 DEF State
<1>6. \A t \in Threads : x.run[t] = s.run[t]
  BY <1>1, <1>3, ThreadAssumption DEF State
<1>7. \A t \in Threads : t \in x.slots <=> t \in s.slots
  BY <1>1, <1>3 DEF State
<1> QED
  BY <1>4, <1>5, <1>6, <1>7

LEMMA DispatchFrame ==
    ASSUME NEW s \in State, NEW m
    PROVE  /\ Dispatch(s, m) \in State
           /\ Dispatch(s, m).chat = s.chat
           /\ Dispatch(s, m).turn = s.turn
           /\ Dispatch(s, m).procs = s.procs
           /\ Dispatch(s, m).reply = s.reply
           /\ Dispatch(s, m).silent = s.silent
           /\ \A t \in Threads : Dispatch(s, m).run[t] = s.run[t]
           /\ \A t \in Threads : t \in Dispatch(s, m).slots <=> t \in s.slots
<1>1. Dispatched(s, m) \in SUBSET OneShots
  BY DEF Dispatched
<1> QED
  BY <1>1, StartAllFrame DEF Dispatch

-----------------------------------------------------------------------------
(* Statements about one turn *)

LEMMA NoTurnType == NoTurn \in Turn
BY TimerAssumption DEF NoTurn, Turn

LEMMA SettleFrame ==
    ASSUME NEW s \in State, NEW t \in Threads
    PROVE  /\ Settle(s, t) \in State
           /\ Settle(s, t).turn = [s.turn EXCEPT ![t] = NoTurn]
           /\ Settle(s, t).chat = [s.chat EXCEPT ![t] = [@ EXCEPT !.token = 0]]
           /\ Settle(s, t).procs = s.procs
           /\ Settle(s, t).reply = s.reply
           /\ \A u \in Threads : Settle(s, t).run[u] = s.run[u]
           /\ \A u \in Threads : u \in Settle(s, t).slots <=> u \in s.slots /\ u # t
<1> DEFINE c == [s EXCEPT !.turn[t] = NoTurn, !.silent[t] = 0,
                          !.chat[t] = [@ EXCEPT !.token = 0]]
           r == ReleaseSlot(c, t)
<1>1. [s.chat EXCEPT ![t] = [@ EXCEPT !.token = 0]] \in [Threads -> Chat]
  BY DEF State, Chat
<1>2. [s.silent EXCEPT ![t] = 0] \in [Threads -> 0..Idle]
  BY TimerAssumption DEF State
<1>3. [s.turn EXCEPT ![t] = NoTurn] \in [Threads -> Turn]
  BY NoTurnType DEF State
<1>4. /\ c \in State
      /\ c.turn = [s.turn EXCEPT ![t] = NoTurn]
      /\ c.chat = [s.chat EXCEPT ![t] = [@ EXCEPT !.token = 0]]
      /\ c.procs = s.procs /\ c.reply = s.reply /\ c.run = s.run /\ c.slots = s.slots
  BY <1>1, <1>2, <1>3 DEF State
<1>5. /\ r \in State
      /\ r.turn = c.turn /\ r.chat = c.chat /\ r.procs = c.procs /\ r.reply = c.reply
      /\ r.run = c.run /\ r.slots = c.slots \ {t}
  <2> HIDE DEF c
  <2> QED
    BY <1>4 DEF ReleaseSlot, State
<1>6. Settle(s, t) = Dispatch(r, MonOf[t])
  BY DEF Settle
<1> HIDE DEF r, c
<1> QED
  BY <1>4, <1>5, <1>6, DispatchFrame

\* What the message route may reply.
Answers == {"refused", "mon", "error"}

LEMMA RepliedFrame ==
    ASSUME NEW s \in State, NEW t \in Threads, NEW what \in Answers
    PROVE  /\ Replied(s, t, what) \in State
           /\ Replied(s, t, what).turn = s.turn
           /\ Replied(s, t, what).chat = s.chat
           /\ Replied(s, t, what).procs = s.procs
           /\ Replied(s, t, what).slots = s.slots
           /\ \A u \in Threads \ {t} : Replied(s, t, what).run[u] = s.run[u]
           /\ Replied(s, t, what).run[t].status = s.run[t].status
           /\ Replied(s, t, what).run[t].runtime_state = "waiting_for_user"
<1> DEFINE row == [s.run[t] EXCEPT !.runtime_state = "waiting_for_user",
                                   !.outcome_state = "unknown"]
           rep == IF what = "refused" THEN s.reply[t] ELSE what
<1>1. t \in Runs /\ s.run[t] \in ThreadRow
  BY ThreadAssumption DEF State
<1>2. row \in ThreadRow
  BY <1>1 DEF ThreadRow, ThreadRuntimeState, OutcomeState
<1>3. [s.run EXCEPT ![t] = row] \in [Runs -> ThreadRow]
  BY <1>1, <1>2 DEF State
<1>4. rep \in {"none", "awaited", "mon", "error"}
  BY DEF State, Answers
<1>5. [s.reply EXCEPT ![t] = rep] \in [Threads -> {"none", "awaited", "mon", "error"}]
  BY <1>4 DEF State
<1>6. Replied(s, t, what) = [s EXCEPT !.run = [s.run EXCEPT ![t] = row],
                                      !.reply = [s.reply EXCEPT ![t] = rep]]
  BY DEF Replied, State
<1>7. /\ Replied(s, t, what) \in State
      /\ Replied(s, t, what).turn = s.turn /\ Replied(s, t, what).chat = s.chat
      /\ Replied(s, t, what).procs = s.procs /\ Replied(s, t, what).slots = s.slots
      /\ Replied(s, t, what).run = [s.run EXCEPT ![t] = row]
  BY <1>3, <1>5, <1>6 DEF State
<1>8. /\ row.status = s.run[t].status /\ row.runtime_state = "waiting_for_user"
  BY <1>1 DEF ThreadRow
<1>9. \A u \in Threads : u \in DOMAIN s.run
  BY ThreadAssumption DEF State
<1> HIDE DEF row
<1> QED
  BY <1>7, <1>8, <1>9

\* However a turn ends, once its processes have been signalled or are gone.
LEMMA TurnEnds ==
    ASSUME NEW g, Good(g), NEW s \in State, NEW t \in Threads, OnlyThread(g, s, t),
           \A p, q \in ProcsOf(s, t) : p.n = q.n => p = q,
           \A p \in ProcsOf(s, t) : p.n \in 1 .. s.chat[t].turns /\ p.signal # "none",
           s.run[t].status \in {"none", "active", "finished"},
           s.run[t].status = "active" => g.run[t].status = "active"
    PROVE  Good(TurnFailed(s, t)) /\ Good(TurnFinished(s, t))
<1>1. t \in Runs /\ \A u \in Threads : u \in Runs
  BY ThreadAssumption
<1>2. ASSUME NEW e \in BOOLEAN, NEW what \in {"mon", "error"}
      PROVE  Good(Replied([Settle(s, t) EXCEPT !.chat[t] = [@ EXCEPT !.error = e]], t, what))
  <2> DEFINE y == Settle(s, t)
             z == [y EXCEPT !.chat[t] = [@ EXCEPT !.error = e]]
             x == Replied(z, t, what)
  <2>1. /\ y \in State /\ y.turn = [s.turn EXCEPT ![t] = NoTurn]
        /\ y.chat = [s.chat EXCEPT ![t] = [@ EXCEPT !.token = 0]]
        /\ y.procs = s.procs
        /\ \A u \in Threads : y.run[u] = s.run[u]
        /\ \A u \in Threads : u \in y.slots <=> u \in s.slots /\ u # t
    BY SettleFrame
  <2> HIDE DEF y
  <2>2. [y.chat EXCEPT ![t] = [@ EXCEPT !.error = e]] \in [Threads -> Chat]
    <3>1. y.chat \in [Threads -> Chat]
      BY <2>1 DEF State
    <3>2. [y.chat[t] EXCEPT !.error = e] \in Chat
      BY <3>1 DEF Chat
    <3> QED
      BY <3>1, <3>2
  <2>3. z = [y EXCEPT !.chat = [y.chat EXCEPT ![t] = [@ EXCEPT !.error = e]]]
    BY <2>1 DEF State
  <2>4. /\ z \in State /\ z.turn = y.turn /\ z.procs = y.procs /\ z.run = y.run
        /\ z.slots = y.slots
        /\ z.chat = [y.chat EXCEPT ![t] = [@ EXCEPT !.error = e]]
    BY <2>1, <2>2, <2>3 DEF State
  <2> HIDE DEF z, x
  <2>5. /\ x \in State /\ x.turn = z.turn /\ x.chat = z.chat /\ x.procs = z.procs
        /\ x.slots = z.slots
        /\ \A u \in Threads \ {t} : x.run[u] = z.run[u]
        /\ x.run[t].status = z.run[t].status
        /\ x.run[t].runtime_state = "waiting_for_user"
    <3>1. what \in Answers
      BY DEF Answers
    <3>2. z \in State
      BY <2>4
    <3> QED
      BY <3>1, <3>2, RepliedFrame DEF x
  <2>6. OnlyThread(g, x, t)
    <3> SUFFICES ASSUME NEW u \in Threads \ {t}
                 PROVE  /\ x.run[u] = g.run[u] /\ x.chat[u] = g.chat[u] /\ x.turn[u] = g.turn[u]
                        /\ u \in x.slots <=> u \in g.slots
                        /\ ProcsOf(x, u) = ProcsOf(g, u)
      BY DEF OnlyThread
    <3>1. x.run[u] = s.run[u] /\ x.chat[u] = s.chat[u] /\ x.turn[u] = s.turn[u]
      BY <1>1, <2>1, <2>4, <2>5 DEF State
    <3>2. u \in x.slots <=> u \in s.slots
      BY <2>1, <2>4, <2>5
    <3>3. ProcsOf(x, u) = ProcsOf(s, u)
      BY <2>1, <2>4, <2>5 DEF ProcsOf
    <3> QED
      BY <3>1, <3>2, <3>3 DEF OnlyThread
  <2>7. x.turn[t].n = 0 /\ x.run[t].status = s.run[t].status
        /\ x.run[t].runtime_state = "waiting_for_user"
        /\ x.chat[t].turns = s.chat[t].turns /\ ProcsOf(x, t) = ProcsOf(s, t)
    <3>1. s.run[t] \in ThreadRow /\ s.chat[t] \in Chat /\ z.run[t] \in ThreadRow
      BY <1>1, <2>4 DEF State
    <3>2. x.turn[t].n = 0
      BY <2>1, <2>4, <2>5 DEF State, NoTurn
    <3>3. x.run[t].status = s.run[t].status /\ x.run[t].runtime_state = "waiting_for_user"
      BY <1>1, <2>1, <2>4, <2>5, <3>1 DEF State, ThreadRow
    <3>4. x.chat[t].turns = s.chat[t].turns
      BY <2>1, <2>4, <2>5, <3>1 DEF State, Chat
    <3> QED
      BY <2>1, <2>4, <2>5, <3>2, <3>3, <3>4 DEF ProcsOf
  <2>8. GoodAt(x, t)
    BY <2>7 DEF GoodAt, OpenRuntimeState
  <2> QED
    BY <2>5, <2>6, <2>7, <2>8, ThreadStep DEF x, y, z
<1> QED
  BY <1>2 DEF TurnFailed, TurnFinished

-----------------------------------------------------------------------------
(* Actions *)

LEMMA StFields ==
    /\ st.run = run /\ st.slots = slots /\ st.chat = chat /\ st.turn = turn
    /\ st.procs = procs /\ st.reply = reply /\ st.silent = silent
BY DEF st

LEMMA CommitGood ==
    ASSUME NEW x, Good(x), Commit(x)
    PROVE  Good(st)'
<1>1. x \in State
  BY DEF Good
<1>2. st' = x
  BY <1>1 DEF State, Commit, st
<1> QED
  BY <1>2 DEF Good, GoodAt, OneConversation, ProcsOf

LEMMA ThreadIsRun == \A t \in Threads : t \in Runs
BY ThreadAssumption

\* The row of one thread is replaced.
LEMMA RowChange ==
    ASSUME NEW s, Good(s), NEW t \in Threads, NEW row \in ThreadRow,
           row.status \in {"active", "finished"},
           row.status = "active" => /\ s.run[t].status = "active"
                                    /\ row.runtime_state \in OpenRuntimeState
    PROVE  /\ Good([s EXCEPT !.run = [s.run EXCEPT ![t] = row]])
           /\ [s EXCEPT !.run = [s.run EXCEPT ![t] = row]].chat = s.chat
<1> DEFINE f == [s.run EXCEPT ![t] = row]
           x == [s EXCEPT !.run = f]
<1>1. s \in State /\ GoodAt(s, t)
  BY DEF Good
<1>2. f \in [Runs -> ThreadRow] /\ f[t] = row /\ \A u \in Threads \ {t} : f[u] = s.run[u]
  BY <1>1, ThreadIsRun DEF State
<1> HIDE DEF f
<1>3. x \in State /\ x.run = f /\ x.chat = s.chat /\ x.turn = s.turn /\ x.procs = s.procs
      /\ x.slots = s.slots
  BY <1>1, <1>2 DEF State
<1>4. OnlyThread(s, x, t)
  BY <1>2, <1>3 DEF OnlyThread, ProcsOf
<1>5. GoodAt(x, t)
  BY <1>1, <1>2, <1>3 DEF GoodAt, ProcsOf
<1>6. x.run[t].status = "active" => s.run[t].status = "active"
  BY <1>2, <1>3
<1>7. Good(x)
  BY <1>3, <1>4, <1>5, <1>6, ThreadStep
<1> QED
  BY <1>3, <1>7 DEF f

\* What the database says of the close reason, token and errors of one thread changes.
LEMMA ChatChange ==
    ASSUME NEW s, Good(s), NEW t \in Threads, NEW c \in Chat, c.turns = s.chat[t].turns,
           c.token \in {0, s.chat[t].token}
    PROVE  Good([s EXCEPT !.chat = [s.chat EXCEPT ![t] = c]])
<1> DEFINE f == [s.chat EXCEPT ![t] = c]
           x == [s EXCEPT !.chat = f]
<1>1. s \in State /\ GoodAt(s, t)
  BY DEF Good
<1>2. f \in [Threads -> Chat] /\ f[t] = c /\ \A u \in Threads \ {t} : f[u] = s.chat[u]
  BY <1>1 DEF State
<1> HIDE DEF f
<1>3. x \in State /\ x.run = s.run /\ x.chat = f /\ x.turn = s.turn /\ x.procs = s.procs
      /\ x.slots = s.slots
  BY <1>1, <1>2 DEF State
<1>4. OnlyThread(s, x, t)
  BY <1>2, <1>3 DEF OnlyThread, ProcsOf
<1>5. GoodAt(x, t)
  BY <1>1, <1>2, <1>3 DEF GoodAt, ProcsOf
<1>6. Good(x)
  BY <1>3, <1>4, <1>5, ThreadStep
<1> QED
  BY <1>6 DEF f

\* Activity moves a timer, never a turn.
LEMMA NoteKeeps ==
    ASSUME NEW s, Good(s), NEW t \in Threads
    PROVE  /\ Good(NoteRunActivity(s, t))
           /\ NoteRunActivity(s, t).run = s.run
           /\ NoteRunActivity(s, t).chat = s.chat
           /\ NoteRunActivity(s, t).procs = s.procs
           /\ NoteRunActivity(s, t).slots = s.slots
           /\ NoteRunActivity(s, t).silent = s.silent
           /\ NoteRunActivity(s, t).turn[t].n = s.turn[t].n
<1>1. s \in State /\ GoodAt(s, t)
  BY DEF Good
<1>2. CASE ~InFlight(s, t)
  BY <1>2 DEF NoteRunActivity
<1>3. CASE InFlight(s, t)
  <2> DEFINE e == [s.turn[t] EXCEPT !.idle = Idle]
             f == [s.turn EXCEPT ![t] = e]
             x == [s EXCEPT !.turn = f]
  <2>1. NoteRunActivity(s, t) = x
    BY <1>1, <1>3 DEF NoteRunActivity, State
  <2>2. e \in Turn /\ e.n = s.turn[t].n
    BY <1>1, TimerAssumption DEF State, Turn
  <2>3. f \in [Threads -> Turn] /\ f[t] = e /\ \A u \in Threads \ {t} : f[u] = s.turn[u]
    BY <1>1, <2>2 DEF State
  <2> HIDE DEF e, f
  <2>4. x \in State /\ x.run = s.run /\ x.chat = s.chat /\ x.turn = f /\ x.procs = s.procs
        /\ x.slots = s.slots /\ x.silent = s.silent
    BY <1>1, <2>3 DEF State
  <2>5. OnlyThread(s, x, t)
    BY <2>3, <2>4 DEF OnlyThread, ProcsOf
  <2>6. GoodAt(x, t)
    BY <1>1, <2>2, <2>3, <2>4 DEF GoodAt, ProcsOf
  <2>7. Good(x)
    BY <2>4, <2>5, <2>6, ThreadStep
  <2> QED
    BY <2>1, <2>2, <2>3, <2>4, <2>7
<1> QED
  BY <1>2, <1>3

\* History variables matter to no part of the invariant.
LEMMA SilentChange ==
    ASSUME NEW s, Good(s), NEW f \in [Threads -> 0..Idle]
    PROVE  Good([s EXCEPT !.silent = f])
<1> DEFINE x == [s EXCEPT !.silent = f]
<1>1. s \in State
  BY DEF Good
<1>2. x \in State /\ x.run = s.run /\ x.chat = s.chat /\ x.turn = s.turn /\ x.procs = s.procs
      /\ x.slots = s.slots
  BY <1>1 DEF State
<1> HIDE DEF x
<1>3. \A t \in Threads : GoodAt(x, t)
  BY <1>2 DEF Good, GoodAt, ProcsOf
<1>4. OneConversation(x)
  BY <1>2 DEF Good, OneConversation
<1> QED
  BY <1>2, <1>3, <1>4 DEF Good, x

LEMMA OpenThreadGood == ASSUME Good(st), NEW t \in Threads, OpenThread(t) PROVE Good(st)'
<1> DEFINE row == [run[t] EXCEPT !.status = "active", !.process_status = "running",
                                 !.runtime_state = "idle_open"]
           f == [run EXCEPT ![t] = row]
           x == [st EXCEPT !.run = f]
<1>1. st \in State /\ GoodAt(st, t) /\ run[t] \in ThreadRow /\ t \in Runs
  BY StFields, ThreadIsRun DEF Good, State
<1>2. row \in ThreadRow /\ row.status = "active" /\ row.runtime_state = "idle_open"
  BY <1>1 DEF ThreadRow, RunStatus, ProcessStatus, ThreadRuntimeState
<1>3. Commit(x)
  BY <1>1, StFields DEF OpenThread
<1> HIDE DEF row
<1>4. f \in [Runs -> ThreadRow] /\ f[t] = row /\ \A u \in Threads \ {t} : f[u] = run[u]
  BY <1>1, <1>2, ThreadIsRun, StFields DEF State
<1> HIDE DEF f
<1>5. x \in State /\ x.run = f /\ x.chat = chat /\ x.turn = turn /\ x.procs = procs
      /\ x.slots = slots
  BY <1>1, <1>4, StFields DEF State
<1> HIDE DEF x
<1>6. \A u \in Threads : run[u].status = "active" => IsOpenThread(u)
  BY StFields DEF Good, GoodAt, IsOpenThread
<1>7. \A u \in Threads : run[u].status = "active" => MonOf[u] # MonOf[t]
  BY <1>6 DEF OpenThread
<1>8. OnlyThread(st, x, t)
  BY <1>4, <1>5, StFields DEF OnlyThread, ProcsOf
<1>9. GoodAt(x, t)
  <2>1. turn[t].n = 0
    BY <1>1, StFields DEF OpenThread, GoodAt
  <2> QED
    BY <1>1, <1>2, <1>4, <1>5, <2>1, StFields DEF GoodAt, ProcsOf, OpenRuntimeState
<1>10. \A u \in Threads : GoodAt(x, u)
  <2> SUFFICES ASSUME NEW u \in Threads, u # t PROVE GoodAt(x, u)
    BY <1>9
  <2>1. GoodAt(st, u)
    BY DEF Good
  <2> QED
    BY <1>8, <2>1 DEF GoodAt, OnlyThread
<1>11. OneConversation(x)
  BY <1>4, <1>5, <1>7, StFields DEF Good, OneConversation
<1> QED
  BY <1>3, <1>5, <1>10, <1>11, CommitGood DEF Good, x, f

\* reserve(), token, activity and timers of a turn, and the process it may have spawned.
LEMMA BeginTurnGood ==
    ASSUME NEW s, Good(s), NEW t \in Threads, s.turn[t].n = 0, s.run[t].status # "none"
    PROVE  /\ BeginTurn(s, t) \in State
           /\ Good(TurnFailed(BeginTurn(s, t), t))
           /\ Good([BeginTurn(s, t) EXCEPT !.procs = @ \cup
                      {[thread |-> t, n |-> s.chat[t].turns + 1, signal |-> "none"]}])
<1> DEFINE n == s.chat[t].turns + 1
           b == BeginTurn(s, t)
           c == [s.chat[t] EXCEPT !.token = n, !.turns = n, !.timeout = "none"]
           p == [thread |-> t, n |-> n, signal |-> "none"]
<1>1. s \in State /\ GoodAt(s, t) /\ s.chat[t] \in Chat /\ t \in Runs
  BY ThreadIsRun DEF Good, State
<1>2. s.chat[t].turns \in Nat /\ n \in Nat /\ n # 0 /\ p \in Proc
  BY <1>1 DEF Chat, Proc, Signal
<1>3. c \in Chat /\ c.token = n /\ c.turns = n
  BY <1>1, <1>2 DEF Chat
<1>4. [n |-> n, idle |-> Idle, hard |-> Hard] \in Turn
  BY <1>2, TimerAssumption DEF Turn
<1>5. /\ [s.chat EXCEPT ![t] = c] \in [Threads -> Chat]
      /\ [s.turn EXCEPT ![t] = [n |-> n, idle |-> Idle, hard |-> Hard]] \in [Threads -> Turn]
      /\ [s.silent EXCEPT ![t] = 0] \in [Threads -> 0..Idle]
      /\ [s.reply EXCEPT ![t] = "awaited"] \in [Threads -> {"none", "awaited", "mon", "error"}]
  BY <1>1, <1>3, <1>4, TimerAssumption DEF State
<1>6. b = [s EXCEPT !.slots = s.slots \cup {t}, !.chat = [s.chat EXCEPT ![t] = c],
                    !.turn = [s.turn EXCEPT ![t] = [n |-> n, idle |-> Idle, hard |-> Hard]],
                    !.silent = [s.silent EXCEPT ![t] = 0],
                    !.reply = [s.reply EXCEPT ![t] = "awaited"]]
  BY <1>1 DEF BeginTurn, ReserveSlot, State
<1> HIDE DEF c, b, p, n
<1>7. /\ b \in State /\ b.run = s.run /\ b.procs = s.procs /\ b.slots = s.slots \cup {t}
      /\ b.chat[t] = c /\ b.turn[t].n = n
      /\ \A u \in Threads \ {t} : b.chat[u] = s.chat[u] /\ b.turn[u] = s.turn[u]
  BY <1>1, <1>5, <1>6 DEF State
<1>8. OnlyThread(s, b, t)
  BY <1>7 DEF OnlyThread, ProcsOf
<1>9. \A q \in ProcsOf(s, t) : q.n \in 1 .. s.chat[t].turns /\ q.signal # "none"
  BY <1>1 DEF GoodAt
<1>10. \A q \in ProcsOf(s, t) : q.n \in 1 .. c.turns /\ q.n # n
  BY <1>2, <1>3, <1>9 DEF n
<1>11. Good(TurnFailed(b, t))
  <2>1. ProcsOf(b, t) = ProcsOf(s, t) /\ b.run[t] = s.run[t]
    BY <1>7 DEF ProcsOf
  <2>2. /\ \A q, r \in ProcsOf(b, t) : q.n = r.n => q = r
        /\ \A q \in ProcsOf(b, t) : q.n \in 1 .. b.chat[t].turns /\ q.signal # "none"
        /\ b.run[t].status \in {"none", "active", "finished"}
        /\ b.run[t].status = "active" => s.run[t].status = "active"
    BY <1>1, <1>7, <1>9, <1>10, <2>1 DEF GoodAt
  <2> QED
    BY <1>7, <1>8, <2>2, TurnEnds
<1>12. Good([b EXCEPT !.procs = @ \cup {p}])
  <2> DEFINE x == [b EXCEPT !.procs = @ \cup {p}]
  <2>1. /\ x \in State /\ x.run = b.run /\ x.slots = b.slots /\ x.chat = b.chat
        /\ x.turn = b.turn /\ x.procs = s.procs \cup {p}
    BY <1>2, <1>7 DEF State
  <2> HIDE DEF x
  <2>2. p.thread = t /\ p.n = n /\ p.signal = "none"
    BY DEF p
  <2>3. ProcsOf(x, t) = ProcsOf(s, t) \cup {p}
    BY <2>1, <2>2 DEF ProcsOf
  <2>4. OnlyThread(s, x, t)
    BY <1>7, <1>8, <2>1, <2>2 DEF OnlyThread, ProcsOf
  <2>5. GoodAt(x, t)
    <3>1. /\ \A q, r \in ProcsOf(x, t) : q.n = r.n => q = r
          /\ \A q \in ProcsOf(x, t) : q.signal = "none" => x.turn[t].n = q.n
      BY <1>1, <1>7, <1>9, <1>10, <2>1, <2>2, <2>3 DEF GoodAt
    <3>2. \A q \in ProcsOf(x, t) : q.n \in 1 .. x.chat[t].turns
      BY <1>2, <1>3, <1>7, <1>10, <2>1, <2>2, <2>3
    <3> QED
      BY <1>1, <1>3, <1>7, <2>1, <3>1, <3>2 DEF GoodAt
  <2>6. x.run[t].status = "active" => s.run[t].status = "active"
    BY <1>7, <2>1
  <2> QED
    BY <2>1, <2>4, <2>5, <2>6, ThreadStep DEF x
<1> QED
  BY <1>7, <1>11, <1>12 DEF b, p, n

LEMMA PostMessageGood ==
    ASSUME Good(st), NEW t \in Threads, NEW how \in {"spawned", "failed", "refused"},
           PostMessage(t, how)
    PROVE  Good(st)'
<1> DEFINE row == [run[t] EXCEPT !.runtime_state = "running"]
           asked == [st EXCEPT !.run = [run EXCEPT ![t] = row]]
<1>1. st \in State /\ GoodAt(st, t) /\ run[t] \in ThreadRow /\ t \in Runs
      /\ run[t].status # "none" /\ chat[t] \in Chat
  BY StFields, ThreadIsRun DEF Good, State, PostMessage, IsOpenThread
<1>2. row \in ThreadRow /\ row.status = run[t].status /\ row.runtime_state = "running"
  BY <1>1 DEF ThreadRow, ThreadRuntimeState, RuntimeState
<1> HIDE DEF row
<1>3. row.status \in {"active", "finished"}
      /\ (row.status = "active" => /\ st.run[t].status = "active"
                                   /\ row.runtime_state \in OpenRuntimeState)
  BY <1>1, <1>2, StFields DEF GoodAt, OpenRuntimeState
<1>4. Good([st EXCEPT !.run = [st.run EXCEPT ![t] = row]])
  BY <1>2, <1>3, RowChange
<1>5. Good(asked)
  BY <1>4, StFields
<1>6. asked.turn = turn /\ asked.run[t] = row /\ asked.chat = chat
  BY <1>1, StFields DEF State
<1>7. Commit(CASE how = "refused" -> Replied(asked, t, "refused")
               [] how = "failed"  -> TurnFailed(BeginTurn(asked, t), t)
               [] how = "spawned" ->
                    [BeginTurn(asked, t) EXCEPT !.procs = @ \cup
                       {[thread |-> t, n |-> chat[t].turns + 1, signal |-> "none"]}])
  <2>1. [st EXCEPT !.run[t] = [@ EXCEPT !.runtime_state = "running"]] = asked
    BY <1>1, StFields DEF row
  <2> QED
    BY <2>1 DEF PostMessage
<1> HIDE DEF asked
<1>8. CASE how = "refused"
  <2> DEFINE x == Replied(asked, t, "refused")
  <2>1. Commit(x)
    BY <1>7, <1>8
  <2>2. "refused" \in Answers /\ asked \in State /\ GoodAt(asked, t)
    BY <1>5 DEF Answers, Good
  <2>3. /\ x \in State /\ x.turn = asked.turn /\ x.chat = asked.chat /\ x.procs = asked.procs
        /\ x.slots = asked.slots
        /\ \A u \in Threads \ {t} : x.run[u] = asked.run[u]
        /\ x.run[t].status = asked.run[t].status
        /\ x.run[t].runtime_state = "waiting_for_user"
    BY <2>2, RepliedFrame
  <2> HIDE DEF x
  <2>4. OnlyThread(asked, x, t)
    BY <2>3 DEF OnlyThread, ProcsOf
  <2>5. GoodAt(x, t)
    BY <2>2, <2>3 DEF GoodAt, ProcsOf, OpenRuntimeState
  <2>6. Good(x)
    BY <1>5, <2>3, <2>4, <2>5, ThreadStep
  <2> QED
    BY <2>1, <2>6, CommitGood
<1>9. CASE how # "refused"
  <2>1. asked.turn[t].n = 0 /\ asked.run[t].status # "none"
    BY <1>1, <1>2, <1>6, <1>9, StFields DEF PostMessage, InFlight
  <2>2. CASE how = "failed"
    <3>1. Commit(TurnFailed(BeginTurn(asked, t), t))
      BY <1>7, <2>2
    <3>2. Good(TurnFailed(BeginTurn(asked, t), t))
      BY <1>5, <2>1, BeginTurnGood
    <3> QED
      BY <3>1, <3>2, CommitGood
  <2>3. CASE how = "spawned"
    <3> DEFINE x == [BeginTurn(asked, t) EXCEPT !.procs = @ \cup
                       {[thread |-> t, n |-> asked.chat[t].turns + 1, signal |-> "none"]}]
    <3>1. Commit(x)
      BY <1>6, <1>7, <2>3
    <3>2. Good(x)
      BY <1>5, <2>1, BeginTurnGood
    <3> QED
      BY <3>1, <3>2, CommitGood
  <2> QED
    BY <1>9, <2>2, <2>3
<1> QED
  BY <1>8, <1>9

LEMMA ToolCallGood ==
    ASSUME Good(st), NEW t \in Threads, NEW k, ToolCall(t, k)
    PROVE  Good(st)'
<1> DEFINE y == NoteRunActivity(st, t)
           f == [silent EXCEPT ![t] = 0]
<1>1. Good(y) /\ y.silent = silent
  BY NoteKeeps, StFields
<1>2. f \in [Threads -> 0..Idle]
  BY StFields, TimerAssumption DEF Good, State
<1>3. [y EXCEPT !.silent[t] = 0] = [y EXCEPT !.silent = f]
  BY <1>1 DEF Good, State
<1>4. Commit([y EXCEPT !.silent = f])
  BY <1>3 DEF ToolCall
<1> QED
  BY <1>1, <1>2, <1>4, SilentChange, CommitGood

LEMMA ProcessOutputGood ==
    ASSUME Good(st), NEW p \in procs, ProcessOutput(p)
    PROVE  Good(st)'
<1>1. p.thread \in Threads
  BY StFields DEF Good, State, Proc
<1> DEFINE t == p.thread
           y == NoteRunActivity(st, t)
           f == [silent EXCEPT ![t] = IF IsCurrent(p) THEN 0 ELSE @]
<1>2. Good(y) /\ y.silent = silent
  BY <1>1, NoteKeeps, StFields
<1>3. f \in [Threads -> 0..Idle]
  BY <1>1, StFields, TimerAssumption DEF Good, State
<1>4. [y EXCEPT !.silent[t] = IF IsCurrent(p) THEN 0 ELSE @] = [y EXCEPT !.silent = f]
  BY <1>2 DEF Good, State
<1>5. Commit([y EXCEPT !.silent = f])
  BY <1>4 DEF ProcessOutput
<1> QED
  BY <1>2, <1>3, <1>5, SilentChange, CommitGood

\* The rows a thread can be closed with are well-formed.
LEMMA CloseTypes ==
    ASSUME NEW row, NEW reason, NEW unresolved
    PROVE  /\ CloseHitlThreadLifecycle(row, reason, unresolved) \in ThreadRow
           /\ CloseHitlThreadLifecycle(row, reason, unresolved).status = "finished"
BY DEF CloseHitlThreadLifecycle, ThreadRow, RunStatus, ProcessStatus, RunOutcome,
       ThreadRuntimeState, RuntimeState, OutcomeState

LEMMA CloseThreadGood ==
    ASSUME Good(st), NEW t \in Threads, NEW reason \in Reasons, CloseThread(t, reason)
    PROVE  Good(st)'
<1> DEFINE row == CloseHitlThreadLifecycle(run[t], reason, HasUnresolvedError(t))
           x == [st EXCEPT !.run = [st.run EXCEPT ![t] = row]]
           c == [chat[t] EXCEPT !.close_reason = reason]
           y == [x EXCEPT !.chat = [x.chat EXCEPT ![t] = c]]
<1>1. st \in State /\ t \in Runs /\ chat[t] \in Chat
  BY StFields, ThreadIsRun DEF Good, State
<1>2. row \in ThreadRow /\ row.status = "finished"
  BY CloseTypes
<1>3. c \in Chat /\ c.turns = chat[t].turns /\ c.token = chat[t].token
  BY <1>1, RequestAssumption DEF Chat, CloseReason
<1>4. Commit(y)
  BY <1>1, StFields DEF CloseThread, State
<1> HIDE DEF row, c
<1>5. Good(x) /\ x.chat = chat
  BY <1>2, RowChange, StFields
<1>6. Good(y)
  <2> HIDE DEF x
  <2> QED
    BY <1>3, <1>5, ChatChange
<1> QED
  BY <1>4, <1>6, CommitGood

\* The verdict of an operator on a finished run.
LEMMA VerdictGood ==
    ASSUME NEW s, Good(s), NEW t \in Threads, s.run[t].status = "finished",
           NEW outcome \in Outcomes
    PROVE  Good([s EXCEPT !.run[t] = [@ EXCEPT !.outcome = outcome,
                                               !.outcome_state = ReviewedState(outcome)]])
<1> DEFINE row == [s.run[t] EXCEPT !.outcome = outcome, !.outcome_state = ReviewedState(outcome)]
<1>1. s \in State /\ t \in Runs /\ s.run[t] \in ThreadRow
  BY ThreadIsRun DEF Good, State
<1>2. ReviewedState(outcome) \in OutcomeState /\ outcome \in RunOutcome
  BY RequestAssumption DEF ReviewedState, OutcomeState, RunOutcome
<1>3. row \in ThreadRow /\ row.status = "finished"
  BY <1>1, <1>2 DEF ThreadRow
<1>4. [s EXCEPT !.run[t] = [@ EXCEPT !.outcome = outcome,
                                     !.outcome_state = ReviewedState(outcome)]]
        = [s EXCEPT !.run = [s.run EXCEPT ![t] = row]]
  BY <1>1 DEF State
<1> HIDE DEF row
<1> QED
  BY <1>3, <1>4, RowChange

LEMMA ReviewGood ==
    ASSUME Good(st), NEW t \in Threads, NEW outcome \in Outcomes, Review(t, outcome)
    PROVE  Good(st)'
<1>1. st.run[t].status = "finished"
  BY StFields DEF Review
<1> QED
  BY <1>1, VerdictGood, CommitGood DEF Review

\* A thread is stopped: its slot is free although its turn may go on.
LEMMA StopRunGood ==
    ASSUME NEW s, Good(s), NEW t \in Threads, s.run[t].status # "none"
    PROVE  Good(StopRun(s, t)) /\ StopRun(s, t).run[t].status = "finished"
<1> DEFINE row == FinishRunStopped(s.run[t])
           c == [s.chat[t] EXCEPT !.token = 0, !.close_reason = "system_cancelled"]
           x == [s EXCEPT !.slots = s.slots \ {t}, !.run = [s.run EXCEPT ![t] = row],
                          !.chat = [s.chat EXCEPT ![t] = c]]
<1>1. s \in State /\ GoodAt(s, t) /\ t \in Runs /\ s.run[t] \in ThreadRow /\ s.chat[t] \in Chat
  BY ThreadIsRun DEF Good, State
<1>2. row \in ThreadRow /\ row.status = "finished"
  BY <1>1, RowTypes DEF FinishRunStopped, ThreadRow
<1>3. c \in Chat /\ c.token = 0 /\ c.turns = s.chat[t].turns
  BY <1>1 DEF Chat, CloseReason
<1>4. StopRun(s, t) = x
  BY <1>1 DEF StopRun, ReleaseSlot, State
<1> HIDE DEF row, c
<1>5. /\ [s.run EXCEPT ![t] = row] \in [Runs -> ThreadRow]
      /\ [s.chat EXCEPT ![t] = c] \in [Threads -> Chat]
  BY <1>1, <1>2, <1>3 DEF State
<1>6. /\ x \in State /\ x.turn = s.turn /\ x.procs = s.procs /\ x.slots = s.slots \ {t}
      /\ x.run[t] = row /\ x.chat[t] = c
      /\ \A u \in Threads \ {t} : x.run[u] = s.run[u] /\ x.chat[u] = s.chat[u]
  BY <1>1, <1>5, ThreadIsRun DEF State
<1> HIDE DEF x
<1>7. OnlyThread(s, x, t)
  BY <1>6 DEF OnlyThread, ProcsOf
<1>8. GoodAt(x, t)
  BY <1>1, <1>2, <1>3, <1>6 DEF GoodAt, ProcsOf
<1>9. Good(x)
  BY <1>2, <1>6, <1>7, <1>8, ThreadStep
<1> QED
  BY <1>2, <1>4, <1>6, <1>9

LEMMA CloseRunGood ==
    ASSUME Good(st), NEW t \in Threads, NEW outcome \in Outcomes, CloseRun(t, outcome)
    PROVE  Good(st)'
<1> DEFINE exit == IF outcome = "failed" THEN "nonzero" ELSE "clean"
           exited == [st EXCEPT !.run[t] = FinishRunFromExit(@, exit),
                                !.chat[t] = [@ EXCEPT !.close_reason = "process_exited"]]
           closed == IF run[t].status = "finished" THEN st
                     ELSE IF outcome = "stopped" THEN StopRun(st, t)
                     ELSE exited
<1>1. st \in State /\ t \in Runs /\ run[t] \in ThreadRow /\ chat[t] \in Chat
      /\ run[t].status # "none"
  BY StFields, ThreadIsRun DEF Good, State, CloseRun
<1>2. Good(exited) /\ exited.run[t].status = "finished"
  <2> DEFINE row == FinishRunFromExit(run[t], exit)
             x == [st EXCEPT !.run = [st.run EXCEPT ![t] = row]]
             c == [chat[t] EXCEPT !.close_reason = "process_exited"]
  <2>1. row \in ThreadRow /\ row.status = "finished"
    <3>1. row \in ThreadRow
      BY <1>1, RowTypes
    <3>2. row.status = "finished"
      BY <1>1 DEF FinishRunFromExit, ThreadRow
    <3> QED
      BY <3>1, <3>2
  <2>2. c \in Chat /\ c.turns = chat[t].turns /\ c.token = chat[t].token
    BY <1>1 DEF Chat, CloseReason
  <2>3. exited = [x EXCEPT !.chat = [x.chat EXCEPT ![t] = c]]
    BY <1>1, StFields DEF State
  <2> HIDE DEF row, c, exited
  <2>4. Good(x) /\ x.chat = chat /\ x.run[t] = row
    BY <1>1, <2>1, RowChange, StFields DEF State
  <2> HIDE DEF x
  <2>5. Good([x EXCEPT !.chat = [x.chat EXCEPT ![t] = c]])
    BY <2>2, <2>4, ChatChange
  <2> QED
    BY <2>1, <2>3, <2>4, <2>5 DEF Good, State
<1>3. Good(closed) /\ closed.run[t].status = "finished"
  <2> HIDE DEF exited
  <2> QED
    BY <1>1, <1>2, StopRunGood, StFields
<1>4. Commit([closed EXCEPT !.run[t] = [@ EXCEPT !.outcome = outcome,
                                          !.outcome_state = ReviewedState(outcome)]])
  BY DEF CloseRun
<1> HIDE DEF closed
<1> QED
  BY <1>3, <1>4, VerdictGood, CommitGood

LEMMA ProcessExitGood ==
    ASSUME Good(st), NEW p \in procs, NEW clean \in BOOLEAN, ProcessExit(p, clean)
    PROVE  Good(st)'
<1> DEFINE t == p.thread
           e == [st EXCEPT !.procs = procs \ {p}]
           gone == NoteRunActivity(e, t)
<1>1. st \in State /\ t \in Threads /\ p \in Proc /\ GoodAt(st, t)
  BY StFields DEF Good, State, Proc
<1>2. /\ e \in State /\ e.run = run /\ e.chat = chat /\ e.turn = turn /\ e.slots = slots
      /\ e.procs = procs \ {p}
  BY <1>1, StFields DEF State
<1>3. Commit(IF ~IsCurrent(p) THEN gone
             ELSE IF clean THEN TurnFinished(gone, t) ELSE TurnFailed(gone, t))
  BY StFields DEF ProcessExit
<1> HIDE DEF e
<1>4. ProcsOf(e, t) = ProcsOf(st, t) \ {p} /\ \A u \in Threads \ {t} : ProcsOf(e, u) = ProcsOf(st, u)
  BY <1>2, StFields DEF ProcsOf
<1>5. OnlyThread(st, e, t)
  BY <1>2, <1>4, StFields DEF OnlyThread
<1>6. GoodAt(e, t)
  BY <1>1, <1>2, <1>4, StFields DEF GoodAt
<1>7. Good(e)
  <2>1. e.run[t].status = "active" => st.run[t].status = "active"
    BY <1>2, StFields
  <2> QED
    BY <1>1, <1>2, <1>5, <1>6, <2>1, ThreadStep
<1>8. /\ Good(gone) /\ gone.run = run /\ gone.chat = chat /\ gone.procs = e.procs
      /\ gone.turn[t].n = turn[t].n
  BY <1>1, <1>2, <1>7, NoteKeeps
<1> HIDE DEF gone
<1>9. CASE ~IsCurrent(p)
  BY <1>3, <1>8, <1>9, CommitGood
<1>10. CASE IsCurrent(p)
  <2>1. ProcsOf(gone, t) = ProcsOf(st, t) \ {p}
    BY <1>4, <1>8 DEF ProcsOf
  <2>2. \A q \in ProcsOf(gone, t) : q.signal # "none"
    <3>1. p \in ProcsOf(st, t)
      BY StFields DEF ProcsOf
    <3> QED
      BY <1>1, <1>10, <2>1, <3>1, StFields DEF GoodAt, IsCurrent
  <2>3. /\ \A q, r \in ProcsOf(gone, t) : q.n = r.n => q = r
        /\ \A q \in ProcsOf(gone, t) : q.n \in 1 .. gone.chat[t].turns /\ q.signal # "none"
        /\ gone.run[t].status \in {"none", "active", "finished"}
    BY <1>1, <1>8, <2>1, <2>2, StFields DEF GoodAt
  <2>4. OnlyThread(gone, gone, t) /\ gone \in State
    BY <1>8 DEF OnlyThread, Good
  <2>5. Good(TurnFailed(gone, t)) /\ Good(TurnFinished(gone, t))
    BY <1>1, <1>8, <2>3, <2>4, TurnEnds
  <2>6. Commit(TurnFinished(gone, t)) \/ Commit(TurnFailed(gone, t))
    BY <1>3, <1>10
  <2> QED
    BY <2>5, <2>6, CommitGood
<1> QED
  BY <1>9, <1>10

\* A signal keeps the processes, and what tells them apart.
LEMMA SignalFrame ==
    ASSUME NEW s, Good(s), NEW t \in Threads, NEW n, NEW sig \in {"SIGTERM", "SIGKILL"}
    PROVE  LET P == SignalTo(s, t, n, sig)
           IN  /\ P \subseteq Proc
               /\ \A u \in Threads \ {t} : {p \in P : p.thread = u} = ProcsOf(s, u)
               /\ \A q \in P : q.thread = t =>
                     \E p \in ProcsOf(s, t) : /\ q = IF p.n = n THEN [p EXCEPT !.signal = sig] ELSE p
                                              /\ q.n = p.n
               /\ \A p, q \in P : p.thread = t /\ q.thread = t /\ p.n = q.n => p = q
<1> DEFINE P == SignalTo(s, t, n, sig)
           F(p) == IF p.thread = t /\ p.n = n THEN [p EXCEPT !.signal = sig] ELSE p
<1>1. s.procs \subseteq Proc /\ GoodAt(s, t)
  BY DEF Good, State
<1>2. P = {F(p) : p \in s.procs}
  BY DEF SignalTo
<1>3. \A p \in s.procs : F(p) \in Proc /\ F(p).thread = p.thread /\ F(p).n = p.n
                         /\ (p.thread # t => F(p) = p)
  BY <1>1 DEF Proc, Signal
<1>4. \A p \in s.procs : p.thread = t => F(p) = IF p.n = n THEN [p EXCEPT !.signal = sig] ELSE p
  OBVIOUS
<1> HIDE DEF F, P
<1>5. P \subseteq Proc
  BY <1>2, <1>3
<1>6. \A u \in Threads \ {t} : {p \in P : p.thread = u} = ProcsOf(s, u)
  BY <1>2, <1>3 DEF ProcsOf
<1>7. \A q \in P : q.thread = t =>
         \E p \in ProcsOf(s, t) : /\ q = IF p.n = n THEN [p EXCEPT !.signal = sig] ELSE p
                                  /\ q.n = p.n /\ q = F(p)
  BY <1>2, <1>3, <1>4 DEF ProcsOf
<1>8. \A p, q \in P : p.thread = t /\ q.thread = t /\ p.n = q.n => p = q
  <2> SUFFICES ASSUME NEW p \in P, NEW q \in P, p.thread = t, q.thread = t, p.n = q.n
               PROVE  p = q
    OBVIOUS
  <2>1. PICK a \in ProcsOf(s, t) : p = F(a) /\ p.n = a.n
    BY <1>7
  <2>2. PICK b \in ProcsOf(s, t) : q = F(b) /\ q.n = b.n
    BY <1>7
  <2>3. a = b
    BY <1>1, <2>1, <2>2 DEF GoodAt
  <2> QED
    BY <2>1, <2>2, <2>3
<1> QED
  BY <1>5, <1>6, <1>7, <1>8 DEF P

LEMMA KillAfterGraceGood ==
    ASSUME Good(st), NEW p \in procs, KillAfterGrace(p)
    PROVE  Good(st)'
<1> DEFINE t == p.thread
           P == SignalTo(st, t, p.n, "SIGKILL")
           e == [st EXCEPT !.procs = P]
<1>1. st \in State /\ t \in Threads /\ p \in ProcsOf(st, t) /\ GoodAt(st, t)
  BY StFields DEF Good, State, Proc, ProcsOf
<1>2. /\ P \subseteq Proc
      /\ \A u \in Threads \ {t} : {q \in P : q.thread = u} = ProcsOf(st, u)
      /\ \A q \in P : q.thread = t =>
            \E r \in ProcsOf(st, t) : /\ q = IF r.n = p.n THEN [r EXCEPT !.signal = "SIGKILL"] ELSE r
                                      /\ q.n = r.n
      /\ \A q, r \in P : q.thread = t /\ r.thread = t /\ q.n = r.n => q = r
  BY <1>1, SignalFrame
<1>3. Commit(e)
  BY DEF KillAfterGrace
<1> HIDE DEF P
<1>4. /\ e \in State /\ e.run = run /\ e.chat = chat /\ e.turn = turn /\ e.slots = slots
      /\ e.procs = P
  BY <1>1, <1>2, StFields DEF State
<1> HIDE DEF e
<1>5. \A u \in Threads \ {t} : ProcsOf(e, u) = ProcsOf(st, u)
  BY <1>2, <1>4 DEF ProcsOf
<1>6. OnlyThread(st, e, t)
  BY <1>4, <1>5, StFields DEF OnlyThread
<1>7. /\ \A q, r \in ProcsOf(e, t) : q.n = r.n => q = r
      /\ \A q \in ProcsOf(e, t) : q.n \in 1 .. e.chat[t].turns
  BY <1>1, <1>2, <1>4, StFields DEF GoodAt, ProcsOf
<1>8. \A q \in ProcsOf(e, t) : q.signal = "none" => e.turn[t].n = q.n
  <2> SUFFICES ASSUME NEW q \in ProcsOf(e, t), q.signal = "none"
               PROVE  e.turn[t].n = q.n
    OBVIOUS
  <2>1. PICK r \in ProcsOf(st, t) :
           q = (IF r.n = p.n THEN [r EXCEPT !.signal = "SIGKILL"] ELSE r) /\ q.n = r.n
    BY <1>2, <1>4 DEF ProcsOf
  <2>2. r \in Proc
    BY <1>1 DEF ProcsOf, State
  <2>3. r.signal = "none"
    BY <2>1, <2>2 DEF Proc
  <2> QED
    BY <1>1, <1>4, <2>1, <2>3, StFields DEF GoodAt
<1>9. GoodAt(e, t)
  BY <1>1, <1>4, <1>7, <1>8, StFields DEF GoodAt
<1>10. e.run[t].status = "active" => st.run[t].status = "active"
  BY <1>4, StFields
<1> QED
  BY <1>1, <1>3, <1>4, <1>6, <1>9, <1>10, ThreadStep, CommitGood

LEMMA TimeoutGood ==
    ASSUME Good(st), NEW t \in Threads, InFlight(st, t),
           NEW reason \in {"idle_timeout", "hard_timeout"}
    PROVE  Good(TimeoutHitlTurn(st, t, reason))
<1> DEFINE n == turn[t].n
           P == SignalTo(st, t, n, "SIGTERM")
           c == [chat[t] EXCEPT !.timeout = reason]
           f == [chat EXCEPT ![t] = c]
           e == [st EXCEPT !.chat = f, !.procs = P]
<1>1. st \in State /\ GoodAt(st, t) /\ chat \in [Threads -> Chat]
  BY StFields DEF Good, State
<1>2. /\ P \subseteq Proc
      /\ \A u \in Threads \ {t} : {q \in P : q.thread = u} = ProcsOf(st, u)
      /\ \A q \in P : q.thread = t =>
            \E r \in ProcsOf(st, t) : /\ q = IF r.n = n THEN [r EXCEPT !.signal = "SIGTERM"] ELSE r
                                      /\ q.n = r.n
      /\ \A q, r \in P : q.thread = t /\ r.thread = t /\ q.n = r.n => q = r
  BY SignalFrame
<1>3. TimeoutHitlTurn(st, t, reason) = TurnFailed(e, t)
  BY <1>1, StFields DEF TimeoutHitlTurn
<1>4. c \in Chat /\ c.turns = chat[t].turns
  BY <1>1 DEF Chat
<1> HIDE DEF P, c
<1>5. f \in [Threads -> Chat] /\ f[t] = c /\ \A u \in Threads \ {t} : f[u] = chat[u]
  BY <1>1, <1>4
<1> HIDE DEF f
<1>6. /\ e \in State /\ e.run = run /\ e.chat = f /\ e.turn = turn /\ e.slots = slots
      /\ e.procs = P
  BY <1>1, <1>2, <1>5, StFields DEF State
<1> HIDE DEF e
<1>7. \A u \in Threads \ {t} : ProcsOf(e, u) = ProcsOf(st, u)
  BY <1>2, <1>6 DEF ProcsOf
<1>8. OnlyThread(st, e, t)
  BY <1>5, <1>6, <1>7, StFields DEF OnlyThread
<1>9. \A q \in ProcsOf(e, t) : q.n \in 1 .. e.chat[t].turns /\ q.signal # "none"
  <2> SUFFICES ASSUME NEW q \in ProcsOf(e, t)
               PROVE  q.n \in 1 .. e.chat[t].turns /\ q.signal # "none"
    OBVIOUS
  <2>1. PICK r \in ProcsOf(st, t) :
           q = (IF r.n = n THEN [r EXCEPT !.signal = "SIGTERM"] ELSE r) /\ q.n = r.n
    BY <1>2, <1>6 DEF ProcsOf
  <2>2. r \in Proc
    BY <1>1 DEF ProcsOf, State
  <2>3. r.n \in 1 .. chat[t].turns /\ (r.signal = "none" => turn[t].n = r.n)
    BY <1>1, StFields DEF GoodAt
  <2>4. q.signal # "none"
    BY <2>1, <2>2, <2>3 DEF Proc
  <2> QED
    BY <1>4, <1>5, <1>6, <2>1, <2>3, <2>4
<1>10. \A q, r \in ProcsOf(e, t) : q.n = r.n => q = r
  BY <1>2, <1>6 DEF ProcsOf
<1>11. /\ e.run[t].status \in {"none", "active", "finished"}
       /\ e.run[t].status = "active" => st.run[t].status = "active"
  BY <1>1, <1>6, StFields DEF GoodAt
<1>12. Good(TurnFailed(e, t))
  BY <1>6, <1>8, <1>9, <1>10, <1>11, TurnEnds
<1> QED
  BY <1>3, <1>12

LEMMA TickGood == ASSUME Good(st), Tick PROVE Good(st)'
<1>1. st \in State /\ turn \in [Threads -> Turn] /\ silent \in [Threads -> 0..Idle]
  BY StFields DEF Good, State
<1>2. \A k \in Nat : \A top \in Nat : k \in 0..top => Down(k) \in 0..top
  BY DEF Down
<1>3. ASSUME NEW t \in Threads
      PROVE  LET e == [turn[t] EXCEPT !.idle = Down(turn[t].idle), !.hard = Down(turn[t].hard)]
             IN  e \in Turn /\ e.n = turn[t].n
  <2>1. /\ turn[t].idle \in 0..Idle /\ turn[t].hard \in 0..Hard /\ turn[t].n \in Nat
        /\ turn[t] \in Turn
    BY <1>1 DEF Turn
  <2>2. Down(turn[t].idle) \in 0..Idle /\ Down(turn[t].hard) \in 0..Hard
    BY <1>2, <2>1, TimerAssumption
  <2> HIDE DEF Down
  <2> QED
    BY <2>1, <2>2 DEF Turn
<1> DEFINE f == [t \in Threads |-> [turn[t] EXCEPT !.idle = Down(turn[t].idle),
                                                 !.hard = Down(turn[t].hard)]]
<1>4. turn' \in [Threads -> Turn] /\ \A t \in Threads : turn'[t].n = turn[t].n
  <2>1. turn' = f
    BY DEF Tick
  <2>2. f \in [Threads -> Turn] /\ \A t \in Threads : f[t].n = turn[t].n
    BY <1>3
  <2> QED
    BY <2>1, <2>2
<1> HIDE DEF f
<1>5. silent' \in [Threads -> 0..Idle]
  <2> DEFINE g == [t \in Threads |-> IF InFlight(st, t) /\ silent[t] < Idle THEN silent[t] + 1
                                     ELSE silent[t]]
  <2>1. \A t \in Threads : silent[t] \in 0..Idle /\ (silent[t] < Idle => silent[t] + 1 \in 0..Idle)
    BY <1>1, TimerAssumption
  <2>2. \A t \in Threads : g[t] \in 0..Idle
    BY <2>1 DEF InFlight
  <2>3. g \in [Threads -> 0..Idle]
    BY <2>2
  <2> QED
    BY <2>3 DEF Tick
<1>6. run' = run /\ slots' = slots /\ chat' = chat /\ procs' = procs /\ reply' = reply
  BY DEF Tick, db
<1>7. st' \in State
  BY <1>1, <1>4, <1>5, <1>6 DEF State, st
<1>8. \A t \in Threads : GoodAt(st, t)'
  BY <1>4, <1>6 DEF Good, GoodAt, ProcsOf, st
<1>9. OneConversation(st)'
  BY <1>6 DEF Good, OneConversation, st
<1> QED
  BY <1>7, <1>8, <1>9 DEF Good

\* What only one-shot runs change keeps the invariant.
LEMMA OneShotStep ==
    ASSUME NEW s, Good(s), NEW x \in State,
           x.chat = s.chat, x.turn = s.turn, x.procs = s.procs,
           \A t \in Threads : x.run[t] = s.run[t] /\ (t \in x.slots <=> t \in s.slots)
    PROVE  Good(x)
<1>1. \A t \in Threads : ProcsOf(x, t) = ProcsOf(s, t)
  BY DEF ProcsOf
<1>2. \A t \in Threads : GoodAt(x, t)
  BY <1>1 DEF Good, GoodAt
<1>3. OneConversation(x)
  BY DEF Good, OneConversation
<1> QED
  BY <1>2, <1>3 DEF Good

\* The row of a one-shot run is replaced.
LEMMA OneShotRow ==
    ASSUME NEW s, Good(s), NEW r \in OneShots, NEW row \in ThreadRow
    PROVE  Good([s EXCEPT !.run = [s.run EXCEPT ![r] = row]])
<1> DEFINE f == [s.run EXCEPT ![r] = row]
           x == [s EXCEPT !.run = f]
<1>1. s \in State /\ r \in Runs /\ r \notin Threads
  BY DEF Good, OneShots
<1>2. f \in [Runs -> ThreadRow] /\ \A t \in Threads : f[t] = s.run[t]
  BY <1>1, ThreadIsRun DEF State
<1> HIDE DEF f
<1>3. x \in State /\ x.chat = s.chat /\ x.turn = s.turn /\ x.procs = s.procs
      /\ x.run = f /\ x.slots = s.slots
  BY <1>1, <1>2 DEF State
<1>4. Good(x)
  BY <1>2, <1>3, OneShotStep
<1> QED
  BY <1>4 DEF f

LEMMA DispatchGood == ASSUME NEW s, Good(s), NEW m PROVE Good(Dispatch(s, m))
<1>1. s \in State
  BY DEF Good
<1> QED
  BY <1>1, DispatchFrame, OneShotStep

LEMMA SubmitGood == ASSUME Good(st), NEW r \in OneShots, Submit(r) PROVE Good(st)'
<1> DEFINE x == [st EXCEPT !.run = [st.run EXCEPT ![r] = QueuedRow]]
<1>1. Good(x)
  <2>1. QueuedRow \in ThreadRow
    BY DEF QueuedRow, NoRow, ThreadRow, RunStatus, ProcessStatus, RunOutcome, ThreadRuntimeState,
           RuntimeState, OutcomeState
  <2> QED
    BY <2>1, OneShotRow
<1>2. Commit(Dispatch(x, MonOf[r]))
  BY StFields DEF Submit
<1> QED
  BY <1>1, <1>2, DispatchGood, CommitGood

LEMMA OneShotExitGood == ASSUME Good(st), NEW r \in OneShots, OneShotExit(r) PROVE Good(st)'
<1> DEFINE row == FinishRunFromExit(st.run[r], "clean")
           x == [st EXCEPT !.run = [st.run EXCEPT ![r] = row]]
           y == ReleaseSlot(x, r)
<1>1. Good(x)
  <2>1. row \in ThreadRow
    BY RowTypes DEF Good, State, OneShots
  <2> QED
    BY <2>1, OneShotRow
<1>2. Commit(Dispatch(y, MonOf[r]))
  BY StFields DEF OneShotExit
<1> HIDE DEF x
<1>3. x \in State /\ r \notin Threads
  BY <1>1 DEF Good, OneShots
<1>4. y \in State /\ y.chat = x.chat /\ y.turn = x.turn /\ y.procs = x.procs /\ y.run = x.run
      /\ y.slots = x.slots \ {r}
  BY <1>3 DEF ReleaseSlot, State
<1> HIDE DEF y
<1>5. Good(y)
  BY <1>1, <1>3, <1>4, OneShotStep
<1> QED
  BY <1>2, <1>5, DispatchGood, CommitGood

LEMMA CrashGood == ASSUME Good(st), CrashAndRestart PROVE Good(st)'
<1> DEFINE none == [st EXCEPT !.turn = [t \in Threads |-> NoTurn],
                              !.silent = [t \in Threads |-> 0], !.procs = {}]
           f == [r \in Runs |-> IF r \in OneShots /\ none.run[r].status \in ProcessBacked
                                THEN FinishRunInterrupted(none.run[r], "lost") ELSE none.run[r]]
           lost == [none EXCEPT !.run = f]
           back == ReleaseOrphans(lost)
           x == StartAll(back, UNION {Dispatched(back, m) : m \in Mons})
<1>1. st \in State /\ \A t \in Threads : t \in Runs /\ t \notin OneShots
  BY ThreadIsRun DEF Good, OneShots
<1>2. /\ [t \in Threads |-> NoTurn] \in [Threads -> Turn]
      /\ [t \in Threads |-> 0] \in [Threads -> 0..Idle]
  BY NoTurnType, TimerAssumption
<1>3. /\ none \in State /\ none.run = run /\ none.chat = chat /\ none.procs = {}
      /\ none.turn = [t \in Threads |-> NoTurn]
  BY <1>1, <1>2, StFields DEF State
<1>4. Commit(x)
  BY DEF CrashAndRestart, MarkLostOnStartup
<1> HIDE DEF none
<1>5. f \in [Runs -> ThreadRow] /\ \A t \in Threads : f[t] = run[t]
  <2>1. \A r \in Runs : none.run[r] \in ThreadRow
                        /\ FinishRunInterrupted(none.run[r], "lost") \in ThreadRow
    BY <1>3, RowTypes DEF State
  <2> QED
    BY <1>1, <1>3, <2>1
<1> HIDE DEF f
<1>6. lost \in State /\ lost.run = f /\ lost.chat = chat /\ lost.procs = {} /\ lost.turn = none.turn
  BY <1>3, <1>5 DEF State
<1> HIDE DEF lost
<1>7. /\ back \in State /\ back.run = f /\ back.chat = chat /\ back.procs = {}
      /\ back.turn = none.turn
  BY <1>6 DEF ReleaseOrphans, State
<1> HIDE DEF back
<1>8. UNION {Dispatched(back, m) : m \in Mons} \in SUBSET OneShots
  BY DEF Dispatched
<1>9. /\ x \in State /\ x.chat = chat /\ x.procs = {} /\ x.turn = none.turn
      /\ \A t \in Threads : x.run[t] = run[t]
  BY <1>5, <1>7, <1>8, StartAllFrame
<1> HIDE DEF x
<1>10. \A t \in Threads : GoodAt(x, t)
  <2> SUFFICES ASSUME NEW t \in Threads PROVE GoodAt(x, t)
    OBVIOUS
  <2>1. ProcsOf(x, t) = {} /\ x.turn[t].n = 0
    BY <1>3, <1>9 DEF ProcsOf, NoTurn
  <2>2. GoodAt(st, t)
    BY DEF Good
  <2> QED
    BY <1>9, <2>1, <2>2, StFields DEF GoodAt
<1>11. OneConversation(x)
  BY <1>9, StFields DEF Good, OneConversation
<1> QED
  BY <1>4, <1>9, <1>10, <1>11, CommitGood DEF Good

-----------------------------------------------------------------------------
(* The invariant *)

IInv == Good(st) /\ crashes \in 0..MaxCrashes

LEMMA InitGood == Init => IInv
<1> SUFFICES ASSUME Init PROVE IInv
  OBVIOUS
<1>1. /\ NoRow \in ThreadRow /\ NoRow.status = "none"
      /\ NoChat \in Chat
  BY DEF NoRow, ThreadRow, RunStatus, ProcessStatus, RunOutcome, ThreadRuntimeState,
         RuntimeState, OutcomeState, NoChat, Chat, CloseReason
<1>2. st \in State
  BY <1>1, NoTurnType, TimerAssumption DEF Init, st, State
<1>3. \A t \in Threads : run[t].status = "none" /\ turn[t].n = 0 /\ ProcsOf(st, t) = {}
  BY <1>1, ThreadIsRun, StFields DEF Init, ProcsOf, NoTurn
<1>4. \A t \in Threads : GoodAt(st, t)
  BY <1>3, StFields DEF GoodAt
<1>5. OneConversation(st)
  BY <1>3, StFields DEF OneConversation
<1>6. crashes \in 0..MaxCrashes
  BY TimerAssumption DEF Init
<1> QED
  BY <1>2, <1>4, <1>5, <1>6 DEF Good, IInv

LEMMA RequestGood ==
    ASSUME Good(st), NEW t \in Threads, ThreadRequest(t)
    PROVE  Good(st)' /\ UNCHANGED crashes
<1>1. CASE OpenThread(t)
  BY <1>1, OpenThreadGood DEF OpenThread
<1>2. CASE \E how \in {"spawned", "failed", "refused"} : PostMessage(t, how)
  BY <1>2, PostMessageGood DEF PostMessage
<1>3. CASE \E k \in 1..MaxTurns : ToolCall(t, k)
  BY <1>3, ToolCallGood DEF ToolCall
<1>4. CASE \E reason \in Reasons : CloseThread(t, reason)
  BY <1>4, CloseThreadGood DEF CloseThread
<1>5. CASE \E outcome \in Outcomes : CloseRun(t, outcome)
  BY <1>5, CloseRunGood DEF CloseRun
<1>6. CASE \E outcome \in Outcomes : Review(t, outcome)
  BY <1>6, ReviewGood DEF Review
<1> QED
  BY <1>1, <1>2, <1>3, <1>4, <1>5, <1>6 DEF ThreadRequest

LEMMA EventGood ==
    ASSUME Good(st), NEW p \in procs, ProcessEvent(p)
    PROVE  Good(st)' /\ UNCHANGED crashes
<1>1. CASE ProcessOutput(p)
  BY <1>1, ProcessOutputGood DEF ProcessOutput
<1>2. CASE \E clean \in BOOLEAN : ProcessExit(p, clean)
  BY <1>2, ProcessExitGood DEF ProcessExit
<1>3. CASE KillAfterGrace(p)
  BY <1>3, KillAfterGraceGood DEF KillAfterGrace
<1> QED
  BY <1>1, <1>2, <1>3 DEF ProcessEvent

LEMMA TimerGood == ASSUME Good(st), TimerFires PROVE Good(st)' /\ UNCHANGED crashes
<1>1. PICK t \in Threads : IdleTimeout(t) \/ HardTimeout(t)
  BY DEF TimerFires
<1>2. CASE IdleTimeout(t)
  BY <1>2, TimeoutGood, CommitGood DEF IdleTimeout, IdleDue
<1>3. CASE HardTimeout(t)
  BY <1>3, TimeoutGood, CommitGood DEF HardTimeout, HardDue
<1> QED
  BY <1>1, <1>2, <1>3

LEMMA NextGood == IInv /\ [Next]_vars => IInv'
<1> SUFFICES ASSUME IInv, [Next]_vars PROVE IInv'
  OBVIOUS
<1> USE DEF IInv
<1>1. CASE \E t \in Threads : ThreadRequest(t)
  BY <1>1, RequestGood
<1>2. CASE TimerFires
  BY <1>2, TimerGood
<1>3. CASE \E p \in procs : ProcessEvent(p)
  BY <1>3, EventGood
<1>4. CASE \E r \in OneShots : Submit(r) \/ OneShotExit(r)
  BY <1>4, SubmitGood, OneShotExitGood DEF Submit, OneShotExit
<1>5. CASE Tick
  BY <1>5, TickGood DEF Tick
<1>6. CASE CrashAndRestart
  <2>1. crashes' \in 0..MaxCrashes
    BY <1>6, TimerAssumption DEF CrashAndRestart
  <2> QED
    BY <1>6, <2>1, CrashGood
<1>7. CASE UNCHANGED vars
  <2>1. st' = st /\ crashes' = crashes
    BY <1>7 DEF vars, db, st
  <2> QED
    BY <2>1 DEF Good, GoodAt, OneConversation, ProcsOf
<1> QED
  BY <1>1, <1>2, <1>3, <1>4, <1>5, <1>6, <1>7 DEF Next

LEMMA Invariance == Spec => []IInv
BY InitGood, NextGood, PTL DEF Spec

-----------------------------------------------------------------------------
(* Theorems *)

\* Every state of the conversations is well-typed, whatever requests, timers, process
\* events and crashes the service meets.
THEOREM ThreadTypes == Spec => []TypeOK
<1>1. IInv => TypeOK
  BY StFields DEF IInv, Good, State, TypeOK
<1> QED
  BY <1>1, Invariance, PTL

\* No turn ends and leaves behind a process that nobody signalled (respondToHitlThread,
\* timeoutHitlTurn).
THEOREM ProcessesWatched == Spec => []ProcessIsWatched
<1>1. IInv => ProcessIsWatched
  <2> SUFFICES ASSUME IInv, NEW p \in procs, p.signal = "none"
               PROVE  turn[p.thread].n = p.n
    BY DEF ProcessIsWatched
  <2>1. p.thread \in Threads /\ p \in ProcsOf(st, p.thread)
    BY StFields DEF IInv, Good, State, Proc, ProcsOf
  <2> QED
    BY <2>1, StFields DEF IInv, Good, GoodAt
<1> QED
  BY <1>1, Invariance, PTL

\* The turn in flight of an open thread holds a slot of its Mon, whatever late events of
\* earlier turns arrive (process-slots.ts).
THEOREM TurnsHoldSlots == Spec => []TurnHoldsSlot
<1>1. IInv => TurnHoldsSlot
  BY StFields DEF IInv, Good, GoodAt, TurnHoldsSlot, InFlight
<1> QED
  BY <1>1, Invariance, PTL

\* Only the token of the turn in flight admits tool calls (isRunTokenAuthorized).
THEOREM TokensOfTheirTurn == Spec => []TokenOnlyDuringItsTurn
<1>1. IInv => TokenOnlyDuringItsTurn
  <2> SUFFICES ASSUME IInv, NEW t \in Threads, NEW k \in 1..MaxTurns, IsRunTokenAuthorized(t, k)
               PROVE  turn[t].n = k
    BY DEF TokenOnlyDuringItsTurn
  <2>1. turn[t].n # 0 /\ chat[t].token = k
    BY StFields DEF IsRunTokenAuthorized, InFlight
  <2>2. turn[t].n # 0 => chat[t].token \in {0, turn[t].n}
    BY StFields DEF IInv, Good, GoodAt
  <2>3. k # 0
    BY TimerAssumption
  <2> QED
    BY <2>1, <2>2, <2>3
<1> QED
  BY <1>1, Invariance, PTL

\* A Mon has at most one conversation that is not finished (POST /mondes/:mondeId/threads).
THEOREM OneConversationTheorem == Spec => []OneConversationPerMon
<1>1. IInv => OneConversationPerMon
  BY StFields DEF IInv, Good, OneConversation, OneConversationPerMon
<1> QED
  BY <1>1, Invariance, PTL

-----------------------------------------------------------------------------
(* What the histories say of each thread, and what a step may do to it *)

\* The answer the operator saw is the one the database remembers, an idle timer never runs
\* ahead of the silence it measures, and a thread that is not finished has no verdict.
ToldAt(s, t) ==
    /\ s.reply[t] = "error" => s.chat[t].error
    /\ s.turn[t].n # 0 => s.silent[t] + s.turn[t].idle >= Idle
    /\ s.run[t].status \in {"none", "active"} => s.run[t].outcome = "unknown"

Told(s) == \A t \in Threads : ToldAt(s, t)

\* No step closes a failed conversation as completed, or ends a turn that is not silent.
StepAt(s, x, t) ==
    /\ s.run[t].status = "active" /\ x.run[t].outcome = "completed"
       /\ x.chat[t].close_reason = "user_closed_widget"
          => s.reply[t] # "error"
    /\ s.turn[t].n # 0 /\ x.turn[t].n = 0
       /\ s.chat[t].timeout = "none" /\ x.chat[t].timeout = "idle_timeout"
          => s.silent[t] = Idle

Says(x) == \A t \in Threads : ToldAt(x, t) /\ StepAt(st, x, t)

\* x differs from s at most in thread t.
Elsewhere(s, x, t) ==
    \A u \in Threads \ {t} :
        /\ x.run[u] = s.run[u] /\ x.chat[u] = s.chat[u] /\ x.turn[u] = s.turn[u]
        /\ x.reply[u] = s.reply[u] /\ x.silent[u] = s.silent[u]

\* A step of one thread.
LEMMA StepOfThread ==
    ASSUME Told(st), NEW t \in Threads, NEW x, Elsewhere(st, x, t), ToldAt(x, t), StepAt(st, x, t)
    PROVE  Says(x)
<1> SUFFICES ASSUME NEW u \in Threads, u # t
             PROVE  ToldAt(x, u) /\ StepAt(st, x, u)
  BY DEF Says
<1>1. ToldAt(st, u) /\ u \in Threads \ {t}
  BY DEF Told
<1>2. /\ x.run[u] = st.run[u] /\ x.chat[u] = st.chat[u] /\ x.turn[u] = st.turn[u]
      /\ x.reply[u] = st.reply[u] /\ x.silent[u] = st.silent[u]
  BY <1>1 DEF Elsewhere
<1> QED
  BY <1>1, <1>2 DEF ToldAt, StepAt

\* A step that moves no thread at all.
LEMMA StepOfNone ==
    ASSUME Told(st), NEW x,
           x.chat = chat, x.turn = turn, x.reply = reply, x.silent = silent,
           \A t \in Threads : x.run[t] = run[t]
    PROVE  Says(x)
BY StFields DEF Told, Says, ToldAt, StepAt

LEMMA CommitIs == ASSUME NEW x \in State, Commit(x) PROVE st' = x
BY DEF State, Commit, st

\* How a turn ends, for its thread and for the others.
TurnOver(s, x, t) ==
    /\ x \in State /\ Elsewhere(s, x, t)
    /\ x.turn[t].n = 0
    /\ x.run[t].status = s.run[t].status /\ x.run[t].outcome = s.run[t].outcome
    /\ x.chat[t].timeout = s.chat[t].timeout
    /\ x.chat[t].close_reason = s.chat[t].close_reason
    /\ x.reply[t] = "error" => x.chat[t].error

LEMMA SettleTells ==
    ASSUME NEW s \in State, NEW t \in Threads
    PROVE  LET x == Settle(s, t)
           IN  /\ x \in State /\ Elsewhere(s, x, t) /\ x.turn[t].n = 0
               /\ x.run[t] = s.run[t] /\ x.chat[t] = [s.chat[t] EXCEPT !.token = 0]
<1> DEFINE f == [s.silent EXCEPT ![t] = 0]
           c == [s EXCEPT !.turn[t] = NoTurn, !.silent[t] = 0,
                          !.chat[t] = [@ EXCEPT !.token = 0]]
           r == ReleaseSlot(c, t)
           x == Settle(s, t)
<1>1. f \in [Threads -> 0..Idle] /\ \A u \in Threads \ {t} : f[u] = s.silent[u]
  BY TimerAssumption DEF State
<1>2. c \in State /\ c.silent = f
  <2>1. [s.chat EXCEPT ![t] = [@ EXCEPT !.token = 0]] \in [Threads -> Chat]
    BY DEF State, Chat
  <2>2. [s.turn EXCEPT ![t] = NoTurn] \in [Threads -> Turn]
    BY NoTurnType DEF State
  <2> QED
    BY <1>1, <2>1, <2>2 DEF State
<1> HIDE DEF c
<1>3. r \in State /\ r.silent = f
  BY <1>2 DEF ReleaseSlot, State
<1>4. x = Dispatch(r, MonOf[t])
  BY DEF Settle, c
<1> HIDE DEF r, f
<1>5. x.silent = f
  BY <1>3, <1>4, DispatchFrame
<1>6. /\ x \in State /\ x.turn = [s.turn EXCEPT ![t] = NoTurn]
      /\ x.chat = [s.chat EXCEPT ![t] = [@ EXCEPT !.token = 0]]
      /\ x.reply = s.reply /\ \A u \in Threads : x.run[u] = s.run[u]
  BY SettleFrame
<1> HIDE DEF x
<1>7. \A u \in Threads \ {t} : x.chat[u] = s.chat[u] /\ x.turn[u] = s.turn[u]
  BY <1>6 DEF State
<1>8. x.turn[t].n = 0 /\ x.chat[t] = [s.chat[t] EXCEPT !.token = 0]
  BY <1>6 DEF State, NoTurn
<1>9. Elsewhere(s, x, t)
  BY <1>1, <1>5, <1>6, <1>7 DEF Elsewhere
<1> QED
  BY <1>6, <1>8, <1>9 DEF x

\* What the message route writes when it answers.
LEMMA ReplyTells ==
    ASSUME NEW s \in State, NEW t \in Threads, NEW what \in Answers
    PROVE  LET x == Replied(s, t, what)
           IN  /\ x \in State /\ Elsewhere(s, x, t) /\ x.turn = s.turn /\ x.chat = s.chat
               /\ x.silent = s.silent
               /\ x.run[t].status = s.run[t].status /\ x.run[t].outcome = s.run[t].outcome
               /\ x.reply[t] = IF what = "refused" THEN s.reply[t] ELSE what
<1> DEFINE row == [s.run[t] EXCEPT !.runtime_state = "waiting_for_user",
                                   !.outcome_state = "unknown"]
           f == [s.run EXCEPT ![t] = row]
           rep == IF what = "refused" THEN s.reply[t] ELSE what
           g == [s.reply EXCEPT ![t] = rep]
           x == Replied(s, t, what)
<1>1. x \in State
  BY RepliedFrame
<1>2. t \in Runs /\ s.run[t] \in ThreadRow /\ s.run \in [Runs -> ThreadRow]
      /\ \A u \in Threads : u \in Runs
  BY ThreadIsRun DEF State
<1>3. row.status = s.run[t].status /\ row.outcome = s.run[t].outcome
  BY <1>2 DEF ThreadRow
<1>4. x = [s EXCEPT !.run = f, !.reply = g]
  BY DEF Replied, State
<1> HIDE DEF x
<1>5. /\ x.run = f /\ x.reply = g /\ x.turn = s.turn /\ x.chat = s.chat /\ x.silent = s.silent
  BY <1>4 DEF State
<1>6. f[t] = row /\ g[t] = rep /\ \A u \in Threads \ {t} : f[u] = s.run[u] /\ g[u] = s.reply[u]
  BY <1>2 DEF State
<1> HIDE DEF f, g, row
<1>7. Elsewhere(s, x, t)
  BY <1>5, <1>6 DEF Elsewhere
<1> QED
  BY <1>1, <1>3, <1>5, <1>6, <1>7 DEF x

\* However a turn ends.
LEMMA TurnOverTells ==
    ASSUME NEW s \in State, NEW t \in Threads
    PROVE  TurnOver(s, TurnFailed(s, t), t) /\ TurnOver(s, TurnFinished(s, t), t)
<1>1. ASSUME NEW e \in BOOLEAN, NEW what \in {"mon", "error"}, what = "error" => e
      PROVE  TurnOver(s, Replied([Settle(s, t) EXCEPT !.chat[t] = [@ EXCEPT !.error = e]], t, what), t)
  <2> DEFINE y == Settle(s, t)
             c == [y.chat[t] EXCEPT !.error = e]
             f == [y.chat EXCEPT ![t] = c]
             z == [y EXCEPT !.chat = f]
             x == Replied(z, t, what)
  <2>1. [y EXCEPT !.chat[t] = [@ EXCEPT !.error = e]] = z
    BY SettleTells DEF State
  <2>2. /\ y \in State /\ Elsewhere(s, y, t) /\ y.turn[t].n = 0
        /\ y.run[t] = s.run[t] /\ y.chat[t] = [s.chat[t] EXCEPT !.token = 0]
    BY SettleTells
  <2> HIDE DEF y
  <2>3. s.chat[t] \in Chat /\ y.chat[t] \in Chat
    BY <2>2 DEF State
  <2>4. /\ c \in Chat /\ c.error = e /\ c.timeout = s.chat[t].timeout
        /\ c.close_reason = s.chat[t].close_reason
    BY <2>2, <2>3 DEF Chat
  <2> HIDE DEF c
  <2>5. f \in [Threads -> Chat] /\ f[t] = c /\ \A u \in Threads \ {t} : f[u] = y.chat[u]
    BY <2>2, <2>4 DEF State
  <2> HIDE DEF f
  <2>6. /\ z \in State /\ z.chat = f /\ z.turn = y.turn /\ z.run = y.run /\ z.reply = y.reply
        /\ z.silent = y.silent
    BY <2>2, <2>5 DEF State
  <2> HIDE DEF z
  <2>7. what \in Answers /\ what # "refused"
    BY DEF Answers
  <2>8. /\ x \in State /\ Elsewhere(z, x, t) /\ x.turn = z.turn /\ x.chat = z.chat
        /\ x.run[t].status = z.run[t].status /\ x.run[t].outcome = z.run[t].outcome
        /\ x.reply[t] = what
    BY <2>6, <2>7, ReplyTells
  <2> HIDE DEF x
  <2>9. Elsewhere(s, x, t)
    BY <2>2, <2>5, <2>6, <2>8 DEF Elsewhere
  <2>10. TurnOver(s, x, t)
    BY <1>1, <2>2, <2>4, <2>5, <2>6, <2>8, <2>9 DEF TurnOver
  <2> QED
    BY <2>1, <2>10 DEF x, y
<1>2. TurnOver(s, TurnFailed(s, t), t)
  BY <1>1 DEF TurnFailed
<1>3. TurnOver(s, TurnFinished(s, t), t)
  BY <1>1 DEF TurnFinished
<1> QED
  BY <1>2, <1>3

\* A turn that ends in a state like st, except for its thread, tells the truth.
LEMMA OverSays ==
    ASSUME Told(st), NEW t \in Threads, NEW s \in State, Elsewhere(st, s, t), NEW x, TurnOver(s, x, t),
           s.run[t].status = run[t].status, s.run[t].outcome = run[t].outcome,
           turn[t].n # 0 /\ chat[t].timeout = "none" /\ s.chat[t].timeout = "idle_timeout"
               => silent[t] = Idle
    PROVE  Says(x)
<1>1. Elsewhere(st, x, t)
  BY DEF Elsewhere, TurnOver
<1>2. ToldAt(st, t)
  BY DEF Told
<1>3. ToldAt(x, t)
  BY <1>2, StFields DEF TurnOver, ToldAt
<1>4. StepAt(st, x, t)
  BY <1>2, StFields DEF TurnOver, ToldAt, StepAt
<1> QED
  BY <1>1, <1>3, <1>4, StepOfThread

-----------------------------------------------------------------------------
(* Actions and the histories *)

\* The row of a thread changes, but not its verdict, unless it is finished.
LEMMA RowSays ==
    ASSUME Good(st), Told(st), NEW t \in Threads, NEW row \in ThreadRow, NEW x,
           x = [st EXCEPT !.run = [run EXCEPT ![t] = row]],
           row.status \in {"none", "active"} => row.outcome = "unknown",
           run[t].status = "active" => row.outcome # "completed"
    PROVE  Says(x)
<1> DEFINE f == [run EXCEPT ![t] = row]
<1>1. f[t] = row /\ \A u \in Threads \ {t} : f[u] = run[u]
  BY ThreadIsRun, StFields DEF Good, State
<1>2. /\ x.run = f /\ x.chat = chat /\ x.turn = turn /\ x.reply = reply /\ x.silent = silent
  BY StFields DEF Good, State
<1> HIDE DEF f
<1>3. Elsewhere(st, x, t)
  BY <1>1, <1>2, StFields DEF Elsewhere
<1>4. ToldAt(st, t)
  BY DEF Told
<1>5. ToldAt(x, t) /\ StepAt(st, x, t)
  BY <1>1, <1>2, <1>4, StFields DEF ToldAt, StepAt
<1> QED
  BY <1>3, <1>5, StepOfThread

LEMMA OpenThreadSays ==
    ASSUME Good(st), Told(st), NEW t \in Threads, OpenThread(t)
    PROVE  \E x \in State : Commit(x) /\ Says(x)
<1> DEFINE row == [run[t] EXCEPT !.status = "active", !.process_status = "running",
                                 !.runtime_state = "idle_open"]
           x == [st EXCEPT !.run = [run EXCEPT ![t] = row]]
<1>1. run[t] \in ThreadRow /\ t \in Runs /\ run \in [Runs -> ThreadRow] /\ run[t].status = "none"
  BY ThreadIsRun, StFields DEF Good, State, OpenThread
<1>2. ToldAt(st, t)
  BY DEF Told
<1>3. row \in ThreadRow /\ row.outcome = "unknown"
  BY <1>1, <1>2, StFields DEF ToldAt, ThreadRow, RunStatus, ProcessStatus, ThreadRuntimeState
<1>4. Commit(x)
  BY StFields DEF OpenThread
<1> HIDE DEF row
<1>5. [run EXCEPT ![t] = row] \in [Runs -> ThreadRow]
  BY <1>1, <1>3
<1>6. x \in State
  BY <1>5 DEF Good, State
<1>7. Says(x)
  BY <1>1, <1>3, RowSays
<1> QED
  BY <1>4, <1>6, <1>7

LEMMA ReviewSays ==
    ASSUME Good(st), Told(st), NEW t \in Threads, NEW outcome \in Outcomes, Review(t, outcome)
    PROVE  \E x \in State : Commit(x) /\ Says(x)
<1> DEFINE row == [run[t] EXCEPT !.outcome = outcome, !.outcome_state = ReviewedState(outcome)]
           x == [st EXCEPT !.run = [run EXCEPT ![t] = row]]
<1>1. run[t] \in ThreadRow /\ t \in Runs /\ run \in [Runs -> ThreadRow]
      /\ run[t].status = "finished"
  BY ThreadIsRun, StFields DEF Good, State, Review
<1>2. row \in ThreadRow /\ row.status = "finished"
  BY <1>1, RequestAssumption DEF ReviewedState, ThreadRow, RunOutcome, OutcomeState
<1>3. Commit(x)
  BY StFields DEF Review
<1> HIDE DEF row
<1>4. [run EXCEPT ![t] = row] \in [Runs -> ThreadRow]
  BY <1>1, <1>2
<1>5. x \in State
  BY <1>4 DEF Good, State
<1>6. Says(x)
  BY <1>1, <1>2, RowSays
<1> QED
  BY <1>3, <1>5, <1>6

\* A thread is closed: the row and what the database says of the conversation change together.
LEMMA ClosedSays ==
    ASSUME Good(st), Told(st), NEW t \in Threads, NEW row \in ThreadRow, NEW c \in Chat,
           NEW x \in State, Elsewhere(st, x, t), x.turn = turn, x.reply = reply, x.silent = silent,
           x.run[t] = row, x.chat[t] = c,
           row.status = "finished", c.error = chat[t].error, c.timeout = chat[t].timeout,
           run[t].status = "active" /\ row.outcome = "completed"
               /\ c.close_reason = "user_closed_widget" => ~c.error
    PROVE  Says(x)
<1>1. ToldAt(st, t)
  BY DEF Told
<1>2. ToldAt(x, t) /\ StepAt(st, x, t)
  BY <1>1, StFields DEF ToldAt, StepAt
<1> QED
  BY <1>2, StepOfThread

LEMMA CloseThreadSays ==
    ASSUME Good(st), Told(st), NEW t \in Threads, NEW reason \in Reasons, CloseThread(t, reason)
    PROVE  \E x \in State : Commit(x) /\ Says(x)
<1> DEFINE row == CloseHitlThreadLifecycle(run[t], reason, HasUnresolvedError(t))
           c == [chat[t] EXCEPT !.close_reason = reason]
           f == [run EXCEPT ![t] = row]
           g == [chat EXCEPT ![t] = c]
           x == [st EXCEPT !.run = f, !.chat = g]
<1>1. run[t] \in ThreadRow /\ t \in Runs /\ run \in [Runs -> ThreadRow]
      /\ chat \in [Threads -> Chat] /\ chat[t] \in Chat
  BY ThreadIsRun, StFields DEF Good, State
<1>2. row \in ThreadRow /\ row.status = "finished"
  BY CloseTypes DEF CloseHitlThreadLifecycle
<1>3. c \in Chat /\ c.error = chat[t].error /\ c.timeout = chat[t].timeout /\ c.close_reason = reason
  BY <1>1, RequestAssumption DEF Chat, CloseReason
<1>4. row.outcome = "completed" /\ reason = "user_closed_widget" => ~chat[t].error
  BY DEF CloseHitlThreadLifecycle, HasUnresolvedError
<1>5. Commit(x)
  BY <1>1, StFields DEF CloseThread
<1> HIDE DEF row, c
<1>6. /\ f \in [Runs -> ThreadRow] /\ f[t] = row /\ \A u \in Threads \ {t} : f[u] = run[u]
      /\ g \in [Threads -> Chat] /\ g[t] = c /\ \A u \in Threads \ {t} : g[u] = chat[u]
  BY <1>1, <1>2, <1>3, ThreadIsRun
<1> HIDE DEF f, g
<1>7. /\ x \in State /\ x.run = f /\ x.chat = g /\ x.turn = turn /\ x.reply = reply
      /\ x.silent = silent
  BY <1>6, StFields DEF Good, State
<1> HIDE DEF x
<1>8. Elsewhere(st, x, t)
  BY <1>6, <1>7, StFields DEF Elsewhere
<1>9. Says(x)
  BY <1>2, <1>3, <1>4, <1>6, <1>7, <1>8, ClosedSays
<1> QED
  BY <1>5, <1>7, <1>9

\* The verdict an operator gives on a finished run.
LEMMA VerdictTells ==
    ASSUME NEW s \in State, NEW t \in Threads, s.run[t].status = "finished",
           NEW outcome \in Outcomes
    PROVE  LET x == [s EXCEPT !.run[t] = [@ EXCEPT !.outcome = outcome,
                                                   !.outcome_state = ReviewedState(outcome)]]
           IN  /\ x \in State /\ x.chat = s.chat /\ x.turn = s.turn /\ x.reply = s.reply
               /\ x.silent = s.silent /\ Elsewhere(s, x, t)
               /\ x.run[t] \in ThreadRow /\ x.run[t].status = "finished"
<1> DEFINE row == [s.run[t] EXCEPT !.outcome = outcome, !.outcome_state = ReviewedState(outcome)]
           f == [s.run EXCEPT ![t] = row]
           x == [s EXCEPT !.run = f]
<1>1. t \in Runs /\ s.run[t] \in ThreadRow /\ s.run \in [Runs -> ThreadRow]
  BY ThreadIsRun DEF State
<1>2. ReviewedState(outcome) \in OutcomeState /\ outcome \in RunOutcome
  BY RequestAssumption DEF ReviewedState, OutcomeState, RunOutcome
<1>3. row \in ThreadRow /\ row.status = "finished"
  BY <1>1, <1>2 DEF ThreadRow
<1>4. [s EXCEPT !.run[t] = [@ EXCEPT !.outcome = outcome,
                                     !.outcome_state = ReviewedState(outcome)]] = x
  BY <1>1 DEF State
<1> HIDE DEF row
<1>5. f \in [Runs -> ThreadRow] /\ f[t] = row /\ \A u \in Threads \ {t} : f[u] = s.run[u]
  BY <1>1, <1>3, ThreadIsRun
<1> HIDE DEF f
<1>6. /\ x \in State /\ x.run = f /\ x.chat = s.chat /\ x.turn = s.turn /\ x.reply = s.reply
      /\ x.silent = s.silent
  BY <1>5 DEF State
<1> HIDE DEF x
<1>7. Elsewhere(s, x, t)
  BY <1>5, <1>6 DEF Elsewhere
<1> QED
  BY <1>3, <1>4, <1>5, <1>6, <1>7

LEMMA CloseRunSays ==
    ASSUME Good(st), Told(st), NEW t \in Threads, NEW outcome \in Outcomes, CloseRun(t, outcome)
    PROVE  \E x \in State : Commit(x) /\ Says(x)
<1> DEFINE exit == IF outcome = "failed" THEN "nonzero" ELSE "clean"
           stopped == outcome = "stopped"
           row == IF stopped THEN FinishRunStopped(run[t]) ELSE FinishRunFromExit(run[t], exit)
           c == IF stopped THEN [chat[t] EXCEPT !.token = 0, !.close_reason = "system_cancelled"]
                ELSE [chat[t] EXCEPT !.close_reason = "process_exited"]
           f == [run EXCEPT ![t] = row]
           g == [chat EXCEPT ![t] = c]
           free == IF stopped THEN slots \ {t} ELSE slots
           ended == [st EXCEPT !.slots = free, !.run = f, !.chat = g]
           closed == IF run[t].status = "finished" THEN st
                     ELSE IF outcome = "stopped" THEN StopRun(st, t)
                     ELSE [st EXCEPT !.run[t] = FinishRunFromExit(@, exit),
                                     !.chat[t] = [@ EXCEPT !.close_reason = "process_exited"]]
           x == [closed EXCEPT !.run[t] = [@ EXCEPT !.outcome = outcome,
                                                    !.outcome_state = ReviewedState(outcome)]]
<1>1. run[t] \in ThreadRow /\ t \in Runs /\ run \in [Runs -> ThreadRow] /\ st \in State
      /\ chat \in [Threads -> Chat] /\ chat[t] \in Chat
  BY ThreadIsRun, StFields DEF Good, State
<1>2. Commit(x)
  BY DEF CloseRun
<1> HIDE DEF x
<1>3. CASE run[t].status = "finished"
  <2>1. closed = st
    BY <1>3
  <2>2. /\ x \in State /\ x.chat = chat /\ x.turn = turn /\ x.reply = reply
        /\ x.silent = silent /\ Elsewhere(st, x, t)
        /\ x.run[t] \in ThreadRow /\ x.run[t].status = "finished"
    <3> DEFINE y == [st EXCEPT !.run[t] = [@ EXCEPT !.outcome = outcome,
                                                    !.outcome_state = ReviewedState(outcome)]]
    <3>1. x = y
      BY <2>1 DEF x
    <3>2. st.run[t].status = "finished"
      BY <1>3, StFields
    <3>3. /\ y \in State /\ y.chat = st.chat /\ y.turn = st.turn /\ y.reply = st.reply
          /\ y.silent = st.silent /\ Elsewhere(st, y, t)
          /\ y.run[t] \in ThreadRow /\ y.run[t].status = "finished"
      BY <1>1, <3>2, VerdictTells
    <3> HIDE DEF y
    <3> QED
      BY <3>1, <3>3, StFields
  <2>3. Says(x)
    BY <1>1, <1>3, <2>2, ClosedSays, StFields
  <2> QED
    BY <1>2, <2>2, <2>3
<1>4. CASE run[t].status # "finished"
  <2>1. row \in ThreadRow /\ row.status = "finished"
    BY <1>1, RowTypes DEF FinishRunStopped, FinishRunFromExit, ThreadRow
  <2>2. /\ c \in Chat /\ c.error = chat[t].error /\ c.timeout = chat[t].timeout
        /\ c.close_reason # "user_closed_widget"
    BY <1>1 DEF Chat, CloseReason
  <2>3. closed = ended
    BY <1>1, <1>4, StFields DEF StopRun, ReleaseSlot, State
  <2> HIDE DEF row, c, closed
  <2>4. /\ f \in [Runs -> ThreadRow] /\ f[t] = row /\ \A u \in Threads \ {t} : f[u] = run[u]
        /\ g \in [Threads -> Chat] /\ g[t] = c /\ \A u \in Threads \ {t} : g[u] = chat[u]
        /\ free \subseteq Runs
    BY <1>1, <2>1, <2>2, ThreadIsRun, StFields DEF State
  <2> HIDE DEF f, g, free
  <2>5. /\ ended \in State /\ ended.run = f /\ ended.chat = g /\ ended.turn = turn
        /\ ended.reply = reply /\ ended.silent = silent
    BY <1>1, <2>4, StFields DEF State
  <2> HIDE DEF ended
  <2>6. Elsewhere(st, closed, t) /\ closed \in State /\ closed.run[t].status = "finished"
    BY <2>1, <2>3, <2>4, <2>5, StFields DEF Elsewhere
  <2>7. /\ x \in State /\ x.chat = closed.chat /\ x.turn = closed.turn /\ x.reply = closed.reply
        /\ x.silent = closed.silent /\ Elsewhere(closed, x, t)
        /\ x.run[t] \in ThreadRow /\ x.run[t].status = "finished"
    BY <2>6, VerdictTells DEF x
  <2>8. Elsewhere(st, x, t)
    BY <2>6, <2>7 DEF Elsewhere
  <2>9. Says(x)
    BY <2>2, <2>3, <2>4, <2>5, <2>7, <2>8, ClosedSays
  <2> QED
    BY <1>2, <2>7, <2>9
<1> QED
  BY <1>3, <1>4

\* Activity restarts the idle timer of a turn in flight and writes nothing else.
LEMMA NoteTells ==
    ASSUME NEW s \in State, NEW t \in Threads
    PROVE  LET x == NoteRunActivity(s, t)
           IN  /\ x \in State /\ x.run = s.run /\ x.chat = s.chat /\ x.reply = s.reply
               /\ x.silent = s.silent /\ x.turn[t].n = s.turn[t].n
               /\ s.turn[t].n # 0 => x.turn[t].idle = Idle
               /\ Elsewhere(s, x, t)
<1> DEFINE x == NoteRunActivity(s, t)
<1>1. CASE ~InFlight(s, t)
  BY <1>1 DEF NoteRunActivity, Elsewhere, InFlight
<1>2. CASE InFlight(s, t)
  <2> DEFINE e == [s.turn[t] EXCEPT !.idle = Idle]
             f == [s.turn EXCEPT ![t] = e]
  <2>1. x = [s EXCEPT !.turn = f]
    BY <1>2 DEF NoteRunActivity, State
  <2>2. e \in Turn /\ e.n = s.turn[t].n /\ e.idle = Idle
    BY TimerAssumption DEF State, Turn
  <2> HIDE DEF e
  <2>3. f \in [Threads -> Turn] /\ f[t] = e /\ \A u \in Threads \ {t} : f[u] = s.turn[u]
    BY <2>2 DEF State
  <2> HIDE DEF f, x
  <2>4. /\ x \in State /\ x.run = s.run /\ x.chat = s.chat /\ x.reply = s.reply
        /\ x.silent = s.silent /\ x.turn = f
    BY <2>1, <2>3 DEF State
  <2>5. Elsewhere(s, x, t)
    BY <2>3, <2>4 DEF Elsewhere
  <2> QED
    BY <2>2, <2>3, <2>4, <2>5 DEF x
<1> QED
  BY <1>1, <1>2

\* Activity, and the silence of the turn is over if it was its own.
LEMMA ActivitySays ==
    ASSUME Good(st), Told(st), NEW t \in Threads, NEW k \in 0..Idle, NEW x,
           k = silent[t] \/ turn[t].n # 0,
           x = [NoteRunActivity(st, t) EXCEPT !.silent[t] = k]
    PROVE  x \in State /\ Says(x)
<1> DEFINE y == NoteRunActivity(st, t)
           f == [silent EXCEPT ![t] = k]
<1>1. /\ y \in State /\ y.run = run /\ y.chat = chat /\ y.reply = reply /\ y.silent = silent
      /\ y.turn[t].n = turn[t].n /\ (turn[t].n # 0 => y.turn[t].idle = Idle)
      /\ Elsewhere(st, y, t)
  BY NoteTells, StFields DEF Good
<1>2. x = [y EXCEPT !.silent = f]
  BY <1>1 DEF State
<1> HIDE DEF y
<1>3. f \in [Threads -> 0..Idle] /\ f[t] = k /\ \A u \in Threads \ {t} : f[u] = silent[u]
  BY StFields DEF Good, State
<1> HIDE DEF f
<1>4. /\ x \in State /\ x.run = run /\ x.chat = chat /\ x.reply = reply /\ x.silent = f
      /\ x.turn = y.turn
  BY <1>1, <1>2, <1>3 DEF State
<1>5. Elsewhere(st, x, t)
  BY <1>1, <1>3, <1>4, StFields DEF Elsewhere
<1>6. ToldAt(st, t)
  BY DEF Told
<1>7. ToldAt(x, t)
  <2>1. turn[t].n # 0 => k + Idle >= Idle
    BY TimerAssumption
  <2> QED
    BY <1>1, <1>3, <1>4, <1>6, <2>1, StFields DEF ToldAt
<1>8. StepAt(st, x, t)
  BY <1>1, <1>4, <1>6, StFields DEF ToldAt, StepAt
<1> QED
  BY <1>4, <1>5, <1>7, <1>8, StepOfThread

LEMMA ToolCallSays ==
    ASSUME Good(st), Told(st), NEW t \in Threads, NEW k, ToolCall(t, k)
    PROVE  \E x \in State : Commit(x) /\ Says(x)
<1>1. turn[t].n # 0
  BY StFields DEF ToolCall, IsRunTokenAuthorized, InFlight
<1>2. 0 \in 0..Idle
  BY TimerAssumption
<1>3. Commit([NoteRunActivity(st, t) EXCEPT !.silent[t] = 0])
  BY DEF ToolCall
<1> QED
  BY <1>1, <1>2, <1>3, ActivitySays

LEMMA ProcessOutputSays ==
    ASSUME Good(st), Told(st), NEW p \in procs, ProcessOutput(p)
    PROVE  \E x \in State : Commit(x) /\ Says(x)
<1> DEFINE t == p.thread
           y == NoteRunActivity(st, t)
           k == IF IsCurrent(p) THEN 0 ELSE silent[t]
           x == [y EXCEPT !.silent[t] = k]
<1>1. t \in Threads /\ GoodAt(st, t) /\ silent[t] \in 0..Idle /\ p \in ProcsOf(st, t)
  BY StFields DEF Good, State, Proc, ProcsOf
<1>2. k \in 0..Idle
  BY <1>1, TimerAssumption
<1>3. k = silent[t] \/ turn[t].n # 0
  <2>1. p.n \in 1..chat[t].turns /\ chat[t].turns \in Nat
    BY <1>1, StFields DEF GoodAt, Good, State, Chat
  <2>2. p.n # 0
    BY <2>1
  <2> QED
    BY <2>2 DEF IsCurrent
<1>4. y.silent = silent /\ y \in State
  BY <1>1, NoteTells, StFields DEF Good
<1>5. [y EXCEPT !.silent[t] = IF IsCurrent(p) THEN 0 ELSE @] = x
  BY <1>4 DEF State
<1>6. Commit(x)
  BY <1>5 DEF ProcessOutput
<1> HIDE DEF k
<1>7. x \in State /\ Says(x)
  <2> HIDE DEF x
  <2>1. x = [NoteRunActivity(st, t) EXCEPT !.silent[t] = k]
    BY DEF x
  <2> QED
    BY <1>1, <1>2, <1>3, <2>1, ActivitySays
<1> QED
  BY <1>6, <1>7

LEMMA ProcessExitSays ==
    ASSUME Good(st), Told(st), NEW p \in procs, NEW clean \in BOOLEAN, ProcessExit(p, clean)
    PROVE  \E x \in State : Commit(x) /\ Says(x)
<1> DEFINE t == p.thread
           e == [st EXCEPT !.procs = procs \ {p}]
           gone == NoteRunActivity(e, t)
           x == IF ~IsCurrent(p) THEN gone
                ELSE IF clean THEN TurnFinished(gone, t) ELSE TurnFailed(gone, t)
<1>1. st \in State /\ t \in Threads
  BY StFields DEF Good, State, Proc
<1>2. Commit(x)
  BY StFields DEF ProcessExit
<1>3. /\ e \in State /\ e.run = run /\ e.chat = chat /\ e.turn = turn /\ e.reply = reply
      /\ e.silent = silent
  BY <1>1, StFields DEF State
<1> HIDE DEF e
<1>4. /\ gone \in State /\ gone.run = run /\ gone.chat = chat /\ gone.reply = reply
      /\ gone.silent = silent /\ gone.turn[t].n = turn[t].n
      /\ (turn[t].n # 0 => gone.turn[t].idle = Idle)
      /\ Elsewhere(e, gone, t)
  BY <1>1, <1>3, NoteTells
<1>5. Elsewhere(st, gone, t)
  BY <1>3, <1>4, StFields DEF Elsewhere
<1> HIDE DEF gone
<1>6. ToldAt(st, t)
  BY <1>1 DEF Told
<1>7. CASE ~IsCurrent(p)
  <2>1. x = gone
    BY <1>7
  <2>2. silent[t] \in 0..Idle
    BY <1>1, StFields DEF State
  <2>3. ToldAt(gone, t)
    <3>1. silent[t] + Idle >= Idle
      BY <2>2, TimerAssumption
    <3> QED
      BY <1>4, <1>6, <3>1, StFields DEF ToldAt
  <2>4. StepAt(st, gone, t)
    BY <1>4, <1>6, StFields DEF ToldAt, StepAt
  <2>5. Says(gone)
    BY <1>1, <1>5, <2>3, <2>4, StepOfThread
  <2> QED
    BY <1>2, <1>4, <2>1, <2>5
<1>8. CASE IsCurrent(p)
  <2>1. TurnOver(gone, TurnFailed(gone, t), t) /\ TurnOver(gone, TurnFinished(gone, t), t)
    BY <1>1, <1>4, TurnOverTells
  <2>2. TurnOver(gone, x, t)
    BY <1>8, <2>1
  <2> HIDE DEF x
  <2>3. Says(x)
    BY <1>1, <1>4, <1>5, <2>2, OverSays
  <2> QED
    BY <1>2, <2>2, <2>3 DEF TurnOver
<1> QED
  BY <1>7, <1>8

LEMMA TimeoutSays ==
    ASSUME Good(st), Told(st), NEW t \in Threads, NEW reason \in {"idle_timeout", "hard_timeout"},
           reason = "idle_timeout" => turn[t].idle = 0, turn[t].n # 0
    PROVE  LET x == TimeoutHitlTurn(st, t, reason)
           IN  x \in State /\ Says(x)
<1> DEFINE P == SignalTo(st, t, turn[t].n, "SIGTERM")
           c == [chat[t] EXCEPT !.timeout = reason]
           f == [chat EXCEPT ![t] = c]
           e == [st EXCEPT !.chat = f, !.procs = P]
           x == TurnFailed(e, t)
<1>1. st \in State /\ chat \in [Threads -> Chat] /\ chat[t] \in Chat
      /\ silent[t] \in 0..Idle /\ turn[t].idle \in 0..Idle
  BY StFields DEF Good, State, Turn
<1>2. P \subseteq Proc
  BY SignalFrame
<1>3. TimeoutHitlTurn(st, t, reason) = x
  BY <1>1, StFields DEF TimeoutHitlTurn
<1>4. c \in Chat /\ c.error = chat[t].error /\ c.timeout = reason
  BY <1>1 DEF Chat
<1> HIDE DEF P, c
<1>5. f \in [Threads -> Chat] /\ f[t] = c /\ \A u \in Threads \ {t} : f[u] = chat[u]
  BY <1>1, <1>4
<1> HIDE DEF f
<1>6. /\ e \in State /\ e.run = run /\ e.chat = f /\ e.turn = turn /\ e.reply = reply
      /\ e.silent = silent
  BY <1>1, <1>2, <1>5, StFields DEF State
<1> HIDE DEF e
<1>7. Elsewhere(st, e, t)
  BY <1>5, <1>6, StFields DEF Elsewhere
<1>8. TurnOver(e, x, t)
  BY <1>6, TurnOverTells
<1>9. e.chat[t].timeout = "idle_timeout" => silent[t] = Idle
  <2>1. ToldAt(st, t)
    BY DEF Told
  <2>2. turn[t].idle = 0 => silent[t] = Idle
    BY <1>1, <2>1, TimerAssumption, StFields DEF ToldAt
  <2> QED
    BY <1>4, <1>5, <1>6, <2>2
<1> HIDE DEF x
<1>10. Says(x)
  BY <1>6, <1>7, <1>8, <1>9, OverSays
<1> QED
  BY <1>3, <1>8, <1>10 DEF TurnOver

LEMMA KillAfterGraceSays ==
    ASSUME Good(st), Told(st), NEW p \in procs, KillAfterGrace(p)
    PROVE  \E x \in State : Commit(x) /\ Says(x)
<1> DEFINE P == SignalTo(st, p.thread, p.n, "SIGKILL")
           x == [st EXCEPT !.procs = P]
<1>1. st \in State /\ p.thread \in Threads
  BY StFields DEF Good, State, Proc
<1>2. P \subseteq Proc
  BY <1>1, SignalFrame
<1>3. Commit(x)
  BY DEF KillAfterGrace
<1> HIDE DEF P
<1>4. /\ x \in State /\ x.run = run /\ x.chat = chat /\ x.turn = turn /\ x.reply = reply
      /\ x.silent = silent
  BY <1>1, <1>2, StFields DEF State
<1> HIDE DEF x
<1>5. Says(x)
  BY <1>4, StepOfNone
<1> QED
  BY <1>3, <1>4, <1>5

\* What replaces the row of a one-shot run and dispatches again.
LEMMA OneShotSays ==
    ASSUME Told(st), NEW y \in State, y.chat = chat, y.turn = turn, y.reply = reply,
           y.silent = silent, \A t \in Threads : y.run[t] = run[t], NEW m
    PROVE  Dispatch(y, m) \in State /\ Says(Dispatch(y, m))
<1> DEFINE x == Dispatch(y, m)
<1>1. /\ x \in State /\ x.chat = chat /\ x.turn = turn /\ x.reply = reply /\ x.silent = silent
      /\ \A t \in Threads : x.run[t] = run[t]
  BY DispatchFrame
<1> HIDE DEF x
<1>2. Says(x)
  BY <1>1, StepOfNone
<1> QED
  BY <1>1, <1>2 DEF x

LEMMA SubmitSays ==
    ASSUME Good(st), Told(st), NEW r \in OneShots, Submit(r)
    PROVE  \E x \in State : Commit(x) /\ Says(x)
<1> DEFINE f == [run EXCEPT ![r] = QueuedRow]
           y == [st EXCEPT !.run = f]
<1>1. r \notin Threads /\ run \in [Runs -> ThreadRow] /\ st \in State
  BY StFields DEF OneShots, Good, State
<1>2. QueuedRow \in ThreadRow
  BY DEF QueuedRow, NoRow, ThreadRow, RunStatus, ProcessStatus, RunOutcome, ThreadRuntimeState,
         RuntimeState, OutcomeState
<1>3. f \in [Runs -> ThreadRow] /\ \A t \in Threads : f[t] = run[t]
  BY <1>1, <1>2, ThreadIsRun
<1>4. Commit(Dispatch(y, MonOf[r]))
  BY StFields DEF Submit
<1> HIDE DEF f
<1>5. /\ y \in State /\ y.run = f /\ y.chat = chat /\ y.turn = turn /\ y.reply = reply
      /\ y.silent = silent
  BY <1>1, <1>3, StFields DEF State
<1> HIDE DEF y
<1>6. Dispatch(y, MonOf[r]) \in State /\ Says(Dispatch(y, MonOf[r]))
  BY <1>3, <1>5, OneShotSays
<1> QED
  BY <1>4, <1>6

LEMMA OneShotExitSays ==
    ASSUME Good(st), Told(st), NEW r \in OneShots, OneShotExit(r)
    PROVE  \E x \in State : Commit(x) /\ Says(x)
<1> DEFINE row == FinishRunFromExit(run[r], "clean")
           f == [run EXCEPT ![r] = row]
           e == [st EXCEPT !.run = f]
           y == ReleaseSlot(e, r)
<1>1. r \notin Threads /\ r \in Runs /\ run \in [Runs -> ThreadRow] /\ st \in State
  BY StFields DEF OneShots, Good, State
<1>2. row \in ThreadRow
  BY <1>1, RowTypes
<1>3. f \in [Runs -> ThreadRow] /\ \A t \in Threads : f[t] = run[t]
  BY <1>1, <1>2, ThreadIsRun
<1>4. Commit(Dispatch(y, MonOf[r]))
  BY StFields DEF OneShotExit
<1> HIDE DEF f
<1>5. /\ e \in State /\ e.run = f /\ e.chat = chat /\ e.turn = turn /\ e.reply = reply
      /\ e.silent = silent
  BY <1>1, <1>3, StFields DEF State
<1> HIDE DEF e
<1>6. /\ y \in State /\ y.run = f /\ y.chat = chat /\ y.turn = turn /\ y.reply = reply
      /\ y.silent = silent
  BY <1>5 DEF ReleaseSlot, State
<1> HIDE DEF y
<1>7. Dispatch(y, MonOf[r]) \in State /\ Says(Dispatch(y, MonOf[r]))
  BY <1>3, <1>6, OneShotSays
<1> QED
  BY <1>4, <1>7

\* A crash ends every turn, by no timer and with no answer.
LEMMA CrashSays ==
    ASSUME Good(st), Told(st), CrashAndRestart
    PROVE  \E x \in State : Commit(x) /\ Says(x)
<1> DEFINE none == [st EXCEPT !.turn = [t \in Threads |-> NoTurn],
                              !.silent = [t \in Threads |-> 0], !.procs = {}]
           f == [r \in Runs |-> IF r \in OneShots /\ none.run[r].status \in ProcessBacked
                                THEN FinishRunInterrupted(none.run[r], "lost") ELSE none.run[r]]
           lost == [none EXCEPT !.run = f]
           back == ReleaseOrphans(lost)
           x == StartAll(back, UNION {Dispatched(back, m) : m \in Mons})
<1>1. st \in State /\ \A t \in Threads : t \in Runs /\ t \notin OneShots
  BY ThreadIsRun DEF Good, OneShots
<1>2. /\ [t \in Threads |-> NoTurn] \in [Threads -> Turn]
      /\ [t \in Threads |-> 0] \in [Threads -> 0..Idle]
  BY NoTurnType, TimerAssumption
<1>3. /\ none \in State /\ none.run = run /\ none.chat = chat /\ none.reply = reply
      /\ none.turn = [t \in Threads |-> NoTurn]
  BY <1>1, <1>2, StFields DEF State
<1>4. Commit(x)
  BY DEF CrashAndRestart, MarkLostOnStartup
<1> HIDE DEF none
<1>5. f \in [Runs -> ThreadRow] /\ \A t \in Threads : f[t] = run[t]
  <2>1. \A r \in Runs : none.run[r] \in ThreadRow
                        /\ FinishRunInterrupted(none.run[r], "lost") \in ThreadRow
    BY <1>3, RowTypes DEF State
  <2> QED
    BY <1>1, <1>3, <2>1
<1> HIDE DEF f
<1>6. lost \in State /\ lost.run = f /\ lost.chat = chat /\ lost.reply = reply /\ lost.turn = none.turn
  BY <1>3, <1>5 DEF State
<1> HIDE DEF lost
<1>7. /\ back \in State /\ back.run = f /\ back.chat = chat /\ back.reply = reply
      /\ back.turn = none.turn
  BY <1>6 DEF ReleaseOrphans, State
<1> HIDE DEF back
<1>8. UNION {Dispatched(back, m) : m \in Mons} \in SUBSET OneShots
  BY DEF Dispatched
<1>9. /\ x \in State /\ x.chat = chat /\ x.reply = reply /\ x.turn = none.turn
      /\ \A t \in Threads : x.run[t] = run[t]
  BY <1>5, <1>7, <1>8, StartAllFrame
<1> HIDE DEF x
<1>10. \A t \in Threads : x.turn[t].n = 0
  BY <1>3, <1>9 DEF NoTurn
<1>11. Says(x)
  BY <1>9, <1>10, StFields DEF Told, Says, ToldAt, StepAt
<1> QED
  BY <1>4, <1>9, <1>11

\* A turn begins: the conversation awaits an answer, and nothing of an earlier turn is left.
LEMMA BeginTells ==
    ASSUME NEW s \in State, NEW t \in Threads
    PROVE  LET x == BeginTurn(s, t)
           IN  /\ x \in State /\ x.run = s.run /\ Elsewhere(s, x, t)
               /\ x.turn[t].idle = Idle /\ x.silent[t] = 0 /\ x.reply[t] = "awaited"
               /\ x.chat[t].timeout = "none" /\ x.chat[t].close_reason = s.chat[t].close_reason
<1> DEFINE n == s.chat[t].turns + 1
           c == [s.chat[t] EXCEPT !.token = n, !.turns = n, !.timeout = "none"]
           e == [n |-> n, idle |-> Idle, hard |-> Hard]
           f == [s.chat EXCEPT ![t] = c]
           g == [s.turn EXCEPT ![t] = e]
           h == [s.silent EXCEPT ![t] = 0]
           k == [s.reply EXCEPT ![t] = "awaited"]
           x == BeginTurn(s, t)
<1>1. s.chat[t] \in Chat /\ t \in Runs /\ n \in Nat
  <2>1. s.chat[t] \in Chat
    BY DEF State
  <2>2. s.chat[t].turns \in Nat
    BY <2>1 DEF Chat
  <2> QED
    BY <2>1, <2>2, ThreadIsRun
<1>2. x = [s EXCEPT !.slots = s.slots \cup {t}, !.chat = f, !.turn = g, !.silent = h, !.reply = k]
  BY DEF BeginTurn, ReserveSlot, State
<1> HIDE DEF n, x
<1>3. c \in Chat /\ c.timeout = "none" /\ c.close_reason = s.chat[t].close_reason
  BY <1>1 DEF Chat
<1>4. e \in Turn /\ e.idle = Idle
  BY <1>1, TimerAssumption DEF Turn
<1> HIDE DEF c, e
<1>5. /\ f \in [Threads -> Chat] /\ f[t] = c /\ \A u \in Threads \ {t} : f[u] = s.chat[u]
      /\ g \in [Threads -> Turn] /\ g[t] = e /\ \A u \in Threads \ {t} : g[u] = s.turn[u]
  BY <1>3, <1>4 DEF State
<1>6. /\ h \in [Threads -> 0..Idle] /\ h[t] = 0 /\ \A u \in Threads \ {t} : h[u] = s.silent[u]
  BY TimerAssumption DEF State
<1>7. /\ k \in [Threads -> {"none", "awaited", "mon", "error"}] /\ k[t] = "awaited"
      /\ \A u \in Threads \ {t} : k[u] = s.reply[u]
  BY DEF State
<1> HIDE DEF f, g, h, k
<1>8. /\ x \in State /\ x.run = s.run /\ x.chat = f /\ x.turn = g /\ x.silent = h /\ x.reply = k
  BY <1>1, <1>2, <1>5, <1>6, <1>7 DEF State
<1>9. Elsewhere(s, x, t)
  BY <1>5, <1>6, <1>7, <1>8 DEF Elsewhere
<1> QED
  BY <1>3, <1>4, <1>5, <1>6, <1>7, <1>8, <1>9 DEF x

LEMMA PostMessageSays ==
    ASSUME Good(st), Told(st), NEW t \in Threads, NEW how \in {"spawned", "failed", "refused"},
           PostMessage(t, how)
    PROVE  \E x \in State : Commit(x) /\ Says(x)
<1> DEFINE row == [run[t] EXCEPT !.runtime_state = "running"]
           f == [run EXCEPT ![t] = row]
           asked == [st EXCEPT !.run = f]
           begun == BeginTurn(asked, t)
           P == begun.procs \cup {[thread |-> t, n |-> chat[t].turns + 1, signal |-> "none"]}
           spawned == [begun EXCEPT !.procs = P]
           x == CASE how = "refused" -> Replied(asked, t, "refused")
                  [] how = "failed"  -> TurnFailed(begun, t)
                  [] how = "spawned" -> spawned
<1>1. /\ st \in State /\ t \in Runs /\ run \in [Runs -> ThreadRow] /\ run[t] \in ThreadRow
      /\ silent[t] \in 0..Idle /\ chat[t] \in Chat
  BY ThreadIsRun, StFields DEF Good, State
<1>2. Commit(x)
  BY StFields DEF PostMessage
<1>3. ToldAt(st, t)
  BY DEF Told
<1>4. row \in ThreadRow /\ row.status = run[t].status /\ row.outcome = run[t].outcome
  BY <1>1 DEF ThreadRow, ThreadRuntimeState, RuntimeState
<1> HIDE DEF row
<1>5. f \in [Runs -> ThreadRow] /\ f[t] = row /\ \A u \in Threads \ {t} : f[u] = run[u]
  BY <1>1, <1>4, ThreadIsRun
<1> HIDE DEF f
<1>6. /\ asked \in State /\ asked.run = f /\ asked.chat = chat /\ asked.turn = turn
      /\ asked.reply = reply /\ asked.silent = silent /\ asked.procs = procs
  BY <1>1, <1>5, StFields DEF State
<1> HIDE DEF asked
<1>7. Elsewhere(st, asked, t)
  BY <1>5, <1>6, StFields DEF Elsewhere
<1>8. CASE how = "refused"
  <2> DEFINE y == Replied(asked, t, "refused")
  <2>1. x = y
    BY <1>8
  <2>2. "refused" \in Answers
    BY DEF Answers
  <2>3. /\ y \in State /\ Elsewhere(asked, y, t) /\ y.turn = asked.turn /\ y.chat = asked.chat
        /\ y.silent = asked.silent
        /\ y.run[t].status = asked.run[t].status /\ y.run[t].outcome = asked.run[t].outcome
        /\ y.reply[t] = asked.reply[t]
    BY <1>6, <2>2, ReplyTells
  <2> HIDE DEF y
  <2>4. Elsewhere(st, y, t)
    BY <1>7, <2>3 DEF Elsewhere
  <2>5. ToldAt(y, t) /\ StepAt(st, y, t)
    BY <1>3, <1>4, <1>5, <1>6, <2>3, StFields DEF ToldAt, StepAt
  <2>6. Says(y)
    BY <2>4, <2>5, StepOfThread
  <2> QED
    BY <1>2, <2>1, <2>3, <2>6
<1>9. ASSUME how # "refused"
      PROVE  /\ turn[t].n = 0
             /\ begun \in State /\ begun.run = f /\ Elsewhere(st, begun, t)
             /\ begun.turn[t].idle = Idle /\ begun.silent[t] = 0 /\ begun.reply[t] = "awaited"
             /\ begun.chat[t].timeout = "none" /\ begun.chat[t].close_reason = chat[t].close_reason
  <2>1. /\ begun \in State /\ begun.run = f /\ Elsewhere(asked, begun, t)
        /\ begun.turn[t].idle = Idle /\ begun.silent[t] = 0 /\ begun.reply[t] = "awaited"
        /\ begun.chat[t].timeout = "none" /\ begun.chat[t].close_reason = chat[t].close_reason
    BY <1>6, BeginTells
  <2>2. turn[t].n = 0
    BY <1>9, StFields DEF PostMessage, InFlight
  <2> HIDE DEF begun
  <2>3. Elsewhere(st, begun, t)
    BY <1>7, <2>1 DEF Elsewhere
  <2> QED
    BY <2>1, <2>2, <2>3
<1> HIDE DEF begun
<1>10. CASE how = "failed"
  <2> DEFINE y == TurnFailed(begun, t)
  <2>1. x = y
    BY <1>10
  <2>2. TurnOver(begun, y, t)
    BY <1>9, <1>10, TurnOverTells
  <2> HIDE DEF y
  <2>3. Says(y)
    BY <1>4, <1>5, <1>9, <1>10, <2>2, OverSays
  <2> QED
    BY <1>2, <2>1, <2>2, <2>3 DEF TurnOver
<1>11. CASE how = "spawned"
  <2>1. x = spawned
    BY <1>11
  <2>2. P \subseteq Proc
    <3>1. chat[t].turns + 1 \in Nat
      BY <1>1 DEF Chat
    <3>2. [thread |-> t, n |-> chat[t].turns + 1, signal |-> "none"] \in Proc
      BY <3>1 DEF Proc, Signal
    <3> QED
      BY <1>9, <1>11, <3>2 DEF State
  <2> HIDE DEF P
  <2>3. /\ spawned \in State /\ spawned.run = begun.run /\ spawned.chat = begun.chat
        /\ spawned.turn = begun.turn /\ spawned.reply = begun.reply
        /\ spawned.silent = begun.silent
    BY <1>9, <1>11, <2>2 DEF State
  <2> HIDE DEF spawned, x
  <2>4. Elsewhere(st, spawned, t)
    BY <1>9, <1>11, <2>3 DEF Elsewhere
  <2>5. ToldAt(spawned, t)
    <3>1. 0 + Idle >= Idle
      BY TimerAssumption
    <3> QED
      BY <1>3, <1>4, <1>5, <1>9, <1>11, <2>3, <3>1, StFields DEF ToldAt
  <2>6. StepAt(st, spawned, t)
    BY <1>3, <1>4, <1>5, <1>9, <1>11, <2>3, StFields DEF ToldAt, StepAt
  <2>7. Says(spawned)
    BY <2>4, <2>5, <2>6, StepOfThread
  <2> QED
    BY <1>2, <2>1, <2>3, <2>7
<1> QED
  BY <1>8, <1>10, <1>11

\* Time passes: the silence of a turn grows by what its idle timer loses.
LEMMA TickSays == ASSUME Good(st), Told(st), Tick PROVE Says(st')
<1>1. st' = [run |-> run, slots |-> slots, chat |-> chat, turn |-> turn', procs |-> procs,
             reply |-> reply, silent |-> silent']
  BY DEF Tick, db, st
<1> SUFFICES ASSUME NEW t \in Threads PROVE ToldAt(st', t) /\ StepAt(st, st', t)
  BY DEF Says
<1>2. /\ turn[t] \in Turn /\ turn[t].idle \in 0..Idle /\ silent[t] \in 0..Idle
  BY StFields DEF Good, State, Turn
<1>3. /\ turn'[t] = [turn[t] EXCEPT !.idle = Down(turn[t].idle), !.hard = Down(turn[t].hard)]
      /\ silent'[t] = IF turn[t].n # 0 /\ silent[t] < Idle THEN silent[t] + 1 ELSE silent[t]
  BY StFields DEF Tick, InFlight
<1>4. turn'[t].n = turn[t].n /\ turn'[t].idle = Down(turn[t].idle)
  BY <1>2, <1>3 DEF Turn
<1>5. ToldAt(st, t)
  BY DEF Told
<1>6. turn[t].n # 0 /\ Idle > 0 => turn[t].idle # 0
  BY StFields DEF Tick, IdleDue, InFlight
<1>7. turn[t].n # 0 => silent'[t] + turn'[t].idle >= Idle
  <2> SUFFICES ASSUME turn[t].n # 0 PROVE silent'[t] + turn'[t].idle >= Idle
    OBVIOUS
  <2>1. silent[t] + turn[t].idle >= Idle
    BY <1>5, StFields DEF ToldAt
  <2> QED
    BY <1>2, <1>3, <1>4, <1>6, <2>1, TimerAssumption DEF Down
<1>8. ToldAt(st', t)
  BY <1>1, <1>4, <1>5, <1>7, StFields DEF ToldAt
<1>9. StepAt(st, st', t)
  BY <1>1, <1>4, <1>5, StFields DEF ToldAt, StepAt
<1> QED
  BY <1>8, <1>9

-----------------------------------------------------------------------------
(* Every step tells the truth *)

LEMMA RequestSays ==
    ASSUME Good(st), Told(st), NEW t \in Threads, ThreadRequest(t)
    PROVE  Says(st')
<1>1. \E x \in State : Commit(x) /\ Says(x)
  <2>1. CASE OpenThread(t)
    BY <2>1, OpenThreadSays
  <2>2. CASE \E how \in {"spawned", "failed", "refused"} : PostMessage(t, how)
    BY <2>2, PostMessageSays
  <2>3. CASE \E k \in 1..MaxTurns : ToolCall(t, k)
    BY <2>3, ToolCallSays
  <2>4. CASE \E reason \in Reasons : CloseThread(t, reason)
    BY <2>4, CloseThreadSays
  <2>5. CASE \E outcome \in Outcomes : CloseRun(t, outcome)
    BY <2>5, CloseRunSays
  <2>6. CASE \E outcome \in Outcomes : Review(t, outcome)
    BY <2>6, ReviewSays
  <2> QED
    BY <2>1, <2>2, <2>3, <2>4, <2>5, <2>6 DEF ThreadRequest
<1> QED
  BY <1>1, CommitIs

LEMMA EventSays ==
    ASSUME Good(st), Told(st), NEW p \in procs, ProcessEvent(p)
    PROVE  Says(st')
<1>1. \E x \in State : Commit(x) /\ Says(x)
  <2>1. CASE ProcessOutput(p)
    BY <2>1, ProcessOutputSays
  <2>2. CASE \E clean \in BOOLEAN : ProcessExit(p, clean)
    BY <2>2, ProcessExitSays
  <2>3. CASE KillAfterGrace(p)
    BY <2>3, KillAfterGraceSays
  <2> QED
    BY <2>1, <2>2, <2>3 DEF ProcessEvent
<1> QED
  BY <1>1, CommitIs

LEMMA TimerSays == ASSUME Good(st), Told(st), TimerFires PROVE Says(st')
<1>1. PICK t \in Threads : IdleTimeout(t) \/ HardTimeout(t)
  BY DEF TimerFires
<1>2. turn[t].n # 0
  BY <1>1, StFields DEF IdleTimeout, IdleDue, HardTimeout, HardDue, InFlight
<1>3. CASE IdleTimeout(t)
  <2> DEFINE x == TimeoutHitlTurn(st, t, "idle_timeout")
  <2>1. turn[t].idle = 0 /\ Commit(x)
    BY <1>3 DEF IdleTimeout, IdleDue
  <2>2. x \in State /\ Says(x)
    BY <1>2, <2>1, TimeoutSays
  <2> HIDE DEF x
  <2> QED
    BY <2>1, <2>2, CommitIs
<1>4. CASE HardTimeout(t)
  <2> DEFINE x == TimeoutHitlTurn(st, t, "hard_timeout")
  <2>1. Commit(x)
    BY <1>4 DEF HardTimeout
  <2>2. x \in State /\ Says(x)
    BY <1>2, TimeoutSays
  <2> HIDE DEF x
  <2> QED
    BY <2>1, <2>2, CommitIs
<1> QED
  BY <1>1, <1>3, <1>4

LEMMA NextSays == ASSUME Good(st), Told(st), [Next]_vars PROVE Says(st')
<1>1. CASE \E t \in Threads : ThreadRequest(t)
  BY <1>1, RequestSays
<1>2. CASE TimerFires
  BY <1>2, TimerSays
<1>3. CASE \E p \in procs : ProcessEvent(p)
  BY <1>3, EventSays
<1>4. CASE \E r \in OneShots : Submit(r) \/ OneShotExit(r)
  BY <1>4, SubmitSays, OneShotExitSays, CommitIs
<1>5. CASE Tick
  BY <1>5, TickSays
<1>6. CASE CrashAndRestart
  BY <1>6, CrashSays, CommitIs
<1>7. CASE UNCHANGED vars
  <2>1. st' = st
    BY <1>7 DEF vars, db, st
  <2> QED
    BY <2>1, StFields, StepOfNone
<1> QED
  BY <1>1, <1>2, <1>3, <1>4, <1>5, <1>6, <1>7 DEF Next

TInv == IInv /\ Told(st)

LEMMA InitTold == Init => TInv
<1> SUFFICES ASSUME Init PROVE Told(st)
  BY InitGood DEF TInv
<1>1. \A t \in Threads : /\ run[t].outcome = "unknown" /\ turn[t].n = 0
                         /\ reply[t] = "none"
  BY ThreadIsRun DEF Init, NoRow, NoTurn
<1> QED
  BY <1>1, StFields DEF Told, ToldAt

LEMMA NextTold == TInv /\ [Next]_vars => TInv'
<1> SUFFICES ASSUME TInv, [Next]_vars PROVE Told(st)'
  BY NextGood DEF TInv
<1>1. Says(st')
  BY NextSays DEF TInv, IInv
<1> QED
  BY <1>1 DEF Says, Told, ToldAt

LEMMA ToldInvariance == Spec => []TInv
BY InitTold, NextTold, PTL DEF Spec

\* A conversation whose last turn failed is never closed as completed by closing its widget,
\* whatever the turn, a second message, a timer or a crash did in between
\* (hitlThreadHasUnresolvedError).
THEOREM FailedTurnsAreNotClosedAsDone == Spec => CleanCloseMeansAnswered
<1> DEFINE Step == \A t \in Threads :
                      /\ run[t].status = "active" /\ run'[t].outcome = "completed"
                      /\ chat'[t].close_reason = "user_closed_widget"
                      => reply[t] # "error"
<1>1. TInv /\ [Next]_vars => [Step]_vars
  <2> SUFFICES ASSUME TInv, [Next]_vars PROVE Step
    OBVIOUS
  <2>1. Says(st')
    BY NextSays DEF TInv, IInv
  <2> QED
    BY <2>1 DEF Says, StepAt, st
<1>2. Spec => [][Step]_vars
  <2> HIDE DEF Step
  <2> QED
    BY <1>1, ToldInvariance, PTL DEF Spec
<1> QED
  BY <1>2 DEF CleanCloseMeansAnswered

\* The idle timer ends a turn only after a whole idle window without output or tool calls
\* (noteRunActivity), for every length of the window and of the hard timeout.
THEOREM ActiveTurnsAreNotTimedOut == Spec => NotKilledWhileActive
<1> DEFINE Step == \A t \in Threads :
                      /\ InFlight(st, t) /\ turn'[t].n = 0
                      /\ chat[t].timeout = "none" /\ chat'[t].timeout = "idle_timeout"
                      => silent[t] = Idle
<1>1. TInv /\ [Next]_vars => [Step]_vars
  <2> SUFFICES ASSUME TInv, [Next]_vars PROVE Step
    OBVIOUS
  <2>1. Says(st')
    BY NextSays DEF TInv, IInv
  <2> QED
    BY <2>1 DEF Says, StepAt, InFlight, st
<1>2. Spec => [][Step]_vars
  <2> HIDE DEF Step
  <2> QED
    BY <1>1, ToldInvariance, PTL DEF Spec
<1> QED
  BY <1>2 DEF NotKilledWhileActive

-----------------------------------------------------------------------------
(* The rest of ThreadInv, on this invariant: the processes of a Mon never   *)
(* exceed its limit (Fits), which is an argument about how many runs one    *)
(* dispatch starts (DispatchFits), and a message that awaits its reply has  *)
(* a turn in flight (Answered).                                             *)

\* The slots of a Mon are few enough, and can be counted.
FitsAt(s, m) == IsFiniteSet(HoldsSlot(s, m)) /\ Cardinality(HoldsSlot(s, m)) <= Limit[m]
Fits(s) == \A m \in Mons : FitsAt(s, m)

AnsweredAt(s, t) ==
    /\ s.turn[t].n # 0 <=> s.reply[t] = "awaited"
    /\ s.run[t].runtime_state = "running" => s.reply[t] = "awaited"
Answered(s) == \A t \in Threads : AnsweredAt(s, t)

\* x takes no slot s has not, but perhaps for thread t, and leaves the one-shot runs and the
\* other threads alone.
Within(s, x, t) ==
    /\ x.slots \ {t} \subseteq s.slots
    /\ \A r \in OneShots : x.run[r] = s.run[r]
    /\ \A u \in Threads \ {t} : /\ x.turn[u].n = s.turn[u].n /\ x.reply[u] = s.reply[u]
                                 /\ x.run[u].runtime_state = s.run[u].runtime_state

\* What a step has to keep.
Kept == Fits(st)' /\ (Answered(st) => Answered(st)')

-----------------------------------------------------------------------------
(* Counting *)

LEMMA Largest ==
    ASSUME NEW t \in Nat, NEW S \in SUBSET (0..t), S # {}
    PROVE  \E m \in S : \A n \in S : n <= m
<1> DEFINE D == {t - n : n \in S}
           R == OpToRel(<, Nat)
<1>1. D \in SUBSET Nat
  OBVIOUS
<1>2. D # {}
  <2>1. PICK n \in S : TRUE
    OBVIOUS
  <2>2. t - n \in D
    BY <2>1
  <2> QED
    BY <2>2
<1> HIDE DEF D
<1>3. IsWellFoundedOn(R, Nat)
  BY NatLessThanWellFounded
<1>4. \A x, y \in Nat : <<y, x>> \in R <=> y < x
  BY DEF OpToRel
<1> HIDE DEF R
<1>5. PICK d \in D : \A n \in D : ~(<<n, d>> \in R)
  BY <1>1, <1>2, <1>3, WFMin
<1>6. \A n \in D : d <= n
  <2> SUFFICES ASSUME NEW n \in D PROVE d <= n
    OBVIOUS
  <2>1. ~(n < d) /\ n \in Nat /\ d \in Nat
    BY <1>1, <1>4, <1>5
  <2> QED
    BY <2>1
<1>7. PICK m \in S : d = t - m
  BY <1>5 DEF D
<1>8. \A n \in S : t - m <= t - n
  BY <1>6, <1>7 DEF D
<1> QED
  BY <1>7, <1>8

\* Of the runs Q, those with fewer than k older ones are at most k.
LEMMA OldestFew ==
    ASSUME NEW Q \in SUBSET Nat, NEW k \in Nat, k # 0,
           NEW D \in SUBSET Q, \A r \in D : Cardinality({q \in Q : q < r}) < k
    PROVE  IsFiniteSet(D) /\ Cardinality(D) <= k
<1> DEFINE Older(r) == {q \in Q : q < r}
           ranks == {Cardinality(Older(r)) : r \in D}
<1>1. \A r \in Q : IsFiniteSet(Older(r)) /\ Cardinality(Older(r)) \in Nat
  <2> SUFFICES ASSUME NEW r \in Q
               PROVE  IsFiniteSet(Older(r)) /\ Cardinality(Older(r)) \in Nat
    OBVIOUS
  <2>1. IsFiniteSet(Older(r))
    BY FS_BoundedSetOfNaturals
  <2> QED
    BY <2>1, FS_CardinalityType
<1>2. CASE D = {}
  BY <1>2, FS_EmptySet
<1>3. CASE D # {}
  <2>1. ranks \in SUBSET (0..(k - 1)) /\ ranks # {}
    <3>1. \A r \in D : Cardinality(Older(r)) < k /\ Cardinality(Older(r)) \in Nat
      BY <1>1
    <3> HIDE DEF Older
    <3>2. \A r \in D : Cardinality(Older(r)) \in 0..(k - 1)
      BY <3>1
    <3> QED
      BY <1>3, <3>2
  <2> HIDE DEF ranks
  <2>2. PICK c \in ranks : \A n \in ranks : n <= c
    <3>1. k - 1 \in Nat
      OBVIOUS
    <3> QED
      BY <2>1, <3>1, Largest
  <2>3. PICK r \in D : c = Cardinality(Older(r))
    BY <2>2 DEF ranks
  <2>4. \A q \in D : q <= r
    <3> SUFFICES ASSUME NEW q \in D, r < q PROVE FALSE
      BY <2>3
    <3>1. Older(r) \cup {r} \in SUBSET Older(q)
      <4>1. q \in Q /\ q \in Nat /\ r \in Q /\ r \in Nat
        BY <2>3
      <4>2. \A n \in Older(r) : n \in Q /\ n < q
        BY <4>1
      <4> QED
        BY <4>1, <4>2
    <3>2. r \notin Older(r)
      BY <2>3
    <3> HIDE DEF Older
    <3>3. Cardinality(Older(r) \cup {r}) = Cardinality(Older(r)) + 1
      BY <1>1, <3>2, FS_AddElement
    <3>4. Cardinality(Older(r) \cup {r}) <= Cardinality(Older(q))
      BY <1>1, <3>1, FS_Subset
    <3>5. Cardinality(Older(q)) <= Cardinality(Older(r))
      BY <2>2, <2>3 DEF ranks
    <3> QED
      BY <1>1, <3>3, <3>4, <3>5
  <2>5. D \in SUBSET (Older(r) \cup {r})
    BY <2>4
  <2>6. r \notin Older(r)
    OBVIOUS
  <2> HIDE DEF Older
  <2>7. IsFiniteSet(Older(r) \cup {r}) /\ Cardinality(Older(r) \cup {r}) = c + 1
    BY <1>1, <2>3, <2>6, FS_AddElement
  <2>8. IsFiniteSet(D) /\ Cardinality(D) <= c + 1
    BY <2>5, <2>7, FS_Subset
  <2>9. IsFiniteSet(D) /\ Cardinality(D) \in Nat /\ c \in 0..(k - 1)
    BY <2>1, <2>2, <2>8, FS_CardinalityType
  <2> QED
    BY <2>8, <2>9
<1> QED
  BY <1>2, <1>3

\* Two finite sets together are no more than the sum.
LEMMA UnionBound ==
    ASSUME NEW S, NEW T, IsFiniteSet(S), IsFiniteSet(T)
    PROVE  /\ IsFiniteSet(S \cup T)
           /\ Cardinality(S \cup T) <= Cardinality(S) + Cardinality(T)
           /\ {Cardinality(S \cup T), Cardinality(S), Cardinality(T)} \subseteq Nat
<1>1. /\ IsFiniteSet(S \cup T)
      /\ Cardinality(S \cup T) = Cardinality(S) + Cardinality(T) - Cardinality(S \cap T)
  BY FS_Union
<1>2. IsFiniteSet(S \cap T)
  BY FS_Intersection
<1>3. {Cardinality(S \cup T), Cardinality(S), Cardinality(T), Cardinality(S \cap T)} \subseteq Nat
  BY <1>1, <1>2, FS_CardinalityType
<1> QED
  BY <1>1, <1>3

-----------------------------------------------------------------------------
(* Slots *)

LEMMA MonTypes == \A r \in Runs : MonOf[r] \in Mons /\ Limit[MonOf[r]] \in Nat \ {0}
BY MonAssumption, LimitAssumption

\* Who gives slots back, and leaves the one-shot runs alone, keeps the limit.
LEMMA FewerSlots ==
    ASSUME NEW s, NEW x, Fits(s), x.slots \subseteq s.slots,
           \A r \in OneShots : x.run[r].status \in ProcessBacked =>
                                 s.run[r].status \in ProcessBacked
    PROVE  Fits(x)
<1> SUFFICES ASSUME NEW m \in Mons PROVE FitsAt(x, m)
  BY DEF Fits
<1>1. HoldsSlot(x, m) \in SUBSET HoldsSlot(s, m)
  BY DEF HoldsSlot
<1>2. FitsAt(s, m) /\ Limit[m] \in Nat
  BY LimitAssumption DEF Fits
<1>3. /\ IsFiniteSet(HoldsSlot(x, m))
      /\ Cardinality(HoldsSlot(x, m)) <= Cardinality(HoldsSlot(s, m))
  BY <1>1, <1>2, FS_Subset DEF FitsAt
<1>4. Cardinality(HoldsSlot(x, m)) \in Nat /\ Cardinality(HoldsSlot(s, m)) \in Nat
  BY <1>2, <1>3, FS_CardinalityType DEF FitsAt
<1> QED
  BY <1>2, <1>3, <1>4 DEF FitsAt

\* reserve(): a thread takes a slot that is free.
LEMMA TakenSlot ==
    ASSUME NEW s, NEW x, Fits(s), NEW t \in Threads, FreeSlot(s, t),
           x.slots = s.slots \cup {t}, \A r \in OneShots : x.run[r] = s.run[r]
    PROVE  Fits(x)
<1>1. t \in Runs /\ t \notin OneShots /\ MonOf[t] \in Mons
  BY ThreadIsRun, MonTypes DEF OneShots
<1>2. CASE t \in s.slots
  BY <1>2, FewerSlots
<1>3. CASE t \notin s.slots
  <2> SUFFICES ASSUME NEW m \in Mons PROVE FitsAt(x, m)
    BY DEF Fits
  <2>1. FitsAt(s, m) /\ Limit[m] \in Nat
    BY LimitAssumption DEF Fits
  <2>2. CASE m # MonOf[t]
    <3>1. HoldsSlot(x, m) = HoldsSlot(s, m)
      BY <2>2 DEF HoldsSlot
    <3> QED
      BY <2>1, <3>1 DEF FitsAt
  <2>3. CASE m = MonOf[t]
    <3>1. HoldsSlot(x, m) = HoldsSlot(s, m) \cup {t}
      BY <1>1, <2>3 DEF HoldsSlot
    <3>2. Cardinality(HoldsSlot(s, m)) < Limit[m]
      BY <1>3, <2>3 DEF FreeSlot
    <3>3. /\ IsFiniteSet(HoldsSlot(x, m)) /\ Cardinality(HoldsSlot(s, m)) \in Nat
          /\ Cardinality(HoldsSlot(x, m)) \in {Cardinality(HoldsSlot(s, m)),
                                               Cardinality(HoldsSlot(s, m)) + 1}
      BY <2>1, <3>1, FS_AddElement, FS_CardinalityType DEF FitsAt
    <3> QED
      BY <2>1, <3>2, <3>3 DEF FitsAt
  <2> QED
    BY <2>2, <2>3
<1> QED
  BY <1>2, <1>3

\* What one dispatch starts fits into the slots that are free.
LEMMA DispatchedFew ==
    ASSUME NEW s, NEW m \in Mons, FitsAt(s, m)
    PROVE  /\ IsFiniteSet(HoldsSlot(s, m) \cup Dispatched(s, m))
           /\ Cardinality(HoldsSlot(s, m) \cup Dispatched(s, m)) <= Limit[m]
<1> DEFINE H == HoldsSlot(s, m)
           Q == {r \in OneShots : MonOf[r] = m /\ s.run[r].status = "queued"}
           D == Dispatched(s, m)
           k == Limit[m] - Cardinality(H)
<1>1. IsFiniteSet(H) /\ Cardinality(H) \in Nat /\ Limit[m] \in Nat /\ Cardinality(H) <= Limit[m]
  BY LimitAssumption, FS_CardinalityType DEF FitsAt
<1>2. Q \in SUBSET Nat
  BY RunsAssumption DEF OneShots
<1>3. D = {r \in Q : Cardinality(H) + Cardinality({q \in Q : q < r}) < Limit[m]}
  BY DEF Dispatched
<1>4. \A r \in Q : Cardinality({q \in Q : q < r}) \in Nat
  <2> SUFFICES ASSUME NEW r \in Q PROVE Cardinality({q \in Q : q < r}) \in Nat
    OBVIOUS
  <2>1. r \in Nat
    BY <1>2
  <2> HIDE DEF Q
  <2>2. IsFiniteSet({q \in Q : q < r})
    BY <1>2, <2>1, FS_BoundedSetOfNaturals
  <2> QED
    BY <2>2, FS_CardinalityType
<1> HIDE DEF H, Q, D
<1>5. D \in SUBSET Q /\ \A r \in D : Cardinality({q \in Q : q < r}) < k
  <2> SUFFICES ASSUME NEW r \in D PROVE r \in Q /\ Cardinality({q \in Q : q < r}) < k
    OBVIOUS
  <2>1. r \in Q /\ Cardinality(H) + Cardinality({q \in Q : q < r}) < Limit[m]
    BY <1>3
  <2>2. Cardinality({q \in Q : q < r}) \in Nat
    BY <1>4, <2>1
  <2> QED
    BY <1>1, <2>1, <2>2
<1>6. k \in Nat
  BY <1>1
<1>7. IsFiniteSet(D) /\ Cardinality(D) <= k
  <2>1. CASE D = {}
    BY <1>6, <2>1, FS_EmptySet
  <2>2. CASE D # {}
    <3>1. k # 0
      <4>1. PICK r \in D : r \in Q /\ Cardinality({q \in Q : q < r}) < k
        BY <1>5, <2>2
      <4>2. Cardinality({q \in Q : q < r}) \in Nat
        BY <1>4, <4>1
      <4> QED
        BY <4>1, <4>2
    <3> HIDE DEF k
    <3> QED
      BY <1>2, <1>5, <1>6, <3>1, OldestFew
  <2> QED
    BY <2>1, <2>2
<1>8. /\ IsFiniteSet(H \cup D) /\ Cardinality(H \cup D) <= Cardinality(H) + Cardinality(D)
      /\ {Cardinality(H \cup D), Cardinality(D)} \subseteq Nat
  BY <1>1, <1>7, UnionBound
<1>9. Cardinality(H \cup D) <= Limit[m]
  BY <1>1, <1>7, <1>8
<1> QED
  BY <1>8, <1>9 DEF H, D

\* Starting the oldest queued runs of some Mons keeps the limit.
LEMMA DispatchFits ==
    ASSUME NEW s \in State, Fits(s), NEW M \in SUBSET Mons
    PROVE  Fits(StartAll(s, UNION {Dispatched(s, m) : m \in M}))
<1> DEFINE D == UNION {Dispatched(s, m) : m \in M}
           x == StartAll(s, D)
<1>1. D \subseteq OneShots /\ D \subseteq Runs
  BY DEF Dispatched, OneShots
<1>2. x.slots = s.slots \cup D /\ \A r \in Runs \ D : x.run[r] = s.run[r]
  <2> HIDE DEF D
  <2> QED
    BY DEF StartAll, State
<1>3. \A m \in Mons : \A r \in D : MonOf[r] = m => r \in Dispatched(s, m)
  BY DEF Dispatched
<1> HIDE DEF D, x
<1> SUFFICES ASSUME NEW m \in Mons PROVE FitsAt(x, m)
  BY DEF Fits, x, D
<1>4. HoldsSlot(x, m) \in SUBSET (HoldsSlot(s, m) \cup Dispatched(s, m))
  BY <1>1, <1>2, <1>3 DEF HoldsSlot
<1>5. FitsAt(s, m) /\ Limit[m] \in Nat
  BY LimitAssumption DEF Fits
<1>6. /\ IsFiniteSet(HoldsSlot(s, m) \cup Dispatched(s, m))
      /\ Cardinality(HoldsSlot(s, m) \cup Dispatched(s, m)) <= Limit[m]
  BY <1>5, DispatchedFew
<1>7. /\ IsFiniteSet(HoldsSlot(x, m))
      /\ Cardinality(HoldsSlot(x, m)) <= Cardinality(HoldsSlot(s, m) \cup Dispatched(s, m))
  BY <1>4, <1>6, FS_Subset
<1>8. /\ Cardinality(HoldsSlot(x, m)) \in Nat
      /\ Cardinality(HoldsSlot(s, m) \cup Dispatched(s, m)) \in Nat
  BY <1>6, <1>7, FS_CardinalityType
<1> QED
  BY <1>5, <1>6, <1>7, <1>8 DEF FitsAt

LEMMA DispatchKeepsLimit ==
    ASSUME NEW s \in State, Fits(s), NEW m \in Mons
    PROVE  Fits(Dispatch(s, m))
<1>1. UNION {Dispatched(s, n) : n \in {m}} = Dispatched(s, m)
  OBVIOUS
<1>2. Fits(StartAll(s, UNION {Dispatched(s, n) : n \in {m}}))
  BY DispatchFits
<1> QED
  BY <1>1, <1>2 DEF Dispatch

-----------------------------------------------------------------------------
(* The end of a turn *)

\* settle() keeps the limit, also for a thread that has just taken a slot.
LEMMA SettleFits ==
    ASSUME NEW g, Fits(g), NEW s \in State, NEW t \in Threads, Within(g, s, t)
    PROVE  Fits(Settle(s, t))
<1> DEFINE c == [s EXCEPT !.turn[t] = NoTurn, !.silent[t] = 0,
                          !.chat[t] = [@ EXCEPT !.token = 0]]
           r == ReleaseSlot(c, t)
<1>1. /\ [s.chat EXCEPT ![t] = [@ EXCEPT !.token = 0]] \in [Threads -> Chat]
      /\ [s.silent EXCEPT ![t] = 0] \in [Threads -> 0..Idle]
      /\ [s.turn EXCEPT ![t] = NoTurn] \in [Threads -> Turn]
  BY NoTurnType, TimerAssumption DEF State, Chat
<1>2. c \in State /\ c.run = s.run /\ c.slots = s.slots
  BY <1>1 DEF State
<1>3. Settle(s, t) = Dispatch(r, MonOf[t])
  BY DEF Settle
<1> HIDE DEF c
<1>4. r \in State /\ r.run = s.run /\ r.slots = s.slots \ {t}
  BY <1>2 DEF ReleaseSlot, State
<1> HIDE DEF r
<1>5. Fits(r)
  <2>1. r.slots \subseteq g.slots /\ \A q \in OneShots : r.run[q] = g.run[q]
    BY <1>4 DEF Within
  <2> QED
    BY <2>1, FewerSlots
<1>6. MonOf[t] \in Mons
  BY ThreadIsRun, MonTypes
<1> QED
  BY <1>3, <1>4, <1>5, <1>6, DispatchKeepsLimit

\* The reply to a message: a turn that ended has got its answer.
LEMMA RepliedKeeps ==
    ASSUME NEW s \in State, NEW t \in Threads, NEW what \in Answers
    PROVE  LET x == Replied(s, t, what)
           IN  /\ x.slots = s.slots /\ \A r \in OneShots : x.run[r] = s.run[r]
               /\ Fits(s) => Fits(x)
               /\ x.reply[t] = IF what = "refused" THEN s.reply[t] ELSE what
               /\ x.run[t].runtime_state = "waiting_for_user"
               /\ x.turn = s.turn
               /\ \A u \in Threads \ {t} : x.reply[u] = s.reply[u] /\ x.run[u] = s.run[u]
<1> DEFINE x == Replied(s, t, what)
           row == [s.run[t] EXCEPT !.runtime_state = "waiting_for_user", !.outcome_state = "unknown"]
           rep == IF what = "refused" THEN s.reply[t] ELSE what
<1>1. t \in Runs /\ t \notin OneShots /\ OneShots \subseteq Runs
  BY ThreadIsRun DEF OneShots
<1>2. x = [s EXCEPT !.run = [s.run EXCEPT ![t] = row], !.reply = [s.reply EXCEPT ![t] = rep]]
  BY DEF Replied, State
<1> HIDE DEF row, rep
<1>3. /\ x.slots = s.slots /\ x.turn = s.turn
      /\ x.run = [s.run EXCEPT ![t] = row] /\ x.reply = [s.reply EXCEPT ![t] = rep]
  BY <1>2 DEF State
<1>4. /\ \A r \in OneShots : x.run[r] = s.run[r]
      /\ x.reply[t] = rep
      /\ \A u \in Threads \ {t} : x.reply[u] = s.reply[u] /\ x.run[u] = s.run[u]
  BY <1>1, <1>3, ThreadIsRun DEF State
<1>5. x.run[t].runtime_state = "waiting_for_user"
  BY RepliedFrame
<1>6. Fits(s) => Fits(x)
  <2> HIDE DEF x
  <2> QED
    BY <1>3, <1>4, FewerSlots
<1> QED
  BY <1>3, <1>4, <1>5, <1>6 DEF rep

LEMMA TurnEndKeeps ==
    ASSUME Fits(st), NEW s \in State, NEW t \in Threads, Within(st, s, t),
           Commit(TurnFailed(s, t)) \/ Commit(TurnFinished(s, t))
    PROVE  Kept
<1>1. PICK e \in BOOLEAN, what \in {"mon", "error"} :
         Commit(Replied([Settle(s, t) EXCEPT !.chat[t] = [@ EXCEPT !.error = e]], t, what))
  BY DEF TurnFailed, TurnFinished
<1> DEFINE y == Settle(s, t)
           z == [y EXCEPT !.chat[t] = [@ EXCEPT !.error = e]]
           x == Replied(z, t, what)
<1>2. /\ y \in State /\ y.turn = [s.turn EXCEPT ![t] = NoTurn] /\ y.reply = s.reply
      /\ \A u \in Threads : y.run[u] = s.run[u]
  BY SettleFrame
<1>3. Fits(y)
  BY SettleFits
<1> HIDE DEF y
<1>4. [y.chat EXCEPT ![t] = [@ EXCEPT !.error = e]] \in [Threads -> Chat]
  <2>1. y.chat \in [Threads -> Chat]
    BY <1>2 DEF State
  <2>2. [y.chat[t] EXCEPT !.error = e] \in Chat
    BY <2>1 DEF Chat
  <2> QED
    BY <2>1, <2>2
<1>5. z = [y EXCEPT !.chat = [y.chat EXCEPT ![t] = [@ EXCEPT !.error = e]]]
  BY <1>2 DEF State
<1>6. /\ z \in State /\ z.turn = y.turn /\ z.reply = y.reply /\ z.run = y.run /\ z.slots = y.slots
  BY <1>2, <1>4, <1>5 DEF State
<1> HIDE DEF z
<1>7. Fits(z)
  BY <1>3, <1>6, FewerSlots
<1>8. what \in Answers /\ what # "refused" /\ what # "awaited"
  BY DEF Answers
<1>9. /\ Fits(x) /\ x.reply[t] = what /\ x.run[t].runtime_state = "waiting_for_user"
      /\ x.turn = z.turn
      /\ \A u \in Threads \ {t} : x.reply[u] = z.reply[u] /\ x.run[u] = z.run[u]
  BY <1>6, <1>7, <1>8, RepliedKeeps
<1> HIDE DEF x
<1>10. /\ run' = x.run /\ slots' = x.slots /\ turn' = x.turn /\ reply' = x.reply
  BY <1>1 DEF Commit, x, y, z
<1>11. Fits(st)'
  BY <1>9, <1>10, FewerSlots DEF st, Fits, FitsAt, HoldsSlot
<1>12. turn'[t].n = 0 /\ reply'[t] # "awaited" /\ run'[t].runtime_state # "running"
  BY <1>2, <1>6, <1>8, <1>9, <1>10 DEF State, NoTurn
<1>13. \A u \in Threads \ {t} : /\ turn'[u].n = turn[u].n /\ reply'[u] = reply[u]
                                /\ run'[u].runtime_state = run[u].runtime_state
  BY <1>2, <1>6, <1>9, <1>10, StFields DEF Within, State
<1> QED
  BY <1>11, <1>12, <1>13, StFields DEF Kept, Answered, AnsweredAt, st

-----------------------------------------------------------------------------
(* Actions *)

\* A step of one thread that takes no slot.
LEMMA ThreadStepKeeps ==
    ASSUME Fits(st), NEW t \in Threads, slots' \subseteq slots,
           \A r \in OneShots : run'[r] = run[r],
           \A u \in Threads \ {t} : /\ turn'[u].n = turn[u].n /\ reply'[u] = reply[u]
                                    /\ run'[u].runtime_state = run[u].runtime_state,
           Answered(st) => AnsweredAt(st, t)'
    PROVE  Kept
<1>1. Fits(st)'
  <2> DEFINE x == st'
  <2>1. x.slots \subseteq st.slots /\ \A r \in OneShots : x.run[r] = st.run[r]
    BY DEF st
  <2>2. Fits(x)
    BY <2>1, FewerSlots
  <2> QED
    BY <2>2 DEF Fits, FitsAt, HoldsSlot
<1>2. Answered(st) => Answered(st)'
  BY DEF Answered, AnsweredAt, st
<1> QED
  BY <1>1, <1>2 DEF Kept

\* Only the row of thread t changes, and slots are only given back.
LEMMA RowKeeps ==
    ASSUME Fits(st), NEW t \in Threads, NEW row, run' = [run EXCEPT ![t] = row],
           run \in [Runs -> ThreadRow],
           slots' \subseteq slots, turn' = turn, reply' = reply,
           row.runtime_state = "running" => run[t].runtime_state = "running"
    PROVE  Kept
<1>1. t \in Runs /\ t \notin OneShots /\ OneShots \subseteq Runs
  BY ThreadIsRun DEF OneShots
<1>2. run'[t] = row /\ \A u \in Runs \ {t} : run'[u] = run[u]
  BY <1>1
<1>3. /\ \A r \in OneShots : run'[r] = run[r]
      /\ \A u \in Threads \ {t} : run'[u] = run[u]
  BY <1>1, <1>2, ThreadIsRun
<1>4. Answered(st) => AnsweredAt(st, t)'
  BY <1>2 DEF Answered, AnsweredAt, st
<1> QED
  BY <1>3, <1>4, ThreadStepKeeps

\* The same, for the row a request commits.
LEMMA CommittedRow ==
    ASSUME Good(st), Fits(st), NEW t \in Threads, NEW x, Commit(x), NEW row,
           x.run = [run EXCEPT ![t] = row], x.slots \subseteq slots, x.turn = turn, x.reply = reply,
           row.runtime_state = "running" => run[t].runtime_state = "running"
    PROVE  Kept
<1>1. run \in [Runs -> ThreadRow]
  BY StFields DEF Good, State
<1>2. run' = [run EXCEPT ![t] = row] /\ slots' \subseteq slots /\ turn' = turn /\ reply' = reply
  BY DEF Commit
<1> QED
  BY <1>1, <1>2, RowKeeps

LEMMA OpenThreadKeeps ==
    ASSUME Good(st), Fits(st), NEW t \in Threads, OpenThread(t)
    PROVE  Kept
<1> DEFINE row == [run[t] EXCEPT !.status = "active", !.process_status = "running",
                                 !.runtime_state = "idle_open"]
           x == [st EXCEPT !.run = [run EXCEPT ![t] = row]]
<1>1. st \in State /\ run[t] \in ThreadRow
  BY StFields, ThreadIsRun DEF Good, State
<1>2. row.runtime_state # "running"
  BY <1>1 DEF ThreadRow
<1>3. Commit(x)
  BY <1>1, StFields DEF OpenThread
<1> HIDE DEF row
<1>4. x.run = [run EXCEPT ![t] = row] /\ x.slots = slots /\ x.turn = turn /\ x.reply = reply
  BY <1>1, StFields DEF State
<1> HIDE DEF x
<1> QED
  BY <1>2, <1>3, <1>4, CommittedRow

LEMMA CloseThreadKeeps ==
    ASSUME Good(st), Fits(st), NEW t \in Threads, NEW reason \in Reasons, CloseThread(t, reason)
    PROVE  Kept
<1> DEFINE row == CloseHitlThreadLifecycle(run[t], reason, HasUnresolvedError(t))
           c == [chat[t] EXCEPT !.close_reason = reason]
           x == [st EXCEPT !.run = [run EXCEPT ![t] = row], !.chat = [chat EXCEPT ![t] = c]]
<1>1. st \in State
  BY DEF Good
<1>2. row.runtime_state \in {"failed", "cancelled", "closed"}
  BY DEF CloseHitlThreadLifecycle
<1>3. Commit(x)
  BY <1>1, StFields DEF CloseThread, State
<1> HIDE DEF row, c
<1>4. x.run = [run EXCEPT ![t] = row] /\ x.slots = slots /\ x.turn = turn /\ x.reply = reply
  BY <1>1, StFields DEF State
<1> HIDE DEF x
<1> QED
  BY <1>2, <1>3, <1>4, CommittedRow

\* The verdict of an operator, on a row that shows no process of its own.
LEMMA VerdictKeeps ==
    ASSUME Good(st), Fits(st), NEW t \in Threads, NEW s \in State, NEW outcome \in Outcomes,
           Commit([s EXCEPT !.run[t] = [@ EXCEPT !.outcome = outcome,
                                                 !.outcome_state = ReviewedState(outcome)]]),
           NEW row \in ThreadRow, s.run = [run EXCEPT ![t] = row],
           row.runtime_state = "running" => run[t].runtime_state = "running",
           s.slots \subseteq slots, s.turn = turn, s.reply = reply
    PROVE  Kept
<1> DEFINE final == [row EXCEPT !.outcome = outcome, !.outcome_state = ReviewedState(outcome)]
           x == [s EXCEPT !.run = [run EXCEPT ![t] = final]]
<1>1. st \in State /\ run \in [Runs -> ThreadRow] /\ t \in Runs
  BY StFields, ThreadIsRun DEF Good, State
<1>2. s.run[t] = row /\ [s.run EXCEPT ![t] = final] = [run EXCEPT ![t] = final]
  BY <1>1
<1>3. Commit(x)
  BY <1>1, <1>2 DEF State
<1>4. final.runtime_state = row.runtime_state
  BY DEF ThreadRow
<1> HIDE DEF final
<1>5. x.run = [run EXCEPT ![t] = final] /\ x.slots = s.slots /\ x.turn = turn /\ x.reply = reply
  BY DEF State
<1> HIDE DEF x
<1> QED
  BY <1>3, <1>4, <1>5, CommittedRow

LEMMA ReviewKeeps ==
    ASSUME Good(st), Fits(st), NEW t \in Threads, NEW outcome \in Outcomes, Review(t, outcome)
    PROVE  Kept
<1>1. st \in State /\ run[t] \in ThreadRow /\ run \in [Runs -> ThreadRow] /\ t \in Runs
  BY StFields, ThreadIsRun DEF Good, State
<1>2. st.run = [run EXCEPT ![t] = run[t]] /\ st.slots \subseteq slots /\ st.turn = turn
      /\ st.reply = reply
  BY <1>1, StFields
<1>3. Commit([st EXCEPT !.run[t] = [@ EXCEPT !.outcome = outcome,
                                             !.outcome_state = ReviewedState(outcome)]])
  BY DEF Review
<1> QED
  BY <1>1, <1>2, <1>3, VerdictKeeps

LEMMA CloseRunKeeps ==
    ASSUME Good(st), Fits(st), NEW t \in Threads, NEW outcome \in Outcomes, CloseRun(t, outcome)
    PROVE  Kept
<1> DEFINE exit == IF outcome = "failed" THEN "nonzero" ELSE "clean"
           exited == [st EXCEPT !.run[t] = FinishRunFromExit(@, exit),
                                !.chat[t] = [@ EXCEPT !.close_reason = "process_exited"]]
           closed == IF run[t].status = "finished" THEN st
                     ELSE IF outcome = "stopped" THEN StopRun(st, t)
                     ELSE exited
           Closes(s, row) ==
             /\ s \in State /\ s.run = [run EXCEPT ![t] = row]
             /\ row.runtime_state = "running" => run[t].runtime_state = "running"
             /\ s.slots \subseteq slots /\ s.turn = turn /\ s.reply = reply
<1>1. /\ st \in State /\ run \in [Runs -> ThreadRow] /\ run[t] \in ThreadRow /\ t \in Runs
      /\ chat[t] \in Chat /\ run[t].status # "none"
  BY StFields, ThreadIsRun DEF Good, State, CloseRun
<1>2. Closes(st, run[t])
  BY <1>1, StFields
<1>3. \E row \in ThreadRow : Closes(StopRun(st, t), row)
  <2> DEFINE row == FinishRunStopped(run[t])
             x == StopRun(st, t)
  <2>1. row \in ThreadRow /\ row.runtime_state # "running"
    BY <1>1, RowTypes DEF FinishRunStopped, ThreadRow
  <2>2. x \in State
    BY <1>1, StopRunGood, StFields DEF Good
  <2>3. /\ x.run = [run EXCEPT ![t] = row] /\ x.slots = slots \ {t} /\ x.turn = turn
        /\ x.reply = reply
    BY <1>1, StFields DEF StopRun, ReleaseSlot, State
  <2> HIDE DEF x, row
  <2>4. Closes(x, row)
    BY <2>1, <2>2, <2>3
  <2> QED
    BY <2>1, <2>4 DEF x
<1>4. \E row \in ThreadRow : Closes(exited, row)
  <2> DEFINE row == FinishRunFromExit(run[t], exit)
             c == [chat[t] EXCEPT !.close_reason = "process_exited"]
             x == [st EXCEPT !.run = [run EXCEPT ![t] = row], !.chat = [chat EXCEPT ![t] = c]]
  <2>1. row \in ThreadRow
    BY <1>1, RowTypes
  <2>2. row.runtime_state # "running"
    BY <1>1 DEF FinishRunFromExit, ThreadRow
  <2>3. c \in Chat
    BY <1>1 DEF Chat, CloseReason
  <2>4. exited = x
    BY <1>1, StFields DEF State
  <2> HIDE DEF row, c, exited
  <2>5. /\ x \in State /\ x.run = [run EXCEPT ![t] = row] /\ x.slots = slots /\ x.turn = turn
        /\ x.reply = reply
    BY <1>1, <2>1, <2>3, StFields DEF State
  <2> HIDE DEF x
  <2>6. Closes(x, row)
    BY <2>2, <2>5
  <2> QED
    BY <2>1, <2>4, <2>6
<1>5. Commit([closed EXCEPT !.run[t] = [@ EXCEPT !.outcome = outcome,
                                          !.outcome_state = ReviewedState(outcome)]])
  BY DEF CloseRun
<1> HIDE DEF exited
<1>6. PICK row \in ThreadRow : Closes(closed, row)
  BY <1>1, <1>2, <1>3, <1>4
<1> HIDE DEF closed
<1> QED
  BY <1>5, <1>6, VerdictKeeps

\* noteRunActivity() moves a timer only.
LEMMA NoteFrame ==
    ASSUME NEW s \in State, NEW t \in Threads
    PROVE  LET y == NoteRunActivity(s, t)
           IN  /\ y \in State /\ y.run = s.run /\ y.slots = s.slots /\ y.reply = s.reply
               /\ y.silent = s.silent
               /\ \A u \in Threads : y.turn[u].n = s.turn[u].n
<1>1. CASE ~InFlight(s, t)
  BY <1>1 DEF NoteRunActivity
<1>2. CASE InFlight(s, t)
  <2> DEFINE e == [s.turn[t] EXCEPT !.idle = Idle]
             f == [s.turn EXCEPT ![t] = e]
             x == [s EXCEPT !.turn = f]
  <2>1. NoteRunActivity(s, t) = x
    BY <1>2 DEF NoteRunActivity, State
  <2>2. e \in Turn /\ e.n = s.turn[t].n
    BY TimerAssumption DEF State, Turn
  <2>3. f \in [Threads -> Turn] /\ f[t] = e /\ \A u \in Threads \ {t} : f[u] = s.turn[u]
    BY <2>2 DEF State
  <2> HIDE DEF e, f
  <2>4. /\ x \in State /\ x.run = s.run /\ x.slots = s.slots /\ x.reply = s.reply
        /\ x.silent = s.silent /\ x.turn = f
    BY <2>3 DEF State
  <2> HIDE DEF x
  <2> QED
    BY <2>1, <2>2, <2>3, <2>4
<1> QED
  BY <1>1, <1>2

\* Nothing the two invariants speak of changes.
LEMMA NothingChanges ==
    ASSUME Fits(st), run' = run, slots' = slots, reply' = reply,
           \A u \in Threads : turn'[u].n = turn[u].n
    PROVE  Kept
<1>1. Fits(st)'
  BY DEF Fits, FitsAt, HoldsSlot, st
<1>2. Answered(st) => Answered(st)'
  BY DEF Answered, AnsweredAt, st
<1> QED
  BY <1>1, <1>2 DEF Kept

LEMMA ToolCallKeeps ==
    ASSUME Good(st), Fits(st), NEW t \in Threads, NEW k, ToolCall(t, k)
    PROVE  Kept
<1> DEFINE y == NoteRunActivity(st, t)
           x == [y EXCEPT !.silent[t] = 0]
<1>1. Commit(x)
  BY DEF ToolCall
<1>2. /\ y \in State /\ y.run = run /\ y.slots = slots /\ y.reply = reply
      /\ \A u \in Threads : y.turn[u].n = turn[u].n
  BY NoteFrame, StFields DEF Good
<1> HIDE DEF y
<1>3. x.run = y.run /\ x.slots = y.slots /\ x.reply = y.reply /\ x.turn = y.turn
  BY <1>2 DEF State
<1> HIDE DEF x
<1> QED
  BY <1>1, <1>2, <1>3, NothingChanges DEF Commit

LEMMA ProcessOutputKeeps ==
    ASSUME Good(st), Fits(st), NEW p \in procs, ProcessOutput(p)
    PROVE  Kept
<1> DEFINE t == p.thread
           y == NoteRunActivity(st, t)
           x == [y EXCEPT !.silent[t] = IF IsCurrent(p) THEN 0 ELSE @]
<1>1. Commit(x)
  BY DEF ProcessOutput
<1>2. t \in Threads
  BY StFields DEF Good, State, Proc
<1>3. /\ y \in State /\ y.run = run /\ y.slots = slots /\ y.reply = reply
      /\ \A u \in Threads : y.turn[u].n = turn[u].n
  BY <1>2, NoteFrame, StFields DEF Good
<1> HIDE DEF y
<1>4. x.run = y.run /\ x.slots = y.slots /\ x.reply = y.reply /\ x.turn = y.turn
  BY <1>3 DEF State
<1> HIDE DEF x
<1> QED
  BY <1>1, <1>3, <1>4, NothingChanges DEF Commit

LEMMA KillAfterGraceKeeps ==
    ASSUME Good(st), Fits(st), NEW p \in procs, KillAfterGrace(p)
    PROVE  Kept
<1> DEFINE x == [st EXCEPT !.procs = SignalTo(st, p.thread, p.n, "SIGKILL")]
<1>1. Commit(x)
  BY DEF KillAfterGrace
<1>2. x.run = run /\ x.slots = slots /\ x.reply = reply /\ x.turn = turn
  BY StFields DEF Good, State
<1> HIDE DEF x
<1> QED
  BY <1>1, <1>2, NothingChanges DEF Commit

LEMMA TickKeeps == ASSUME Good(st), Fits(st), Tick PROVE Kept
<1>1. \A u \in Threads : turn'[u].n = turn[u].n
  <2>1. turn \in [Threads -> Turn]
    BY StFields DEF Good, State
  <2> QED
    BY <2>1 DEF Tick, Turn
<1>2. run' = run /\ slots' = slots /\ reply' = reply
  BY DEF Tick, db
<1> QED
  BY <1>1, <1>2, NothingChanges

LEMMA ProcessExitKeeps ==
    ASSUME Good(st), Fits(st), NEW p \in procs, NEW clean \in BOOLEAN, ProcessExit(p, clean)
    PROVE  Kept
<1> DEFINE t == p.thread
           e == [st EXCEPT !.procs = procs \ {p}]
           gone == NoteRunActivity(e, t)
<1>1. st \in State /\ t \in Threads
  BY StFields DEF Good, State, Proc
<1>2. /\ e \in State /\ e.run = run /\ e.turn = turn /\ e.slots = slots /\ e.reply = reply
  BY <1>1, StFields DEF State
<1>3. Commit(IF ~IsCurrent(p) THEN gone
             ELSE IF clean THEN TurnFinished(gone, t) ELSE TurnFailed(gone, t))
  BY StFields DEF ProcessExit
<1> HIDE DEF e
<1>4. /\ gone \in State /\ gone.run = run /\ gone.slots = slots /\ gone.reply = reply
      /\ \A u \in Threads : gone.turn[u].n = turn[u].n
  BY <1>1, <1>2, NoteFrame
<1> HIDE DEF gone
<1>5. CASE ~IsCurrent(p)
  BY <1>3, <1>4, <1>5, NothingChanges DEF Commit
<1>6. CASE IsCurrent(p)
  <2>1. Within(st, gone, t)
    BY <1>4, StFields DEF Within
  <2>2. Commit(TurnFinished(gone, t)) \/ Commit(TurnFailed(gone, t))
    BY <1>3, <1>6
  <2> QED
    BY <1>1, <1>4, <2>1, <2>2, TurnEndKeeps
<1> QED
  BY <1>5, <1>6

LEMMA TimeoutKeeps ==
    ASSUME Good(st), Fits(st), NEW t \in Threads,
           NEW reason \in {"idle_timeout", "hard_timeout"}, Commit(TimeoutHitlTurn(st, t, reason))
    PROVE  Kept
<1> DEFINE P == SignalTo(st, t, turn[t].n, "SIGTERM")
           c == [chat[t] EXCEPT !.timeout = reason]
           f == [chat EXCEPT ![t] = c]
           e == [st EXCEPT !.chat = f, !.procs = P]
<1>1. st \in State /\ chat \in [Threads -> Chat]
  BY StFields DEF Good, State
<1>2. P \subseteq Proc
  BY SignalFrame
<1>3. TimeoutHitlTurn(st, t, reason) = TurnFailed(e, t)
  BY <1>1, StFields DEF TimeoutHitlTurn
<1>4. c \in Chat
  BY <1>1 DEF Chat
<1> HIDE DEF P, c
<1>5. f \in [Threads -> Chat]
  BY <1>1, <1>4
<1> HIDE DEF f
<1>6. e \in State /\ e.run = run /\ e.turn = turn /\ e.slots = slots /\ e.reply = reply
  BY <1>1, <1>2, <1>5, StFields DEF State
<1> HIDE DEF e
<1>7. Within(st, e, t)
  BY <1>6, StFields DEF Within
<1> QED
  BY <1>3, <1>6, <1>7, TurnEndKeeps

\* A turn that takes the slot of its thread.
LEMMA BeginTurnFrame ==
    ASSUME NEW s \in State, NEW t \in Threads
    PROVE  LET b == BeginTurn(s, t)
           IN  /\ b \in State /\ b.run = s.run /\ b.procs = s.procs
               /\ b.slots = s.slots \cup {t}
               /\ b.turn[t].n # 0 /\ b.reply[t] = "awaited"
               /\ \A u \in Threads \ {t} : b.turn[u] = s.turn[u] /\ b.reply[u] = s.reply[u]
<1> DEFINE n == s.chat[t].turns + 1
           b == BeginTurn(s, t)
           c == [s.chat[t] EXCEPT !.token = n, !.turns = n, !.timeout = "none"]
           e == [n |-> n, idle |-> Idle, hard |-> Hard]
<1>1. s.chat[t] \in Chat /\ t \in Runs /\ n \in Nat /\ n # 0
  <2>1. s.chat[t] \in Chat
    BY DEF State
  <2>2. s.chat[t].turns \in Nat
    BY <2>1 DEF Chat
  <2> QED
    BY <2>1, <2>2, ThreadIsRun
<1>2. c \in Chat
  BY <1>1 DEF Chat
<1>3. e \in Turn /\ e.n = n
  BY <1>1, TimerAssumption DEF Turn
<1>4. b = [s EXCEPT !.slots = s.slots \cup {t}, !.chat = [s.chat EXCEPT ![t] = c],
                    !.turn = [s.turn EXCEPT ![t] = e],
                    !.silent = [s.silent EXCEPT ![t] = 0],
                    !.reply = [s.reply EXCEPT ![t] = "awaited"]]
  BY DEF BeginTurn, ReserveSlot, State
<1> HIDE DEF c, e, b, n
<1>5. /\ [s.chat EXCEPT ![t] = c] \in [Threads -> Chat]
      /\ [s.turn EXCEPT ![t] = e] \in [Threads -> Turn]
      /\ [s.silent EXCEPT ![t] = 0] \in [Threads -> 0..Idle]
      /\ [s.reply EXCEPT ![t] = "awaited"] \in [Threads -> {"none", "awaited", "mon", "error"}]
  BY <1>2, <1>3, TimerAssumption DEF State
<1>6. /\ b \in State /\ b.run = s.run /\ b.procs = s.procs /\ b.slots = s.slots \cup {t}
      /\ b.turn = [s.turn EXCEPT ![t] = e] /\ b.reply = [s.reply EXCEPT ![t] = "awaited"]
  BY <1>1, <1>4, <1>5 DEF State
<1>7. /\ b.turn[t] = e /\ b.reply[t] = "awaited"
      /\ \A u \in Threads \ {t} : b.turn[u] = s.turn[u] /\ b.reply[u] = s.reply[u]
  BY <1>6 DEF State
<1> QED
  BY <1>1, <1>3, <1>6, <1>7 DEF b

LEMMA PostMessageKeeps ==
    ASSUME Good(st), Fits(st), NEW t \in Threads, NEW how \in {"spawned", "failed", "refused"},
           PostMessage(t, how)
    PROVE  Kept
<1> DEFINE row == [run[t] EXCEPT !.runtime_state = "running"]
           asked == [st EXCEPT !.run = [run EXCEPT ![t] = row]]
           begun == BeginTurn(asked, t)
<1>1. st \in State /\ run[t] \in ThreadRow /\ t \in Runs /\ t \notin OneShots
  BY StFields, ThreadIsRun DEF Good, State, OneShots
<1>2. row \in ThreadRow
  BY <1>1 DEF ThreadRow, ThreadRuntimeState, RuntimeState
<1>3. Commit(CASE how = "refused" -> Replied(asked, t, "refused")
               [] how = "failed"  -> TurnFailed(begun, t)
               [] how = "spawned" ->
                    [begun EXCEPT !.procs = @ \cup
                       {[thread |-> t, n |-> chat[t].turns + 1, signal |-> "none"]}])
  <2>1. [st EXCEPT !.run[t] = [@ EXCEPT !.runtime_state = "running"]] = asked
    BY <1>1, StFields
  <2> QED
    BY <2>1 DEF PostMessage
<1> HIDE DEF row
<1>4. /\ asked \in State /\ asked.slots = slots /\ asked.turn = turn /\ asked.reply = reply
      /\ asked.run = [run EXCEPT ![t] = row]
  BY <1>1, <1>2, StFields DEF State
<1> HIDE DEF asked
<1>5. /\ \A r \in OneShots : asked.run[r] = run[r]
      /\ \A u \in Threads \ {t} : asked.run[u] = run[u]
  BY <1>1, <1>4, ThreadIsRun, StFields DEF State, OneShots
<1>6. Fits(asked)
  BY <1>4, <1>5, FewerSlots, StFields
<1>7. CASE how = "refused"
  <2> DEFINE x == Replied(asked, t, "refused")
  <2>1. Commit(x) /\ "refused" \in Answers
    BY <1>3, <1>7 DEF Answers
  <2>2. /\ x.slots = asked.slots /\ x.turn = asked.turn
        /\ \A r \in OneShots : x.run[r] = asked.run[r]
        /\ x.run[t].runtime_state = "waiting_for_user"
        /\ x.reply[t] = IF "refused" = "refused" THEN asked.reply[t] ELSE "refused"
        /\ \A u \in Threads \ {t} : x.reply[u] = asked.reply[u] /\ x.run[u] = asked.run[u]
    <3>1. asked \in State
      BY <1>4
    <3> QED
      BY <2>1, <3>1, RepliedKeeps
  <2> HIDE DEF x
  <2>3. /\ slots' = slots /\ turn' = turn /\ run' = x.run /\ reply' = x.reply
    BY <1>4, <2>1, <2>2 DEF Commit
  <2>4. Answered(st) => AnsweredAt(st, t)'
    BY <1>4, <2>2, <2>3 DEF Answered, AnsweredAt, st
  <2> QED
    BY <1>4, <1>5, <2>2, <2>3, <2>4, ThreadStepKeeps
<1>8. /\ begun \in State /\ begun.run = asked.run /\ begun.slots = slots \cup {t}
      /\ begun.turn[t].n # 0 /\ begun.reply[t] = "awaited"
      /\ \A u \in Threads \ {t} : begun.turn[u] = turn[u] /\ begun.reply[u] = reply[u]
  BY <1>4, BeginTurnFrame
<1> HIDE DEF begun
<1>9. CASE how = "failed"
  <2>1. Commit(TurnFailed(begun, t))
    BY <1>3, <1>9
  <2>2. Within(st, begun, t)
    BY <1>5, <1>8, StFields DEF Within
  <2> QED
    BY <1>8, <2>1, <2>2, TurnEndKeeps
<1>10. CASE how = "spawned"
  <2> DEFINE x == [begun EXCEPT !.procs = @ \cup
                     {[thread |-> t, n |-> chat[t].turns + 1, signal |-> "none"]}]
  <2>1. Commit(x)
    BY <1>3, <1>10
  <2>2. x.run = begun.run /\ x.slots = begun.slots /\ x.turn = begun.turn /\ x.reply = begun.reply
    BY <1>8 DEF State
  <2> HIDE DEF x
  <2>3. run' = begun.run /\ slots' = begun.slots /\ turn' = begun.turn /\ reply' = begun.reply
    BY <2>1, <2>2 DEF Commit
  <2>4. FreeSlot(st, t)
    BY <1>10 DEF PostMessage
  <2>5. Fits(begun)
    BY <1>5, <1>8, <2>4, TakenSlot, StFields
  <2>6. Fits(st)'
    BY <2>3, <2>5 DEF Fits, FitsAt, HoldsSlot, st
  <2>7. Answered(st) => Answered(st)'
    BY <1>5, <1>8, <2>3 DEF Answered, AnsweredAt, st
  <2> QED
    BY <2>6, <2>7 DEF Kept
<1> QED
  BY <1>7, <1>9, <1>10

\* What only one-shot runs do concerns no conversation.
LEMMA DispatchedKeeps ==
    ASSUME Good(st), Fits(st), NEW s \in State, Fits(s), NEW m \in Mons, Commit(Dispatch(s, m)),
           s.turn = turn, s.reply = reply, \A t \in Threads : s.run[t] = run[t]
    PROVE  Kept
<1> DEFINE x == Dispatch(s, m)
<1>1. Fits(x)
  BY DispatchKeepsLimit
<1>2. x.turn = turn /\ x.reply = reply /\ \A t \in Threads : x.run[t] = run[t]
  BY DispatchFrame
<1> HIDE DEF x
<1>3. run' = x.run /\ slots' = x.slots /\ turn' = x.turn /\ reply' = x.reply
  BY DEF Commit, x
<1>4. Fits(st)'
  BY <1>1, <1>3 DEF Fits, FitsAt, HoldsSlot, st
<1> QED
  BY <1>2, <1>3, <1>4 DEF Kept, Answered, AnsweredAt, st

LEMMA SubmitKeeps == ASSUME Good(st), Fits(st), NEW r \in OneShots, Submit(r) PROVE Kept
<1> DEFINE f == [run EXCEPT ![r] = QueuedRow]
           x == [st EXCEPT !.run = f]
<1>1. st \in State /\ run \in [Runs -> ThreadRow] /\ r \in Runs /\ r \notin Threads
  BY StFields DEF Good, State, OneShots
<1>2. QueuedRow \in ThreadRow /\ QueuedRow.status \notin ProcessBacked
  BY DEF QueuedRow, NoRow, ThreadRow, RunStatus, ProcessStatus, RunOutcome, ThreadRuntimeState,
         RuntimeState, OutcomeState, ProcessBacked
<1>3. f \in [Runs -> ThreadRow] /\ f[r] = QueuedRow /\ \A q \in Runs \ {r} : f[q] = run[q]
  BY <1>1, <1>2
<1>4. Commit(Dispatch(x, MonOf[r]))
  BY StFields DEF Submit
<1> HIDE DEF f
<1>5. /\ x \in State /\ x.run = f /\ x.slots = slots /\ x.turn = turn /\ x.reply = reply
  BY <1>1, <1>3, StFields DEF State
<1> HIDE DEF x
<1>6. Fits(x)
  BY <1>2, <1>3, <1>5, FewerSlots, StFields DEF OneShots
<1>7. MonOf[r] \in Mons /\ \A t \in Threads : x.run[t] = run[t]
  BY <1>1, <1>3, <1>5, MonTypes, ThreadIsRun
<1> QED
  BY <1>4, <1>5, <1>6, <1>7, DispatchedKeeps

LEMMA OneShotExitKeeps == ASSUME Good(st), Fits(st), NEW r \in OneShots, OneShotExit(r) PROVE Kept
<1> DEFINE row == FinishRunFromExit(run[r], "clean")
           f == [run EXCEPT ![r] = row]
           x == [st EXCEPT !.run = f]
           y == ReleaseSlot(x, r)
<1>1. st \in State /\ run \in [Runs -> ThreadRow] /\ r \in Runs /\ r \notin Threads
  BY StFields DEF Good, State, OneShots
<1>2. row \in ThreadRow
  BY <1>1, RowTypes
<1>3. row.status \notin ProcessBacked
  <2>1. row.status = "finished"
    BY <1>1 DEF FinishRunFromExit, ThreadRow
  <2> QED
    BY <2>1 DEF ProcessBacked
<1>4. Commit(Dispatch(y, MonOf[r]))
  BY StFields DEF OneShotExit
<1> HIDE DEF row
<1>5. f \in [Runs -> ThreadRow] /\ f[r] = row /\ \A q \in Runs \ {r} : f[q] = run[q]
  BY <1>1, <1>2
<1> HIDE DEF f
<1>6. /\ x \in State /\ x.run = f /\ x.slots = slots /\ x.turn = turn /\ x.reply = reply
  BY <1>1, <1>5, StFields DEF State
<1> HIDE DEF x
<1>7. /\ y \in State /\ y.run = f /\ y.slots = slots \ {r} /\ y.turn = turn /\ y.reply = reply
  BY <1>6 DEF ReleaseSlot, State
<1> HIDE DEF y
<1>8. Fits(y)
  BY <1>3, <1>5, <1>7, FewerSlots, StFields DEF OneShots
<1>9. MonOf[r] \in Mons /\ \A t \in Threads : y.run[t] = run[t]
  BY <1>1, <1>5, <1>7, MonTypes, ThreadIsRun
<1> QED
  BY <1>4, <1>7, <1>8, <1>9, DispatchedKeeps

\* A restart gives up the lost one-shot runs and the orphaned slots, and dispatches.
LEMMA CrashFits == ASSUME Good(st), Fits(st), CrashAndRestart PROVE Fits(st)'
<1> DEFINE none == [st EXCEPT !.turn = [t \in Threads |-> NoTurn],
                              !.silent = [t \in Threads |-> 0], !.procs = {}]
           f == [r \in Runs |-> IF r \in OneShots /\ none.run[r].status \in ProcessBacked
                                THEN FinishRunInterrupted(none.run[r], "lost") ELSE none.run[r]]
           lost == [none EXCEPT !.run = f]
           back == ReleaseOrphans(lost)
           x == StartAll(back, UNION {Dispatched(back, m) : m \in Mons})
<1>1. /\ [t \in Threads |-> NoTurn] \in [Threads -> Turn]
      /\ [t \in Threads |-> 0] \in [Threads -> 0..Idle]
  BY NoTurnType, TimerAssumption
<1>2. none \in State /\ none.run = run /\ none.slots = slots
  BY <1>1, StFields DEF Good, State
<1>3. Commit(x)
  BY DEF CrashAndRestart, MarkLostOnStartup
<1> HIDE DEF none
<1>4. f \in [Runs -> ThreadRow]
      /\ \A r \in OneShots : f[r].status \in ProcessBacked => run[r].status \in ProcessBacked
  <2>1. \A r \in Runs : none.run[r] \in ThreadRow
                        /\ FinishRunInterrupted(none.run[r], "lost") \in ThreadRow
    BY <1>2, RowTypes DEF State
  <2>2. \A r \in OneShots : f[r].status \in ProcessBacked => f[r] = run[r]
    <3>1. \A r \in Runs : FinishRunInterrupted(none.run[r], "lost").status = "finished"
      BY <2>1 DEF FinishRunInterrupted, ThreadRow
    <3>2. "finished" \notin ProcessBacked /\ OneShots \subseteq Runs
      BY DEF ProcessBacked, OneShots
    <3> QED
      BY <1>2, <3>1, <3>2
  <2> QED
    BY <2>1, <2>2
<1> HIDE DEF f
<1>5. lost \in State /\ lost.run = f /\ lost.slots = slots
  BY <1>2, <1>4 DEF State
<1> HIDE DEF lost
<1>6. back \in State /\ back.run = f /\ back.slots \subseteq slots
  BY <1>5 DEF ReleaseOrphans, State
<1> HIDE DEF back
<1>7. Fits(back)
  BY <1>4, <1>6, FewerSlots, StFields
<1>8. Fits(x)
  BY <1>6, <1>7, DispatchFits
<1> HIDE DEF x
<1>9. run' = x.run /\ slots' = x.slots
  BY <1>3 DEF Commit
<1> QED
  BY <1>8, <1>9 DEF Fits, FitsAt, HoldsSlot, st

-----------------------------------------------------------------------------
(* The invariant *)

SInv == IInv /\ Fits(st) /\ (crashes = 0 => Answered(st))

LEMMA InitFits == Init => SInv
<1> SUFFICES ASSUME Init PROVE SInv
  OBVIOUS
<1>1. \A m \in Mons : HoldsSlot(st, m) = {}
  BY StFields DEF Init, HoldsSlot, NoRow, ProcessBacked, OneShots
<1>2. Fits(st)
  BY <1>1, FS_EmptySet, LimitAssumption DEF Fits, FitsAt
<1>3. Answered(st)
  BY ThreadIsRun, StFields DEF Init, Answered, AnsweredAt, NoTurn, NoRow
<1> QED
  BY <1>2, <1>3, InitGood DEF SInv

LEMMA RequestKeeps == ASSUME Good(st), Fits(st), NEW t \in Threads, ThreadRequest(t) PROVE Kept
<1>1. CASE OpenThread(t)
  BY <1>1, OpenThreadKeeps
<1>2. CASE \E how \in {"spawned", "failed", "refused"} : PostMessage(t, how)
  BY <1>2, PostMessageKeeps
<1>3. CASE \E k \in 1..MaxTurns : ToolCall(t, k)
  BY <1>3, ToolCallKeeps
<1>4. CASE \E reason \in Reasons : CloseThread(t, reason)
  BY <1>4, CloseThreadKeeps
<1>5. CASE \E outcome \in Outcomes : CloseRun(t, outcome)
  BY <1>5, CloseRunKeeps
<1>6. CASE \E outcome \in Outcomes : Review(t, outcome)
  BY <1>6, ReviewKeeps
<1> QED
  BY <1>1, <1>2, <1>3, <1>4, <1>5, <1>6 DEF ThreadRequest

LEMMA EventKeeps == ASSUME Good(st), Fits(st), NEW p \in procs, ProcessEvent(p) PROVE Kept
<1>1. CASE ProcessOutput(p)
  BY <1>1, ProcessOutputKeeps
<1>2. CASE \E clean \in BOOLEAN : ProcessExit(p, clean)
  BY <1>2, ProcessExitKeeps
<1>3. CASE KillAfterGrace(p)
  BY <1>3, KillAfterGraceKeeps
<1> QED
  BY <1>1, <1>2, <1>3 DEF ProcessEvent

LEMMA TimerKeeps == ASSUME Good(st), Fits(st), TimerFires PROVE Kept
<1>1. PICK t \in Threads : IdleTimeout(t) \/ HardTimeout(t)
  BY DEF TimerFires
<1>2. CASE IdleTimeout(t)
  BY <1>2, TimeoutKeeps DEF IdleTimeout
<1>3. CASE HardTimeout(t)
  BY <1>3, TimeoutKeeps DEF HardTimeout
<1> QED
  BY <1>1, <1>2, <1>3

LEMMA NextKeeps == SInv /\ [Next]_vars => SInv'
<1> SUFFICES ASSUME SInv, [Next]_vars PROVE SInv'
  OBVIOUS
<1>1. IInv' /\ Good(st) /\ Fits(st) /\ crashes \in Nat
  BY NextGood, TimerAssumption DEF SInv, IInv
<1>2. CASE Kept /\ crashes' = crashes
  BY <1>1, <1>2 DEF SInv, Kept
<1>3. CASE \E t \in Threads : ThreadRequest(t)
  BY <1>1, <1>2, <1>3, RequestKeeps, RequestGood
<1>4. CASE TimerFires
  BY <1>1, <1>2, <1>4, TimerKeeps, TimerGood
<1>5. CASE \E p \in procs : ProcessEvent(p)
  BY <1>1, <1>2, <1>5, EventKeeps, EventGood
<1>6. CASE \E r \in OneShots : Submit(r) \/ OneShotExit(r)
  BY <1>1, <1>2, <1>6, SubmitKeeps, OneShotExitKeeps DEF Submit, OneShotExit
<1>7. CASE Tick
  BY <1>1, <1>2, <1>7, TickKeeps DEF Tick
<1>8. CASE CrashAndRestart
  <2>1. crashes' # 0
    BY <1>1, <1>8 DEF CrashAndRestart
  <2> QED
    BY <1>1, <1>8, <2>1, CrashFits DEF SInv
<1>9. CASE UNCHANGED vars
  <2>1. Kept /\ crashes' = crashes
    BY <1>1, <1>9, NothingChanges DEF vars, db
  <2> QED
    BY <1>2, <2>1
<1> QED
  BY <1>3, <1>4, <1>5, <1>6, <1>7, <1>8, <1>9 DEF Next

LEMMA KeptAlways == Spec => []SInv
BY InitFits, NextKeeps, PTL DEF Spec

-----------------------------------------------------------------------------
(* Theorems *)

\* The processes of a Mon that hold a slot never exceed max_active_runs, whichever of turns,
\* one-shot runs, closes, timeouts and crashes gave slots back (reserve()).
THEOREM SlotsNeverExceedLimit == Spec => []SlotsWithinLimit
<1>1. SInv => SlotsWithinLimit
  BY DEF SInv, Fits, FitsAt, SlotsWithinLimit
<1> QED
  BY <1>1, KeptAlways, PTL

\* Until the service crashes, a message that awaits its reply has a turn in flight, a turn in
\* flight has a message that awaits it, and no other thread shows as running (the message route).
THEOREM RepliesHaveTurns == Spec => []ReplyAwaitedMeansTurn
<1>1. SInv => ReplyAwaitedMeansTurn
  BY StFields DEF SInv, Answered, AnsweredAt, ReplyAwaitedMeansTurn, InFlight
<1> QED
  BY <1>1, KeptAlways, PTL

\* The state invariant of the conversations, every part of it.
THEOREM ConversationsConsistent == Spec => []ThreadInv
BY ThreadTypes, SlotsNeverExceedLimit, ProcessesWatched, OneConversationTheorem,
   RepliesHaveTurns, PTL DEF ThreadInv
=============================================================================
