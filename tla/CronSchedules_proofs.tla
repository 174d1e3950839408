------------------------- MODULE CronSchedules_proofs -------------------------
(***************************************************************************)
(* Theorems about cron schedules, for every value of the constants: any    *)
(* number of schedules, runs and expressions.  The invariant says how the  *)
(* columns of an enabled schedule follow from the time up to which it has  *)
(* been dealt with (Columns); from it follows what one fire covers         *)
(* (FireCoversOwed), and with that the refinement of CronContract.         *)
(***************************************************************************)
EXTENDS CronSchedules, FiniteSetTheorems, WellFoundedInduction, TLAPS

LEMMA Least ==
    ASSUME NEW S \in SUBSET Nat, S # {}
    PROVE  \E m \in S : \A n \in S : m <= n
<1> DEFINE R == OpToRel(<, Nat)
<1>1. IsWellFoundedOn(R, Nat)
  BY NatLessThanWellFounded
<1>2. \A x, y \in Nat : <<y, x>> \in R <=> y < x
  BY DEF OpToRel
<1> HIDE DEF R
<1>3. PICK m \in S : \A n \in S : ~(<<n, m>> \in R)
  BY <1>1, WFMin
<1>4. \A n \in S : ~(n < m)
  BY <1>2, <1>3
<1> QED
  BY <1>3, <1>4

LEMMA Greatest ==
    ASSUME NEW t \in Nat, NEW S \in SUBSET (0..t), S # {}
    PROVE  \E m \in S : \A n \in S : n <= m
<1> DEFINE D == {t - n : n \in S}
<1>1. D \in SUBSET Nat
  OBVIOUS
<1>2. D # {}
  <2>1. PICK n \in S : TRUE
    OBVIOUS
  <2>2. t - n \in D
    BY <2>1
  <2> QED
    BY <2>2
<1> HIDE DEF D
<1>3. PICK d \in D : \A n \in D : d <= n
  BY <1>1, <1>2, Least
<1>4. PICK m \in S : d = t - m
  BY <1>3 DEF D
<1>5. \A n \in S : t - m <= t - n
  BY <1>3, <1>4 DEF D
<1> QED
  BY <1>4, <1>5

-----------------------------------------------------------------------------
(* Instants of an expression *)

LEMMA OccursType == \A e \in Exprs : Occurs[e] \subseteq 1..MaxTime /\ Occurs[e] \subseteq Nat
BY OccursAssumption

\* nextCronFire() gives the first instant after t, or none within the bound.
LEMMA NextFireFacts ==
    ASSUME NEW e \in Exprs, NEW t \in Nat
    PROVE  /\ NextFire(e, t) \in Column /\ NextFire(e, t) # NoTime
           /\ NextFire(e, t) <= MaxTime => NextFire(e, t) \in Occurs[e] /\ NextFire(e, t) > t
           /\ \A o \in Occurs[e] : o > t => NextFire(e, t) <= o
<1> DEFINE S == {o \in Occurs[e] : o > t}
<1>1. MaxTime \in Nat
  BY BoundAssumption
<1>2. CASE \E o \in Occurs[e] : o > t
  <2>1. S \in SUBSET Nat /\ S # {}
    BY <1>2, OccursType
  <2>2. \E m \in S : \A n \in S : m <= n
    BY <2>1, Least
  <2>3. \E o \in Occurs[e] : o > t /\ \A p \in Occurs[e] : p > t => o <= p
    BY <2>2
  <2>4. NextFire(e, t) \in Occurs[e] /\ NextFire(e, t) > t
        /\ \A p \in Occurs[e] : p > t => NextFire(e, t) <= p
    BY <1>2, <2>3 DEF NextFire
  <2> QED
    BY <1>1, <2>4, OccursType DEF Column, NoTime
<1>3. CASE ~\E o \in Occurs[e] : o > t
  BY <1>1, <1>3 DEF NextFire, Never, Column, NoTime
<1> QED
  BY <1>2, <1>3

\* Two times with no instant between them have the same next fire.
LEMMA NextFireFrom2 ==
    ASSUME NEW e \in Exprs, NEW t \in Nat, NEW u \in Nat, t <= u,
           \A o \in Occurs[e] : o > t => o > u
    PROVE  NextFire(e, t) = NextFire(e, u)
<1>1. \A o \in Occurs[e] : o \in Nat /\ o <= MaxTime /\ (o > t <=> o > u)
  BY OccursType
<1>2. CASE \E o \in Occurs[e] : o > t
  <2>1. PICK o \in Occurs[e] : o > t /\ o > u
    BY <1>2
  <2>2. NextFire(e, t) \in Occurs[e] /\ NextFire(e, t) > t
        /\ NextFire(e, u) \in Occurs[e] /\ NextFire(e, u) > u
    BY <1>1, <2>1, BoundAssumption, NextFireFacts DEF Column
  <2>3. NextFire(e, t) <= NextFire(e, u) /\ NextFire(e, u) <= NextFire(e, t)
    BY <1>1, <2>2, NextFireFacts
  <2> QED
    BY <1>1, <2>2, <2>3
<1>3. CASE ~\E o \in Occurs[e] : o > t
  BY <1>1, <1>3 DEF NextFire
<1> QED
  BY <1>2, <1>3

\* cronFireAtOrBefore() gives the last instant up to t, if there is one.
LEMMA FireAtOrBeforeFacts ==
    ASSUME NEW e \in Exprs, NEW t \in Nat, \E o \in Occurs[e] : o <= t
    PROVE  /\ FireAtOrBefore(e, t) \in Occurs[e] /\ FireAtOrBefore(e, t) <= t
           /\ \A o \in Occurs[e] : o <= t => o <= FireAtOrBefore(e, t)
<1> DEFINE S == {o \in Occurs[e] : o <= t}
<1>1. S \in SUBSET (0..t) /\ S # {}
  BY OccursType
<1>2. \E m \in S : \A n \in S : n <= m
  BY <1>1, Greatest
<1>3. \E o \in Occurs[e] : o <= t /\ \A p \in Occurs[e] : p <= t => p <= o
  BY <1>2
<1> QED
  BY <1>3 DEF FireAtOrBefore

-----------------------------------------------------------------------------
(* The invariant *)

Live(s) == sched[s].state = "live" /\ sched[s].enabled

\* The columns of an enabled schedule: without a pending fire the next one is the first
\* after since; a pending one spans the instants from there to the one before the next.
Columns(s) ==
    LET c == sched[s]
    IN  Live(s) =>
          IF c.pending_fire_at = NoTime
          THEN c.pending_first_fire_at = NoTime /\ c.next_fire_at = NextFire(c.expr, since[s])
          ELSE /\ c.pending_first_fire_at = NextFire(c.expr, since[s])
               /\ c.pending_first_fire_at <= c.pending_fire_at /\ c.pending_fire_at <= now
               /\ c.pending_fire_at \in Occurs[c.expr]
               /\ c.next_fire_at = NextFire(c.expr, c.pending_fire_at)

\* A fire lies in the time its schedule has been dealt with; runs not made yet cover nothing.
Fired(r) ==
    /\ r > made => rows[r] = NoRow
    /\ rows[r].cron # 0 => /\ rows[r].at <= since[rows[r].cron]
                           /\ rows[r].covers \subseteq 1..since[rows[r].cron]

\* A tick works through candidates; between ticks there are none.
Turns == todo \subseteq Candidates /\ (phase # "scan" => todo = {})

IInv ==
    /\ TypeOK
    /\ \A s \in Schedules : since[s] <= now /\ Columns(s)
    /\ \A r \in 1..MaxRuns : Fired(r)
    /\ AtMostOneOutstanding /\ FiresDisjoint
    /\ Turns

-----------------------------------------------------------------------------
LEMMA Types ==
    /\ MaxTime \in Nat /\ MaxRuns \in Nat
    /\ NoSchedule \in Schedule /\ NoRow \in Row
    /\ Schedules \subseteq Nat /\ 0 \notin Schedules
<1>1. MaxTime \in Nat /\ MaxRuns \in Nat
  BY BoundAssumption
<1>2. (CHOOSE e \in Exprs : TRUE) \in Exprs /\ (CHOOSE m \in Mons : TRUE) \in Mons
  BY NonEmptyAssumption
<1>3. NoTime \in Column
  BY <1>1 DEF NoTime, Column
<1> QED
  BY <1>1, <1>2, <1>3, ScheduleAssumption DEF NoSchedule, Schedule, NoRow, Row

LEMMA InitGood == Init => IInv
<1> SUFFICES ASSUME Init PROVE IInv
  OBVIOUS
<1>1. TypeOK
  BY Types, BoundAssumption DEF Init, TypeOK, Time
<1>2. \A r \in 1..MaxRuns : rows[r] = NoRow /\ rows[r].cron = 0
  BY DEF Init, NoRow
<1>3. \A s \in Schedules : since[s] <= now /\ ~Live(s)
  BY DEF Init, NoSchedule, Live
<1>4. todo = {}
  BY DEF Init
<1> QED
  BY <1>1, <1>2, <1>3, <1>4 DEF IInv, Turns, Columns, Fired, AtMostOneOutstanding, FiresDisjoint

-----------------------------------------------------------------------------
(* Runs *)

\* A step keeps the runs if what the fires say stays and no run is taken up again.
RunsKept ==
    /\ rows' \in [1..MaxRuns -> Row] /\ made' \in made..MaxRuns
    /\ \A r \in 1..MaxRuns :
          /\ rows'[r].cron = rows[r].cron /\ rows'[r].covers = rows[r].covers
          /\ rows'[r].at = rows[r].at /\ rows'[r].from = rows[r].from
          /\ rows'[r].cron # 0 /\ rows'[r].status \in {"queued", "active"}
                => rows[r].status \in {"queued", "active"}
          /\ r > made' => rows'[r] = NoRow

LEMMA RunsKeptGood ==
    ASSUME IInv, RunsKept, since' \in [Schedules -> Time],
           \A s \in Schedules : since[s] <= since'[s]
    PROVE  (\A r \in 1..MaxRuns : Fired(r)) ' /\ AtMostOneOutstanding' /\ FiresDisjoint'
<1>1. \A r \in 1..MaxRuns : Fired(r)'
  <2> SUFFICES ASSUME NEW r \in 1..MaxRuns PROVE Fired(r)'
    OBVIOUS
  <2>1. Fired(r) /\ rows[r] \in Row
    BY DEF IInv, TypeOK
  <2>2. ASSUME rows[r].cron # 0
        PROVE  rows[r].at <= since'[rows[r].cron] /\ rows[r].covers \subseteq 1..since'[rows[r].cron]
    <3> DEFINE s == rows[r].cron
    <3>1. s \in Schedules /\ rows[r].at \in Nat
      BY <2>1, <2>2, Types DEF Row, Column
    <3> HIDE DEF s
    <3>2. since[s] \in Nat /\ since'[s] \in Nat /\ since[s] <= since'[s]
      BY <3>1, Types DEF IInv, TypeOK, Time
    <3>3. rows[r].at <= since[s] /\ rows[r].covers \subseteq 1..since[s]
      BY <2>1, <2>2 DEF Fired, s
    <3>4. rows[r].at <= since'[s] /\ 1..since[s] \subseteq 1..since'[s]
      BY <3>1, <3>2, <3>3
    <3> QED
      BY <3>3, <3>4 DEF s
  <2> QED
    BY <2>2 DEF RunsKept, Fired
<1>2. AtMostOneOutstanding'
  BY DEF IInv, RunsKept, AtMostOneOutstanding
<1>3. FiresDisjoint'
  BY DEF IInv, RunsKept, FiresDisjoint
<1> QED
  BY <1>1, <1>2, <1>3

\* d is the row r, at most further on its way.
SameFire(d, r) ==
    /\ d.cron = r.cron /\ d.covers = r.covers /\ d.at = r.at /\ d.from = r.from
    /\ d.mon = r.mon
    /\ d.status \in {"queued", "active"} => r.status \in {"queued", "active"}
    /\ r = NoRow => d = NoRow

LEMMA StatusOnly ==
    ASSUME NEW x \in Row, NEW v \in {"active", "finished"}, x.status \in {"queued", "active"}
    PROVE  [x EXCEPT !.status = v] \in Row /\ SameFire([x EXCEPT !.status = v], x)
<1>1. NoRow.status = "none"
  BY DEF NoRow
<1> QED
  BY <1>1 DEF Row, SameFire

\* The dispatcher changes the status of queued runs only.
LEMMA DispatchFacts ==
    ASSUME NEW rs \in [1..MaxRuns -> Row], NEW configured, NEW M
    PROVE  /\ Dispatch(rs, configured, M) \in [1..MaxRuns -> Row]
           /\ \A r \in 1..MaxRuns : SameFire(Dispatch(rs, configured, M)[r], rs[r])
<1> DEFINE ds == Dispatch(rs, configured, M)
<1>1. \A r \in 1..MaxRuns :
         ds[r] = rs[r] \/ (rs[r].status = "queued" /\ ds[r] = [rs[r] EXCEPT !.status = "active"])
  BY DEF Dispatch
<1>2. ds = [r \in 1..MaxRuns |-> ds[r]]
  BY DEF Dispatch
<1> HIDE DEF ds
<1>3. ASSUME NEW r \in 1..MaxRuns
      PROVE  ds[r] \in Row /\ SameFire(ds[r], rs[r])
  <2>1. rs[r] \in Row
    OBVIOUS
  <2>2. CASE ds[r] = rs[r]
    BY <2>1, <2>2 DEF SameFire
  <2>3. CASE rs[r].status = "queued" /\ ds[r] = [rs[r] EXCEPT !.status = "active"]
    BY <2>1, <2>3, StatusOnly
  <2> QED
    BY <1>1, <2>2, <2>3
<1>4. ds \in [1..MaxRuns -> Row]
  BY <1>2, <1>3
<1> QED
  BY <1>3, <1>4 DEF ds

\* Dispatching what differs from the table only in runs that ended
LEMMA DispatchKeeps ==
    ASSUME IInv, NEW rs \in [1..MaxRuns -> Row], NEW configured, NEW M,
           rows' = Dispatch(rs, configured, M), made' \in made..MaxRuns,
           \A r \in 1..MaxRuns :
              /\ rs[r].cron = rows[r].cron /\ rs[r].covers = rows[r].covers
              /\ rs[r].at = rows[r].at /\ rs[r].from = rows[r].from
              /\ rs[r].cron # 0 /\ rs[r].status \in {"queued", "active"}
                    => rows[r].status \in {"queued", "active"}
              /\ r > made' => rs[r] = NoRow
    PROVE  RunsKept
<1>1. /\ rows' \in [1..MaxRuns -> Row]
      /\ \A r \in 1..MaxRuns : SameFire(rows'[r], rs[r])
  BY DispatchFacts
<1> QED
  BY <1>1 DEF RunsKept, SameFire

-----------------------------------------------------------------------------
(* Schedules *)

LEMMA NowType == IInv => now \in Nat /\ now <= MaxTime /\ \A s \in Schedules : since[s] \in Nat
BY Types DEF IInv, TypeOK, Time

LEMMA CandidateFacts ==
    ASSUME NEW s \in Candidates
    PROVE  /\ s \in Schedules /\ Live(s)
           /\ sched[s].state = "live" /\ sched[s].enabled
           /\ \/ sched[s].pending_fire_at # NoTime
              \/ sched[s].next_fire_at # NoTime /\ sched[s].next_fire_at <= now
BY Zenon DEF Candidates, Live

\* What a fire of a candidate covers is what its schedule owes.
LEMMA FireCoversOwed ==
    ASSUME IInv, NEW s \in Candidates
    PROVE  LET c == sched[s]  d == Coalesced(c)
           IN  /\ d \in Schedule
               /\ d.state = "live" /\ d.enabled /\ d.expr = c.expr /\ d.mon = c.mon
               /\ d.pending_first_fire_at = NextFire(c.expr, since[s])
               /\ d.pending_first_fire_at <= d.pending_fire_at /\ d.pending_fire_at <= now
               /\ d.pending_fire_at \in Occurs[c.expr]
               /\ d.next_fire_at = NextFire(c.expr, d.pending_fire_at)
               /\ d.next_fire_at = NextFire(c.expr, now) /\ d.next_fire_at > now
               /\ d.pending_first_fire_at > since[s]
               /\ Between(c.expr, d.pending_first_fire_at, d.pending_fire_at) = Owed(s)
               /\ d.pending_fire_at \in Owed(s)
<1> DEFINE c == sched[s]
           e == c.expr
           d == Coalesced(c)
<1>1. /\ s \in Schedules /\ c \in Schedule /\ e \in Exprs /\ c.state = "live" /\ c.enabled
      /\ Columns(s) /\ since[s] <= now
      /\ c.pending_fire_at # NoTime \/ (c.next_fire_at # NoTime /\ c.next_fire_at <= now)
  <2>1. s \in Schedules /\ c.state = "live" /\ c.enabled
        /\ (c.pending_fire_at # NoTime \/ (c.next_fire_at # NoTime /\ c.next_fire_at <= now))
    BY CandidateFacts
  <2>2. c \in Schedule /\ Columns(s) /\ since[s] <= now
    BY <2>1 DEF IInv, TypeOK
  <2> QED
    BY <2>1, <2>2 DEF Schedule
<1>2. now \in Nat /\ now <= MaxTime /\ since[s] \in Nat /\ MaxTime \in Nat
  BY <1>1, NowType, Types
<1>3. Live(s)
  BY <1>1 DEF Live
<1>4. /\ NextFire(e, since[s]) \in Nat
      /\ NextFire(e, since[s]) # NoTime
      /\ NextFire(e, since[s]) <= MaxTime
            => NextFire(e, since[s]) \in Occurs[e] /\ NextFire(e, since[s]) > since[s]
      /\ \A o \in Occurs[e] : o > since[s] => NextFire(e, since[s]) <= o
  BY <1>1, <1>2, NextFireFacts DEF Column
<1>5. c.pending_fire_at \in Nat /\ c.next_fire_at \in Nat /\ c.pending_first_fire_at \in Nat
  BY <1>1, <1>2 DEF Schedule, Column
<1>6. \A o \in Occurs[e] : o \in 1..MaxTime
  BY <1>1, OccursType
<1>7. /\ d \in Schedule /\ d.state = "live" /\ d.enabled /\ d.expr = e /\ d.mon = c.mon
      /\ d.pending_first_fire_at = NextFire(e, since[s])
      /\ d.pending_fire_at \in Occurs[e] /\ d.pending_fire_at <= now
      /\ d.pending_first_fire_at <= d.pending_fire_at
      /\ d.next_fire_at \in Nat /\ d.next_fire_at > now
      /\ d.next_fire_at = NextFire(e, d.pending_fire_at)
      /\ d.next_fire_at = NextFire(e, now)
  <2>1. CASE c.next_fire_at = NoTime \/ c.next_fire_at > now
    <3>1. d = c
      BY <2>1 DEF Coalesced
    <3>2. c.pending_fire_at # NoTime
      BY <1>1, <1>2, <1>5, <2>1
    <3>3. /\ c.pending_first_fire_at = NextFire(e, since[s])
          /\ c.pending_first_fire_at <= c.pending_fire_at /\ c.pending_fire_at <= now
          /\ c.pending_fire_at \in Occurs[e]
          /\ c.next_fire_at = NextFire(e, c.pending_fire_at)
      BY <1>1, <1>3, <3>2 DEF Columns
    <3>4. c.next_fire_at # NoTime
          /\ \A o \in Occurs[e] : o > c.pending_fire_at => c.next_fire_at <= o
      BY <1>1, <1>5, <3>3, NextFireFacts
    <3>5. c.next_fire_at > now
      BY <2>1, <3>4
    <3>6. NextFire(e, c.pending_fire_at) = NextFire(e, now)
      <4>1. \A o \in Occurs[e] : o > c.pending_fire_at => o > now
        BY <1>2, <1>5, <1>6, <3>4, <3>5
      <4> QED
        BY <1>1, <1>2, <1>5, <3>3, <4>1, NextFireFrom2
    <3> QED
      BY <1>1, <1>5, <3>1, <3>3, <3>5, <3>6
  <2>2. CASE c.next_fire_at # NoTime /\ c.next_fire_at <= now
    <3> DEFINE last == FireAtOrBefore(e, now)
               first == IF c.pending_first_fire_at = NoTime THEN c.next_fire_at
                        ELSE c.pending_first_fire_at
    <3>1. d = [c EXCEPT !.next_fire_at = NextFire(e, now), !.pending_first_fire_at = first,
                        !.pending_fire_at = last]
      BY <1>2, <1>5, <2>2 DEF Coalesced
    <3>2. first = NextFire(e, since[s]) /\ c.next_fire_at \in Occurs[e] /\ first <= c.next_fire_at
      <4>1. CASE c.pending_fire_at = NoTime
        <5>1. c.pending_first_fire_at = NoTime /\ c.next_fire_at = NextFire(e, since[s])
          BY <1>1, <1>3, <4>1 DEF Columns
        <5> QED
          BY <1>2, <1>4, <1>5, <2>2, <5>1
      <4>2. CASE c.pending_fire_at # NoTime
        <5>1. /\ c.pending_first_fire_at = NextFire(e, since[s])
              /\ c.pending_first_fire_at <= c.pending_fire_at
              /\ c.next_fire_at = NextFire(e, c.pending_fire_at)
          BY <1>1, <1>3, <4>2 DEF Columns
        <5>2. c.next_fire_at <= MaxTime
          BY <1>2, <1>5, <2>2
        <5>3. c.next_fire_at \in Occurs[e] /\ c.next_fire_at > c.pending_fire_at
          BY <1>1, <1>5, <5>1, <5>2, NextFireFacts
        <5> QED
          BY <1>4, <1>5, <5>1, <5>3
      <4> QED
        BY <4>1, <4>2
    <3>3. last \in Occurs[e] /\ last <= now /\ \A o \in Occurs[e] : o <= now => o <= last
      BY <1>1, <1>2, <2>2, <3>2, FireAtOrBeforeFacts
    <3>4. last \in Nat /\ last \in Column /\ first \in Nat /\ first \in Column
      BY <1>1, <1>2, <1>6, <3>3 DEF Schedule, Column
    <3>5. first <= last
      BY <1>5, <2>2, <3>2, <3>3, <3>4
    <3>6. /\ NextFire(e, now) \in Nat /\ NextFire(e, now) \in Column
          /\ NextFire(e, now) <= MaxTime => NextFire(e, now) > now
      BY <1>1, <1>2, NextFireFacts DEF Column
    <3>7. NextFire(e, now) > now
      BY <1>2, <3>6
    <3>8. NextFire(e, last) = NextFire(e, now)
      <4>1. \A o \in Occurs[e] : o > last => o > now
        BY <1>2, <1>6, <3>3, <3>4
      <4> QED
        BY <1>1, <1>2, <3>3, <3>4, <4>1, NextFireFrom2
    <3>9. d \in Schedule
      BY <1>1, <3>1, <3>4, <3>6 DEF Schedule
    <3>10. /\ d.state = "live" /\ d.enabled /\ d.expr = e /\ d.mon = c.mon
           /\ d.pending_first_fire_at = first /\ d.pending_fire_at = last
           /\ d.next_fire_at = NextFire(e, now)
      BY <1>1, <3>1 DEF Schedule
    <3> HIDE DEF last, first
    <3> QED
      BY <3>2, <3>3, <3>5, <3>6, <3>7, <3>8, <3>9, <3>10
  <2> QED
    BY <1>2, <1>5, <2>1, <2>2
<1> HIDE DEF c, e, d
<1>8. d.pending_fire_at \in 1..MaxTime
  BY <1>6, <1>7
<1>9. d.pending_first_fire_at \in Nat /\ d.pending_first_fire_at <= MaxTime
  BY <1>2, <1>4, <1>7, <1>8
<1>10. d.pending_first_fire_at > since[s]
  BY <1>4, <1>7, <1>9
<1>11. \A o \in Occurs[e] : (d.pending_first_fire_at <= o /\ o <= d.pending_fire_at)
                              <=> (since[s] + 1 <= o /\ o <= now)
  <2> SUFFICES ASSUME NEW o \in Occurs[e]
               PROVE  (d.pending_first_fire_at <= o /\ o <= d.pending_fire_at)
                              <=> (since[s] + 1 <= o /\ o <= now)
    OBVIOUS
  <2>1. o \in Nat
    BY <1>6
  <2>2. e \in Exprs /\ d.pending_fire_at \in Nat
    BY <1>1, <1>8 DEF e, c
  <2>3. o > d.pending_fire_at => o > now
    <3>1. d.next_fire_at = NextFire(e, d.pending_fire_at)
      BY <1>7
    <3>2. o > d.pending_fire_at => NextFire(e, d.pending_fire_at) <= o
      BY <2>2, NextFireFacts
    <3> QED
      BY <1>2, <1>7, <2>1, <3>1, <3>2
  <2>4. o > since[s] => d.pending_first_fire_at <= o
    BY <1>4, <1>7
  <2> QED
    BY <1>2, <1>7, <1>8, <1>9, <1>10, <2>1, <2>3, <2>4
<1>12. Between(e, d.pending_first_fire_at, d.pending_fire_at) = Owed(s)
  <2>1. Owed(s) = Between(e, since[s] + 1, now)
    BY <1>3 DEF Owed, Enabled, Live, e, c
  <2> QED
    BY <1>11, <2>1 DEF Between
<1>13. d.pending_fire_at \in Between(e, d.pending_first_fire_at, d.pending_fire_at)
  BY <1>7, <1>8 DEF Between
<1> QED
  BY <1>7, <1>10, <1>12, <1>13 DEF c, e, d

-----------------------------------------------------------------------------
(* The two kinds of steps besides a fire and the clock *)

\* Only runs move on.
RunStep == RunsKept /\ UNCHANGED <<sched, since, now>>

\* Only schedules change: each keeps what it owes or forgets it.
ScheduleStep ==
    /\ UNCHANGED <<rows, made, now>>
    /\ since' \in [Schedules -> Time]
    /\ \A s \in Schedules :
          /\ since[s] <= since'[s] /\ since'[s] <= now
          /\ Columns(s)'
          /\ Owed(s)' = Owed(s) \/ Owed(s)' = {}

LEMMA StillRuns ==
    ASSUME IInv, UNCHANGED <<rows, made>>
    PROVE  RunsKept
BY Types DEF IInv, TypeOK, RunsKept, Fired

LEMMA RunStepGood ==
    ASSUME IInv, RunStep, TypeOK', Turns'
    PROVE  IInv'
<1>1. \A s \in Schedules : (since[s] <= now)' /\ Columns(s)' /\ since[s] <= since'[s]
  BY NowType DEF IInv, RunStep, Columns, Live
<1>2. (\A r \in 1..MaxRuns : Fired(r))' /\ AtMostOneOutstanding' /\ FiresDisjoint'
  BY <1>1, RunsKeptGood DEF RunStep, TypeOK
<1> QED
  BY <1>1, <1>2 DEF IInv

LEMMA ScheduleStepGood ==
    ASSUME IInv, ScheduleStep, TypeOK', Turns'
    PROVE  IInv'
<1>1. RunsKept
  BY StillRuns DEF ScheduleStep
<1>2. (\A r \in 1..MaxRuns : Fired(r))' /\ AtMostOneOutstanding' /\ FiresDisjoint'
  BY <1>1, RunsKeptGood DEF ScheduleStep
<1>3. \A s \in Schedules : (since[s] <= now)' /\ Columns(s)'
  BY DEF ScheduleStep
<1> QED
  BY <1>2, <1>3 DEF IInv

LEMMA NextFireColumn == \A e \in Exprs, t \in Nat : NextFire(e, t) \in Column /\ NextFire(e, t) # NoTime
BY NextFireFacts

LEMMA NothingAfterNow == \A e \in Exprs : now \in Nat => Between(e, now + 1, now) = {}
BY OccursType DEF Between

LEMMA CreateStep ==
    ASSUME IInv, NEW s \in Schedules, NEW e \in Exprs, NEW m \in Mons, NEW enabled \in BOOLEAN,
           Create(s, e, m, enabled)
    PROVE  ScheduleStep /\ TypeOK' /\ Turns'
<1>1. now \in Nat /\ now \in Time /\ NextFire(e, now) \in Column /\ NoTime \in Column
  <2>1. now \in Nat /\ now \in Time
    BY NowType DEF IInv, TypeOK
  <2>2. NoTime \in Column
    BY Types DEF NoTime, Column
  <2> QED
    BY <2>1, <2>2, NextFireColumn
<1> DEFINE c == [state |-> "live", enabled |-> enabled, expr |-> e, mon |-> m,
                 next_fire_at |-> IF enabled THEN NextFire(e, now) ELSE NoTime,
                 pending_first_fire_at |-> NoTime, pending_fire_at |-> NoTime]
<1>2. c \in Schedule
  BY <1>1 DEF Schedule
<1>3. sched' = [sched EXCEPT ![s] = c] /\ since' = [since EXCEPT ![s] = now]
      /\ UNCHANGED <<rows, made, mons, claims, gone, events, phase, todo, targets, now>>
      /\ phase # "scan"
  BY DEF Create, Request
<1>4. c.expr = e /\ c.pending_fire_at = NoTime /\ c.pending_first_fire_at = NoTime
      /\ (c.enabled => c.next_fire_at = NextFire(e, now))
  OBVIOUS
<1> HIDE DEF c
<1>5. TypeOK'
  BY <1>1, <1>2, <1>3 DEF IInv, TypeOK
<1>6. Turns'
  BY <1>3 DEF IInv, Turns
<1>7. ASSUME NEW t \in Schedules
      PROVE  /\ since[t] <= since'[t] /\ since'[t] <= now
             /\ Columns(t)' /\ (Owed(t)' = Owed(t) \/ Owed(t)' = {})
  <2>1. CASE t = s
    <3>1. sched'[t] = c /\ since'[t] = now /\ now' = now
      BY <1>3, <2>1 DEF IInv, TypeOK
    <3>2. Columns(t)'
      BY <1>4, <3>1 DEF Columns, Live
    <3>3. Owed(t)' = {}
      BY <1>1, <1>4, <3>1, NothingAfterNow DEF Owed
    <3> QED
      BY <1>1, <3>1, <3>2, <3>3 DEF IInv
  <2>2. CASE t # s
    <3>1. sched'[t] = sched[t] /\ since'[t] = since[t] /\ now' = now
      BY <1>3, <2>2 DEF IInv, TypeOK
    <3>2. Columns(t)' /\ Owed(t)' = Owed(t)
      BY <3>1 DEF IInv, Columns, Live, Owed, Enabled
    <3> QED
      BY <3>1, <3>2, NowType DEF IInv
  <2> QED
    BY <2>1, <2>2
<1>8. ScheduleStep
  BY <1>3, <1>5, <1>7 DEF ScheduleStep, TypeOK
<1> QED
  BY <1>5, <1>6, <1>8

LEMMA UpdateStep ==
    ASSUME IInv, NEW s \in Schedules, NEW e \in Exprs, NEW m \in Mons,
           NEW rescheduled \in BOOLEAN, NEW enabled \in BOOLEAN,
           Update(s, e, m, rescheduled, enabled)
    PROVE  ScheduleStep /\ TypeOK' /\ Turns'
<1>1. /\ now \in Nat /\ now \in Time /\ NextFire(e, now) \in Column /\ NoTime \in Column
      /\ sched[s] \in Schedule /\ since[s] \in Time /\ since[s] <= now
  <2>1. now \in Nat /\ now \in Time /\ sched[s] \in Schedule /\ since[s] \in Time /\ since[s] <= now
    BY NowType DEF IInv, TypeOK
  <2>2. NoTime \in Column
    BY Types DEF NoTime, Column
  <2> QED
    BY <2>1, <2>2, NextFireColumn
<1> DEFINE c == Changed(sched[s], e, m, rescheduled, enabled)
           fresh == rescheduled \/ (enabled /\ ~sched[s].enabled)
           from == IF rescheduled \/ enabled # sched[s].enabled THEN now ELSE since[s]
<1>2. /\ c \in Schedule /\ c.state = sched[s].state /\ c.expr = e /\ c.enabled = enabled
      /\ enabled /\ fresh => /\ c.next_fire_at = NextFire(e, now) /\ c.pending_fire_at = NoTime
                             /\ c.pending_first_fire_at = NoTime
      /\ enabled /\ ~fresh => /\ c.next_fire_at = sched[s].next_fire_at
                              /\ c.pending_fire_at = sched[s].pending_fire_at
                              /\ c.pending_first_fire_at = sched[s].pending_first_fire_at
  BY <1>1 DEF Changed, Schedule
<1>3. /\ sched' = [sched EXCEPT ![s] = c] /\ since' = [since EXCEPT ![s] = from]
      /\ UNCHANGED <<rows, made, mons, claims, gone, phase, todo, targets, now>>
      /\ events' = events + 1 /\ events < MaxEvents
      /\ phase # "scan" /\ (rescheduled \/ e = sched[s].expr)
  BY DEF Update, Request
<1>4. from \in Time /\ since[s] <= from /\ from <= now
  BY <1>1, NowType DEF Time
<1>5. enabled /\ fresh => from = now
  BY <1>1 DEF Schedule
<1>6. enabled /\ ~fresh => from = since[s] /\ sched[s].enabled /\ e = sched[s].expr
  BY <1>1, <1>3 DEF Schedule
<1> HIDE DEF c, fresh, from
<1>7. TypeOK'
  BY <1>1, <1>2, <1>3, <1>4, BoundAssumption DEF IInv, TypeOK
<1>8. Turns'
  BY <1>3 DEF IInv, Turns
<1>9. ASSUME NEW t \in Schedules
      PROVE  /\ since[t] <= since'[t] /\ since'[t] <= now
             /\ Columns(t)' /\ (Owed(t)' = Owed(t) \/ Owed(t)' = {})
  <2>1. CASE t = s
    <3>1. sched'[t] = c /\ since'[t] = from /\ now' = now
      BY <1>3, <2>1 DEF IInv, TypeOK
    <3>2. CASE enabled /\ fresh
      <4>1. Columns(t)'
        BY <1>2, <1>5, <3>1, <3>2 DEF Columns, Live
      <4>2. Owed(t)' = {}
        BY <1>1, <1>2, <1>5, <3>1, <3>2, NothingAfterNow DEF Owed
      <4> QED
        BY <1>1, <1>4, <2>1, <3>1, <4>1, <4>2
    <3>3. CASE enabled /\ ~fresh
      <4>1. Columns(t)'
        BY <1>2, <1>6, <2>1, <3>1, <3>3 DEF IInv, Columns, Live
      <4>2. Owed(t)' = Owed(t)
        BY <1>2, <1>6, <2>1, <3>1, <3>3 DEF Owed, Enabled
      <4> QED
        BY <1>1, <1>4, <2>1, <3>1, <4>1, <4>2
    <3>4. CASE ~enabled
      <4>1. Columns(t)' /\ Owed(t)' = {}
        BY <1>2, <3>1, <3>4 DEF Columns, Live, Owed, Enabled
      <4> QED
        BY <1>1, <1>4, <2>1, <3>1, <4>1
    <3> QED
      BY <3>2, <3>3, <3>4
  <2>2. CASE t # s
    <3>1. sched'[t] = sched[t] /\ since'[t] = since[t] /\ now' = now
      BY <1>3, <2>2 DEF IInv, TypeOK
    <3>2. Columns(t)' /\ Owed(t)' = Owed(t)
      BY <3>1 DEF IInv, Columns, Live, Owed, Enabled
    <3> QED
      BY <3>1, <3>2, NowType DEF IInv
  <2> QED
    BY <2>1, <2>2
<1>10. ScheduleStep
  BY <1>3, <1>7, <1>9 DEF ScheduleStep, TypeOK
<1> QED
  BY <1>7, <1>8, <1>10

LEMMA StoppedType ==
    ASSUME NEW c \in Schedule
    PROVE  Stopped(c) \in Schedule /\ ~Stopped(c).enabled
<1>1. NoTime \in Column
  BY Types DEF NoTime, Column
<1> QED
  BY <1>1 DEF Schedule, Stopped

\* Schedules that are stopped owe nothing, the others are as before.
LEMMA StopStep ==
    ASSUME IInv, UNCHANGED <<rows, made, now, since, phase, todo>>, phase # "scan", TypeOK',
           \A t \in Schedules : sched'[t] = sched[t] \/ ~sched'[t].enabled
    PROVE  ScheduleStep /\ Turns'
<1>1. Turns'
  BY DEF IInv, Turns
<1>2. ASSUME NEW t \in Schedules
      PROVE  /\ since[t] <= since'[t] /\ since'[t] <= now
             /\ Columns(t)' /\ (Owed(t)' = Owed(t) \/ Owed(t)' = {})
  <2>1. since'[t] = since[t] /\ now' = now /\ since[t] <= since[t] /\ since[t] <= now
    BY NowType DEF IInv
  <2>2. CASE sched'[t] = sched[t]
    BY <2>1, <2>2 DEF IInv, Columns, Live, Owed, Enabled
  <2>3. CASE ~sched'[t].enabled
    BY <2>1, <2>3 DEF Columns, Live, Owed, Enabled
  <2> QED
    BY <2>2, <2>3
<1> QED
  BY <1>1, <1>2 DEF ScheduleStep, TypeOK

LEMMA DeleteStep ==
    ASSUME IInv, NEW s \in Schedules, Delete(s)
    PROVE  ScheduleStep /\ TypeOK' /\ Turns'
<1> DEFINE c == [Stopped(sched[s]) EXCEPT !.state = "archived"]
<1>1. c \in Schedule /\ ~c.enabled
  BY StoppedType DEF IInv, TypeOK, Schedule
<1>2. sched' = [sched EXCEPT ![s] = c]
  BY DEF Delete
<1> HIDE DEF c
<1>3. /\ events < MaxEvents /\ events' = events + 1
      /\ UNCHANGED <<rows, made, mons, claims, since, gone, phase, todo, targets, now>>
  BY DEF Delete, Request
<1>4. TypeOK'
  BY <1>1, <1>2, <1>3, BoundAssumption DEF IInv, TypeOK
<1>5. \A t \in Schedules : sched'[t] = sched[t] \/ ~sched'[t].enabled
  BY <1>1, <1>2 DEF IInv, TypeOK
<1> QED
  BY <1>3, <1>4, <1>5, StopStep DEF Delete, Request

LEMMA DeleteMonStep ==
    ASSUME IInv, NEW m \in Mons, DeleteMon(m)
    PROVE  ScheduleStep /\ TypeOK' /\ Turns'
<1>1. \A t \in Schedules : sched'[t] \in Schedule /\ (sched'[t] = sched[t] \/ ~sched'[t].enabled)
  BY StoppedType DEF IInv, TypeOK, DeleteMon
<1>2. sched' \in [Schedules -> Schedule]
  BY <1>1 DEF DeleteMon
<1>3. TypeOK'
  BY <1>2, BoundAssumption DEF IInv, TypeOK, DeleteMon, Request
<1> QED
  BY <1>1, <1>3, StopStep DEF DeleteMon, Request

LEMMA UpsertMonStep ==
    ASSUME IInv, NEW m \in Mons, UpsertMon(m)
    PROVE  RunStep /\ TypeOK' /\ Turns'
<1>1. RunsKept
  BY StillRuns DEF UpsertMon
<1>2. TypeOK'
  BY DEF IInv, TypeOK, UpsertMon, Request
<1>3. Turns'
  BY DEF IInv, Turns, UpsertMon, Request
<1> QED
  BY <1>1, <1>2, <1>3 DEF RunStep, UpsertMon, Request

LEMMA NewRowType ==
    ASSUME NEW m \in Mons, NEW c \in Schedules \cup {0}, NEW from \in Column, NEW at \in Column,
           NEW covers \in SUBSET (1..MaxTime)
    PROVE  NewRow(m, c, from, at, covers) \in Row
BY DEF NewRow, Row

LEMMA ClaimKeyStep ==
    ASSUME IInv, NEW s \in Schedules, NEW t \in 1..MaxTime, ClaimKey(s, t)
    PROVE  RunStep /\ TypeOK' /\ Turns'
<1> DEFINE new == NewRow(sched[s].mon, 0, NoTime, NoTime, {})
           rs == [rows EXCEPT ![made + 1] = new]
<1>1. made \in Nat /\ made + 1 \in 1..MaxRuns /\ made + 1 \in made..MaxRuns
  BY Types DEF IInv, TypeOK, ClaimKey
<1>2. sched[s].mon \in Mons /\ NoTime \in Column
  BY Types DEF IInv, TypeOK, Schedule, NoTime, Column
<1>3. new \in Row
  BY <1>2, NewRowType
<1>4. rs \in [1..MaxRuns -> Row]
  BY <1>3 DEF IInv, TypeOK
<1>5. rows[made + 1] = NoRow
  BY <1>1 DEF IInv, Fired
<1>6. new.cron = 0 /\ NoRow.cron = 0 /\ new.at = NoRow.at /\ new.from = NoRow.from
      /\ new.covers = NoRow.covers
  BY DEF NewRow, NoRow
<1>7. made' = made + 1 /\ rows' = Dispatch(rs, mons, {sched[s].mon})
      /\ claims' = claims \cup {<<s, t>>} /\ events' = events + 1 /\ events < MaxEvents
      /\ phase # "scan" /\ UNCHANGED <<sched, mons, since, gone, phase, todo, targets, now>>
  BY DEF ClaimKey, Request
<1> HIDE DEF new
<1>8. ASSUME NEW r \in 1..MaxRuns
      PROVE  /\ rs[r].cron = rows[r].cron /\ rs[r].covers = rows[r].covers
             /\ rs[r].at = rows[r].at /\ rs[r].from = rows[r].from
             /\ rs[r].cron # 0 /\ rs[r].status \in {"queued", "active"}
                   => rows[r].status \in {"queued", "active"}
             /\ r > made' => rs[r] = NoRow
  <2>1. CASE r = made + 1
    <3>1. rs[r] = new
      BY <2>1 DEF IInv, TypeOK
    <3> QED
      BY <1>1, <1>5, <1>6, <1>7, <2>1, <3>1
  <2>2. CASE r # made + 1
    <3>1. rs[r] = rows[r]
      BY <2>2 DEF IInv, TypeOK
    <3>2. r > made' => rows[r] = NoRow
      BY <1>1, <1>7 DEF IInv, Fired
    <3> QED
      BY <3>1, <3>2
  <2> QED
    BY <2>1, <2>2
<1> HIDE DEF rs
<1>9. RunsKept
  BY <1>1, <1>4, <1>7, <1>8, DispatchKeeps
<1>10. /\ rows' \in [1..MaxRuns -> Row] /\ made' \in 0..MaxRuns
       /\ claims' \subseteq Schedules \X (1..MaxTime) /\ events' \in 0..MaxEvents
  <2>1. rows' \in [1..MaxRuns -> Row]
    BY <1>9 DEF RunsKept
  <2>2. made' \in 0..MaxRuns
    BY <1>1, <1>7
  <2>3. claims' \subseteq Schedules \X (1..MaxTime)
    BY <1>7 DEF IInv, TypeOK
  <2>4. events' \in 0..MaxEvents
    BY <1>7, BoundAssumption DEF IInv, TypeOK
  <2> QED
    BY <2>1, <2>2, <2>3, <2>4
<1>11. TypeOK'
  BY <1>7, <1>10 DEF IInv, TypeOK
<1>12. Turns'
  BY <1>7 DEF IInv, Turns
<1> QED
  BY <1>7, <1>9, <1>11, <1>12 DEF RunStep

LEMMA MadeType == IInv => made \in made..MaxRuns
BY Types DEF IInv, TypeOK

\* Runs that end and what is then dispatched
LEMMA EndsKept ==
    ASSUME IInv, NEW Ended \in SUBSET {r \in 1..MaxRuns : rows[r].status = "active"},
           NEW configured, NEW M, NEW rs,
           rs = [r \in 1..MaxRuns |-> IF r \in Ended THEN [rows[r] EXCEPT !.status = "finished"]
                                      ELSE rows[r]],
           rows' = Dispatch(rs, configured, M), made' = made
    PROVE  RunsKept
<1>1. ASSUME NEW r \in 1..MaxRuns
      PROVE  rs[r] \in Row /\ SameFire(rs[r], rows[r])
  <2>1. rows[r] \in Row
    BY DEF IInv, TypeOK
  <2>2. CASE r \in Ended
    BY <2>1, <2>2, StatusOnly
  <2>3. CASE r \notin Ended
    BY <2>1, <2>3 DEF SameFire
  <2> QED
    BY <2>2, <2>3
<1>2. rs \in [1..MaxRuns -> Row]
  BY <1>1
<1>3. \A r \in 1..MaxRuns : r > made' => rows[r] = NoRow
  BY DEF IInv, Fired
<1>4. made' \in made..MaxRuns
  BY MadeType
<1>5. \A r \in 1..MaxRuns :
          /\ rs[r].cron = rows[r].cron /\ rs[r].covers = rows[r].covers
          /\ rs[r].at = rows[r].at /\ rs[r].from = rows[r].from
          /\ rs[r].cron # 0 /\ rs[r].status \in {"queued", "active"}
                => rows[r].status \in {"queued", "active"}
          /\ r > made' => rs[r] = NoRow
  BY <1>1, <1>3 DEF SameFire
<1> QED
  BY <1>2, <1>4, <1>5, DispatchKeeps

LEMMA RunEndsStep ==
    ASSUME IInv, NEW q \in 1..MaxRuns, RunEnds(q)
    PROVE  RunStep /\ TypeOK' /\ Turns'
<1> DEFINE rs == [rows EXCEPT ![q] = [rows[q] EXCEPT !.status = "finished"]]
<1>1. /\ rows' = Dispatch(rs, mons, {rows[q].mon}) /\ rows[q].status = "active" /\ phase # "scan"
      /\ UNCHANGED <<sched, made, mons, claims, since, gone, events, phase, todo, targets, now>>
  BY DEF RunEnds, Request
<1>2. rs = [r \in 1..MaxRuns |-> IF r \in {q} THEN [rows[r] EXCEPT !.status = "finished"]
                                 ELSE rows[r]]
  BY DEF IInv, TypeOK
<1> HIDE DEF rs
<1>3. RunsKept
  BY <1>1, <1>2, EndsKept
<1>4. TypeOK'
  BY <1>1, <1>3 DEF IInv, TypeOK, RunsKept
<1>5. Turns'
  BY <1>1 DEF IInv, Turns
<1> QED
  BY <1>1, <1>3, <1>4, <1>5 DEF RunStep

LEMMA StartTickStep ==
    ASSUME IInv, StartTick
    PROVE  RunStep /\ TypeOK' /\ Turns'
<1>1. RunsKept
  BY StillRuns DEF StartTick
<1>2. Candidates' = Candidates /\ Candidates \subseteq Schedules
  BY DEF StartTick, Candidates
<1>3. TypeOK'
  BY <1>2 DEF IInv, TypeOK, StartTick
<1>4. Turns'
  BY <1>2 DEF Turns, StartTick
<1> QED
  BY <1>1, <1>3, <1>4 DEF RunStep, StartTick

LEMMA ConflictStep ==
    ASSUME IInv, NEW s \in Schedules, Conflict(s)
    PROVE  RunStep /\ TypeOK' /\ Turns'
<1>1. RunsKept
  BY StillRuns DEF Conflict
<1>2. TypeOK'
  BY DEF IInv, TypeOK, Conflict
<1>3. Turns'
  BY DEF Turns, Conflict
<1> QED
  BY <1>1, <1>2, <1>3 DEF RunStep, Conflict

LEMMA DispatchTargetStep ==
    ASSUME IInv, DispatchTarget
    PROVE  RunStep /\ TypeOK' /\ Turns'
<1>1. PICK m \in targets : /\ rows' = Dispatch(rows, mons, {m})
                           /\ targets' = targets \ {m}
                           /\ phase' = IF targets' = {} THEN "idle" ELSE "dispatch"
  BY DEF DispatchTarget
<1>2. UNCHANGED <<sched, made, mons, claims, todo, now, since, gone, events>> /\ phase = "dispatch"
  BY DEF DispatchTarget
<1>3. made' \in made..MaxRuns /\ rows \in [1..MaxRuns -> Row]
      /\ \A r \in 1..MaxRuns : r > made' => rows[r] = NoRow
  BY <1>2, MadeType DEF IInv, TypeOK, Fired
<1>4. RunsKept
  BY <1>1, <1>3, DispatchKeeps
<1>5. TypeOK'
  BY <1>1, <1>2, <1>4 DEF IInv, TypeOK, RunsKept
<1>6. Turns'
  BY <1>1, <1>2 DEF IInv, Turns
<1> QED
  BY <1>2, <1>4, <1>5, <1>6 DEF RunStep

LEMMA CrashStep ==
    ASSUME IInv, NEW deleted \in SUBSET Mons, CrashAndRestart(deleted)
    PROVE  RunStep /\ TypeOK' /\ Turns'
<1> DEFINE A == {r \in 1..MaxRuns : rows[r].status = "active"}
           rs == [r \in 1..MaxRuns |-> IF r \in A THEN [rows[r] EXCEPT !.status = "finished"]
                                       ELSE rows[r]]
<1>1. /\ events < MaxEvents /\ events' = events + 1
      /\ mons' = mons \ deleted /\ gone' = gone \cup deleted
      /\ phase' = "idle" /\ todo' = {} /\ targets' = {}
      /\ UNCHANGED <<sched, made, claims, now, since>>
  BY DEF CrashAndRestart
<1>2. rows' = Dispatch(rs, mons', Mons)
  <2>1. [r \in 1..MaxRuns |-> IF rows[r].status = "active" THEN [rows[r] EXCEPT !.status = "finished"]
                              ELSE rows[r]] = rs
    OBVIOUS
  <2> HIDE DEF rs
  <2> QED
    BY <2>1 DEF CrashAndRestart
<1> HIDE DEF rs
<1>3. RunsKept
  BY <1>1, <1>2, EndsKept DEF rs
<1>4. TypeOK'
  BY <1>1, <1>3, BoundAssumption DEF IInv, TypeOK, RunsKept
<1>5. Turns'
  BY <1>1 DEF Turns
<1> QED
  BY <1>1, <1>3, <1>4, <1>5 DEF RunStep

-----------------------------------------------------------------------------
(* The steps of a tick that touch a schedule, and the clock *)

\* The columns of the schedule a tick has just coalesced
LEMMA CoalescedColumns ==
    ASSUME IInv, NEW s \in Candidates, sched'[s] = Coalesced(sched[s]),
           since'[s] = since[s], now' = now
    PROVE  Columns(s)'
<1> DEFINE c == sched[s]
           d == Coalesced(c)
<1>1. /\ d.expr = c.expr
      /\ d.pending_first_fire_at = NextFire(c.expr, since[s])
      /\ d.pending_first_fire_at <= d.pending_fire_at /\ d.pending_fire_at <= now
      /\ d.pending_fire_at \in Occurs[c.expr]
      /\ d.next_fire_at = NextFire(c.expr, d.pending_fire_at)
  BY FireCoversOwed
<1>2. c.expr \in Exprs
  BY CandidateFacts DEF IInv, TypeOK, Schedule
<1>3. d.pending_fire_at # NoTime
  <2>1. d.pending_fire_at \in 1..MaxTime
    BY <1>1, <1>2, OccursType
  <2> QED
    BY <2>1 DEF NoTime
<1> QED
  BY <1>1, <1>3 DEF Columns

\* The other schedules of a tick are as before.
LEMMA OthersStay ==
    ASSUME IInv, NEW t \in Schedules, sched'[t] = sched[t], since'[t] = since[t], now' = now
    PROVE  /\ Columns(t)' /\ Owed(t)' = Owed(t)
           /\ t \in Candidates => t \in Candidates'
<1>1. Columns(t)' /\ Owed(t)' = Owed(t)
  BY DEF IInv, Columns, Live, Owed, Enabled
<1>2. t \in Candidates => t \in Candidates'
  BY DEF Candidates
<1> QED
  BY <1>1, <1>2

\* One schedule of the tick is done.
LEMMA ScannedTurns ==
    ASSUME IInv, NEW s \in Schedules, IsNext(s), NEW enqueued \in SUBSET Mons,
           Scanned(s, enqueued), now' = now,
           \A t \in Schedules \ {s} : sched'[t] = sched[t]
    PROVE  /\ Turns' /\ phase' \in {"idle", "scan", "dispatch"}
           /\ todo' \subseteq Schedules /\ targets' \subseteq Mons
<1>1. todo' = todo \ {s} /\ targets' = targets \cup enqueued
      /\ phase' \in {"idle", "scan", "dispatch"} /\ (phase' # "scan" => todo = {s})
  BY DEF Scanned
<1>2. todo \subseteq Candidates /\ todo \subseteq Schedules /\ targets \subseteq Mons
  BY DEF IInv, Turns, TypeOK
<1>3. \A t \in Schedules \ {s} : t \in Candidates => t \in Candidates'
  BY DEF Candidates
<1> QED
  BY <1>1, <1>2, <1>3 DEF Turns

LEMMA DeferStep ==
    ASSUME IInv, NEW s \in Schedules, Defer(s)
    PROVE  ScheduleStep /\ TypeOK' /\ Turns'
<1>1. s \in Candidates
  BY DEF Defer, IsNext, IInv, Turns
<1>2. /\ sched' = [sched EXCEPT ![s] = Coalesced(sched[s])] /\ IsNext(s) /\ Scanned(s, {})
      /\ UNCHANGED <<rows, made, mons, claims, now, since, gone, events>>
  BY DEF Defer
<1>3. /\ Coalesced(sched[s]) \in Schedule /\ Coalesced(sched[s]).state = sched[s].state
      /\ Coalesced(sched[s]).enabled /\ sched[s].enabled
      /\ Coalesced(sched[s]).expr = sched[s].expr
  BY <1>1, FireCoversOwed, CandidateFacts
<1>4. /\ Turns' /\ phase' \in {"idle", "scan", "dispatch"}
      /\ todo' \subseteq Schedules /\ targets' \subseteq Mons
  <2>1. \A t \in Schedules \ {s} : sched'[t] = sched[t]
    BY <1>2 DEF IInv, TypeOK
  <2> QED
    BY <1>2, <2>1, ScannedTurns
<1>5. sched'[s] = Coalesced(sched[s])
  BY <1>2 DEF IInv, TypeOK
<1>6. TypeOK'
  BY <1>2, <1>3, <1>4 DEF IInv, TypeOK
<1>7. ASSUME NEW t \in Schedules
      PROVE  /\ since[t] <= since'[t] /\ since'[t] <= now
             /\ Columns(t)' /\ (Owed(t)' = Owed(t) \/ Owed(t)' = {})
  <2>1. since'[t] = since[t] /\ now' = now /\ since[t] <= since[t] /\ since[t] <= now
    BY <1>2, NowType DEF IInv
  <2>2. CASE t = s
    <3>1. Columns(t)'
      BY <1>1, <1>5, <2>1, <2>2, CoalescedColumns
    <3>2. Owed(t)' = Owed(t)
      BY <1>3, <1>5, <2>1, <2>2, Zenon DEF Owed, Enabled
    <3> QED
      BY <2>1, <3>1, <3>2
  <2>3. CASE t # s
    <3>1. sched'[t] = sched[t]
      BY <1>2, <2>3 DEF IInv, TypeOK
    <3> QED
      BY <2>1, <3>1, OthersStay
  <2> QED
    BY <2>2, <2>3
<1>8. ScheduleStep
  BY <1>2, <1>6, <1>7 DEF ScheduleStep, TypeOK
<1> QED
  BY <1>4, <1>6, <1>8

\* A fire makes one run that covers what its schedule owes, and the schedule owes no more.
LEMMA FireStep ==
    ASSUME IInv, NEW s \in Schedules, Fire(s)
    PROVE  /\ IInv'
           /\ s \in Candidates /\ ~Outstanding(s) /\ Owed(s) # {}
           /\ made + 1 \in 1..MaxRuns /\ rows[made + 1].cron = 0
           /\ \A r \in 1..MaxRuns : r # made + 1 => rows'[r] = rows[r]
           /\ rows'[made + 1].cron = s /\ rows'[made + 1].covers = Owed(s)
           /\ rows'[made + 1].status = "queued"
           /\ Owed(s)' = {} /\ \A t \in Schedules : t # s => Owed(t)' = Owed(t)
<1> DEFINE d == Coalesced(sched[s])
           n == made + 1
           new == NewRow(d.mon, s, d.pending_first_fire_at, d.pending_fire_at, Owed(s))
           c == [d EXCEPT !.pending_first_fire_at = NoTime, !.pending_fire_at = NoTime]
<1>1. s \in Candidates
  BY DEF Fire, IsNext, IInv, Turns
<1>2. /\ d \in Schedule
      /\ d.state = "live" /\ d.enabled /\ d.expr = sched[s].expr /\ d.mon = sched[s].mon
      /\ d.pending_first_fire_at <= d.pending_fire_at /\ d.pending_fire_at <= now
      /\ d.next_fire_at = NextFire(sched[s].expr, now)
      /\ d.pending_first_fire_at > since[s]
      /\ Between(sched[s].expr, d.pending_first_fire_at, d.pending_fire_at) = Owed(s)
      /\ d.pending_fire_at \in Owed(s)
  BY <1>1, FireCoversOwed
<1>3. IsNext(s) /\ ~Outstanding(s) /\ made < MaxRuns
      /\ UNCHANGED <<mons, claims, now, gone, events>>
  BY DEF Fire
<1>4. made' = n /\ rows' = [rows EXCEPT ![n] = new] /\ sched' = [sched EXCEPT ![s] = c]
      /\ Scanned(s, {d.mon}) /\ since' = [since EXCEPT ![s] = now]
  BY <1>2 DEF Fire
<1>5. d.mon \in Mons /\ d.pending_first_fire_at \in Nat /\ d.pending_fire_at \in Nat
      /\ d.pending_first_fire_at \in Column /\ d.pending_fire_at \in Column
      /\ d.expr \in Exprs
  BY <1>2, Types DEF Schedule, Column
<1>6. /\ c \in Schedule /\ c.state = "live" /\ c.enabled /\ c.expr = d.expr
      /\ c.pending_first_fire_at = NoTime /\ c.pending_fire_at = NoTime
      /\ c.next_fire_at = d.next_fire_at
  <2>1. NoTime \in Column
    BY Types DEF NoTime, Column
  <2> HIDE DEF d
  <2> QED
    BY <1>2, <2>1 DEF Schedule
<1>7. Owed(s) \subseteq 1..now /\ Owed(s) \subseteq 1..MaxTime
  <2>1. Owed(s) \subseteq Between(d.expr, since[s] + 1, now)
    BY <1>2 DEF Owed
  <2>2. since[s] \in Nat /\ now \in Nat /\ now <= MaxTime /\ MaxTime \in Nat
    BY NowType, Types
  <2>3. Between(d.expr, since[s] + 1, now) \subseteq 1..now
    BY <1>5, <2>2, OccursType DEF Between
  <2> QED
    BY <2>1, <2>2, <2>3
<1>8. new \in Row /\ new.cron = s /\ new.covers = Owed(s) /\ new.status = "queued"
      /\ new.at = d.pending_fire_at /\ new.from = d.pending_first_fire_at
  <2>1. new \in Row
    BY <1>5, <1>7, NewRowType
  <2> QED
    BY <2>1 DEF NewRow
<1>9. made \in Nat /\ n \in 1..MaxRuns /\ made \in 0..MaxRuns
  BY <1>3, Types DEF IInv, TypeOK
<1> HIDE DEF d, new, c, n
<1>10. s \notin {0} /\ now \in Nat /\ now \in Time /\ \A t \in Schedules : since[t] \in Nat /\ since[t] <= now
  BY NowType, Types DEF IInv, TypeOK
<1>11. rows'[n] = new /\ (\A r \in 1..MaxRuns : r # n => rows'[r] = rows[r])
       /\ sched'[s] = c /\ since'[s] = now /\ now' = now
       /\ \A t \in Schedules : t # s => sched'[t] = sched[t] /\ since'[t] = since[t]
  BY <1>3, <1>4, <1>9 DEF IInv, TypeOK
<1>12. /\ Turns' /\ phase' \in {"idle", "scan", "dispatch"}
       /\ todo' \subseteq Schedules /\ targets' \subseteq Mons
  BY <1>3, <1>4, <1>5, <1>11, ScannedTurns
<1>13. TypeOK'
  BY <1>3, <1>4, <1>6, <1>8, <1>9, <1>10, <1>12 DEF IInv, TypeOK
<1>14. \A t \in Schedules : (since[t] <= now)' /\ Columns(t)'
  <2> SUFFICES ASSUME NEW t \in Schedules PROVE (since[t] <= now)' /\ Columns(t)'
    OBVIOUS
  <2>1. CASE t = s
    <3>1. Columns(t)'
      BY <1>2, <1>6, <1>11, <2>1 DEF Columns
    <3> QED
      BY <1>10, <1>11, <2>1, <3>1
  <2>2. CASE t # s
    BY <1>10, <1>11, <2>2, OthersStay
  <2> QED
    BY <2>1, <2>2
<1>15. rows[n] = NoRow /\ rows[n].cron = 0
  <2>1. rows[n] = NoRow
    BY <1>9 DEF IInv, Fired, n
  <2> QED
    BY <2>1 DEF NoRow
<1>16. ASSUME NEW r \in 1..MaxRuns
       PROVE  /\ Fired(r)'
              /\ rows'[r].cron = s /\ r # n => /\ rows[r].at <= since[s]
                                               /\ rows[r].status \notin {"queued", "active"}
                                               /\ r < n
  <2>1. Fired(r) /\ rows[r] \in Row
    BY DEF IInv, TypeOK
  <2>2. CASE r = n
    <3>1. rows'[r].cron = s /\ rows'[r].at <= since'[s] /\ rows'[r].covers \subseteq 1..since'[s]
          /\ ~(r > made')
      BY <1>2, <1>4, <1>7, <1>8, <1>9, <1>11, <2>2 DEF n
    <3> QED
      BY <2>2, <3>1 DEF Fired
  <2>3. CASE r # n
    <3>1. rows'[r] = rows[r]
      BY <1>11, <2>3
    <3>2. r > made' => rows[r] = NoRow
      BY <1>4, <1>9, <2>1 DEF Fired, n
    <3>3. rows[r].cron # 0 =>
             rows[r].at <= since'[rows[r].cron] /\ rows[r].covers \subseteq 1..since'[rows[r].cron]
      <4>1. CASE rows[r].cron = s
        <5>1. rows[r].at \in Nat /\ rows[r].at <= since[s] /\ rows[r].covers \subseteq 1..since[s]
          BY <1>10, <2>1, <4>1, Types DEF Fired, Row, Column
        <5>2. rows[r].at <= now /\ 1..since[s] \subseteq 1..now
          BY <1>10, <5>1
        <5> QED
          BY <1>11, <4>1, <5>1, <5>2
      <4>2. CASE rows[r].cron # s
        <5>1. rows[r].cron # 0 => rows[r].cron \in Schedules
          BY <2>1 DEF Row
        <5> QED
          BY <1>11, <2>1, <4>2, <5>1 DEF Fired
      <4> QED
        BY <4>1, <4>2
    <3>4. rows[r].cron = s =>
             rows[r].at <= since[s] /\ rows[r].status \notin {"queued", "active"} /\ r < n
      <4>1. rows[r].cron = s => rows[r].status \notin {"queued", "active"}
        BY <1>3 DEF Outstanding
      <4>2. rows[r].cron = s => rows[r].at <= since[s]
        BY <1>10, <2>1 DEF Fired
      <4>3. r > made => rows[r].cron = 0
        BY <2>1 DEF Fired, NoRow
      <4> QED
        BY <1>9, <1>10, <4>1, <4>2, <4>3 DEF n
    <3> QED
      BY <2>3, <3>1, <3>2, <3>3, <3>4 DEF Fired
  <2> QED
    BY <2>2, <2>3
<1>17. AtMostOneOutstanding'
  <2> SUFFICES ASSUME NEW q \in 1..MaxRuns, NEW r \in 1..MaxRuns,
                      rows'[q].cron # 0, rows'[q].cron = rows'[r].cron,
                      rows'[q].status \in {"queued", "active"},
                      rows'[r].status \in {"queued", "active"}
               PROVE  q = r
    BY DEF AtMostOneOutstanding
  <2>1. CASE q = n \/ r = n
    BY <1>8, <1>11, <1>16, <2>1
  <2>2. CASE q # n /\ r # n
    BY <1>11, <2>2 DEF IInv, AtMostOneOutstanding
  <2> QED
    BY <2>1, <2>2
<1>18. FiresDisjoint'
  <2> SUFFICES ASSUME NEW q \in 1..MaxRuns, NEW r \in 1..MaxRuns,
                      rows'[q].cron # 0, rows'[q].cron = rows'[r].cron, q < r
               PROVE  rows'[q].at < rows'[r].from
    BY DEF FiresDisjoint
  <2>1. CASE q # n /\ r # n
    BY <1>11, <2>1 DEF IInv, FiresDisjoint
  <2>2. CASE q # n /\ r = n
    <3>1. rows'[q] = rows[q] /\ rows[q].at <= since[s] /\ rows[q].at \in Nat
      BY <1>8, <1>11, <1>16, <2>2, Types DEF IInv, TypeOK, Row, Column
    <3> QED
      BY <1>2, <1>5, <1>8, <1>10, <1>11, <2>2, <3>1
  <2>3. CASE q = n
    <3>1. r # n /\ rows'[r].cron = s
      BY <1>8, <1>9, <1>11, <2>3
    <3>2. r < n
      BY <1>16, <3>1
    <3> QED
      BY <1>9, <2>3, <3>2
  <2> QED
    BY <2>1, <2>2, <2>3
<1>19. IInv'
  BY <1>12, <1>13, <1>14, <1>16, <1>17, <1>18 DEF IInv
<1>20. Owed(s)' = {}
  BY <1>5, <1>6, <1>10, <1>11, NothingAfterNow DEF Owed
<1>21. \A t \in Schedules : t # s => Owed(t)' = Owed(t)
  BY <1>11, OthersStay
<1> QED
  BY <1>1, <1>2, <1>3, <1>8, <1>9, <1>11, <1>15, <1>19, <1>20, <1>21 DEF n

\* When the clock moves on, what becomes owed is what the expressions match at that instant.
LEMMA ClockStep ==
    ASSUME IInv, AdvanceClock
    PROVE  /\ IInv' /\ UNCHANGED <<rows, made>>
           /\ \A s \in Schedules : /\ Owed(s) \subseteq Owed(s)'
                                   /\ Owed(s)' \ Owed(s) \subseteq {now + 1} \cap (1..MaxTime)
<1>1. /\ now' = now + 1 /\ now < MaxTime /\ phase # "scan"
      /\ UNCHANGED <<sched, rows, made, mons, claims, phase, todo, targets, since, gone, events>>
  BY DEF AdvanceClock
<1>2. now \in Nat /\ MaxTime \in Nat /\ \A s \in Schedules : since[s] \in Nat /\ since[s] <= now
  BY NowType, Types DEF IInv
<1>3. TypeOK'
  BY <1>1, <1>2 DEF IInv, TypeOK, Time
<1>4. Turns'
  BY <1>1 DEF IInv, Turns
<1>5. (\A r \in 1..MaxRuns : Fired(r))' /\ AtMostOneOutstanding' /\ FiresDisjoint'
  BY <1>1 DEF IInv, Fired, AtMostOneOutstanding, FiresDisjoint
<1>6. ASSUME NEW s \in Schedules
      PROVE  (since[s] <= now)' /\ Columns(s)'
  <2>1. sched[s] \in Schedule /\ Columns(s)
    BY DEF IInv, TypeOK
  <2>2. sched[s].pending_fire_at \in Nat
    BY <2>1, Types DEF Schedule, Column
  <2>3. sched[s].pending_fire_at <= now => sched[s].pending_fire_at <= now + 1
    BY <1>2, <2>2
  <2>4. Columns(s)'
    BY <1>1, <2>1, <2>3 DEF Columns, Live
  <2> QED
    BY <1>1, <1>2, <2>4
<1>7. ASSUME NEW s \in Schedules
      PROVE  /\ Owed(s) \subseteq Owed(s)'
             /\ Owed(s)' \ Owed(s) \subseteq {now + 1} \cap (1..MaxTime)
  <2>1. sched[s].expr \in Exprs
    BY DEF IInv, TypeOK, Schedule
  <2>2. CASE ~Enabled(s)
    BY <1>1, <2>2 DEF Owed, Enabled
  <2>3. CASE Enabled(s)
    <3>1. Owed(s) = Between(sched[s].expr, since[s] + 1, now)
          /\ Owed(s)' = Between(sched[s].expr, since[s] + 1, now + 1)
      BY <1>1, <2>3 DEF Owed, Enabled
    <3> QED
      BY <1>2, <2>1, <3>1, OccursType DEF Between
  <2> QED
    BY <2>2, <2>3
<1>8. IInv'
  BY <1>3, <1>4, <1>5, <1>6 DEF IInv
<1> QED
  BY <1>1, <1>7, <1>8

-----------------------------------------------------------------------------
(* The invariant is inductive *)

LEMMA StepGood ==
    ASSUME IInv, [Next]_vars
    PROVE  IInv' /\ (RunStep \/ ScheduleStep \/ AdvanceClock \/ \E s \in Schedules : Fire(s))
<1> DEFINE Goal == IInv' /\ (RunStep \/ ScheduleStep \/ AdvanceClock \/ \E s \in Schedules : Fire(s))
<1> SUFFICES Goal
  OBVIOUS
<1>1. ASSUME RunStep, TypeOK', Turns' PROVE Goal
  BY <1>1, RunStepGood
<1>2. ASSUME ScheduleStep, TypeOK', Turns' PROVE Goal
  BY <1>2, ScheduleStepGood
<1> HIDE DEF Goal
<1>3. ASSUME NEW s \in Schedules, ScheduleRequest(s) PROVE Goal
  <2>1. ASSUME NEW e \in Exprs, NEW m \in Mons, NEW enabled \in BOOLEAN, Create(s, e, m, enabled)
        PROVE  Goal
    BY <1>2, <2>1, CreateStep
  <2>2. ASSUME NEW e \in Exprs, NEW m \in Mons, NEW enabled \in BOOLEAN,
               NEW rescheduled \in BOOLEAN, Update(s, e, m, rescheduled, enabled)
        PROVE  Goal
    BY <1>2, <2>2, UpdateStep
  <2>3. CASE Delete(s)
    BY <1>2, <2>3, DeleteStep
  <2>4. ASSUME NEW t \in 1..MaxTime, ClaimKey(s, t) PROVE Goal
    BY <1>1, <2>4, ClaimKeyStep
  <2> QED
    BY <1>3, <2>1, <2>2, <2>3, <2>4, Zenon DEF ScheduleRequest
<1>4. ASSUME NEW m \in Mons, DeleteMon(m) \/ UpsertMon(m) PROVE Goal
  BY <1>1, <1>2, <1>4, DeleteMonStep, UpsertMonStep
<1>5. ASSUME NEW r \in 1..MaxRuns, RunEnds(r) PROVE Goal
  BY <1>1, <1>5, RunEndsStep
<1>6. CASE StartTick \/ DispatchTarget
  BY <1>1, <1>6, StartTickStep, DispatchTargetStep
<1>7. ASSUME NEW s \in Schedules, Defer(s) \/ Fire(s) \/ Conflict(s) PROVE Goal
  <2>1. CASE Defer(s)
    BY <1>2, <2>1, DeferStep
  <2>2. CASE Fire(s)
    BY <2>2, FireStep DEF Goal
  <2>3. CASE Conflict(s)
    BY <1>1, <2>3, ConflictStep
  <2> QED
    BY <1>7, <2>1, <2>2, <2>3
<1>8. CASE AdvanceClock
  BY <1>8, ClockStep DEF Goal
<1>9. ASSUME NEW deleted \in SUBSET Mons, CrashAndRestart(deleted) PROVE Goal
  BY <1>1, <1>9, CrashStep
<1>10. CASE UNCHANGED vars
  <2>1. RunsKept
    BY <1>10, StillRuns DEF vars
  <2>2. TypeOK' /\ Turns'
    BY <1>10 DEF vars, IInv, TypeOK, Turns, Candidates
  <2>3. RunStep
    BY <1>10, <2>1 DEF RunStep, vars
  <2> QED
    BY <1>1, <2>2, <2>3
<1> QED
  BY <1>3, <1>4, <1>5, <1>6, <1>7, <1>8, <1>9, <1>10, Zenon DEF Next, TickSchedule

\* The inductive invariant: the columns of every schedule in force say exactly what it owes
\* (repositories/cron-schedules.ts), in every reachable state and for any schedules and Mons.
THEOREM Invariance == Spec => []IInv
<1>1. Init => IInv
  BY InitGood
<1>2. IInv /\ [Next]_vars => IInv'
  BY StepGood
<1> QED
  BY <1>1, <1>2, PTL DEF Spec

-----------------------------------------------------------------------------
(* Queued runs and free slots *)

Waits(rs, m) == Queued(rs, m) # {} /\ Cardinality(Active(rs, m)) < Limit[m]

\* After the dispatch of a Mon its slots are taken or no run waits.
LEMMA DispatchDone ==
    ASSUME NEW rs \in [1..MaxRuns -> Row], NEW configured, NEW M,
           NEW m \in M \cap configured, m \in Mons
    PROVE  ~Waits(Dispatch(rs, configured, M), m)
<1> DEFINE ds == Dispatch(rs, configured, M)
           A == Active(rs, m)
           Q == Queued(rs, m)
<1> SUFFICES ASSUME Queued(ds, m) # {} PROVE ~(Cardinality(Active(ds, m)) < Limit[m])
  BY DEF Waits
<1>1. \A q \in 1..MaxRuns : ds[q].mon = rs[q].mon
  <2>1. \A q \in 1..MaxRuns : SameFire(ds[q], rs[q])
    BY DispatchFacts, Zenon
  <2> HIDE DEF ds
  <2> QED
    BY <2>1, Zenon DEF SameFire
<1>2. \A q \in 1..MaxRuns : rs[q].status # "queued" => ds[q] = rs[q]
  BY DEF Dispatch
<1>3. \A q \in Q : /\ q \in 1..MaxRuns /\ rs[q].status = "queued" /\ rs[q].mon = m
                   /\ IF Cardinality(A) + Cardinality({p \in Q : p < q}) < Limit[m]
                      THEN ds[q].status = "active" ELSE ds[q].status = "queued"
  <2> SUFFICES ASSUME NEW q \in Q
               PROVE  /\ q \in 1..MaxRuns /\ rs[q].status = "queued" /\ rs[q].mon = m
                      /\ IF Cardinality(A) + Cardinality({p \in Q : p < q}) < Limit[m]
                         THEN ds[q].status = "active" ELSE ds[q].status = "queued"
    OBVIOUS
  <2>1. q \in 1..MaxRuns /\ rs[q].status = "queued" /\ rs[q].mon = m /\ rs[q] \in Row
    BY DEF Queued
  <2>2. ds[q] = IF Cardinality(A) + Cardinality({p \in Q : p < q}) < Limit[m]
                THEN [rs[q] EXCEPT !.status = "active"] ELSE rs[q]
    BY <2>1 DEF Dispatch
  <2> HIDE DEF ds, A, Q
  <2> QED
    BY <2>1, <2>2 DEF Row
<1> HIDE DEF ds
<1>4. Queued(ds, m) \subseteq Q /\ Queued(ds, m) \subseteq 1..MaxRuns
  BY <1>1, <1>2 DEF Queued
<1>5. \E r \in Queued(ds, m) : \A q \in Queued(ds, m) : r <= q
  BY <1>4, Least
<1>6. PICK r \in Queued(ds, m) : \A q \in Queued(ds, m) : r <= q
  BY <1>5
<1> DEFINE B == {p \in Q : p < r}
<1>7. Limit[m] \in Nat /\ r \in Nat
  BY <1>4, LimitAssumption
<1>8. IsFiniteSet(A) /\ IsFiniteSet(B) /\ IsFiniteSet(Active(ds, m))
  <2>1. IsFiniteSet(1..MaxRuns)
    BY Types, FS_Interval
  <2>2. A \subseteq 1..MaxRuns /\ B \subseteq 1..MaxRuns /\ Active(ds, m) \subseteq 1..MaxRuns
    BY DEF Active, Queued
  <2> QED
    BY <2>1, <2>2, FS_Subset
<1>9. ~(Cardinality(A) + Cardinality(B) < Limit[m])
  <2>1. r \in Q /\ ds[r].status = "queued"
    BY <1>4 DEF Queued
  <2> QED
    BY <1>3, <2>1
<1>10. B \subseteq Active(ds, m)
  <2> SUFFICES ASSUME NEW p \in Q, p < r PROVE p \in Active(ds, m)
    OBVIOUS
  <2>1. p \in 1..MaxRuns /\ rs[p].mon = m
    BY <1>3
  <2>2. p \notin Queued(ds, m)
    BY <1>6, <1>7, <2>1
  <2>3. ds[p].status = "active"
    BY <1>1, <1>3, <2>1, <2>2 DEF Queued
  <2> QED
    BY <1>1, <2>1, <2>3 DEF Active
<1>11. A \subseteq Active(ds, m) /\ A \cap B = {}
  BY <1>1, <1>2 DEF Active, Queued
<1> HIDE DEF A, B
<1>12. IsFiniteSet(A \cup B)
       /\ Cardinality(A \cup B) = Cardinality(A) + Cardinality(B) - Cardinality(A \cap B)
  BY <1>8, FS_Union
<1>13. Cardinality(A \cap B) = 0
  BY <1>11, FS_EmptySet
<1>14. Cardinality(A \cup B) <= Cardinality(Active(ds, m))
  BY <1>8, <1>10, <1>11, FS_Subset
<1>15. Cardinality(A) \in Nat /\ Cardinality(B) \in Nat /\ Cardinality(A \cup B) \in Nat
       /\ Cardinality(Active(ds, m)) \in Nat
  BY <1>8, <1>12, FS_CardinalityType
<1> QED
  BY <1>7, <1>9, <1>12, <1>13, <1>14, <1>15

\* The dispatch of other Mons leaves a Mon as it is.
LEMMA DispatchOthers ==
    ASSUME NEW rs \in [1..MaxRuns -> Row], NEW configured, NEW M, NEW m, m \notin M \cap configured
    PROVE  Waits(Dispatch(rs, configured, M), m) => Waits(rs, m)
<1> DEFINE ds == Dispatch(rs, configured, M)
<1>1. \A r \in 1..MaxRuns : ds[r].mon = rs[r].mon
  <2>1. \A r \in 1..MaxRuns : SameFire(ds[r], rs[r])
    BY DispatchFacts, Zenon
  <2> HIDE DEF ds
  <2> QED
    BY <2>1, Zenon DEF SameFire
<1>2. \A r \in 1..MaxRuns : rs[r].mon = m => ds[r] = rs[r]
  BY DEF Dispatch
<1> HIDE DEF ds
<1>3. Queued(ds, m) = Queued(rs, m) /\ Active(ds, m) = Active(rs, m)
  BY <1>1, <1>2 DEF Queued, Active
<1> QED
  BY <1>3 DEF Waits, ds

\* No run waits beside a free slot, except for the Mons the tick is going to dispatch.
Dispatched ==
    /\ QueuedRunIsDispatched
    /\ Mons \ gone \subseteq mons

LEMMA DispatchedSame ==
    ASSUME Dispatched, UNCHANGED <<rows, claims>>, targets \subseteq targets',
           gone \subseteq gone', Mons \ gone' \subseteq mons',
           phase' = "idle" => phase = "idle" \/ targets = {}
    PROVE  Dispatched'
BY DEF Dispatched, QueuedRunIsDispatched

LEMMA DispatchedStep ==
    ASSUME IInv, Dispatched, [Next]_vars
    PROVE  Dispatched'
<1>1. ASSUME NEW s \in Schedules, ScheduleRequest(s) PROVE Dispatched'
  <2>1. ASSUME NEW e \in Exprs, NEW m \in Mons, NEW enabled \in BOOLEAN, Create(s, e, m, enabled)
        PROVE  Dispatched'
    BY <2>1, DispatchedSame DEF Create, Request, Dispatched
  <2>2. ASSUME NEW e \in Exprs, NEW m \in Mons, NEW enabled \in BOOLEAN,
               NEW rescheduled \in BOOLEAN, Update(s, e, m, rescheduled, enabled)
        PROVE  Dispatched'
    BY <2>2, DispatchedSame DEF Update, Request, Dispatched
  <2>3. CASE Delete(s)
    BY <2>3, DispatchedSame DEF Delete, Request, Dispatched
  <2>4. ASSUME NEW t \in 1..MaxTime, ClaimKey(s, t) PROVE Dispatched'
    BY <2>4 DEF ClaimKey, Dispatched, QueuedRunIsDispatched
  <2> QED
    BY <1>1, <2>1, <2>2, <2>3, <2>4, Zenon DEF ScheduleRequest
<1>2. ASSUME NEW m \in Mons, DeleteMon(m) PROVE Dispatched'
  BY <1>2, DispatchedSame DEF DeleteMon, Request, Dispatched
<1>3. ASSUME NEW m \in Mons, UpsertMon(m) PROVE Dispatched'
  BY <1>3, DispatchedSame DEF UpsertMon, Request, Dispatched
<1>4. ASSUME NEW r \in 1..MaxRuns, RunEnds(r) PROVE Dispatched'
  <2> DEFINE rs == [rows EXCEPT ![r] = [rows[r] EXCEPT !.status = "finished"]]
  <2>1. /\ rows' = Dispatch(rs, mons, {rows[r].mon}) /\ rows[r].status = "active"
        /\ UNCHANGED <<claims, mons, gone, phase, targets>>
    BY <1>4 DEF RunEnds, Request
  <2>2. rows[r] \in Row /\ rs \in [1..MaxRuns -> Row]
    BY <2>1, StatusOnly DEF IInv, TypeOK
  <2>3. ASSUME NEW m \in Mons \ gone, Waits(rows', m) PROVE Waits(rows, m)
    <3>1. m \notin {rows[r].mon} \cap mons
      BY <2>1, <2>2, <2>3, DispatchDone
    <3>2. m # rows[r].mon
      BY <3>1 DEF Dispatched
    <3>3. Waits(rs, m)
      BY <2>1, <2>2, <2>3, <3>1, DispatchOthers
    <3>4. rs[r].mon = rows[r].mon /\ \A q \in 1..MaxRuns : q # r => rs[q] = rows[q]
      BY <2>2 DEF Row, IInv, TypeOK
    <3>5. Queued(rs, m) = Queued(rows, m) /\ Active(rs, m) = Active(rows, m)
      BY <3>2, <3>4 DEF Queued, Active
    <3> QED
      BY <3>3, <3>5 DEF Waits
  <2> QED
    BY <2>1, <2>3 DEF Dispatched, QueuedRunIsDispatched, Waits
<1>5. CASE StartTick
  BY <1>5, DispatchedSame DEF StartTick, Dispatched
<1>6. ASSUME NEW s \in Schedules, Defer(s) PROVE Dispatched'
  BY <1>6, DispatchedSame DEF Defer, Scanned, Dispatched
<1>7. ASSUME NEW s \in Schedules, Fire(s) PROVE Dispatched'
  <2> DEFINE mon == Coalesced(sched[s]).mon
  <2>1. /\ rows' \in [1..MaxRuns -> Row] /\ made + 1 \in 1..MaxRuns
        /\ \A r \in 1..MaxRuns : r # made + 1 => rows'[r] = rows[r]
        /\ rows[made + 1] = NoRow
    BY <1>7, FireStep DEF IInv, TypeOK, Fired
  <2>2. /\ rows' = [rows EXCEPT ![made + 1] =
                       NewRow(mon, s, Coalesced(sched[s]).pending_first_fire_at,
                              Coalesced(sched[s]).pending_fire_at,
                              Between(Coalesced(sched[s]).expr, Coalesced(sched[s]).pending_first_fire_at,
                                      Coalesced(sched[s]).pending_fire_at))]
        /\ Scanned(s, {mon}) /\ UNCHANGED <<claims, mons, gone>>
    BY <1>7 DEF Fire
  <2>3. rows'[made + 1].mon = mon
    BY <2>1, <2>2 DEF NewRow, IInv, TypeOK
  <2>4. targets' = targets \cup {mon} /\ phase' # "idle"
    BY <2>2 DEF Scanned
  <2> HIDE DEF mon
  <2>5. ASSUME NEW m \in Mons \ gone, m # mon, Waits(rows', m) PROVE Waits(rows, m)
    <3>1. Queued(rows', m) = Queued(rows, m) /\ Active(rows', m) = Active(rows, m)
      BY <2>1, <2>3, <2>5 DEF Queued, Active, NoRow
    <3> QED
      BY <2>5, <3>1 DEF Waits
  <2> QED
    BY <2>2, <2>4, <2>5 DEF Dispatched, QueuedRunIsDispatched, Waits
<1>8. ASSUME NEW s \in Schedules, Conflict(s) PROVE Dispatched'
  BY <1>8 DEF Conflict, Dispatched, QueuedRunIsDispatched
<1>9. CASE DispatchTarget
  <2>1. PICK m \in targets : /\ rows' = Dispatch(rows, mons, {m})
                             /\ targets' = targets \ {m}
                             /\ phase' = IF targets' = {} THEN "idle" ELSE "dispatch"
    BY <1>9 DEF DispatchTarget
  <2>2. UNCHANGED <<mons, claims, gone>> /\ phase = "dispatch" /\ rows \in [1..MaxRuns -> Row]
    BY <1>9 DEF DispatchTarget, IInv, TypeOK
  <2>3. ASSUME NEW n \in Mons \ gone, Waits(rows', n) PROVE n # m /\ Waits(rows, n)
    <3>1. n \notin {m} \cap mons
      BY <2>1, <2>2, <2>3, DispatchDone
    <3> QED
      BY <2>1, <2>2, <2>3, <3>1, DispatchOthers DEF Dispatched
  <2> QED
    BY <2>1, <2>2, <2>3 DEF Dispatched, QueuedRunIsDispatched, Waits
<1>10. CASE AdvanceClock
  BY <1>10, DispatchedSame DEF AdvanceClock, Dispatched
<1>11. ASSUME NEW deleted \in SUBSET Mons, CrashAndRestart(deleted) PROVE Dispatched'
  <2> DEFINE rs == [r \in 1..MaxRuns |-> IF rows[r].status = "active"
                                         THEN [rows[r] EXCEPT !.status = "finished"] ELSE rows[r]]
  <2>1. /\ rows' = Dispatch(rs, mons', Mons)
        /\ mons' = mons \ deleted /\ gone' = gone \cup deleted
    BY <1>11 DEF CrashAndRestart
  <2>2. rs \in [1..MaxRuns -> Row]
    <3>1. \A r \in 1..MaxRuns : rows[r] \in Row
      BY DEF IInv, TypeOK
    <3> QED
      BY <3>1, StatusOnly
  <2> HIDE DEF rs
  <2>3. ASSUME NEW m \in Mons \ gone' PROVE m \in mons' /\ ~Waits(rows', m)
    BY <2>1, <2>2, DispatchDone DEF Dispatched
  <2> QED
    BY <2>3 DEF Dispatched, QueuedRunIsDispatched, Waits
<1>12. CASE UNCHANGED vars
  BY <1>12, DispatchedSame DEF vars, Dispatched
<1> QED
  BY <1>1, <1>2, <1>3, <1>4, <1>5, <1>6, <1>7, <1>8, <1>9, <1>10, <1>11, <1>12, Zenon
  DEF Next, TickSchedule

LEMMA ColumnsSayWhatIsOwed == IInv => ColumnsHoldWhatIsOwed
<1> SUFFICES ASSUME IInv, NEW s \in Schedules, Enabled(s)
             PROVE  Owed(s) = (IF sched[s].pending_fire_at = NoTime THEN {}
                               ELSE Between(sched[s].expr, sched[s].pending_first_fire_at,
                                            sched[s].pending_fire_at))
                              \cup Between(sched[s].expr, sched[s].next_fire_at, now)
  BY DEF ColumnsHoldWhatIsOwed
<1> DEFINE c == sched[s]
           e == c.expr
<1>1. c \in Schedule /\ e \in Exprs /\ Columns(s) /\ Live(s) /\ since[s] <= now
      /\ since[s] \in Nat /\ now \in Nat
  BY NowType DEF IInv, TypeOK, Schedule, Enabled, Live
<1>2. c.pending_fire_at \in Nat /\ c.next_fire_at \in Nat /\ c.pending_first_fire_at \in Nat
  BY <1>1, Types DEF Schedule, Column
<1>3. Owed(s) = Between(e, since[s] + 1, now)
  BY DEF Owed
<1>4. \A o \in Occurs[e] : o \in Nat /\ o <= MaxTime
  BY <1>1, OccursType, Types
<1>5. \A t \in Nat : \A o \in Occurs[e] : o > t <=> NextFire(e, t) <= o
  <2> SUFFICES ASSUME NEW t \in Nat, NEW o \in Occurs[e] PROVE o > t <=> NextFire(e, t) <= o
    OBVIOUS
  <2>1. /\ NextFire(e, t) \in Nat
        /\ NextFire(e, t) <= MaxTime => NextFire(e, t) > t
        /\ o > t => NextFire(e, t) <= o
    BY <1>1, Types, NextFireFacts DEF Column
  <2> QED
    BY <1>4, <2>1, Types
<1>6. CASE c.pending_fire_at = NoTime
  <2>1. c.next_fire_at = NextFire(e, since[s])
    BY <1>1, <1>6 DEF Columns
  <2>2. \A o \in Occurs[e] : since[s] + 1 <= o <=> c.next_fire_at <= o
    BY <1>1, <1>4, <1>5, <2>1
  <2> QED
    BY <1>3, <1>6, <2>2 DEF Between
<1>7. CASE c.pending_fire_at # NoTime
  <2>1. /\ c.pending_first_fire_at = NextFire(e, since[s])
        /\ c.pending_first_fire_at <= c.pending_fire_at /\ c.pending_fire_at <= now
        /\ c.next_fire_at = NextFire(e, c.pending_fire_at)
    BY <1>1, <1>7 DEF Columns
  <2>2. \A o \in Occurs[e] : /\ since[s] + 1 <= o <=> c.pending_first_fire_at <= o
                             /\ o > c.pending_fire_at <=> c.next_fire_at <= o
    BY <1>1, <1>2, <1>4, <1>5, <2>1
  <2> HIDE DEF c, e
  <2>3. \A o \in Occurs[e] :
           (since[s] + 1 <= o /\ o <= now)
              <=> (c.pending_first_fire_at <= o /\ o <= c.pending_fire_at)
                  \/ (c.next_fire_at <= o /\ o <= now)
    BY <1>1, <1>2, <1>4, <2>1, <2>2
  <2> QED
    BY <1>3, <1>7, <2>3 DEF Between, c, e
<1> QED
  BY <1>6, <1>7

\* The state invariant of the runs: a schedule never has two runs that are queued or active,
\* no two of its fires cover the same instant, its columns say what it owes, and no queued run
\* waits beside a free slot, whatever ticks, changes of schedules and Mons and crashes do.
THEOREM SchedulesStayConsistent == Spec => []ScheduleInv
<1>1. Init => Dispatched
  <2> SUFFICES ASSUME Init PROVE Dispatched
    OBVIOUS
  <2>1. \A m : Queued(rows, m) = {}
    BY DEF Init, NoRow, Queued
  <2> QED
    BY <2>1 DEF Init, Dispatched, QueuedRunIsDispatched
<1>2. IInv /\ Dispatched /\ [Next]_vars => Dispatched'
  BY DispatchedStep
<1>3. IInv /\ Dispatched => ScheduleInv
  BY ColumnsSayWhatIsOwed DEF IInv, Dispatched, ScheduleInv
<1> QED
  BY <1>1, <1>2, <1>3, Invariance, PTL DEF Spec

-----------------------------------------------------------------------------
(* The refinement of CronContract *)

OwedMap == [s \in Schedules |-> Owed(s)]
Covered(s) == UNION {rows[r].covers : r \in {q \in 1..MaxRuns : rows[q].cron = s}}
CoveredMap == [s \in Schedules |-> Covered(s)]
Open == {s \in Schedules : Outstanding(s)}

LEMMA RunsKeptCovers ==
    ASSUME RunsKept
    PROVE  CoveredMap' = CoveredMap /\ Open' \subseteq Open
<1>1. \A r \in 1..MaxRuns : rows'[r].cron = rows[r].cron /\ rows'[r].covers = rows[r].covers
  BY DEF RunsKept
<1>2. ASSUME NEW s \in Schedules PROVE Covered(s)' = Covered(s)
  BY <1>1 DEF Covered
<1>3. CoveredMap' = CoveredMap
  BY <1>2 DEF CoveredMap
<1>4. ASSUME NEW s \in Schedules, Outstanding(s)' PROVE Outstanding(s)
  BY <1>4, Types DEF RunsKept, Outstanding
<1> QED
  BY <1>3, <1>4 DEF Open

LEMMA InitContract == Init => Contract!Init
<1> SUFFICES ASSUME Init PROVE Contract!Init
  OBVIOUS
<1>1. \A s \in Schedules : Owed(s) = {}
  BY DEF Init, NoSchedule, Owed, Enabled
<1>2. \A r \in 1..MaxRuns : rows[r].cron = 0
  BY DEF Init, NoRow
<1>3. \A s \in Schedules : Covered(s) = {} /\ ~Outstanding(s)
  BY <1>2, Types DEF Covered, Outstanding
<1>4. Open = {}
  BY <1>3 DEF Open
<1> QED
  BY <1>1, <1>3, <1>4 DEF Contract!Init, Open, Covered

LEMMA RunStepContract ==
    ASSUME IInv, RunStep
    PROVE  Contract!Next
<1>1. \A s \in Schedules : Owed(s)' = Owed(s)
  BY DEF RunStep, Owed, Enabled
<1>2. OwedMap' = OwedMap
  BY <1>1 DEF OwedMap
<1>3. CoveredMap' = CoveredMap /\ Open' \subseteq Open
  BY RunsKeptCovers DEF RunStep
<1>4. Contract!End
  BY <1>2, <1>3 DEF Contract!End, OwedMap, CoveredMap, Covered, Open
<1> QED
  BY <1>4 DEF Contract!Next

LEMMA ScheduleStepContract ==
    ASSUME IInv, ScheduleStep
    PROVE  Contract!Next
<1> DEFINE changed == {s \in Schedules : Owed(s)' = {}}
<1>1. OwedMap' = [s \in Schedules |-> IF s \in changed THEN {} ELSE OwedMap[s]]
  BY DEF ScheduleStep, OwedMap
<1>2. CoveredMap' = CoveredMap /\ Open' = Open
  BY DEF ScheduleStep, CoveredMap, Covered, Open, Outstanding
<1>3. changed \in SUBSET Schedules
  OBVIOUS
<1> HIDE DEF changed
<1>4. Contract!Forget
  BY <1>1, <1>2, <1>3 DEF Contract!Forget, OwedMap, CoveredMap, Covered, Open
<1> QED
  BY <1>4 DEF Contract!Next

LEMMA ClockContract ==
    ASSUME IInv, AdvanceClock
    PROVE  Contract!Next
<1> DEFINE due == [s \in Schedules |-> Owed(s)' \ Owed(s)]
<1>1. UNCHANGED <<rows, made>>
      /\ \A s \in Schedules : /\ Owed(s) \subseteq Owed(s)'
                              /\ Owed(s)' \ Owed(s) \subseteq {now + 1} \cap (1..MaxTime)
  BY ClockStep
<1>2. due \in [Schedules -> SUBSET (1..MaxTime)]
  BY <1>1
<1>3. ASSUME NEW s \in Schedules PROVE due[s] \cap CoveredMap[s] = {}
  <2>1. due[s] \subseteq {now + 1}
    BY <1>1
  <2>2. now \in Nat /\ since[s] \in Nat /\ since[s] <= now
    BY NowType DEF IInv
  <2>3. \A r \in 1..MaxRuns : rows[r].cron = s => rows[r].covers \subseteq 1..since[s]
    BY Types DEF IInv, Fired
  <2>4. CoveredMap[s] \subseteq 1..since[s]
    BY <2>3 DEF CoveredMap, Covered
  <2> QED
    BY <2>1, <2>2, <2>4
<1>4. OwedMap' = [s \in Schedules |-> OwedMap[s] \cup due[s]]
  BY <1>1 DEF OwedMap
<1>5. CoveredMap' = CoveredMap /\ Open' = Open
  BY <1>1 DEF CoveredMap, Covered, Open, Outstanding
<1> HIDE DEF due
<1>6. Contract!Elapse
  BY <1>2, <1>3, <1>4, <1>5 DEF Contract!Elapse, OwedMap, CoveredMap, Covered, Open
<1> QED
  BY <1>6 DEF Contract!Next

LEMMA FireContract ==
    ASSUME IInv, NEW s \in Schedules, Fire(s)
    PROVE  Contract!Next
<1> DEFINE n == made + 1
<1>1. /\ ~Outstanding(s) /\ Owed(s) # {}
      /\ n \in 1..MaxRuns /\ rows[n].cron = 0
      /\ \A r \in 1..MaxRuns : r # n => rows'[r] = rows[r]
      /\ rows'[n].cron = s /\ rows'[n].covers = Owed(s)
      /\ rows'[n].status = "queued"
      /\ Owed(s)' = {} /\ \A t \in Schedules : t # s => Owed(t)' = Owed(t)
  BY FireStep
<1> HIDE DEF n
<1>2. s \notin Open /\ OwedMap[s] # {}
  BY <1>1 DEF Open, OwedMap
<1>3. OwedMap' = [OwedMap EXCEPT ![s] = {}]
  BY <1>1 DEF OwedMap
<1>4. ASSUME NEW t \in Schedules
      PROVE  Covered(t)' = IF t = s THEN Covered(t) \cup Owed(s) ELSE Covered(t)
  <2>1. t # 0
    BY Types
  <2>2. CASE t = s
    <3>1. {q \in 1..MaxRuns : rows'[q].cron = s} = {q \in 1..MaxRuns : rows[q].cron = s} \cup {n}
      BY <1>1, <2>1, <2>2
    <3>2. \A q \in 1..MaxRuns : rows[q].cron = s => q # n /\ rows'[q].covers = rows[q].covers
      BY <1>1, <2>1, <2>2
    <3> QED
      BY <1>1, <2>2, <3>1, <3>2 DEF Covered
  <2>3. CASE t # s
    <3>1. {q \in 1..MaxRuns : rows'[q].cron = t} = {q \in 1..MaxRuns : rows[q].cron = t}
      BY <1>1, <2>1, <2>3
    <3>2. \A q \in 1..MaxRuns : rows[q].cron = t => rows'[q].covers = rows[q].covers
      BY <1>1, <2>1, <2>3
    <3> QED
      BY <2>3, <3>1, <3>2 DEF Covered
  <2> QED
    BY <2>2, <2>3
<1>5. CoveredMap' = [CoveredMap EXCEPT ![s] = @ \cup OwedMap[s]]
  BY <1>4 DEF CoveredMap, OwedMap
<1>6. ASSUME NEW t \in Schedules
      PROVE  Outstanding(t)' <=> (Outstanding(t) \/ t = s)
  BY <1>1, Types DEF Outstanding
<1>7. Open' = Open \cup {s}
  BY <1>6 DEF Open
<1>8. Contract!Cover(s)
  BY <1>2, <1>3, <1>5, <1>7 DEF Contract!Cover, OwedMap, CoveredMap, Covered, Open
<1> QED
  BY <1>8 DEF Contract!Next

\* The tables keep the contract of a schedule (run-model.md, "Cron Semantics"): every instant
\* of a schedule in force is owed until one run covers it, and no run is made for a schedule
\* whose last one has not ended.
THEOREM SchedulesKeepContract == Spec => ImplementsContract
<1>1. Init => Contract!Init
  BY InitContract
<1>2. IInv /\ [Next]_vars => Contract!Next
  BY StepGood, RunStepContract, ScheduleStepContract, ClockContract, FireContract
<1> QED
  BY <1>1, <1>2, Invariance, PTL DEF Spec, ImplementsContract, Contract!Spec
=============================================================================
