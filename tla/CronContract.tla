---------------------------- MODULE CronContract ----------------------------
(***************************************************************************)
(* What a cron schedule promises (.monde/docs/run-model.md, "Cron          *)
(* Semantics"): every instant of a schedule that is in force is owed once  *)
(* it has come, one run covers all that is owed at that time, no instant   *)
(* is covered twice, and the next run waits until the last one has ended.  *)
(* Only a change of the schedule itself forgets what is owed.              *)
(***************************************************************************)
CONSTANTS Schedules, Instants

VARIABLES
    owed,     \* the instants that have come and that no run covers yet
    covered,  \* the instants some run covers
    open      \* the schedules with a run that has not ended

Init ==
    /\ owed = [s \in Schedules |-> {}]
    /\ covered = [s \in Schedules |-> {}]
    /\ open = {}

\* Time passes.
Elapse ==
    /\ \E due \in [Schedules -> SUBSET Instants] :
          /\ \A s \in Schedules : due[s] \cap covered[s] = {}
          /\ owed' = [s \in Schedules |-> owed[s] \cup due[s]]
    /\ UNCHANGED <<covered, open>>

\* A schedule is changed, disabled or archived.
Forget ==
    /\ \E changed \in SUBSET Schedules :
          owed' = [s \in Schedules |-> IF s \in changed THEN {} ELSE owed[s]]
    /\ UNCHANGED <<covered, open>>

\* One run covers everything the schedule owes.
Cover(s) ==
    /\ s \notin open /\ owed[s] # {}
    /\ owed' = [owed EXCEPT ![s] = {}]
    /\ covered' = [covered EXCEPT ![s] = @ \cup owed[s]]
    /\ open' = open \cup {s}

\* Runs end, several at once when the service dies.
End ==
    /\ open' \subseteq open
    /\ UNCHANGED <<owed, covered>>

Next == Elapse \/ Forget \/ (\E s \in Schedules : Cover(s)) \/ End

Spec == Init /\ [][Next]_<<owed, covered, open>>
=============================================================================
