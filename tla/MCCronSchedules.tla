-------------------------- MODULE MCCronSchedules --------------------------
(* Expressions that match three instants in a row, and one; one slot per Mon. *)
EXTENDS CronSchedules

MCOccurs == [e \in Exprs |-> IF e = "once" THEN {2} ELSE {1, 2, 3}]
OneSlot == [m \in Mons |-> 1]
=============================================================================
