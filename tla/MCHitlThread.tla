---------------------------- MODULE MCHitlThread ----------------------------
(* Two threads and a one-shot run of one Mon with one process slot. *)
EXTENDS HitlThread

OneMon == [r \in Runs |-> "mon"]
LimitOne == [m \in Mons |-> 1]
=============================================================================
