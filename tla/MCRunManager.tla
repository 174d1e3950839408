---------------------------- MODULE MCRunManager ----------------------------
(* Small instances of RunManager for TLC. *)
EXTENDS RunManager, TLC

OneMon == [r \in Runs |-> "a"]
LimitOne == [m \in Mons |-> 1]
LimitTwo == [m \in Mons |-> 2]
=============================================================================
