--------------------------- MODULE MCRunResources ---------------------------
(* Instances of RunResources for TLC: the sets are given in the .cfg files. *)
EXTENDS RunResources
=============================================================================
