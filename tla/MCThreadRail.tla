----------------------------- MODULE MCThreadRail -----------------------------
(* An instance of ThreadRail: the operator's messages are few, the polls are not. *)
EXTENDS ThreadRail
=============================================================================
