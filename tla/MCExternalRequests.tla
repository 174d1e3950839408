------------------------- MODULE MCExternalRequests -------------------------
(* Two clients with different requests under one key, of which one is gated by a       *)
(* receipt, and one under a second key.  The keys name each other as predecessors, and one  *)
(* names itself.  The runs of the first key are retried; those of the second meet what can  *)
(* go wrong besides.                                                                   *)
EXTENDS ExternalRequests

RequestKeys == [c \in Clients |-> IF c = 3 THEN "k2" ELSE "k1"]
RequestDigests == [c \in Clients |-> IF c = 3 THEN "c" ELSE IF c = 2 THEN "b" ELSE "a"]
RequestPolicies == [c \in Clients |-> IF c = 1 THEN "external_receipt" ELSE "process_exit"]
RequestPredecessors == [c \in Clients |-> IF c = 1 THEN "k2" ELSE "k1"]
MonLaunches ==
    [k \in Keys |-> IF k = "k1" THEN {"spawned", "reject"} ELSE {"spawned", "event", "mcp"}]
MonAttempts == [k \in Keys |-> IF k = "k1" THEN 2 ELSE 1]
=============================================================================
