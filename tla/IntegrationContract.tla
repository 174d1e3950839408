------------------------- MODULE IntegrationContract -------------------------
(***************************************************************************)
(* What an integration that starts work under a stable execution key may   *)
(* rely on, whatever the run manager does inside: the status its snapshot  *)
(* shows, whether its cancellation was recorded, and whether a process     *)
(* works for it.  Several keys may move in one step, because one handler   *)
(* of the service ends a run and starts the next, and a restart settles    *)
(* everything that was lost.                                               *)
(***************************************************************************)
CONSTANT Keys

VARIABLES
    status,     \* what the snapshot of a key shows
    asked,      \* the keys whose cancellation was recorded
    working     \* the keys a process works for

vars == <<status, asked, working>>

Verdicts == {"succeeded", "failed", "cancelled"}

Init ==
    /\ status = [k \in Keys |-> "absent"]
    /\ asked = {}
    /\ working = {}

Become(k, newStatus) == status'[k] = newStatus /\ (k \in asked' <=> k \in asked)

\* Nothing the integration can see happens to k.
Same(k) == Become(k, status[k]) /\ (k \in working' <=> k \in working)

\* The key is reserved; the same request may already launch it.
Reserve(k) == status[k] = "absent" /\ Become(k, "pending")

\* A process starts only for work that is pending and that nobody has cancelled.
Launch(k) == status[k] = "pending" /\ k \notin working /\ k \notin asked
             /\ Become(k, "pending") /\ k \in working'

Run(k) == status[k] = "pending" /\ k \in working /\ Become(k, "running") /\ k \in working'

\* An attempt failed and is retried; a cancelled execution is not.
Retry(k) == status[k] \in {"pending", "running"} /\ k \notin asked /\ Become(k, "pending")

\* The process is gone and the verdict is still open: its receipt is awaited, or the
\* service died with it.
Lose(k) == k \in working /\ Become(k, status[k]) /\ k \notin working'

\* Cancellation of work that has a process or that nobody can settle yet.
AskCancel(k) == status[k] = "running" /\ status'[k] = "running" /\ k \in asked'
                /\ (k \in working' <=> k \in working)

\* A verdict is given once, when no process works any more, and it is "cancelled" only
\* if that was asked; then it is never "succeeded".
Settle(k) ==
    /\ status[k] \notin Verdicts \cup {"absent"}
    /\ status'[k] \in Verdicts
    /\ k \notin working'
    /\ k \in asked => k \in asked'
    /\ status'[k] = "cancelled" => k \in asked'
    /\ status'[k] = "succeeded" => status[k] = "running" /\ k \notin asked'

Next ==
    \A k \in Keys :
        Same(k) \/ Reserve(k) \/ Launch(k) \/ Run(k) \/ Retry(k) \/ Lose(k)
            \/ AskCancel(k) \/ Settle(k)

Spec == Init /\ [][Next]_vars
=============================================================================
