--------------------------- MODULE EventDelivery ----------------------------
(***************************************************************************)
(* What the rest of the backend may assume of the event listener: each     *)
(* contract event is handed to the dispatcher at most once, and may never  *)
(* be.  Settlement's Deliver is written against this promise.              *)
(***************************************************************************)
CONSTANT Events

VARIABLE fate       \* what has become of each event

vars == <<fate>>

Fates == {"none", "emitted", "delivered", "lost"}

Init == fate = [e \in Events |-> "none"]

\* A ledger emits events.
Emit(new) ==
    /\ \A e \in new : fate[e] = "none"
    /\ fate' = [e \in Events |-> IF e \in new THEN "emitted" ELSE fate[e]]

Deliver(e) ==
    /\ fate[e] = "emitted"
    /\ fate' = [fate EXCEPT ![e] = "delivered"]

\* It will not be handed over any more.
Lose(e) ==
    /\ fate[e] = "emitted"
    /\ fate' = [fate EXCEPT ![e] = "lost"]

Next ==
    \/ \E new \in SUBSET Events : Emit(new)
    \/ \E e \in Events : Deliver(e) \/ Lose(e)

Spec == Init /\ [][Next]_vars
=============================================================================
