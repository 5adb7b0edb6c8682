------------------------------ MODULE MCEscrow ------------------------------
(* Escrow on an instance small enough for TLC to exhaust.                    *)
EXTENDS Escrow

\* One valid amount, and one each of the arguments lock refuses.
MCAmounts == {0, 2}
MCFees == {-1, 0, 1}
=============================================================================
