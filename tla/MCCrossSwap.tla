---------------------------- MODULE MCCrossSwap -----------------------------
(* CrossSwap on an instance small enough for TLC to exhaust.               *)
EXTENDS CrossSwap
=============================================================================
