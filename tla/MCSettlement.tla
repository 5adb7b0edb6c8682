---------------------------- MODULE MCSettlement ----------------------------
(* Settlement of one trade: trades share no row, transaction or contract     *)
(* entry, so the interleavings that matter are those of one trade's actors.  *)
EXTENDS Settlement, TLC

\* Workers and attempts are only told apart; used by the safety run alone.
Symmetry ==
    Permutations(Workers) \cup Permutations(LockAttempts) \cup Permutations(RefundAttempts)
=============================================================================
