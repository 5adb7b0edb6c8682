----------------------------- MODULE MCServices -----------------------------
(* The services, each on an instance small enough for TLC to exhaust.      *)
EXTENDS Services, TLC

Symmetry == Permutations(Requests)

\* One credential, which two requests may spend in the same second.
ProvableByTheKey == {<<"key", "n">>}
=============================================================================
