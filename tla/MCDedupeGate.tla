--------------------------- MODULE MCDedupeGate ---------------------------
(* Three keys for two places, so that eviction, expiry and re-acceptance   *)
(* all happen; two callers, so that one may enter with a stale clock.      *)
EXTENDS DedupeGate

Symmetry == Permutations(Keys) \cup Permutations(Callers)
=============================================================================
