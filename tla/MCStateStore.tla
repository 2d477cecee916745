---- MODULE MCStateStore ----
EXTENDS StateStore, TLC

Symmetry == Permutations(Procs)
====
