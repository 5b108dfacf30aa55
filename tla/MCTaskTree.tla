----------------------------- MODULE MCTaskTree -----------------------------
(* Instantiates TaskTree for TLC. *)
EXTENDS TaskTree, TLC

CONSTANTS user, w1, w2, k1, k2, k3

\* Workers and tasks are interchangeable.
Symmetry == Permutations({w1, w2}) \cup Permutations({k1, k2, k3})
=============================================================================
