----------------------------- MODULE MCLogPage -----------------------------
(* Small instances of LogPage for TLC. *)
EXTENDS LogPage

CONSTANTS c1, c2, l1, l2

Symmetry == Permutations(Conns) \cup Permutations(Loads)
=============================================================================
