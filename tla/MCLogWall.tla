----------------------------- MODULE MCLogWall -----------------------------
(* Small instances of LogWall for TLC. *)
EXTENDS LogWall, TLC

Symmetry == Permutations(Conns)
=============================================================================
