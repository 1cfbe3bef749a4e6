----------------------------- MODULE MCLogShip -----------------------------
(* Small instances of LogShip for TLC. *)
EXTENDS LogShip, TLC

Symmetry == Permutations(Shippers)
=============================================================================
