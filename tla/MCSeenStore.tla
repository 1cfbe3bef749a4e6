---------------------------- MODULE MCSeenStore ----------------------------
(* Small instances of SeenStore for TLC. *)
EXTENDS SeenStore, TLC

CONSTANTS c1, c2, i1, i2, i3, n1, n2, n3

Unit(id, nonce) == [id |-> id, nonce |-> nonce]

(* Units with a nonce of their own, one id under two nonces, one nonce under *)
(* two ids, and two units without a nonce.                                   *)
MixedUnits == { Unit(i1, n1), Unit(i1, n2), Unit(i2, n1), Unit(i2, NoNonce),
                Unit(i3, n3), Unit(i3, NoNonce) }

Symmetry == Permutations(Clients)
=============================================================================
