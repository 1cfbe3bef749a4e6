---------------------------- MODULE MCNodeAgent ----------------------------
(* Small instances of NodeAgent for TLC. *)
EXTENDS NodeAgent, TLC

CONSTANTS r1, r2, i1, i2, n1, n2

Unit(id, nonce, form) == [id |-> id, nonce |-> nonce, form |-> form]

(* Two signed units under one nonce; the first again under another nonce    *)
(* (the signature does not cover the nonce) with a bad signature; a          *)
(* malformed unit.                                                           *)
MixedUnits == {
    Unit(i1, n1, "signed"),
    Unit(i2, n1, "signed"),
    Unit(i1, n2, "unsigned"),
    Unit(i2, NoNonce, "malformed") }
=============================================================================
