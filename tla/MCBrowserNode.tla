--------------------------- MODULE MCBrowserNode ---------------------------
(* Small instances of BrowserNode for TLC. *)
EXTENDS BrowserNode

Symmetry == Permutations(Tabs) \cup Permutations(Seeds) \cup Permutations(Units)
=============================================================================
