---------------------------- MODULE MCValueCache ----------------------------
(* Instances of ValueCache for TLC. *)
EXTENDS ValueCache

CONSTANTS k1, k2, c1, c2, e1, e2, e3, e4
=============================================================================
