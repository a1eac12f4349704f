-------------------------- MODULE MCResourceCache --------------------------
(* Instances of ResourceCache for TLC. *)
EXTENDS ResourceCache

CONSTANTS k1, k2, c1, c2, c3, f1, f2, f3
=============================================================================
