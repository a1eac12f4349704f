------------------------ MODULE MCConnectionThrottle ------------------------
(* Instances of ConnectionThrottle for TLC. *)
EXTENDS ConnectionThrottle

CONSTANTS c1, c2

=============================================================================
