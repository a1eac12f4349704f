-------------------------- MODULE MCInsightRefresh --------------------------
(* Instances of InsightRefresh for TLC. *)
EXTENDS InsightRefresh

CONSTANTS t1, t2
=============================================================================
