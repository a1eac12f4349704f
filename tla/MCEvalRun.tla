----------------------------- MODULE MCEvalRun -----------------------------
(* Instances of EvalRun for TLC. *)
EXTENDS EvalRun

CONSTANTS r1, r2, d1, d2

\* One query with a distractor in its corpus, and two queries.
TwoPlans == {[queries |-> {d1}, corpus |-> {d1, d2}], [queries |-> {d1, d2}, corpus |-> {d1, d2}]}
OnePlan == {[queries |-> {d1}, corpus |-> {d1}]}
=============================================================================
