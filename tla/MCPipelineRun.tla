--------------------------- MODULE MCPipelineRun ---------------------------
(* Instances of PipelineRun for TLC. *)
EXTENDS PipelineRun, TLC

CONSTANTS source, other, first, second, last

W(a, o, b, i) == [from |-> a, out |-> o, to |-> b, in |-> i]

\* Every graph that takes some of these wires, cyclic and crowded ones too.
Candidates ==
    {W(source, "items", first, "items"), W(source, Unnamed, first, "items"),
     W(source, "items", second, "items"), W(other, "items", first, "document"),
     W(other, "items", second, "items"), W(first, "items", second, "items"),
     W(first, "items", last, "items"), W(first, Unnamed, last, "items"),
     W(second, "items", last, "items"), W(second, "items", first, Unnamed),
     W(last, Unnamed, first, Unnamed), W(last, "result", second, Unnamed)}

Shapes ==
    {(source :> "input") @@ (other :> "input") @@ (first :> f) @@ (second :> s) @@ (last :> "output") :
        f \in {"step", "transform"}, s \in {"step", "fanin"}}

Graphs == {[kind |-> k, wires |-> ws] : k \in Shapes, ws \in SUBSET Candidates}
=============================================================================
