---------------------------- MODULE PipelineRun ----------------------------
(***************************************************************************)
(* One pipeline run (app/pipelines/execution): the executor that walks a   *)
(* definition's graph, node after node in the arbitrary order of a Python  *)
(* set, and the run and node-run rows its trace recorder leaves.           *)
(* A payload is the wire it travelled on: what a node is given is the set  *)
(* of wires that have delivered to it.                                     *)
(***************************************************************************)
EXTENDS Integers, FiniteSets

CONSTANTS
    Nodes,
    Definitions    \* the graphs a run may be asked to execute

Unnamed == "default"   \* the port of a wire end that names none
Kinds == {"input", "step", "transform", "fanin", "output"}

\* The ports of each kind of node; a fan-in port accepts many wires.
Ports(kind) ==
    CASE kind = "input" -> {}
      [] kind = "transform" -> {"items", "document"}
      [] OTHER -> {"items"}
Required(kind) == Ports(kind) \ {"document"}
Variadic(kind) == IF kind \in {"fanin", "output"} THEN Required(kind) ELSE {}
\* What a node emits: an output node's result, and the items of any other.
Emits(kind) == IF kind = "output" THEN {"result"} ELSE {"items"}

Wire == [from : Nodes, out : {"items", "result", Unnamed},
         to : Nodes, in : {"items", "document", Unnamed}]

ASSUME PipelineAssumption ==
    /\ IsFiniteSet(Nodes)
    /\ Definitions \subseteq [kind : [Nodes -> Kinds], wires : SUBSET Wire]
    /\ \A d \in Definitions : IsFiniteSet(d.wires)

None == "none"
ASSUME NoneAssumption == None \notin Nodes

VARIABLES
    def,         \* the resolved definition
    phase,       \* where the executor and its caller are
    pending, dead, ran,
    got,         \* the wires that have delivered
    fanin,       \* how many deliveries a node's variadic port waits for
    visit,       \* what is left of list(state.pending) in the current loop
    progressed,  \* the loop's own flag: progressed or changed
    current,     \* the node that is running
    row,         \* node-run rows
    run,         \* the status of the run row
    failedNode   \* the recorder's failed_node_run

walk == <<pending, dead, ran, got, fanin, visit, progressed>>
trace == <<current, row, run, failedNode>>
vars == <<def, phase, walk, trace>>

Phases == {"validate", "pass", "settle", "executed", "invalid", "stalled", "broken", "over"}
NodeStatus == {None, "running", "completed", "degraded", "failed"}
RunStatus == {"running", "completed", "degraded", "failed", "unsupported"}

TypeOK ==
    /\ def \in Definitions
    /\ phase \in Phases
    /\ pending \in SUBSET Nodes /\ dead \in SUBSET Nodes /\ ran \in SUBSET Nodes
    /\ got \in SUBSET Wire
    /\ fanin \in [Nodes -> Nat]
    /\ visit \in SUBSET Nodes
    /\ progressed \in BOOLEAN
    /\ current \in Nodes \union {None}
    /\ row \in [Nodes -> NodeStatus]
    /\ run \in RunStatus
    /\ failedNode \in Nodes \union {None}

Kind(n) == def.kind[n]
Into(n) == {w \in def.wires : w.to = n}
OutOf(n) == {w \in def.wires : w.from = n}
Inputs(n) == got \intersect Into(n)
IntoVariadic(n, wires) == {w \in wires : w.to = n /\ w.in \in Variadic(Kind(n))}
Arrived(n) == Cardinality(IntoVariadic(n, got))

-----------------------------------------------------------------------------
(* Validation: graph_structure_issues.                                     *)

HasCycle ==
    \E S \in SUBSET Nodes \ {{}} : \A n \in S : \E w \in OutOf(n) : w.to \in S

MissingPort ==
    \E w \in def.wires :
        \/ w.out # Unnamed /\ w.out \notin Emits(Kind(w.from))
        \/ w.in # Unnamed /\ w.in \notin Ports(Kind(w.to))
        \/ w.out = "result" /\ w.in # Unnamed   \* incompatible kinds of data

CrowdedPort ==
    \E v, w \in def.wires :
        /\ v # w /\ v.to = w.to /\ v.in = w.in
        /\ v.in \in Ports(Kind(v.to)) \ Variadic(Kind(v.to))

MissingInput == \E n \in Nodes : \E p \in Required(Kind(n)) : \A w \in Into(n) : w.in # p

Valid == ~HasCycle /\ ~MissingPort /\ ~CrowdedPort /\ ~MissingInput

-----------------------------------------------------------------------------
Init ==
    /\ def \in Definitions
    /\ phase = "validate"
    /\ pending = Nodes /\ dead = {} /\ ran = {} /\ got = {}
    /\ fanin = [n \in Nodes |-> Cardinality(IntoVariadic(n, def.wires))]
    /\ visit = {} /\ progressed = FALSE
    /\ current = None /\ row = [n \in Nodes |-> None]
    /\ run = "running" /\ failedNode = None

\* mark_run_failed: a run that has failed keeps its first error.
MarkFailed == run' = "failed"

Reject ==
    /\ phase = "validate" /\ ~Valid
    /\ phase' = "invalid" /\ MarkFailed
    /\ UNCHANGED <<def, walk, current, row, failedNode>>

\* One turn of the outer loop begins: a copy of the pending nodes to visit.
BeginPass ==
    /\ phase' = "pass" /\ visit' = pending /\ progressed' = FALSE

Accept ==
    /\ phase = "validate" /\ Valid
    /\ BeginPass
    /\ UNCHANGED <<def, pending, dead, ran, got, fanin, trace>>

\* Mutant: a variadic port is ready with its first delivery.
IsReadyWithOne(n) ==
    /\ Ports(Kind(n)) # {} => Inputs(n) # {}
    /\ \A p \in Required(Kind(n)) : \E w \in Inputs(n) : w.in = p

\* Only required ports are waited for, and a variadic one for every wire that
\* is still expected.
IsReady(n) ==
    /\ Ports(Kind(n)) # {} => Inputs(n) # {}
    /\ \A p \in Required(Kind(n)) \ Variadic(Kind(n)) : \E w \in Inputs(n) : w.in = p
    /\ Variadic(Kind(n)) # {} => Arrived(n) >= fanin[n] /\ fanin[n] > 0

Skip(n) ==
    /\ phase = "pass" /\ current = None
    /\ n \in visit /\ ~IsReady(n)
    /\ visit' = visit \ {n}
    /\ UNCHANGED <<def, phase, pending, dead, ran, got, fanin, progressed, trace>>

StartNode(n) ==
    /\ phase = "pass" /\ current = None
    /\ n \in visit /\ IsReady(n)
    /\ visit' = visit \ {n}
    /\ current' = n
    /\ row' = [row EXCEPT ![n] = "running"]
    /\ UNCHANGED <<def, phase, pending, dead, ran, got, fanin, progressed, run, failedNode>>

\* _propagate: a wire delivers when the node emitted the port it names.
Delivered(n) == {w \in OutOf(n) : w.out \in Emits(Kind(n))}

\* A node that absorbed a failure ends degraded: of these, an LLM transform.
FinishNode(n) ==
    /\ current = n
    /\ \E status \in {"completed", "degraded"} :
          /\ status = "degraded" => Kind(n) = "transform"
          /\ row' = [row EXCEPT ![n] = status]
    /\ current' = None
    /\ ran' = ran \union {n}
    /\ pending' = pending \ {n}
    /\ got' = got \union Delivered(n)
    /\ progressed' = TRUE
    /\ UNCHANGED <<def, phase, dead, fanin, visit, run, failedNode>>

FailNode(n) ==
    /\ current = n
    /\ row' = [row EXCEPT ![n] = "failed"]
    /\ failedNode' = n
    /\ current' = None
    /\ phase' = "broken" /\ MarkFailed
    /\ UNCHANGED <<def, walk>>

\* The end of a pass that ran something, and of one that ran nothing.
Looped(loop) == phase = loop /\ visit = {} /\ current = None

NextPass ==
    /\ \E loop \in {"pass", "settle"} : Looped(loop)
    /\ progressed /\ pending # {}
    /\ BeginPass
    /\ UNCHANGED <<def, pending, dead, ran, got, fanin, trace>>

BeginSettle ==
    /\ Looped("pass") /\ ~progressed
    /\ phase' = "settle" /\ visit' = pending
    /\ UNCHANGED <<def, pending, dead, ran, got, fanin, progressed, trace>>

\* Mutant: a dead source does not settle a wire.
SettledByRuns(n) == \A w \in Into(n) : w.from \in ran

\* _settle_undeliverable looks at one pending node.
Settled(n) == \A w \in Into(n) : w.from \in ran \union dead

\* Mutant: a dead node stays among the pending ones.
BuryPending(n) ==
    /\ Settled(n) /\ Inputs(n) = {} /\ Into(n) # {}
    /\ dead' = dead \union {n}
    /\ progressed' = TRUE
    /\ UNCHANGED <<pending, fanin>>

Bury(n) ==
    /\ Settled(n) /\ Inputs(n) = {} /\ Into(n) # {}
    /\ pending' = pending \ {n} /\ dead' = dead \union {n}
    /\ progressed' = TRUE
    /\ UNCHANGED fanin

ShrinkFanin(n) ==
    /\ Settled(n) /\ Inputs(n) # {}
    /\ Arrived(n) > 0 /\ fanin[n] # Arrived(n)
    /\ fanin' = [fanin EXCEPT ![n] = Arrived(n)]
    /\ progressed' = TRUE
    /\ UNCHANGED <<pending, dead>>

Leave(n) ==
    /\ Settled(n) => Inputs(n) # {} \/ Into(n) = {}
    /\ Settled(n) => Arrived(n) = 0 \/ fanin[n] = Arrived(n)
    /\ UNCHANGED <<pending, dead, fanin, progressed>>

Settle(n) ==
    /\ phase = "settle" /\ n \in visit
    /\ visit' = visit \ {n}
    /\ Bury(n) \/ ShrinkFanin(n) \/ Leave(n)
    /\ UNCHANGED <<def, phase, ran, got, trace>>

Exhausted ==
    \/ Looped("settle") /\ ~progressed
    \/ \E loop \in {"pass", "settle"} : Looped(loop) /\ pending = {} /\ progressed

\* Mutant: the run's status does not look at its nodes.
OutcomeOfRun == "completed"

\* mark_run_completed: one degraded node degrades the run.
Outcome == IF \E n \in Nodes : row[n] = "degraded" THEN "degraded" ELSE "completed"

\* _resolve_stalled: nodes without any input are skipped, one with some is an error.
Complete ==
    /\ Exhausted /\ \A n \in pending : Inputs(n) = {}
    /\ phase' = "executed" /\ run' = Outcome
    /\ pending' = {}
    /\ UNCHANGED <<def, dead, ran, got, fanin, visit, progressed, current, row, failedNode>>

Stall ==
    /\ Exhausted /\ \E n \in pending : Inputs(n) # {}
    /\ phase' = "stalled" /\ MarkFailed
    /\ UNCHANGED <<def, walk, current, row, failedNode>>

-----------------------------------------------------------------------------
(* What the caller does with the outcome: a tool call and an ingestion     *)
(* take the result of a terminal node, a draft run only shows the trace.   *)

Over == phase' = "over" /\ UNCHANGED <<def, walk, current, row, failedNode>>

HasResult == \E n \in ran : Kind(n) = "output" /\ OutOf(n) = {}

Respond == phase = "executed" /\ HasResult /\ Over /\ UNCHANGED run
ShowDraft == phase = "executed" /\ Over /\ UNCHANGED run

\* There is no result, or what follows the run fails (rows, the response).
RespondFails == phase = "executed" /\ Over /\ MarkFailed

\* mark_run_unsupported: an ingestion whose file no parse node read.
Decline == phase = "executed" /\ HasResult /\ Over /\ run' = "unsupported"

Caught == phase \in {"invalid", "stalled", "broken"} /\ Over /\ MarkFailed

\* The run is over: nothing happens any more.
Done == phase = "over" /\ UNCHANGED vars

Step ==
    \/ Reject \/ Accept \/ NextPass \/ BeginSettle \/ Complete \/ Stall
    \/ Respond \/ ShowDraft \/ RespondFails \/ Decline \/ Caught
    \/ \E n \in Nodes : Skip(n) \/ StartNode(n) \/ FinishNode(n) \/ FailNode(n) \/ Settle(n)

Next == Step \/ Done

\* One thread executes the run, and nodes return or raise.
Spec == Init /\ [][Next]_vars /\ WF_vars(Step)

-----------------------------------------------------------------------------
(* The reference: what a definition runs, whatever the order of visits.    *)

Live == {w \in def.wires : w.out \in Emits(Kind(w.from))}

Fed(n, sources) ==
    \A p \in Required(Kind(n)) : \E w \in Live : w.to = n /\ w.in = p /\ w.from \in sources

\* The least set of nodes that has every node it feeds.
Closed(sources) == \A n \in Nodes : Fed(n, sources) => n \in sources
Runnable == {n \in Nodes : \A S \in SUBSET Nodes : Closed(S) => n \in S}

Fresh(sources) == {w \in Live : w.from \in sources}

\* Nodes that get something but never all they require.
HalfFed == {w.to : w \in Fresh(Runnable)} \ Runnable

\* An accepted definition either runs exactly what its wires can feed, or is
\* reported as stalled for a node that gets only some of its inputs: the set
\* iteration order of _execute_nodes and the order in which branches are
\* settled decide neither which nodes run nor whether the run stalls.
SameOutcome ==
    /\ phase = "executed" => ran = Runnable /\ HalfFed = {}
    /\ phase = "stalled" => ran \subseteq Runnable /\ HalfFed # {}

\* A node starts with everything its required ports will ever get: a wire that
\* has not delivered comes from a node that never runs.  The executor shrinks
\* what a fan-in port waits for, and must not do so while a branch is still on
\* its way (ports.py: "the node runs only once all wired edges have
\* delivered").  Optional ports are not waited for.
WaitsForAll ==
    /\ \A n \in Nodes, w \in Live :
          current = n /\ w.to = n /\ w.in \in Required(Kind(n))
              => w \in got \/ w.from \in dead
    /\ dead \intersect (ran \union {current}) = {}

\* The rows tell one story: a run that ended well has no failed node and is
\* degraded iff a node is, one that failed in a node names it, and nothing is
\* left running.
TraceTellsTheOutcome ==
    /\ phase \in {"executed", "over"} /\ run # "failed" =>
          /\ \A n \in Nodes : row[n] # "failed"
          /\ run # "unsupported" => (run = "degraded" <=> \E n \in Nodes : row[n] = "degraded")
    /\ \A n \in Nodes : row[n] = "failed" <=> failedNode = n
    /\ failedNode # None => run = "failed"
    /\ \A n \in Nodes : row[n] = "running" <=> current = n
    /\ phase = "over" => run # "running" /\ current = None

\* The loops of _execute_nodes end: settling branches never goes on for ever.
RunEnds == <>(phase = "over")
=============================================================================
