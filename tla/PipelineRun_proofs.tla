------------------------- MODULE PipelineRun_proofs -------------------------
(* Theorems about PipelineRun, for every graph over any number of nodes and  *)
(* every order in which the executor visits them.                            *)
EXTENDS PipelineRun, FiniteSetTheorems, WellFoundedInduction, TLAPS

USE PipelineAssumption, NoneAssumption

(***************************************************************************)
(* The inductive invariant.                                                *)
(***************************************************************************)

Looping == phase \in {"pass", "settle"}

\* The bookkeeping of the walk: a node is pending, dead or ran, and what is
\* visited is pending; the running node has been taken from the list.
Bookkeeping ==
    /\ pending \intersect (dead \union ran) = {} /\ dead \intersect ran = {}
    /\ Looping => visit \subseteq pending
    /\ current # None => phase = "pass" /\ current \in pending \ visit

\* Only accepted definitions are walked, every wire of a node that ran has
\* delivered, and a fan-in is short of its wires only once they are settled.
Expected(n) == fanin[n] = Cardinality(IntoVariadic(n, def.wires)) \/ Settled(n)
Deliveries ==
    /\ Looping => Valid
    /\ got \subseteq def.wires
    /\ \A w \in Live : w.from \in ran => w \in got
    /\ \A n \in Nodes : Expected(n)

\* The recorder's memory and the phase agree with the rows.
Recorded ==
    /\ failedNode # None => phase \in {"broken", "over"} /\ run = "failed"
    /\ phase = "executed" => run # "running"

\* Only what can run does, a delivery is one of a node that ran, and a node is
\* buried when nothing can reach it any more.
Reached ==
    /\ Looping \/ phase = "validate" => Nodes = pending \union dead \union ran
    /\ got \subseteq Live /\ \A w \in got : w.from \in ran
    /\ \A n \in dead : Settled(n) /\ Inputs(n) = {} /\ Ports(Kind(n)) # {}
    /\ ran \subseteq Runnable /\ (current # None => current \in Runnable)

\* As long as a loop has changed nothing, the nodes it has looked at are not
\* ready, and settling would change nothing of them; input nodes run first.
Untouched(n) ==
    /\ Settled(n) => Inputs(n) # {} \/ Into(n) = {}
    /\ Settled(n) => Arrived(n) = 0 \/ fanin[n] = Arrived(n)
Waiting ==
    /\ phase = "pass" => \A n \in pending \ (visit \union {current}) : Ports(Kind(n)) # {}
    /\ phase = "settle" => \A n \in pending : Ports(Kind(n)) # {}
    /\ phase = "pass" /\ ~progressed =>
            \A n \in pending \ (visit \union {current}) : ~IsReady(n)
    /\ phase = "settle" /\ ~progressed =>
            /\ \A n \in pending : ~IsReady(n)
            /\ \A n \in pending \ visit : Untouched(n)

IInv ==
    /\ TypeOK /\ Bookkeeping /\ Deliveries /\ Recorded /\ Reached /\ Waiting
    /\ WaitsForAll /\ TraceTellsTheOutcome /\ SameOutcome

(***************************************************************************)
(* Types.                                                                  *)
(***************************************************************************)

\* A run keeps its definition; its kinds and wires are what they are typed as.
LEMMA Definition ==
    ASSUME TypeOK
    PROVE  def.kind \in [Nodes -> Kinds] /\ def.wires \subseteq Wire /\ IsFiniteSet(def.wires)
BY DEF TypeOK

LEMMA Counting ==
    ASSUME TypeOK, NEW n \in Nodes, NEW S \in SUBSET def.wires
    PROVE  /\ IntoVariadic(n, S) \subseteq IntoVariadic(n, def.wires)
           /\ IsFiniteSet(IntoVariadic(n, def.wires))
           /\ IsFiniteSet(IntoVariadic(n, S))
           /\ Cardinality(IntoVariadic(n, S)) \in Nat
<1>1. IntoVariadic(n, S) \subseteq IntoVariadic(n, def.wires)
    BY DEF IntoVariadic
<1>2. IntoVariadic(n, def.wires) \in SUBSET def.wires
    BY DEF IntoVariadic
<1>3. IsFiniteSet(IntoVariadic(n, def.wires))
    BY <1>2, Definition, FS_Subset
<1>4. IsFiniteSet(IntoVariadic(n, S))
    BY <1>1, <1>3, FS_Subset
<1> QED
    BY <1>1, <1>3, <1>4, FS_CardinalityType

LEMMA TypeInit == Init => TypeOK
<1> SUFFICES ASSUME Init PROVE TypeOK
    OBVIOUS
<1>1. def.wires \in SUBSET def.wires /\ IsFiniteSet(def.wires)
    BY DEF Init
<1>2. \A n \in Nodes : Cardinality(IntoVariadic(n, def.wires)) \in Nat
    <2> TAKE n \in Nodes
    <2>1. IntoVariadic(n, def.wires) \in SUBSET def.wires
        BY DEF IntoVariadic
    <2>2. IsFiniteSet(IntoVariadic(n, def.wires))
        BY <1>1, <2>1, FS_Subset
    <2> QED
        BY <2>2, FS_CardinalityType
<1>3. fanin \in [Nodes -> Nat]
    BY <1>2 DEF Init
<1> QED
    BY <1>3 DEF Init, TypeOK, Phases, NodeStatus, RunStatus

LEMMA TypeStep ==
    ASSUME TypeOK, got \subseteq def.wires, [Next]_vars
    PROVE  TypeOK'
<1> USE DEF TypeOK, Phases, NodeStatus, RunStatus, MarkFailed, BeginPass
<1>1. CASE UNCHANGED vars
    BY <1>1 DEF vars, walk, trace
<1>2. CASE Reject \/ Accept \/ NextPass \/ BeginSettle
    BY <1>2 DEF Reject, Accept, NextPass, BeginSettle, walk, trace
<1>3. CASE Complete \/ Stall
    BY <1>3 DEF Complete, Stall, Outcome, walk
<1>4. CASE Respond \/ ShowDraft \/ RespondFails \/ Decline \/ Caught
    BY <1>4 DEF Respond, ShowDraft, RespondFails, Decline, Caught, Over, walk
<1>5. ASSUME NEW n \in Nodes, Skip(n) \/ StartNode(n) \/ FailNode(n)
      PROVE  TypeOK'
    BY <1>5 DEF Skip, StartNode, FailNode, walk, trace
<1>6. ASSUME NEW n \in Nodes, FinishNode(n)
      PROVE  TypeOK'
    <2>1. got' \in SUBSET Wire
        BY <1>6, Definition DEF FinishNode, Delivered, OutOf
    <2>2. row' \in [Nodes -> NodeStatus]
        BY <1>6 DEF FinishNode
    <2> QED
        BY <1>6, <2>1, <2>2 DEF FinishNode
<1>7. ASSUME NEW n \in Nodes, Settle(n)
      PROVE  TypeOK'
    <2>1. Arrived(n) \in Nat
        BY Counting DEF Arrived
    <2>2. fanin' \in [Nodes -> Nat]
        BY <1>7, <2>1 DEF Settle, Bury, ShrinkFanin, Leave
    <2> QED
        BY <1>7, <2>2 DEF Settle, Bury, ShrinkFanin, Leave, trace
<1> QED
    BY <1>1, <1>2, <1>3, <1>4, <1>5, <1>6, <1>7 DEF Next, Step, Done

(***************************************************************************)
(* The bookkeeping of the walk.                                            *)
(***************************************************************************)

LEMMA BookkeepingStep ==
    ASSUME TypeOK, Bookkeeping, [Next]_vars
    PROVE  Bookkeeping'
<1> USE DEF TypeOK, Bookkeeping, Looping
<1>1. CASE UNCHANGED vars
    BY <1>1 DEF vars, walk, trace
<1>2. CASE Reject \/ Accept \/ NextPass \/ BeginSettle
    BY <1>2 DEF Reject, Accept, NextPass, BeginSettle, BeginPass, Looped, walk, trace
<1>3. CASE Complete \/ Stall
    BY <1>3 DEF Complete, Stall, Exhausted, Looped, walk
<1>4. CASE Respond \/ ShowDraft \/ RespondFails \/ Decline \/ Caught
    BY <1>4 DEF Respond, ShowDraft, RespondFails, Decline, Caught, Over, walk
<1>5. ASSUME NEW n \in Nodes, Skip(n) \/ StartNode(n) \/ FailNode(n)
      PROVE  Bookkeeping'
    BY <1>5 DEF Skip, StartNode, FailNode, walk, trace
<1>6. ASSUME NEW n \in Nodes, FinishNode(n)
      PROVE  Bookkeeping'
    BY <1>6 DEF FinishNode
<1>7. ASSUME NEW n \in Nodes, Settle(n)
      PROVE  Bookkeeping'
    BY <1>7 DEF Settle, Bury, ShrinkFanin, Leave, trace
<1> QED
    BY <1>1, <1>2, <1>3, <1>4, <1>5, <1>6, <1>7 DEF Next, Step, Done

(***************************************************************************)
(* Deliveries and what fan-in nodes wait for.                              *)
(***************************************************************************)

\* A run never changes its definition, and with it its wires.
LEMMA SameWires ==
    ASSUME TypeOK, [Next]_vars
    PROVE  /\ def' = def /\ Live' = Live /\ (Valid <=> Valid')
           /\ \A n \in Nodes : Kind(n)' = Kind(n) /\ Into(n)' = Into(n)
           /\ \A n \in Nodes : IntoVariadic(n, def.wires)' = IntoVariadic(n, def.wires)
<1>1. def' = def
    BY DEF Next, Step, Done, vars, Reject, Accept, NextPass, BeginSettle, Complete, Stall,
           Respond, ShowDraft, RespondFails, Decline, Caught, Over, Skip, StartNode,
           FinishNode, FailNode, Settle
<1>2. Live' = Live
    BY <1>1 DEF Live, Kind
<1>3. Valid <=> Valid'
    BY <1>1 DEF Valid, HasCycle, MissingPort, CrowdedPort, MissingInput, Kind, Into, OutOf
<1>4. \A n \in Nodes : Kind(n)' = Kind(n) /\ Into(n)' = Into(n)
    BY <1>1 DEF Kind, Into
<1>5. \A n \in Nodes : IntoVariadic(n, def.wires)' = IntoVariadic(n, def.wires)
    BY <1>1 DEF IntoVariadic, Kind
<1> QED
    BY <1>1, <1>2, <1>3, <1>4, <1>5

\* Nodes that ran or are dead stay so: what is settled stays settled.
LEMMA StaysSettled ==
    ASSUME TypeOK, [Next]_vars
    PROVE  ran \subseteq ran' /\ dead \subseteq dead' /\ \A n \in Nodes : Settled(n) => Settled(n)'
<1>1. ran \subseteq ran' /\ dead \subseteq dead'
    BY DEF Next, Step, Done, vars, Reject, Accept, NextPass, BeginSettle, Complete, Stall,
           Respond, ShowDraft, RespondFails, Decline, Caught, Over, Skip, StartNode,
           FinishNode, FailNode, Settle, Bury, ShrinkFanin, Leave, walk, trace
<1>2. ASSUME NEW n \in Nodes, Settled(n)
      PROVE  Settled(n)'
    <2>1. Into(n)' = Into(n)
        BY SameWires
    <2> QED
        BY <1>1, <1>2, <2>1 DEF Settled
<1> QED
    BY <1>1, <1>2

\* Waiting for fewer deliveries is for nodes whose sources are all settled.
LEMMA ExpectedStep ==
    ASSUME TypeOK, \A n \in Nodes : Expected(n), [Next]_vars, NEW n \in Nodes
    PROVE  Expected(n)'
<1>1. CASE fanin'[n] = fanin[n]
    BY <1>1, SameWires, StaysSettled DEF Expected
<1>2. CASE \E m \in Nodes : Settle(m) /\ ShrinkFanin(m)
    <2>1. PICK m \in Nodes : Settle(m) /\ ShrinkFanin(m)
        BY <1>2
    <2>2. CASE n = m
        BY <2>1, <2>2, StaysSettled DEF ShrinkFanin, Expected
    <2>3. CASE n # m
        <3>1. fanin'[n] = fanin[n]
            BY <2>1, <2>3 DEF ShrinkFanin, TypeOK
        <3> QED
            BY <3>1, <1>1
    <2> QED
        BY <2>2, <2>3
<1>3. UNCHANGED fanin \/ \E m \in Nodes : Settle(m) /\ ShrinkFanin(m)
    BY DEF Next, Step, Done, vars, Reject, Accept, NextPass, BeginSettle, Complete, Stall,
           Respond, ShowDraft, RespondFails, Decline, Caught, Over, Skip, StartNode,
           FinishNode, FailNode, Settle, Bury, Leave, walk, trace
<1> QED
    BY <1>1, <1>2, <1>3

LEMMA DeliveriesStep ==
    ASSUME TypeOK, Deliveries, [Next]_vars
    PROVE  Deliveries'
<1>1. (Looping => Valid)'
    <2>1. Looping' => Looping \/ Valid
        BY DEF Next, Step, Done, vars, Reject, Accept, NextPass, BeginSettle, BeginPass,
               Complete, Stall, Respond, ShowDraft, RespondFails, Decline, Caught, Over, Skip,
               StartNode, FinishNode, FailNode, Settle, Looping, Looped
    <2> QED
        BY <2>1, SameWires DEF Deliveries
<1>2. \A n \in Nodes : Expected(n)'
    BY ExpectedStep DEF Deliveries
<1>3. (got \subseteq def.wires /\ \A w \in Live : w.from \in ran => w \in got)'
    <2>1. CASE UNCHANGED <<got, ran>>
        BY <2>1, SameWires DEF Deliveries
    <2>2. ASSUME NEW n \in Nodes, FinishNode(n)
          PROVE  (got \subseteq def.wires /\ \A w \in Live : w.from \in ran => w \in got)'
        BY <2>2, SameWires DEF FinishNode, Delivered, OutOf, Live, Deliveries
    <2> QED
        BY <2>1, <2>2 DEF Next, Step, Done, vars, Reject, Accept, NextPass, BeginSettle,
               Complete, Stall, Respond, ShowDraft, RespondFails, Decline, Caught, Over, Skip,
               StartNode, FailNode, Settle, walk, trace
<1> QED
    BY <1>1, <1>2, <1>3 DEF Deliveries

\* A node that is ready has everything its required ports will ever get.
LEMMA ReadyHasAll ==
    ASSUME TypeOK, Deliveries, Valid, NEW n \in Nodes, IsReady(n),
           NEW w \in Live, w.to = n, w.in \in Required(Kind(n))
    PROVE  w \in got \/ w.from \in dead
<1>1. CASE w.in \in Variadic(Kind(n))
    <2>1. Arrived(n) >= fanin[n]
        BY <1>1 DEF IsReady
    <2>2. w \in IntoVariadic(n, def.wires)
        BY <1>1 DEF IntoVariadic, Live
    <2>3. CASE Settled(n)
        BY <2>3 DEF Settled, Into, Live, Deliveries
    <2>4. CASE fanin[n] = Cardinality(IntoVariadic(n, def.wires))
        <3>1. got \in SUBSET def.wires
            BY DEF Deliveries
        <3>2. /\ IntoVariadic(n, got) \in SUBSET IntoVariadic(n, def.wires)
              /\ IsFiniteSet(IntoVariadic(n, def.wires))
              /\ Cardinality(IntoVariadic(n, got)) \in Nat
              /\ Cardinality(IntoVariadic(n, def.wires)) \in Nat
            BY <3>1, Counting, FS_CardinalityType
        <3>3. Cardinality(IntoVariadic(n, got)) <= Cardinality(IntoVariadic(n, def.wires))
            BY <3>2, FS_Subset
        <3>4. Cardinality(IntoVariadic(n, got)) = Cardinality(IntoVariadic(n, def.wires))
            BY <2>1, <2>4, <3>2, <3>3 DEF Arrived
        <3>5. IntoVariadic(n, got) = IntoVariadic(n, def.wires)
            BY <3>2, <3>4, FS_Subset
        <3> QED
            BY <2>2, <3>5 DEF IntoVariadic
    <2> QED
        BY <2>3, <2>4 DEF Deliveries, Expected
<1>2. CASE w.in \notin Variadic(Kind(n))
    <2>1. PICK v \in Inputs(n) : v.in = w.in
        BY <1>2 DEF IsReady
    <2>2. v \in got /\ v \in def.wires /\ v.to = n /\ w \in def.wires
        BY <2>1 DEF Inputs, Into, Live
    <2>3. w.in \in Ports(Kind(n)) \ Variadic(Kind(n))
        BY <1>2 DEF Required
    <2>4. v = w
        BY <2>1, <2>2, <2>3 DEF Valid, CrowdedPort
    <2> QED
        BY <2>2, <2>4
<1> QED
    BY <1>1, <1>2

LEMMA WaitsStep ==
    ASSUME TypeOK, Bookkeeping, Deliveries, WaitsForAll, [Next]_vars
    PROVE  WaitsForAll'
<1>1. (dead \intersect (ran \union {current}) = {})'
    <2>1. Bookkeeping' /\ TypeOK'
        BY BookkeepingStep, TypeStep DEF Deliveries
    <2> QED
        BY <2>1 DEF Bookkeeping, TypeOK
<1>2. ASSUME NEW m \in Nodes, NEW w \in Live, current' = m, w.to = m, w.in \in Required(Kind(m))
      PROVE  w \in got' \/ w.from \in dead'
    <2>1. CASE UNCHANGED <<current, got, dead>>
        BY <1>2, <2>1 DEF WaitsForAll
    <2>2. ASSUME NEW n \in Nodes, StartNode(n)
          PROVE  w \in got' \/ w.from \in dead'
        <3>1. m = n /\ IsReady(n) /\ Valid /\ UNCHANGED <<got, dead>>
            BY <1>2, <2>2 DEF StartNode, Deliveries, Looping
        <3> QED
            BY <1>2, <3>1, ReadyHasAll
    <2>3. ASSUME NEW n \in Nodes, FinishNode(n) \/ FailNode(n)
          PROVE  FALSE
        BY <1>2, <2>3 DEF FinishNode, FailNode
    <2>4. ASSUME NEW n \in Nodes, Settle(n)
          PROVE  FALSE
        BY <1>2, <2>4 DEF Settle, trace, Bookkeeping
    <2> QED
        BY <2>1, <2>2, <2>3, <2>4 DEF Next, Step, Done, vars, Reject, Accept, NextPass,
               BeginSettle, Complete, Stall, Respond, ShowDraft, RespondFails, Decline, Caught,
               Over, Skip, walk, trace
<1>3. \A m \in Nodes : Kind(m)' = Kind(m)
    BY SameWires
<1> QED
    BY <1>1, <1>2, <1>3, SameWires DEF WaitsForAll

(***************************************************************************)
(* The rows.                                                               *)
(***************************************************************************)

LEMMA TraceStep ==
    ASSUME TypeOK, Bookkeeping, Recorded, TraceTellsTheOutcome, [Next]_vars
    PROVE  Recorded' /\ TraceTellsTheOutcome'
<1> USE DEF TypeOK, Bookkeeping, Recorded, TraceTellsTheOutcome, MarkFailed, BeginPass
<1>1. CASE UNCHANGED vars
    BY <1>1 DEF vars, walk, trace
<1>2. CASE Reject \/ Accept \/ NextPass \/ BeginSettle
    BY <1>2 DEF Reject, Accept, NextPass, BeginSettle, Looped, trace
<1>3. CASE Complete \/ Stall
    BY <1>3 DEF Complete, Stall, Outcome, Exhausted, Looped
<1>4. CASE Respond \/ ShowDraft \/ RespondFails \/ Decline \/ Caught
    BY <1>4 DEF Respond, ShowDraft, RespondFails, Decline, Caught, Over
<1>5. ASSUME NEW n \in Nodes, Skip(n) \/ Settle(n)
      PROVE  Recorded' /\ TraceTellsTheOutcome'
    BY <1>5 DEF Skip, Settle, trace
<1>6. ASSUME NEW n \in Nodes, StartNode(n)
      PROVE  Recorded' /\ TraceTellsTheOutcome'
    BY <1>6 DEF StartNode
<1>7. ASSUME NEW n \in Nodes, FinishNode(n)
      PROVE  Recorded' /\ TraceTellsTheOutcome'
    <2>1. PICK status \in {"completed", "degraded"} : row' = [row EXCEPT ![n] = status]
        BY <1>7 DEF FinishNode
    <2> QED
        BY <1>7, <2>1 DEF FinishNode
<1>8. ASSUME NEW n \in Nodes, FailNode(n)
      PROVE  Recorded' /\ TraceTellsTheOutcome'
    BY <1>8 DEF FailNode
<1> QED
    BY <1>1, <1>2, <1>3, <1>4, <1>5, <1>6, <1>7, <1>8 DEF Next, Step, Done

(***************************************************************************)
(* What runs, against the reference.                                       *)
(***************************************************************************)

\* A graph without a cycle has a node in every set that no wire of it enters.
LEMMA HasSource ==
    ASSUME TypeOK, ~HasCycle, NEW P \in SUBSET Nodes, P # {}
    PROVE  \E k \in P : \A w \in Into(k) : w.from \notin P
<1> DEFINE Entered(S) == \A k \in S : \E w \in Into(k) : w.from \in S
           F == {S \in SUBSET P : S # {} /\ Entered(S)}
<1> SUFFICES ASSUME P \in F PROVE FALSE
    OBVIOUS
<1>1. F \subseteq FiniteSubsetsOf(Nodes)
    BY FS_Subset, PipelineAssumption DEF FiniteSubsetsOf
<1>2. PICK S \in F : \A R \in F : ~(<<R, S>> \in StrictSubsetOrdering(Nodes))
    <2> HIDE DEF F
    <2> QED
        BY <1>1, FS_StrictSubsetOrderingWellFounded, WFMin
<1>3. PICK x \in S : \A w \in OutOf(x) : w.to \notin S
    BY <1>2 DEF HasCycle
<1>4. \A k \in S : \E w \in Into(k) : w.from \in S \ {x}
    <2> TAKE k \in S
    <2>1. PICK w \in Into(k) : w.from \in S
        BY <1>2
    <2>2. w.from # x
        BY <1>3, <2>1 DEF Into, OutOf
    <2> QED
        BY <2>1, <2>2
<1>5. S \ {x} # {} /\ S \ {x} \in SUBSET P
    BY <1>2, <1>4
<1>6. S \ {x} \in F
    BY <1>4, <1>5
<1>7. <<S \ {x}, S>> \in StrictSubsetOrdering(Nodes)
    BY <1>2, <1>3 DEF StrictSubsetOrdering
<1> QED
    BY <1>2, <1>6, <1>7

\* Runnable is closed, and in every closed set.
LEMMA LeastClosed ==
    /\ \A S \in SUBSET Nodes : Closed(S) => Runnable \subseteq S
    /\ \A S \in SUBSET Nodes : S \subseteq Runnable => \A n \in Nodes : Fed(n, S) => n \in Runnable
<1>1. \A S \in SUBSET Nodes : Closed(S) => Runnable \subseteq S
    BY DEF Runnable
<1>2. ASSUME NEW S \in SUBSET Nodes, S \subseteq Runnable, NEW n \in Nodes, Fed(n, S)
      PROVE  n \in Runnable
    <2> SUFFICES ASSUME NEW T \in SUBSET Nodes, Closed(T) PROVE n \in T
        BY <1>2 DEF Runnable
    <2>1. S \subseteq T
        BY <1>1, <1>2
    <2>2. Fed(n, T)
        BY <1>2, <2>1 DEF Fed
    <2> QED
        BY <2>2 DEF Closed
<1> QED
    BY <1>1, <1>2

\* The kinds that have a port require its items, and nothing else; the ones
\* that have none are always ready.
LEMMA PortsOfKinds ==
    ASSUME NEW kind \in Kinds
    PROVE  /\ Ports(kind) # {} => Required(kind) = {"items"}
           /\ Ports(kind) = {} => Required(kind) = {} /\ Variadic(kind) = {}
           /\ Variadic(kind) \subseteq Required(kind)
BY DEF Kinds, Ports, Required, Variadic

\* A ready node is fed by nodes that ran.
LEMMA ReadyIsFed ==
    ASSUME TypeOK, Deliveries, Reached, NEW n \in Nodes, IsReady(n)
    PROVE  Fed(n, ran)
<1> SUFFICES ASSUME NEW p \in Required(Kind(n)) PROVE \E w \in Live : w.to = n /\ w.in = p /\ w.from \in ran
    BY DEF Fed
<1>1. Kind(n) \in Kinds
    BY Definition DEF Kind
<1>2. p = "items"
    BY <1>1, PortsOfKinds DEF Required
<1>3. CASE p \notin Variadic(Kind(n))
    BY <1>3 DEF IsReady, Inputs, Into, Reached
<1>4. CASE p \in Variadic(Kind(n))
    <2>1. got \in SUBSET def.wires
        BY DEF Deliveries
    <2>2. IsFiniteSet(IntoVariadic(n, got)) /\ Cardinality(IntoVariadic(n, got)) # 0
        BY <1>4, <2>1, Counting DEF IsReady, Arrived, TypeOK
    <2>3. IntoVariadic(n, got) # {}
        BY <2>2, FS_EmptySet
    <2>4. PICK w \in got : w.to = n /\ w.in \in Variadic(Kind(n))
        BY <2>3 DEF IntoVariadic
    <2>5. w.in = "items"
        BY <1>1, <2>4, PortsOfKinds DEF Required
    <2> QED
        BY <1>2, <2>4, <2>5 DEF Reached
<1> QED
    BY <1>3, <1>4

\* A node that is fed and settled, and that no loop has a reason to touch, is ready.
LEMMA FedIsReady ==
    ASSUME TypeOK, Deliveries, NEW n \in Nodes, Fed(n, ran), Settled(n), Untouched(n),
           Ports(Kind(n)) # {}
    PROVE  IsReady(n)
<1>1. Kind(n) \in Kinds
    BY Definition DEF Kind
<1>2. PICK w \in Live : w.to = n /\ w.in = "items" /\ w.from \in ran
    BY <1>1, PortsOfKinds DEF Fed
<1>3. w \in Inputs(n)
    BY <1>2 DEF Inputs, Into, Live, Deliveries
<1>4. ASSUME NEW p \in Required(Kind(n)) \ Variadic(Kind(n))
      PROVE  \E v \in Inputs(n) : v.in = p
    BY <1>1, <1>2, <1>3, PortsOfKinds
<1>5. ASSUME Variadic(Kind(n)) # {}
      PROVE  Arrived(n) >= fanin[n] /\ fanin[n] > 0
    <2>1. "items" \in Variadic(Kind(n))
        BY <1>1, <1>5, PortsOfKinds DEF Required
    <2>2. w \in IntoVariadic(n, got)
        BY <1>2, <1>3, <2>1 DEF IntoVariadic, Inputs
    <2>3. got \in SUBSET def.wires
        BY DEF Deliveries
    <2>4. IsFiniteSet(IntoVariadic(n, got)) /\ Arrived(n) \in Nat
        BY <2>3, Counting DEF Arrived
    <2>5. Arrived(n) # 0
        BY <2>2, <2>4, FS_EmptySet DEF Arrived
    <2>6. fanin[n] = Arrived(n)
        BY <2>5 DEF Untouched
    <2> QED
        BY <2>4, <2>5, <2>6
<1> QED
    BY <1>3, <1>4, <1>5 DEF IsReady

\* The walk only moves nodes from pending to ran and dead.
LEMMA ReachedStep ==
    ASSUME IInv, [Next]_vars
    PROVE  Reached'
<1> USE DEF IInv, TypeOK, Bookkeeping, Reached, Looping
<1>0. Runnable' = Runnable
    <2>1. Live' = Live /\ \A n \in Nodes : Kind(n)' = Kind(n)
        BY SameWires
    <2>2. \A S : \A n \in Nodes : Fed(n, S)' = Fed(n, S)
        BY <2>1 DEF Fed
    <2> QED
        BY <2>2 DEF Runnable, Closed
<1>1. (Looping \/ phase = "validate" => Nodes = pending \union dead \union ran)'
    <2>1. ASSUME NEW n \in Nodes, FinishNode(n) \/ Settle(n), Looping
          PROVE  Nodes = pending' \union dead' \union ran'
        BY <2>1 DEF FinishNode, Settle, Bury, ShrinkFanin, Leave
    <2>2. (Looping \/ phase = "validate")' => (Looping \/ phase = "validate") /\ ~Complete
        BY DEF Next, Step, Done, vars, Reject, Accept, NextPass, BeginSettle, BeginPass, Complete,
           Stall, Respond, ShowDraft, RespondFails, Decline, Caught, Over, Skip, StartNode,
           FinishNode, FailNode, Settle, Looped
    <2>3. (\E n \in Nodes : FinishNode(n) \/ Settle(n)) \/ Complete \/ UNCHANGED <<pending, dead, ran>>
        BY DEF Next, Step, Done, vars, Reject, Accept, NextPass, BeginSettle, Stall, Respond,
           ShowDraft, RespondFails, Decline, Caught, Over, Skip, StartNode, FailNode, walk, trace
    <2>4. \A n \in Nodes : FinishNode(n) \/ Settle(n) => Looping
        BY DEF FinishNode, Settle
    <2> QED
        BY <2>1, <2>2, <2>3, <2>4
<1>2. (got \subseteq Live /\ \A w \in got : w.from \in ran)'
    <2>1. CASE UNCHANGED <<got, ran>>
        BY <2>1, SameWires
    <2>2. ASSUME NEW n \in Nodes, FinishNode(n)
          PROVE  (got \subseteq Live /\ \A w \in got : w.from \in ran)'
        BY <2>2, SameWires DEF FinishNode, Delivered, OutOf, Live
    <2> QED
        BY <2>1, <2>2 DEF Next, Step, Done, vars, Reject, Accept, NextPass, BeginSettle,
               Complete, Stall, Respond, ShowDraft, RespondFails, Decline, Caught, Over, Skip,
               StartNode, FailNode, Settle, walk, trace
<1>3. (\A n \in dead : Settled(n) /\ Inputs(n) = {} /\ Ports(Kind(n)) # {})'
    <2>1. ASSUME NEW n \in dead' PROVE (Settled(n) /\ Inputs(n) = {} /\ Ports(Kind(n)) # {})'
        <3>1. n \in Nodes
            BY TypeStep, <2>1 DEF Deliveries
        <3>2. Kind(n)' = Kind(n) /\ Into(n)' = Into(n)
            BY <3>1, SameWires
        <3>3. CASE n \in dead
            <4>1. Settled(n)'
                BY <3>1, <3>3, StaysSettled
            <4>2. \A m \in Nodes : FinishNode(m) => Delivered(m) \intersect Into(n) = {}
                BY <3>3 DEF FinishNode, Delivered, OutOf, Into, Settled
            <4>3. Inputs(n)' = Inputs(n)
                BY <3>1, <3>2, <4>2 DEF Inputs, Next, Step, Done, vars, Reject, Accept, NextPass,
                   BeginSettle, Complete, Stall, Respond, ShowDraft, RespondFails, Decline,
                   Caught, Over, Skip, StartNode, FinishNode, FailNode, Settle, walk, trace
            <4> QED
                BY <3>2, <3>3, <4>1, <4>3
        <3>4. CASE n \notin dead
            <4>1. Settle(n) /\ Bury(n)
                BY <2>1, <3>4 DEF Next, Step, Done, vars, Reject, Accept, NextPass,
                   BeginSettle, Complete, Stall, Respond, ShowDraft, RespondFails, Decline,
                   Caught, Over, Skip, StartNode, FinishNode, FailNode, Settle, Bury,
                   ShrinkFanin, Leave, walk, trace
            <4>2. n \in pending /\ phase = "settle" /\ Settled(n) /\ Inputs(n) = {} /\ got' = got
                BY <4>1 DEF Settle, Bury
            <4>3. Settled(n)' /\ Inputs(n)' = {}
                BY <3>1, <3>2, <4>2, StaysSettled DEF Inputs
            <4>4. Ports(Kind(n)) # {}
                BY <4>2 DEF Waiting
            <4> QED
                BY <3>2, <4>3, <4>4
        <3> QED
            BY <3>3, <3>4
    <2> QED
        BY <2>1
<1>4. (ran \subseteq Runnable /\ (current # None => current \in Runnable))'
    <2>1. CASE UNCHANGED <<ran, current>>
        BY <1>0, <2>1
    <2>2. ASSUME NEW n \in Nodes, StartNode(n)
          PROVE  (ran \subseteq Runnable /\ (current # None => current \in Runnable))'
        <3>1. Fed(n, ran) /\ n \in Nodes
            BY <2>2, ReadyIsFed DEF StartNode
        <3>2. n \in Runnable
            BY <3>1, LeastClosed
        <3> QED
            BY <1>0, <2>2, <3>2 DEF StartNode
    <2>3. ASSUME NEW n \in Nodes, FinishNode(n) \/ FailNode(n)
          PROVE  (ran \subseteq Runnable /\ (current # None => current \in Runnable))'
        BY <1>0, <2>3 DEF FinishNode, FailNode, walk
    <2> QED
        BY <2>1, <2>2, <2>3 DEF Next, Step, Done, vars, Reject, Accept, NextPass,
               BeginSettle, Complete, Stall, Respond, ShowDraft, RespondFails, Decline, Caught,
               Over, Skip, Settle, walk, trace
<1> QED
    BY <1>1, <1>2, <1>3, <1>4

\* Nodes that nothing was done to stay as unready, and as untouched.
LEMMA StaysUnready ==
    ASSUME TypeOK, [Next]_vars, UNCHANGED <<ran, dead, got>>, NEW n \in Nodes
    PROVE  /\ Settled(n)' <=> Settled(n)
           /\ fanin'[n] = fanin[n] => /\ IsReady(n)' <=> IsReady(n)
                                      /\ Untouched(n)' <=> Untouched(n)
<1>1. Kind(n)' = Kind(n) /\ Into(n)' = Into(n) /\ Inputs(n)' = Inputs(n)
    BY SameWires DEF Inputs
<1>2. Arrived(n)' = Arrived(n)
    BY <1>1 DEF Arrived, IntoVariadic
<1> QED
    BY <1>1, <1>2 DEF Settled, IsReady, Untouched

LEMMA WaitingStep ==
    ASSUME IInv, [Next]_vars
    PROVE  Waiting'
<1> USE DEF IInv, TypeOK, Bookkeeping, Looping
<1>1. CASE UNCHANGED vars
    <2>1. \A n \in Nodes : (IsReady(n)' <=> IsReady(n)) /\ (Untouched(n)' <=> Untouched(n))
        BY <1>1, StaysUnready DEF vars, walk
    <2> QED
        BY <1>1, <2>1, SameWires DEF vars, walk, trace, Waiting
<1>2. CASE Reject \/ Accept \/ NextPass
    BY <1>2 DEF Reject, Accept, NextPass, BeginPass, Waiting, walk, trace
<1>3. CASE BeginSettle
    <2>1. \A n \in Nodes : (IsReady(n)' <=> IsReady(n)) /\ Kind(n)' = Kind(n)
        BY <1>3, StaysUnready, SameWires DEF BeginSettle
    <2> QED
        BY <1>3, <2>1 DEF BeginSettle, Looped, Waiting, trace
<1>4. CASE Complete \/ Stall \/ Respond \/ ShowDraft \/ RespondFails \/ Decline \/ Caught
    BY <1>4 DEF Complete, Stall, Respond, ShowDraft, RespondFails, Decline, Caught, Over, walk,
        Waiting
<1>5. ASSUME NEW n \in Nodes, Skip(n) \/ StartNode(n) \/ FailNode(n)
      PROVE  Waiting'
    <2>1. \A m \in Nodes : (IsReady(m)' <=> IsReady(m)) /\ Kind(m)' = Kind(m)
        BY <1>5, StaysUnready, SameWires DEF Skip, StartNode, FailNode, walk
    <2>2. Ports(Kind(n)) = {} => IsReady(n)
        <3>1. Kind(n) \in Kinds
            BY Definition DEF Kind
        <3> QED
            BY <3>1, PortsOfKinds DEF IsReady
    <2> QED
        BY <1>5, <2>1, <2>2 DEF Skip, StartNode, FailNode, walk, Waiting
<1>6. ASSUME NEW n \in Nodes, FinishNode(n)
      PROVE  Waiting'
    BY <1>6, SameWires DEF FinishNode, Waiting
<1>7. ASSUME NEW n \in Nodes, Settle(n)
      PROVE  Waiting'
    <2>1. CASE progressed'
        BY <1>7, <2>1, SameWires DEF Settle, Bury, ShrinkFanin, Leave, Waiting, trace
    <2>2. CASE ~progressed'
        <3>1. Leave(n) /\ UNCHANGED <<ran, dead, got, fanin, pending, phase, progressed>>
            BY <1>7, <2>2 DEF Settle, Bury, ShrinkFanin, Leave
        <3>2. \A m \in Nodes : /\ (IsReady(m)' <=> IsReady(m)) /\ (Untouched(m)' <=> Untouched(m))
                               /\ Kind(m)' = Kind(m)
            BY <3>1, StaysUnready, SameWires
        <3>3. Untouched(n)
            BY <3>1 DEF Leave, Untouched
        <3> QED
            BY <1>7, <3>1, <3>2, <3>3 DEF Settle, Waiting
    <2> QED
        BY <1>7, <2>1, <2>2
<1> QED
    BY <1>1, <1>2, <1>3, <1>4, <1>5, <1>6, <1>7 DEF Next, Step, Done

\* Where every node that gets something ran, all that can run has.
LEMMA CompleteRanAll ==
    ASSUME IInv, Complete
    PROVE  ran = Runnable /\ HalfFed = {}
<1> USE DEF IInv, TypeOK, Bookkeeping, Reached
<1>1. Nodes = pending \union dead \union ran /\ \A n \in pending : Ports(Kind(n)) # {}
    BY DEF Complete, Exhausted, Looped, Looping, Waiting
<1>2. \A n \in Nodes \ ran : Inputs(n) = {} /\ Ports(Kind(n)) # {}
    BY <1>1 DEF Complete
<1>3. Closed(ran)
    <2> SUFFICES ASSUME NEW n \in Nodes \ ran, Fed(n, ran) PROVE FALSE
        BY DEF Closed
    <2>1. Kind(n) \in Kinds
        BY Definition DEF Kind
    <2>2. PICK w \in Live : w.to = n /\ w.from \in ran
        BY <1>2, <2>1, PortsOfKinds DEF Fed
    <2>3. w \in Inputs(n)
        BY <2>2 DEF Inputs, Into, Live, Deliveries
    <2> QED
        BY <1>2, <2>3
<1>4. ran = Runnable
    BY <1>3, LeastClosed
<1>5. ASSUME NEW w \in Live, w.from \in ran
      PROVE  w.to \in ran
    <2>1. w \in Inputs(w.to) /\ w.to \in Nodes
        BY <1>5, Definition DEF Inputs, Into, Live, Deliveries, Wire
    <2> QED
        BY <1>2, <2>1
<1> QED
    BY <1>4, <1>5 DEF HalfFed, Fresh

\* Where a node waits in vain, the first such node in the graph gets something
\* and will never get what it requires.
LEMMA StallHasHalfFed ==
    ASSUME IInv, Stall
    PROVE  ran \subseteq Runnable /\ HalfFed # {}
<1> USE DEF IInv, TypeOK, Bookkeeping, Reached
<1>1. /\ pending # {} /\ phase = "settle" /\ ~progressed /\ visit = {}
      /\ Valid /\ Nodes = pending \union dead \union ran
    BY DEF Stall, Exhausted, Looped, Looping, Deliveries
<1>2. PICK k \in pending : \A w \in Into(k) : w.from \notin pending
    BY <1>1, HasSource DEF Valid
<1>3. Settled(k)
    BY <1>1, <1>2, Definition DEF Settled, Into, Wire
<1>4. ~IsReady(k) /\ Untouched(k) /\ Ports(Kind(k)) # {}
    BY <1>1, <1>2 DEF Waiting
<1>5. ~Fed(k, ran)
    BY <1>2, <1>3, <1>4, FedIsReady
<1>6. PICK v \in Inputs(k) : TRUE
    <2>1. Required(Kind(k)) = {"items"}
        BY <1>2, <1>4, PortsOfKinds, Definition DEF Kind
    <2>2. Into(k) # {}
        BY <1>1, <1>2, <2>1 DEF Valid, MissingInput
    <2> QED
        BY <1>3, <1>4, <2>2 DEF Untouched
<1>7. \A n \in dead \union {k} : Settled(n) /\ Ports(Kind(n)) # {} /\ ~Fed(n, ran) /\ n \in Nodes
    <2>1. ASSUME NEW n \in dead, Fed(n, ran) PROVE FALSE
        <3>1. Kind(n) \in Kinds
            BY Definition DEF Kind
        <3>2. PICK w \in Live : w.to = n /\ w.from \in ran
            BY <2>1, <3>1, PortsOfKinds DEF Fed
        <3> QED
            BY <3>2 DEF Inputs, Into, Live, Deliveries
    <2> QED
        BY <1>2, <1>3, <1>4, <1>5, <2>1
<1>8. Closed(Nodes \ (dead \union {k}))
    <2> SUFFICES ASSUME NEW n \in dead \union {k}, Fed(n, Nodes \ (dead \union {k})) PROVE FALSE
        BY DEF Closed
    <2>1. ASSUME NEW w \in Live, w.to = n, w.from \notin dead
          PROVE  w.from \in ran
        BY <1>7, <2>1 DEF Settled, Into, Live
    <2>2. Fed(n, ran)
        BY <2>1 DEF Fed
    <2> QED
        BY <1>7, <2>2
<1>9. k \notin Runnable
    BY <1>8, LeastClosed
<1>10. v \in Fresh(Runnable) /\ v.to = k
    BY <1>6 DEF Fresh, Inputs, Into
<1> QED
    BY <1>9, <1>10 DEF HalfFed

LEMMA OutcomeStep ==
    ASSUME IInv, [Next]_vars
    PROVE  SameOutcome'
<1> USE DEF IInv
<1>1. Runnable' = Runnable /\ HalfFed' = HalfFed
    <2>1. Live' = Live /\ \A n \in Nodes : Kind(n)' = Kind(n)
        BY SameWires
    <2>2. \A S : \A n \in Nodes : Fed(n, S)' = Fed(n, S)
        BY <2>1 DEF Fed
    <2>3. Runnable' = Runnable
        BY <2>2 DEF Runnable, Closed
    <2> QED
        BY <2>1, <2>3 DEF HalfFed, Fresh
<1>2. CASE Complete
    BY <1>1, <1>2, CompleteRanAll DEF Complete, SameOutcome
<1>3. CASE Stall
    BY <1>1, <1>3, StallHasHalfFed DEF Stall, SameOutcome, walk
<1>4. CASE phase' \in {"executed", "stalled"} => UNCHANGED <<phase, ran>>
    BY <1>1, <1>4 DEF SameOutcome
<1>5. \A n \in Nodes : FinishNode(n) => phase = "pass" /\ phase' = phase
    BY DEF FinishNode, IInv, Bookkeeping, TypeOK
<1> QED
    BY <1>2, <1>3, <1>4, <1>5 DEF Next, Step, Done, vars, Reject, Accept, NextPass, BeginSettle,
       BeginPass, Respond, ShowDraft, RespondFails, Decline, Caught, Over, Skip, StartNode,
       FinishNode, FailNode, Settle, walk, trace

(***************************************************************************)
(* The theorems.                                                           *)
(***************************************************************************)

LEMMA IInvInit == Init => IInv
<1> SUFFICES ASSUME Init PROVE IInv
    OBVIOUS
<1>1. TypeOK
    BY TypeInit
<1>2. Bookkeeping /\ Recorded
    BY DEF Init, Bookkeeping, Recorded, Looping
<1>3. Deliveries
    BY DEF Init, Deliveries, Expected, Looping
<1>4. WaitsForAll
    BY DEF Init, WaitsForAll
<1>5. TraceTellsTheOutcome
    BY DEF Init, TraceTellsTheOutcome, None
<1>6. Reached
    BY DEF Init, Reached, Looping
<1>7. Waiting /\ SameOutcome
    BY DEF Init, Waiting, SameOutcome
<1> QED
    BY <1>1, <1>2, <1>3, <1>4, <1>5, <1>6, <1>7 DEF IInv

LEMMA IInvStep == IInv /\ [Next]_vars => IInv'
BY TypeStep, BookkeepingStep, DeliveriesStep, WaitsStep, TraceStep, ReachedStep, WaitingStep,
   OutcomeStep DEF IInv, Deliveries

LEMMA IInvHolds == Spec => []IInv
BY IInvInit, IInvStep, PTL DEF Spec

\* Every variable keeps its type.
THEOREM TypeCorrect == Spec => []TypeOK
<1>1. IInv => TypeOK
    BY DEF IInv
<1> QED
    BY <1>1, IInvHolds, PTL

\* In every graph and every order of visits a node starts with everything its
\* required ports will ever get (`_is_ready`, `_settle_undeliverable`).
THEOREM NothingIsMissed == Spec => []WaitsForAll
<1>1. IInv => WaitsForAll
    BY DEF IInv
<1> QED
    BY <1>1, IInvHolds, PTL

\* The rows the recorder leaves agree with one another and with the outcome.
THEOREM TraceIsTrue == Spec => []TraceTellsTheOutcome
<1>1. IInv => TraceTellsTheOutcome
    BY DEF IInv
<1> QED
    BY <1>1, IInvHolds, PTL

\* Whatever the order in which the executor visits the nodes and settles the
\* branches, what runs is what the definition's wires can feed, and a run that
\* stalls does so for a node that gets only some of its inputs
\* (`_execute_nodes`, `_settle_undeliverable`, `_resolve_stalled`).
THEOREM OrderDecidesNothing == Spec => []SameOutcome
<1>1. IInv => SameOutcome
    BY DEF IInv
<1> QED
    BY <1>1, IInvHolds, PTL
=============================================================================
