--------------------------- MODULE EvalRun_proofs ---------------------------
(* Theorems about EvalRun, for every value of its constants: whatever number *)
(* of runs share collections, are cancelled, deleted, fail or are cut off by *)
(* a restart, a run that says completed has an item for each of its queries. *)
EXTENDS EvalRun, FiniteSetTheorems, TLAPS

USE EvalAssumption, NoneAssumption

(***************************************************************************)
(* The inductive invariant: what the runs' rows and tasks agree on.        *)
(***************************************************************************)

Before == {"none", "scheduled", "planning", "provisioning", "finding", "creating",
           "registering", "ingesting", "provisioned", "starting"}
Asking == {"querying", "recording", "asked", "finalizing"}

Queries(S) == {i.query : i \in S}

\* A document's row is where the task put it: in the collection it chose.
CollOf == \A r \in Runs : pc[r] \in {"registering", "ingesting", "provisioned", "starting",
                                     "querying", "recording"} => coll[r] \in Collections

\* Only a task that ended has an outcome, and only a run that exists a task;
\* a request to cancel has read a status.
Outcome(r) ==
    /\ status[r] \in {"completed", "failed"} => pc[r] = "done"
    /\ status[r] = "absent" => pc[r] = "none" /\ r \notin cancelling

\* Answers on their way and items recorded are of different sampled queries.
OnePerQuery(r) ==
    /\ pc[r] \in Before => items[r] = {} /\ answers[r] = {}
    /\ answers[r] \intersect items[r] = {}
    /\ \A a, b \in answers[r] \union items[r] : a.query = b.query => a = b
    /\ \A a \in answers[r] \union items[r] : a.query \in sample[r]

\* Progress counts the items, and these the queries they are for.
Counted(r) ==
    /\ IsFiniteSet(items[r]) /\ IsFiniteSet(Queries(items[r]))
    /\ Cardinality(items[r]) = Cardinality(Queries(items[r]))
    /\ pc[r] \in Asking /\ status[r] # "deleted" =>
            done[r] = Cardinality(items[r]) /\ total[r] = Cardinality(sample[r])

\* The queries ended because all are answered, or because of a cancel.
AllAsked(r) ==
    /\ pc[r] = "asked" /\ status[r] \notin {"cancelled", "deleted"} => Queries(items[r]) = sample[r]
    /\ pc[r] = "finalizing" /\ status[r] # "deleted" => Queries(items[r]) = sample[r]

Complete(r) ==
    status[r] = "completed" => /\ Queries(items[r]) = sample[r]
                               /\ done[r] = Cardinality(sample[r])
                               /\ total[r] = Cardinality(sample[r])

RunOK(r) == Outcome(r) /\ OnePerQuery(r) /\ Counted(r) /\ AllAsked(r) /\ Complete(r)

IInv == TypeOK /\ CollOf /\ \A r \in Runs : RunOK(r)

(***************************************************************************)
(* Types.                                                                  *)
(***************************************************************************)

LEMMA SizesAreNat ==
    ASSUME NEW S \in SUBSET Docs
    PROVE  IsFiniteSet(S) /\ Cardinality(S) \in Nat
<1>1. IsFiniteSet(S)
    BY FS_Subset
<1> QED
    BY <1>1, FS_CardinalityType

LEMMA TypeInit == Init => TypeOK
BY DEF Init, TypeOK, Statuses, Active, Labels, Collections, Rows

LEMMA RequestTypes ==
    ASSUME TypeOK, NEW r \in Runs,
           CreateRun(r) \/ CancelRead(r) \/ CancelWrite(r) \/ DeleteRun(r)
    PROVE  TypeOK'
<1>1. CASE CreateRun(r)
    BY <1>1 DEF CreateRun, TypeOK, Statuses, Active, Labels, SetStatus, Goto,
                colls, plan, ingest, env
<1>2. CASE CancelRead(r)
    BY <1>2 DEF CancelRead, TypeOK, runRows, colls, plan, ingest
<1>3. CASE CancelWrite(r)
    BY <1>3 DEF CancelWrite, TypeOK, Statuses, Active, SetStatus, colls, plan, ingest
<1>4. CASE DeleteRun(r)
    BY <1>4 DEF DeleteRun, TypeOK, Statuses, Active, SetStatus, colls, plan, ingest
<1> QED
    BY <1>1, <1>2, <1>3, <1>4

LEMMA DeletionTypes ==
    ASSUME TypeOK, NEW c \in Collections, DeleteCollection(c)
    PROVE  TypeOK'
<1> DEFINE States == {"none", "pending", "processing", "ready", "failed"}
<1>1. exists' \in [Collections -> BOOLEAN] /\ tool' \in [Collections -> Runs \union {None}]
    BY DEF DeleteCollection, TypeOK
<1>2. bytes' \in [Collections -> BOOLEAN] /\ deletions' \in Nat
    BY DEF DeleteCollection, TypeOK
<1>3. stored' = [stored EXCEPT ![c] = {}] \/ stored' = stored
    BY DEF DeleteCollection
<1>4. stored' \in [Collections -> SUBSET Rows]
    BY <1>3 DEF TypeOK
<1>5. doc' = [doc EXCEPT ![c] = [x \in Rows |-> "none"]] \/ doc' = doc
    BY DEF DeleteCollection
<1>6. doc' \in [Collections -> [Rows -> States]]
    <2>1. [x \in Rows |-> "none"] \in [Rows -> States]
        OBVIOUS
    <2>2. doc \in [Collections -> [Rows -> States]]
        BY DEF TypeOK
    <2> QED
        BY <1>5, <2>1, <2>2
<1>7. named' = [named EXCEPT ![c] = [d \in Docs |-> None]] \/ named' = named
    BY DEF DeleteCollection
<1>8. named' \in [Collections -> [Docs -> Runs \union {None}]]
    <2>1. [d \in Docs |-> None] \in [Docs -> Runs \union {None}]
        OBVIOUS
    <2>2. named \in [Collections -> [Docs -> Runs \union {None}]]
        BY DEF TypeOK
    <2> QED
        BY <1>7, <2>1, <2>2
<1> QED
    BY <1>1, <1>2, <1>4, <1>6, <1>8 DEF DeleteCollection, TypeOK, runRows, plan, ingest

LEMMA PlanningTypes ==
    ASSUME TypeOK, NEW r \in Runs,
           Start(r) \/ Plan(r) \/ Announce(r) \/ FindNothing(r) \/ CreateCollection(r)
           \/ (\E c \in Collections : Reuse(r, c)) \/ Registered(r)
    PROVE  TypeOK'
<1>1. CASE Start(r)
    BY <1>1 DEF Start, TypeOK, Labels, Goto, runRows, colls, plan, ingest, env
<1>2. CASE Plan(r)
    <2>1. PICK p \in Plans : sample' = [sample EXCEPT ![r] = p.queries]
                             /\ corpus' = [corpus EXCEPT ![r] = p.corpus]
        BY <1>2 DEF Plan
    <2>2. p.queries \in SUBSET Docs /\ p.corpus \in SUBSET Docs /\ p.queries \subseteq p.corpus
        OBVIOUS
    <2>3. /\ sample' \in [Runs -> SUBSET Docs] /\ corpus' \in [Runs -> SUBSET Docs]
          /\ \A s \in Runs : sample'[s] \subseteq corpus'[s]
        BY <2>1, <2>2 DEF TypeOK
    <2> QED
        BY <1>2, <2>3 DEF Plan, TypeOK, Statuses, Active, Labels, SetStatus, Goto, Here,
                          colls, ingest, env
<1>3. CASE Announce(r)
    <2>1. Cardinality(corpus[r]) \in Nat
        BY SizesAreNat DEF TypeOK
    <2> QED
        BY <1>3, <2>1 DEF Announce, TypeOK, Statuses, Active, Labels, SetStatus, Goto, Here,
                          colls, plan, ingest, env
<1>4. CASE FindNothing(r)
    BY <1>4 DEF FindNothing, TypeOK, Labels, Goto, runRows, colls, plan, ingest, env
<1>5. CASE CreateCollection(r)
    BY <1>5 DEF CreateCollection, TypeOK, Labels, Goto, runRows, plan, env, Collections
<1>6. ASSUME NEW c \in Collections, Reuse(r, c)
      PROVE  TypeOK'
    <2>1. {d \in corpus[r] : named[c][d] = None} \in SUBSET Docs
        BY DEF TypeOK
    <2> QED
        BY <1>6, <2>1 DEF Reuse, TypeOK, Labels, Goto, runRows, plan, env
<1>7. CASE Registered(r)
    BY <1>7 DEF Registered, TypeOK, Labels, Goto, runRows, colls, plan, ingest, env
<1> QED
    BY <1>1, <1>2, <1>3, <1>4, <1>5, <1>6, <1>7

LEMMA DocWrite ==
    ASSUME TypeOK, NEW c \in Collections, NEW x \in Rows,
           NEW s \in {"none", "pending", "processing", "ready", "failed"}
    PROVE  [doc EXCEPT ![c][x] = s]
              \in [Collections -> [Rows -> {"none", "pending", "processing", "ready", "failed"}]]
BY DEF TypeOK

LEMMA IngestTypes ==
    ASSUME TypeOK, CollOf, NEW r \in Runs,
           \/ \E d \in Docs : Register(r, d)
           \/ Repair(r) \/ Collect(r)
           \/ \E x \in Rows : BeginIngest(r, x) \/ EndIngest(r, x)
    PROVE  TypeOK'
<1>1. ASSUME NEW d \in Docs, Register(r, d)
      PROVE  TypeOK'
    <2>1. coll[r] \in Collections /\ <<d, r>> \in Rows
        BY <1>1 DEF Register, CollOf, Rows
    <2>2. doc' \in [Collections -> [Rows -> {"none", "pending", "processing", "ready", "failed"}]]
        BY <1>1, <2>1, DocWrite DEF Register
    <2>3. named' \in [Collections -> [Docs -> Runs \union {None}]]
        BY <1>1, <2>1 DEF Register, TypeOK
    <2>4. missing' \in [Runs -> SUBSET Docs] /\ todo' \in [Runs -> SUBSET Rows]
        BY <1>1, <2>1 DEF Register, TypeOK
    <2> QED
        BY <1>1, <2>2, <2>3, <2>4 DEF Register, TypeOK, runRows, plan, env
<1>2. CASE Repair(r)
    <2>1. todo' \in [Runs -> SUBSET Rows]
        <3>1. coll[r] \in Collections
            BY <1>2 DEF Repair, Drained, CollOf
        <3>2. \A e \in corpus[r] : named[coll[r]][e] # None => <<e, named[coll[r]][e]>> \in Rows
            BY <3>1 DEF TypeOK, Rows
        <3>3. \E T \in SUBSET Rows : todo' = [todo EXCEPT ![r] = T]
            BY <1>2, <3>2 DEF Repair
        <3> QED
            BY <3>3 DEF TypeOK
    <2> QED
        BY <1>2, <2>1 DEF Repair, TypeOK, runRows, colls, plan, env
<1>3. CASE Collect(r)
    <2>1. coll[r] \in Collections
        BY <1>3 DEF Collect, Drained, CollOf
    <2>2. Cardinality(corpus[r]) \in Nat
        BY SizesAreNat DEF TypeOK
    <2>3. indexed' \in [Runs -> SUBSET Docs]
        BY <1>3 DEF Collect, TypeOK
    <2> QED
        BY <1>3, <2>1, <2>2, <2>3 DEF Collect, TypeOK, Labels, Goto, colls, plan, ingest, env
<1>4. ASSUME NEW x \in Rows, BeginIngest(r, x)
      PROVE  TypeOK'
    <2>1. coll[r] \in Collections
        BY <1>4 DEF BeginIngest, CollOf
    <2>2. doc' \in [Collections -> [Rows -> {"none", "pending", "processing", "ready", "failed"}]]
        <3>1. doc' = doc \/ doc' = [doc EXCEPT ![coll[r]][x] = "processing"]
            BY <1>4 DEF BeginIngest
        <3>2. doc \in [Collections -> [Rows -> {"none", "pending", "processing", "ready", "failed"}]]
            BY DEF TypeOK
        <3> QED
            BY <2>1, <3>1, <3>2, DocWrite, SMTT(30)
    <2>3. stored' \in [Collections -> SUBSET Rows]
        <3>1. stored' = stored \/ stored' = [stored EXCEPT ![coll[r]] = @ \ {x}]
            BY <1>4 DEF BeginIngest
        <3>2. stored \in [Collections -> SUBSET Rows]
            BY DEF TypeOK
        <3> QED
            BY <2>1, <3>1, <3>2
    <2>4. todo' \in [Runs -> SUBSET Rows] /\ busy' \in [Runs -> SUBSET Rows]
        BY <1>4 DEF BeginIngest, TypeOK
    <2> QED
        BY <1>4, <2>2, <2>3, <2>4 DEF BeginIngest, TypeOK, runRows, plan, env
<1>5. ASSUME NEW x \in Rows, EndIngest(r, x)
      PROVE  TypeOK'
    <2>1. coll[r] \in Collections
        BY <1>5 DEF EndIngest, CollOf
    <2>2. doc' \in [Collections -> [Rows -> {"none", "pending", "processing", "ready", "failed"}]]
        <3>1. \/ doc' = doc
              \/ doc' = [doc EXCEPT ![coll[r]][x] = "ready"]
              \/ doc' = [doc EXCEPT ![coll[r]][x] = "failed"]
            BY <1>5 DEF EndIngest
        <3>2. doc \in [Collections -> [Rows -> {"none", "pending", "processing", "ready", "failed"}]]
            BY DEF TypeOK
        <3>3. [doc EXCEPT ![coll[r]][x] = "ready"] \in [Collections -> [Rows -> {"none", "pending", "processing", "ready", "failed"}]]
            BY <2>1, DocWrite
        <3>4. [doc EXCEPT ![coll[r]][x] = "failed"] \in [Collections -> [Rows -> {"none", "pending", "processing", "ready", "failed"}]]
            BY <2>1, DocWrite
        <3> QED
            BY <3>1, <3>2, <3>3, <3>4
    <2>3. stored' \in [Collections -> SUBSET Rows]
        BY <1>5, <2>1 DEF EndIngest, TypeOK
    <2>4. /\ todo' \in [Runs -> SUBSET Rows] /\ busy' \in [Runs -> SUBSET Rows]
          /\ pooled' \in [Runs -> BOOLEAN]
        BY <1>5 DEF EndIngest, TypeOK
    <2>5. done' \in [Runs -> Nat]
        BY <1>5 DEF EndIngest, TypeOK
    <2> QED
        BY <1>5, <2>2, <2>3, <2>4, <2>5 DEF EndIngest, TypeOK, plan, env
<1> QED
    BY <1>1, <1>2, <1>3, <1>4, <1>5

LEMMA QueryTypes ==
    ASSUME TypeOK, CollOf, NEW r \in Runs,
           \/ CheckProvisioned(r) \/ StartQueries(r) \/ NextAnswer(r) \/ CheckAsked(r)
           \/ \E d \in Docs : Ask(r, d)
           \/ \E a \in answers[r] : Record(r, a)
           \/ Finalize(r) \/ Raises(r) \/ Dies(r)
    PROVE  TypeOK'
<1>1. CASE CheckProvisioned(r)
    BY <1>1 DEF CheckProvisioned, TypeOK, Labels, Goto, runRows, colls, plan, ingest, env
<1>2. CASE StartQueries(r)
    <2>1. Cardinality(sample[r]) \in Nat
        BY SizesAreNat DEF TypeOK
    <2> QED
        BY <1>2, <2>1 DEF StartQueries, TypeOK, Statuses, Active, Labels, SetStatus, Goto,
                          colls, plan, ingest, env
<1>3. CASE NextAnswer(r)
    BY <1>3 DEF NextAnswer, TypeOK, Labels, Goto, runRows, colls, plan, ingest, env
<1>4. CASE CheckAsked(r)
    BY <1>4 DEF CheckAsked, TypeOK, Labels, Goto, runRows, colls, plan, ingest, env
<1>5. ASSUME NEW d \in Docs, Ask(r, d)
      PROVE  TypeOK'
    <2>1. coll[r] \in Collections
        BY <1>5 DEF Ask, CollOf
    <2>2. PICK outcome \in {"scored", "unscored", "failed"} :
              answers' = [answers EXCEPT ![r] =
                  @ \union {[query |-> d, tool |-> tool[coll[r]], outcome |-> outcome]}]
        BY <1>5 DEF Ask
    <2>3. [query |-> d, tool |-> tool[coll[r]], outcome |-> outcome] \in Answers
        BY <2>1, <2>2 DEF Answers, TypeOK
    <2>4. answers' \in [Runs -> SUBSET Answers]
        BY <2>2, <2>3 DEF TypeOK
    <2> QED
        BY <1>5, <2>4 DEF Ask, TypeOK, runRows, colls, plan, ingest, env
<1>6. ASSUME NEW a \in answers[r], Record(r, a)
      PROVE  TypeOK'
    <2>1. a \in Answers
        BY DEF TypeOK
    <2>2. answers' \in [Runs -> SUBSET Answers] /\ items' \in [Runs -> SUBSET Answers]
        BY <1>6, <2>1 DEF Record, TypeOK
    <2>3. done' \in [Runs -> Nat] /\ late' \in [Runs -> Nat]
        BY <1>6 DEF Record, TypeOK
    <2>4. pc' \in [Runs -> Labels]
        BY <1>6 DEF Record, TypeOK, Labels, Goto
    <2> QED
        BY <1>6, <2>2, <2>3, <2>4 DEF Record, TypeOK, colls, plan, ingest
<1>7. CASE Finalize(r)
    BY <1>7 DEF Finalize, TypeOK, Statuses, Labels, SetStatus, Goto, colls, plan, ingest, env
<1>8. CASE Raises(r)
    BY <1>8 DEF Raises, TypeOK, Statuses, Labels, SetStatus, Goto, colls, plan, ingest, env
<1>9. CASE Dies(r)
    BY <1>9 DEF Dies, TypeOK, Labels, Goto, runRows, colls, plan, ingest, env
<1> QED
    BY <1>1, <1>2, <1>3, <1>4, <1>5, <1>6, <1>7, <1>8, <1>9

LEMMA RestartTypes ==
    ASSUME TypeOK, Queue \/ Crash
    PROVE  TypeOK'
<1> DEFINE States == {"none", "pending", "processing", "ready", "failed"}
<1>1. doc \in [Collections -> [Rows -> States]] /\ stored \in [Collections -> SUBSET Rows]
    BY DEF TypeOK
<1>2. CASE Crash
    <2>1. doc' = [c \in Collections |-> [x \in Rows |->
                     IF doc[c][x] = "processing" THEN "pending" ELSE doc[c][x]]]
        BY <1>2 DEF Crash
    <2>2. \A c \in Collections, x \in Rows :
             (IF doc[c][x] = "processing" THEN "pending" ELSE doc[c][x]) \in States
        BY <1>1
    <2>3. doc' \in [Collections -> [Rows -> States]]
        BY <2>1, <2>2
    <2>4. pc' \in [Runs -> Labels]
        BY <1>2 DEF Crash, Labels
    <2> QED
        BY <1>2, <2>3, <2>4 DEF Crash, TypeOK, runRows, plan
<1>3. ASSUME NEW c \in Collections, NEW x \in Rows, QueueClaims(c, x)
      PROVE  TypeOK'
    <2>1. doc' \in [Collections -> [Rows -> States]]
        BY <1>3, <1>1, DocWrite DEF QueueClaims
    <2> QED
        BY <1>3, <2>1 DEF QueueClaims, TypeOK, runRows, plan, ingest, env
<1>4. ASSUME NEW c \in Collections, NEW x \in Rows, QueueEnds(c, x)
      PROVE  TypeOK'
    <2>1. \/ doc' = doc
          \/ doc' = [doc EXCEPT ![c][x] = "ready"]
          \/ doc' = [doc EXCEPT ![c][x] = "failed"]
        BY <1>4 DEF QueueEnds
    <2>2. doc' \in [Collections -> [Rows -> States]]
        BY <2>1, <1>1, DocWrite
    <2>3. stored' = stored \/ stored' = [stored EXCEPT ![c] = @ \union {x}]
        BY <1>4 DEF QueueEnds
    <2>4. stored' \in [Collections -> SUBSET Rows]
        BY <2>3, <1>1
    <2> QED
        BY <1>4, <2>2, <2>4 DEF QueueEnds, TypeOK, runRows, plan, ingest
<1> QED
    BY <1>2, <1>3, <1>4 DEF Queue

LEMMA TypeStep ==
    ASSUME TypeOK, CollOf, [Next]_vars
    PROVE  TypeOK'
<1>1. CASE UNCHANGED vars
    BY <1>1 DEF TypeOK, vars, runRows, colls, plan, ingest, env
<1>2. CASE Queue \/ Crash
    BY <1>2, RestartTypes
<1>3. CASE \E c \in Collections : DeleteCollection(c)
    BY <1>3, DeletionTypes
<1>4. ASSUME NEW r \in Runs, CreateRun(r) \/ CancelRead(r) \/ CancelWrite(r) \/ DeleteRun(r)
      PROVE  TypeOK'
    BY <1>4, RequestTypes
<1>5. ASSUME NEW r \in Runs, Task(r)
      PROVE  TypeOK'
    BY <1>5, PlanningTypes, IngestTypes, QueryTypes DEF Task
<1> QED
    BY <1>1, <1>2, <1>3, <1>4, <1>5 DEF Next

(***************************************************************************)
(* Preservation.                                                           *)
(***************************************************************************)

LEMMA CollStep ==
    ASSUME TypeOK, CollOf, [Next]_vars
    PROVE  CollOf'
<1>1. CASE UNCHANGED vars
    BY <1>1 DEF CollOf, vars
<1>2. CASE Queue \/ \E c \in Collections : DeleteCollection(c)
    BY <1>2 DEF CollOf, Queue, QueueClaims, QueueEnds, DeleteCollection
<1>3. CASE Crash
    BY <1>3 DEF CollOf, Crash
<1>4. ASSUME NEW r \in Runs, CreateRun(r) \/ CancelRead(r) \/ CancelWrite(r) \/ DeleteRun(r)
      PROVE  CollOf'
    BY <1>4 DEF CollOf, CreateRun, CancelRead, CancelWrite, DeleteRun, Goto, TypeOK
<1>5. ASSUME NEW r \in Runs, Task(r)
      PROVE  CollOf'
    <2>1. CASE \/ Start(r) \/ Plan(r) \/ Announce(r) \/ FindNothing(r) \/ Registered(r)
               \/ Repair(r) \/ Collect(r)
        BY <2>1 DEF CollOf, TypeOK, Goto, Start, Plan, Announce, FindNothing, Registered,
                    Repair, Collect, Drained
    <2>6. CASE \/ \E d \in Docs : Register(r, d)
               \/ \E x \in Rows : BeginIngest(r, x) \/ EndIngest(r, x)
        BY <2>6 DEF CollOf, Register, BeginIngest, EndIngest
    <2>2. CASE CreateCollection(r)
        BY <2>2 DEF CollOf, TypeOK, Goto, CreateCollection, Collections
    <2>3. CASE \E c \in Collections : Reuse(r, c)
        BY <2>3 DEF CollOf, TypeOK, Goto, Reuse
    <2>4. CASE \/ CheckProvisioned(r) \/ StartQueries(r) \/ NextAnswer(r)
               \/ (\E d \in Docs : Ask(r, d)) \/ (\E a \in answers[r] : Record(r, a))
        BY <2>4 DEF CollOf, TypeOK, Goto, CheckProvisioned, StartQueries, NextAnswer, Ask,
                    Record, Here
    <2>5. CASE CheckAsked(r) \/ Finalize(r) \/ Raises(r) \/ Dies(r)
        BY <2>5 DEF CollOf, TypeOK, Goto, CheckAsked, Finalize, Raises, Dies
    <2> QED
        BY <1>5, <2>1, <2>2, <2>3, <2>4, <2>5, <2>6 DEF Task
<1> QED
    BY <1>1, <1>2, <1>3, <1>4, <1>5 DEF Next

\* What a step leaves of a run alone keeps its part of the invariant.
SameRun(r) ==
    /\ status'[r] = status[r] /\ pc'[r] = pc[r] /\ items'[r] = items[r]
    /\ answers'[r] = answers[r] /\ sample'[r] = sample[r]
    /\ done'[r] = done[r] /\ total'[r] = total[r]
    /\ r \in cancelling' => r \in cancelling

LEMMA SameRunOK ==
    ASSUME NEW r \in Runs, RunOK(r), SameRun(r)
    PROVE  RunOK(r)'
BY DEF RunOK, SameRun, Outcome, OnePerQuery, Counted, AllAsked, Complete

LEMMA OthersUntouched ==
    ASSUME TypeOK, NEW r \in Runs, NEW s \in Runs, s # r,
           Task(r) \/ CreateRun(r) \/ CancelRead(r) \/ CancelWrite(r) \/ DeleteRun(r)
    PROVE  SameRun(s)
<1>1. CASE CreateRun(r) \/ CancelRead(r) \/ CancelWrite(r) \/ DeleteRun(r)
    BY <1>1 DEF CreateRun, CancelRead, CancelWrite, DeleteRun, SameRun, TypeOK, SetStatus,
                Goto, runRows, plan, env
<1>2. CASE \/ Start(r) \/ Plan(r) \/ Announce(r) \/ FindNothing(r) \/ CreateCollection(r)
           \/ (\E c \in Collections : Reuse(r, c)) \/ Registered(r)
    BY <1>2 DEF Start, Plan, Announce, FindNothing, CreateCollection, Reuse, Registered,
                SameRun, TypeOK, SetStatus, Goto, runRows, plan, env
<1>3. CASE Repair(r) \/ \E d \in Docs : Register(r, d)
    BY <1>3 DEF Repair, Register, SameRun, runRows, plan, env
<1>6. CASE Collect(r)
    <2>1. done' = done \/ \E n \in Nat : done' = [done EXCEPT ![r] = n]
        <3>1. Cardinality(corpus[r]) \in Nat
            BY SizesAreNat DEF TypeOK
        <3> QED
            BY <1>6, <3>1 DEF Collect
    <2>2. done'[s] = done[s]
        BY <2>1 DEF TypeOK
    <2> QED
        BY <1>6, <2>2 DEF Collect, SameRun, TypeOK, Goto, plan, env
<1>5. ASSUME NEW x \in Rows, BeginIngest(r, x) \/ EndIngest(r, x)
      PROVE  SameRun(s)
    <2>1. CASE BeginIngest(r, x)
        BY <2>1 DEF BeginIngest, SameRun, runRows, plan, env
    <2>2. CASE EndIngest(r, x)
        <3>1. done' = done \/ done' = [done EXCEPT ![r] = @ + 1]
            BY <2>2 DEF EndIngest
        <3>2. done'[s] = done[s]
            BY <3>1 DEF TypeOK
        <3> QED
            BY <2>2, <3>2 DEF EndIngest, SameRun, plan, env
    <2> QED
        BY <1>5, <2>1, <2>2
<1>4. CASE \/ CheckProvisioned(r) \/ StartQueries(r) \/ NextAnswer(r) \/ CheckAsked(r)
           \/ (\E d \in Docs : Ask(r, d)) \/ (\E a \in answers[r] : Record(r, a))
           \/ Finalize(r) \/ Raises(r) \/ Dies(r)
    BY <1>4 DEF CheckProvisioned, StartQueries, NextAnswer, CheckAsked, Ask, Record, Finalize,
                Raises, Dies, SameRun, TypeOK, SetStatus, Goto, runRows, plan, env
<1> QED
    BY <1>1, <1>2, <1>3, <1>4, <1>5, <1>6 DEF Task

LEMMA RequestOK ==
    ASSUME IInv, NEW r \in Runs,
           CreateRun(r) \/ CancelRead(r) \/ CancelWrite(r) \/ DeleteRun(r)
    PROVE  RunOK(r)'
<1> USE DEF IInv, RunOK
<1>1. CASE CreateRun(r)
    BY <1>1 DEF CreateRun, TypeOK, SetStatus, Goto, plan, env, Before, Asking,
                Outcome, OnePerQuery, Counted, AllAsked, Complete
<1>2. CASE CancelRead(r)
    BY <1>2 DEF CancelRead, TypeOK, runRows, plan, Active,
                Outcome, OnePerQuery, Counted, AllAsked, Complete
<1>3. CASE CancelWrite(r)
    BY <1>3 DEF CancelWrite, TypeOK, SetStatus, plan, Asking,
                Outcome, OnePerQuery, Counted, AllAsked, Complete
<1>4. CASE DeleteRun(r)
    <2>1. items'[r] = {} /\ status'[r] = "deleted" /\ pc'[r] = pc[r]
        BY <1>4 DEF DeleteRun, TypeOK, SetStatus
    <2>2. Queries(items[r])' = {}
        BY <2>1 DEF Queries
    <2>3. Counted(r)'
        BY <2>1, <2>2, FS_EmptySet DEF Counted
    <2> QED
        BY <1>4, <2>1, <2>3 DEF DeleteRun, plan, Outcome, OnePerQuery, AllAsked, Complete, Before
<1> QED
    BY <1>1, <1>2, <1>3, <1>4

LEMMA ProvisionOK ==
    ASSUME IInv, NEW r \in Runs,
           \/ Start(r) \/ Plan(r) \/ Announce(r) \/ FindNothing(r) \/ CreateCollection(r)
           \/ (\E c \in Collections : Reuse(r, c)) \/ Registered(r) \/ Repair(r) \/ Collect(r)
           \/ \E d \in Docs : Register(r, d)
           \/ \E x \in Rows : BeginIngest(r, x) \/ EndIngest(r, x)
           \/ CheckProvisioned(r)
    PROVE  RunOK(r)'
<1>1. /\ pc[r] \in Before /\ pc[r] # "none" /\ pc'[r] \in Before \union {"done"}
      /\ pc'[r] # "none" /\ items'[r] = items[r] /\ answers'[r] = answers[r]
      /\ status'[r] \in {status[r], "provisioning", "ingesting"}
      /\ cancelling' = cancelling
    <2>1. CASE \/ Start(r) \/ Plan(r) \/ Announce(r) \/ FindNothing(r) \/ CreateCollection(r)
               \/ (\E c \in Collections : Reuse(r, c)) \/ Registered(r) \/ CheckProvisioned(r)
        BY <2>1 DEF IInv, TypeOK, Start, Plan, Announce, FindNothing, CreateCollection, Reuse,
                    Registered, CheckProvisioned, Here, Goto, SetStatus, Before, runRows, env
    <2>2. CASE Repair(r) \/ \E d \in Docs : Register(r, d)
        BY <2>2 DEF Repair, Register, Drained, Before, runRows, env
    <2>4. CASE Collect(r)
        BY <2>4 DEF IInv, TypeOK, Collect, Drained, Goto, Before, env
    <2>3. CASE \E x \in Rows : BeginIngest(r, x) \/ EndIngest(r, x)
        BY <2>3 DEF IInv, TypeOK, BeginIngest, EndIngest, Before, runRows, env
    <2> QED
        BY <2>1, <2>2, <2>3, <2>4
<1>2. status[r] \notin {"completed", "failed", "absent"}
    BY <1>1 DEF IInv, RunOK, Outcome, Before
<1>3. items[r] = {} /\ answers[r] = {}
    BY <1>1 DEF IInv, RunOK, OnePerQuery
<1>4. Outcome(r)' /\ OnePerQuery(r)' /\ AllAsked(r)' /\ Complete(r)'
    BY <1>1, <1>2, <1>3 DEF Outcome, OnePerQuery, AllAsked, Complete, Before
<1>5. Counted(r)'
    BY <1>1 DEF IInv, RunOK, Counted, Before, Asking
<1> QED
    BY <1>4, <1>5 DEF RunOK

LEMMA AskOK ==
    ASSUME IInv, NEW r \in Runs, NEW d \in Docs, Ask(r, d)
    PROVE  RunOK(r)'
<1>1. PICK a : a.query = d /\ answers'[r] = answers[r] \union {a}
    <2>1. PICK outcome \in {"scored", "unscored", "failed"} :
              answers' = [answers EXCEPT ![r] =
                  @ \union {[query |-> d, tool |-> tool[coll[r]], outcome |-> outcome]}]
        BY DEF Ask
    <2>2. answers'[r] = answers[r] \union {[query |-> d, tool |-> tool[coll[r]], outcome |-> outcome]}
        <3>1. r \in DOMAIN answers
            BY DEF IInv, TypeOK
        <3> QED
            BY <2>1, <3>1
    <2>3. PICK a : a = [query |-> d, tool |-> tool[coll[r]], outcome |-> outcome]
        OBVIOUS
    <2>4. a.query = d
        BY <2>3
    <2> QED
        BY <2>2, <2>3, <2>4
<1>2. d \in sample[r] /\ \A b \in answers[r] \union items[r] : b.query # d
    BY DEF Ask, Answered
<1>3. /\ pc'[r] = pc[r] /\ pc[r] \in {"querying", "recording"} /\ status'[r] = status[r]
      /\ items'[r] = items[r] /\ sample'[r] = sample[r] /\ done'[r] = done[r]
      /\ total'[r] = total[r] /\ cancelling' = cancelling
    BY DEF Ask, runRows, plan, env
<1>4. RunOK(r)
    BY DEF IInv
<1>5. OnePerQuery(r)'
    BY <1>1, <1>2, <1>3, <1>4 DEF RunOK, OnePerQuery, Before
<1> QED
    BY <1>3, <1>4, <1>5 DEF RunOK, Outcome, Counted, AllAsked, Complete

LEMMA RecordOK ==
    ASSUME IInv, NEW r \in Runs, NEW a \in answers[r], Record(r, a)
    PROVE  RunOK(r)'
<1>1. /\ answers'[r] = answers[r] \ {a} /\ items'[r] = items[r] \union {a}
      /\ done'[r] = done[r] + 1 /\ total'[r] = total[r] /\ sample'[r] = sample[r]
      /\ status'[r] = status[r] /\ status[r] # "deleted" /\ cancelling' = cancelling
      /\ pc[r] = "recording" /\ pc'[r] \in {"asked", "querying"}
      /\ pc'[r] = "asked" => Queries(items'[r]) = sample[r]
    BY DEF IInv, TypeOK, Record, Here, Goto, Queries, plan
<1>2. RunOK(r)
    BY DEF IInv
<1>3. a \notin items[r] /\ a.query \notin Queries(items[r])
    BY <1>2 DEF RunOK, OnePerQuery, Queries
<1>4. Queries(items'[r]) = Queries(items[r]) \union {a.query}
    BY <1>1 DEF Queries
<1>5. /\ IsFiniteSet(items'[r]) /\ Cardinality(items'[r]) = Cardinality(items[r]) + 1
      /\ IsFiniteSet(Queries(items'[r]))
      /\ Cardinality(Queries(items'[r])) = Cardinality(Queries(items[r])) + 1
    <2>1. IsFiniteSet(items[r]) /\ IsFiniteSet(Queries(items[r]))
        BY <1>2 DEF RunOK, Counted
    <2>2. IsFiniteSet(items'[r]) /\ Cardinality(items'[r]) = Cardinality(items[r]) + 1
        <3>1. /\ IsFiniteSet(items[r] \union {a})
              /\ Cardinality(items[r] \union {a}) = Cardinality(items[r]) + 1
            BY <1>3, <2>1, FS_AddElement
        <3> QED
            BY <1>1, <3>1
    <2>3. /\ IsFiniteSet(Queries(items[r]) \union {a.query})
          /\ Cardinality(Queries(items[r]) \union {a.query}) = Cardinality(Queries(items[r])) + 1
        BY <1>3, <2>1, FS_AddElement
    <2> QED
        BY <1>4, <2>2, <2>3
<1>6. Counted(r)'
    <2>1. done[r] = Cardinality(items[r]) /\ total[r] = Cardinality(sample[r])
          /\ Cardinality(items[r]) = Cardinality(Queries(items[r]))
        BY <1>1, <1>2 DEF RunOK, Counted, Asking
    <2> QED
        BY <1>1, <1>5, <2>1 DEF Counted
<1>7. OnePerQuery(r)'
    BY <1>1, <1>2 DEF RunOK, OnePerQuery, Before
<1>8. Outcome(r)' /\ Complete(r)'
    BY <1>1, <1>2 DEF RunOK, Outcome, Complete
<1>9. AllAsked(r)'
    BY <1>1 DEF AllAsked
<1> QED
    BY <1>6, <1>7, <1>8, <1>9 DEF RunOK

LEMMA QueryOK ==
    ASSUME IInv, NEW r \in Runs,
           StartQueries(r) \/ NextAnswer(r) \/ CheckAsked(r) \/ Raises(r) \/ Dies(r)
    PROVE  RunOK(r)'
<1> USE DEF IInv, RunOK
<1>1. CASE StartQueries(r)
    <2>1. /\ pc[r] = "starting" /\ pc'[r] = (IF sample[r] = {} THEN "asked" ELSE "querying")
          /\ status'[r] = "running" /\ done'[r] = 0 /\ total'[r] = Cardinality(sample[r])
          /\ items'[r] = items[r] /\ answers'[r] = answers[r] /\ sample'[r] = sample[r]
          /\ cancelling' = cancelling
        BY <1>1 DEF StartQueries, TypeOK, SetStatus, Goto, Here, plan, env
    <2>2. items[r] = {} /\ answers[r] = {}
        BY <2>1 DEF OnePerQuery, Before
    <2>3. Queries(items[r]) = {} /\ Cardinality(items[r]) = 0
        BY <2>2, FS_EmptySet DEF Queries
    <2>4. status[r] # "absent"
        BY <2>1 DEF Outcome
    <2>5. Counted(r)'
        BY <2>1, <2>2, <2>3 DEF Counted
    <2> QED
        BY <2>1, <2>2, <2>3, <2>4, <2>5 DEF Outcome, OnePerQuery, AllAsked, Complete
<1>2. CASE NextAnswer(r)
    BY <1>2 DEF NextAnswer, TypeOK, Goto, Here, runRows, plan, env, Before, Asking,
                Outcome, OnePerQuery, Counted, AllAsked, Complete
<1>3. CASE CheckAsked(r)
    BY <1>3 DEF CheckAsked, TypeOK, Goto, Here, runRows, plan, env, Before, Asking,
                Outcome, OnePerQuery, Counted, AllAsked, Complete
<1>4. CASE Raises(r)
    BY <1>4 DEF Raises, TypeOK, Goto, SetStatus, Drained, plan, env, Before, Asking,
                Outcome, OnePerQuery, Counted, AllAsked, Complete
<1>5. CASE Dies(r)
    <2>1. pc'[r] = "done" /\ pc[r] # "none" /\ pc[r] # "done"
        BY <1>5 DEF Dies, TypeOK, Goto, Drained
    <2> QED
        BY <1>5, <2>1 DEF Dies, runRows, plan, env, Before, Asking,
                Outcome, OnePerQuery, Counted, AllAsked, Complete
<1> QED
    BY <1>1, <1>2, <1>3, <1>4, <1>5

LEMMA FinalizeOK ==
    ASSUME IInv, NEW r \in Runs, Finalize(r)
    PROVE  RunOK(r)'
<1>1. /\ pc[r] = "finalizing" /\ status[r] # "deleted"
      /\ status'[r] = "completed" /\ pc'[r] = "done"
      /\ items'[r] = items[r] /\ answers'[r] = answers[r] /\ sample'[r] = sample[r]
      /\ done'[r] = done[r] /\ total'[r] = total[r] /\ cancelling' = cancelling
    BY DEF IInv, TypeOK, Finalize, Here, SetStatus, Goto, plan, env
<1>2. RunOK(r)
    BY DEF IInv
<1>3. Queries(items[r]) = sample[r]
    BY <1>1, <1>2 DEF RunOK, AllAsked
<1>4. done[r] = Cardinality(sample[r]) /\ total[r] = Cardinality(sample[r])
    BY <1>1, <1>2, <1>3 DEF RunOK, Counted, Asking
<1> QED
    BY <1>1, <1>2, <1>3, <1>4
       DEF RunOK, Outcome, OnePerQuery, Counted, AllAsked, Complete, Before, Asking

LEMMA RestartOK ==
    ASSUME IInv, NEW r \in Runs, Crash \/ Queue \/ \E c \in Collections : DeleteCollection(c)
    PROVE  RunOK(r)'
<1>1. CASE Crash
    <2>1. /\ pc'[r] = (IF pc[r] = "none" THEN "none" ELSE "done") /\ answers'[r] = {}
          /\ items'[r] = items[r] /\ status'[r] = status[r] /\ sample'[r] = sample[r]
          /\ done'[r] = done[r] /\ total'[r] = total[r] /\ cancelling' = {}
        BY <1>1 DEF Crash, runRows, plan
    <2>2. RunOK(r)
        BY DEF IInv
    <2> QED
        BY <2>1, <2>2 DEF RunOK, Outcome, OnePerQuery, Counted, AllAsked, Complete, Before, Asking
<1>2. CASE Queue \/ \E c \in Collections : DeleteCollection(c)
    <2>1. SameRun(r)
        BY <1>2 DEF Queue, QueueClaims, QueueEnds, DeleteCollection, SameRun, runRows, plan, env
    <2> QED
        BY <2>1, SameRunOK DEF IInv
<1> QED
    BY <1>1, <1>2

(***************************************************************************)
(* The theorems.                                                           *)
(***************************************************************************)

LEMMA IInvInit == Init => IInv
<1> SUFFICES ASSUME Init PROVE IInv
    OBVIOUS
<1>1. \A r \in Runs : Queries(items[r]) = {} /\ items[r] = {}
    BY DEF Init, Queries
<1>2. \A r \in Runs : Counted(r)
    BY <1>1, FS_EmptySet DEF Init, Counted, Asking
<1> QED
    BY <1>1, <1>2, TypeInit
       DEF Init, IInv, CollOf, RunOK, Outcome, OnePerQuery, AllAsked, Complete

LEMMA IInvStep == IInv /\ [Next]_vars => IInv'
<1> SUFFICES ASSUME IInv, [Next]_vars PROVE IInv'
    OBVIOUS
<1>1. TypeOK' /\ CollOf'
    BY TypeStep, CollStep DEF IInv
<1>2. ASSUME NEW s \in Runs PROVE RunOK(s)'
    <2>1. CASE UNCHANGED vars
        BY <2>1, SameRunOK DEF IInv, SameRun, vars, runRows, plan, env
    <2>2. CASE Crash \/ Queue \/ \E c \in Collections : DeleteCollection(c)
        BY <2>2, RestartOK
    <2>3. ASSUME NEW r \in Runs,
                 Task(r) \/ CreateRun(r) \/ CancelRead(r) \/ CancelWrite(r) \/ DeleteRun(r)
          PROVE  RunOK(s)'
        <3>1. CASE s # r
            BY <2>3, <3>1, OthersUntouched, SameRunOK DEF IInv
        <3>2. CASE s = r
            BY <2>3, <3>2, RequestOK, ProvisionOK, AskOK, RecordOK, QueryOK, FinalizeOK DEF Task
        <3> QED
            BY <3>1, <3>2
    <2> QED
        BY <2>1, <2>2, <2>3 DEF Next
<1> QED
    BY <1>1, <1>2 DEF IInv

LEMMA IInvHolds == Spec => []IInv
BY IInvInit, IInvStep, PTL DEF Spec

\* Every reachable state is well typed, and a sampled query has its gold in the
\* corpus.
THEOREM TypeCorrect == Spec => []TypeOK
<1>1. IInv => TypeOK
    BY DEF IInv
<1> QED
    BY <1>1, IInvHolds, PTL

\* A run that says completed has exactly one item for every sampled query, and
\* its progress says so (`_evaluate_queries`, `_finalize`).
THEOREM CompletedIsComplete == Spec => []CompleteIsComplete
<1>1. IInv => CompleteIsComplete
    BY DEF IInv, RunOK, Complete, Counted, CompleteIsComplete, Queries
<1> QED
    BY <1>1, IInvHolds, PTL

(***************************************************************************)
(* Cancellation.  An item that is recorded after a cancel was checked for   *)
(* before it, so its run is on the way back to a check that will heed it.   *)
(***************************************************************************)

Heeded(r) ==
    /\ pc[r] \in Before => late[r] = 0
    /\ late[r] \in {0, 1}
    /\ late[r] = 1 => /\ pc[r] # "recording"
                      /\ pc[r] = "querying" => status[r] \in {"cancelled", "deleted"}

LEMMA HeededByRequest ==
    ASSUME IInv, NEW r \in Runs, Heeded(r),
           CreateRun(r) \/ CancelRead(r) \/ CancelWrite(r) \/ DeleteRun(r)
    PROVE  Heeded(r)'
<1>1. late' = late
    BY DEF CreateRun, CancelRead, CancelWrite, DeleteRun, env
<1>2. CASE CreateRun(r)
    <2>1. pc[r] = "none"
        BY <1>2 DEF CreateRun, IInv, RunOK, Outcome
    <2> QED
        BY <1>1, <1>2, <2>1 DEF CreateRun, Heeded, Before, IInv, TypeOK, Goto
<1>3. CASE CancelRead(r)
    BY <1>1, <1>3 DEF CancelRead, Heeded, runRows
<1>4. CASE CancelWrite(r) \/ DeleteRun(r)
    BY <1>1, <1>4 DEF CancelWrite, DeleteRun, Heeded, IInv, TypeOK, SetStatus
<1> QED
    BY <1>2, <1>3, <1>4

\* A task other than one that takes or records an answer stays where it is, or
\* moves on to where nothing is recorded.
MovesOn(r) ==
    /\ late'[r] = late[r]
    /\ \/ pc'[r] = pc[r] /\ status'[r] = status[r]
       \/ pc[r] \in Before
       \/ pc'[r] \notin Before \union {"querying", "recording"}
    /\ pc'[r] # "recording" \/ pc'[r] = pc[r]

LEMMA MostMoveOn ==
    ASSUME IInv, NEW r \in Runs, Task(r), ~NextAnswer(r), \A a \in answers[r] : ~Record(r, a)
    PROVE  MovesOn(r)
<1> USE DEF MovesOn, Before
<1>1. CASE \/ Start(r) \/ Plan(r) \/ Announce(r) \/ FindNothing(r) \/ CreateCollection(r)
           \/ (\E c \in Collections : Reuse(r, c)) \/ Registered(r) \/ CheckProvisioned(r)
           \/ StartQueries(r)
    BY <1>1 DEF IInv, TypeOK, Start, Plan, Announce, FindNothing, CreateCollection, Reuse,
                Registered, CheckProvisioned, StartQueries, Here, Goto, SetStatus, env
<1>2. CASE Repair(r) \/ \E d \in Docs : Register(r, d) \/ Ask(r, d)
    BY <1>2 DEF Repair, Register, Ask, runRows, env
<1>3. CASE Collect(r)
    BY <1>3 DEF IInv, TypeOK, Collect, Drained, Goto, env
<1>4. CASE \E x \in Rows : BeginIngest(r, x) \/ EndIngest(r, x)
    BY <1>4 DEF BeginIngest, EndIngest, runRows, env
<1>5. CASE CheckAsked(r) \/ Finalize(r) \/ Raises(r) \/ Dies(r)
    BY <1>5 DEF IInv, TypeOK, CheckAsked, Finalize, Raises, Dies, Goto, SetStatus, env
<1> QED
    BY <1>1, <1>2, <1>3, <1>4, <1>5 DEF Task

LEMMA HeededByItself ==
    ASSUME IInv, NEW r \in Runs, Heeded(r), Task(r)
    PROVE  Heeded(r)'
<1>1. CASE NextAnswer(r)
    BY <1>1 DEF NextAnswer, Here, Goto, Heeded, Before, IInv, TypeOK, runRows, env
<1>2. ASSUME NEW a \in answers[r], Record(r, a)
      PROVE  Heeded(r)'
    <2>1. pc[r] = "recording" /\ late[r] = 0 /\ pc'[r] \in {"asked", "querying"}
          /\ status'[r] = status[r]
        BY <1>2 DEF Record, Here, Goto, Heeded, IInv, TypeOK
    <2>2. late'[r] = (IF status[r] = "cancelled" THEN 1 ELSE 0)
        BY <1>2, <2>1 DEF Record, IInv, TypeOK
    <2> QED
        BY <2>1, <2>2 DEF Heeded, Before
<1>3. CASE ~NextAnswer(r) /\ \A a \in answers[r] : ~Record(r, a)
    BY <1>3, MostMoveOn DEF Heeded, MovesOn
<1> QED
    BY <1>1, <1>2, <1>3

LEMMA LateUntouched ==
    ASSUME TypeOK, NEW r \in Runs, NEW s \in Runs, s # r, Task(r)
    PROVE  late'[s] = late[s]
<1>1. CASE \E a \in answers[r] : Record(r, a)
    BY <1>1 DEF Record, TypeOK
<1>2. CASE \/ Start(r) \/ Plan(r) \/ Announce(r) \/ FindNothing(r) \/ CreateCollection(r)
           \/ (\E c \in Collections : Reuse(r, c)) \/ Registered(r) \/ CheckProvisioned(r)
           \/ StartQueries(r) \/ NextAnswer(r) \/ CheckAsked(r) \/ Finalize(r) \/ Raises(r)
           \/ Dies(r)
    BY <1>2 DEF Start, Plan, Announce, FindNothing, CreateCollection, Reuse, Registered,
                CheckProvisioned, StartQueries, NextAnswer, CheckAsked, Finalize, Raises,
                Dies, env
<1>3. CASE \/ Repair(r) \/ Collect(r) \/ (\E d \in Docs : Register(r, d) \/ Ask(r, d))
           \/ (\E x \in Rows : BeginIngest(r, x) \/ EndIngest(r, x))
    BY <1>3 DEF Repair, Collect, Register, Ask, BeginIngest, EndIngest, env
<1> QED
    BY <1>1, <1>2, <1>3 DEF Task

LEMMA HeededStep ==
    ASSUME IInv, \A r \in Runs : Heeded(r), [Next]_vars, NEW s \in Runs
    PROVE  Heeded(s)'
<1>1. CASE UNCHANGED vars
    BY <1>1 DEF Heeded, vars, runRows, env
<1>2. CASE Crash
    BY <1>2 DEF Crash, Heeded, Before, runRows
<1>3. CASE Queue \/ \E c \in Collections : DeleteCollection(c)
    BY <1>3 DEF Queue, QueueClaims, QueueEnds, DeleteCollection, Heeded, runRows, env
<1>4. ASSUME NEW r \in Runs, CreateRun(r) \/ CancelRead(r) \/ CancelWrite(r) \/ DeleteRun(r)
      PROVE  Heeded(s)'
    <2>1. CASE s = r
        BY <1>4, <2>1, HeededByRequest
    <2>2. CASE s # r
        <3>1. SameRun(s)
            BY <1>4, <2>2, OthersUntouched DEF IInv
        <3>2. late'[s] = late[s]
            BY <1>4 DEF CreateRun, CancelRead, CancelWrite, DeleteRun, env
        <3> QED
            BY <3>1, <3>2 DEF SameRun, Heeded
    <2> QED
        BY <2>1, <2>2
<1>5. ASSUME NEW r \in Runs, Task(r)
      PROVE  Heeded(s)'
    <2>1. CASE s = r
        BY <1>5, <2>1, HeededByItself
    <2>2. CASE s # r
        <3>1. SameRun(s) /\ late'[s] = late[s]
            BY <1>5, <2>2, OthersUntouched, LateUntouched DEF IInv
        <3> QED
            BY <3>1 DEF SameRun, Heeded
    <2> QED
        BY <2>1, <2>2
<1> QED
    BY <1>1, <1>2, <1>3, <1>4, <1>5 DEF Next

\* After a cancel at most one more item is recorded (`_cancelled`).
THEOREM CancelHeeded == Spec => []CancelIsHeeded
<1> DEFINE H == \A r \in Runs : Heeded(r)
<1>1. Init => H
    BY DEF Init, Heeded
<1>2. IInv /\ H /\ [Next]_vars => H'
    BY HeededStep
<1>3. H => CancelIsHeeded
    BY DEF Heeded, CancelIsHeeded
<1> QED
    BY <1>1, <1>2, <1>3, IInvHolds, PTL DEF Spec

(***************************************************************************)
(* The corpus.  A row of a document that an ingest has picked up stays so   *)
(* until a restart, which ends every task, or goes with its collection; no *)
(* collection is created twice, and until a document of the corpus has such *)
(* a row the task still has one to take up.                                *)
(***************************************************************************)

Early == {"none", "scheduled", "planning", "provisioning", "finding", "creating"}
Past == {"provisioned", "starting", "querying", "recording", "asked"}
Taken == {"processing", "ready", "failed"}

Attempted(c, d) == \E o \in Runs : doc[c][<<d, o>>] \in Taken

\* Whoever has a collection, its creator is past creating it.
CreatedOnce ==
    /\ \A c \in Collections : exists[c] => pc[c] \notin Early
    /\ \A r \in Runs : coll[r] # None => pc[coll[r]] \notin Early

\* A task's rows are those it has registered.
OwnRows(r) ==
    /\ pc[r] \in Early => /\ todo[r] = {} /\ ~repaired[r]
                       /\ \A c \in Collections, d \in Docs : doc[c][<<d, r>>] = "none"
    /\ pc[r] = "registering" => \A d \in missing[r] : doc[coll[r]][<<d, r>>] = "none"

\* A name is that of a row, and so is what is left to ingest.
RowsExist ==
    /\ \A c \in Collections, d \in Docs :
           named[c][d] # None => doc[c][<<d, named[c][d]>>] # "none"
    /\ \A r \in Runs : pc[r] \in {"registering", "ingesting"} /\ exists[coll[r]] =>
           \A x \in todo[r] : doc[coll[r]][x] # "none"

\* A document is attempted, or the task has still to ingest or to repair it.
Ahead(r, d) ==
    \/ Attempted(coll[r], d)
    \/ \E x \in todo[r] : x[1] = d
    \/ ~repaired[r] /\ named[coll[r]][d] # None
CorpusAhead(r) ==
    exists[coll[r]] =>
        /\ pc[r] = "registering" => \A d \in corpus[r] \ missing[r] : Ahead(r, d)
        /\ pc[r] = "ingesting" /\ status[r] # "deleted" => \A d \in corpus[r] : Ahead(r, d)
        /\ pc[r] \in Past => \A d \in corpus[r] : Attempted(coll[r], d)

Busy == {"registering", "ingesting"} \union Past
CorpusInv ==
    /\ CreatedOnce /\ RowsExist
    /\ \A r \in Runs : OwnRows(r) /\ (pc[r] \in Busy => coll[r] \in Collections /\ CorpusAhead(r))

SameTask(r) ==
    /\ pc'[r] = pc[r] /\ coll'[r] = coll[r] /\ corpus'[r] = corpus[r]
    /\ missing'[r] = missing[r] /\ todo'[r] = todo[r] /\ repaired'[r] = repaired[r]

\* Nobody but the task itself, its request and a restart touch its locals.
LEMMA TaskFrame ==
    ASSUME TypeOK, [Next]_vars, NEW s \in Runs
    PROVE  Task(s) \/ CreateRun(s) \/ Crash \/ SameTask(s)
<1> USE DEF SameTask
<1>1. CASE UNCHANGED vars
    BY <1>1 DEF vars, plan, ingest
<1>2. CASE Queue \/ \E c \in Collections : DeleteCollection(c)
    <2>1. UNCHANGED <<pc, plan, coll, ingest>>
        BY <1>2 DEF Queue, QueueClaims, QueueEnds, DeleteCollection
    <2> QED
        BY <2>1 DEF plan, ingest
<1>3. ASSUME NEW r \in Runs, r # s, CreateRun(r) \/ CancelRead(r) \/ CancelWrite(r) \/ DeleteRun(r)
      PROVE  SameTask(s)
    BY <1>3 DEF CreateRun, CancelRead, CancelWrite, DeleteRun, TypeOK, Goto, plan, ingest
<1>4. CancelRead(s) \/ CancelWrite(s) \/ DeleteRun(s) => SameTask(s)
    BY DEF CancelRead, CancelWrite, DeleteRun, plan, ingest
<1>5. ASSUME NEW r \in Runs, r # s, Task(r)
      PROVE  SameTask(s)
    <2>1. CASE \/ Start(r) \/ Plan(r) \/ Announce(r) \/ FindNothing(r) \/ CreateCollection(r)
               \/ (\E c \in Collections : Reuse(r, c)) \/ Registered(r)
        BY <1>5, <2>1 DEF Start, Plan, Announce, FindNothing, CreateCollection, Reuse,
           Registered, TypeOK, Goto, plan, ingest
    <2>2. CASE \/ Repair(r) \/ Collect(r) \/ (\E d \in Docs : Register(r, d))
        <3>1. CASE Repair(r)
            BY <1>5, <3>1 DEF Repair, TypeOK, plan
        <3>2. CASE Collect(r)
            BY <1>5, <3>2 DEF Collect, TypeOK, Goto, plan, ingest
        <3>3. CASE \E d \in Docs : Register(r, d)
            <4>1. PICK d \in Docs : Register(r, d)
                BY <3>3
            <4>2. missing'[s] = missing[s] /\ todo'[s] = todo[s]
                BY <1>5, <4>1 DEF Register, TypeOK
            <4> QED
                BY <4>1, <4>2 DEF Register, plan
        <3> QED
            BY <2>2, <3>1, <3>2, <3>3
    <2>3. CASE \E x \in Rows : BeginIngest(r, x) \/ EndIngest(r, x)
        <3>1. PICK x \in Rows : BeginIngest(r, x) \/ EndIngest(r, x)
            BY <2>3
        <3>2. todo'[s] = todo[s]
            BY <1>5, <3>1 DEF BeginIngest, EndIngest, TypeOK
        <3> QED
            BY <3>1, <3>2 DEF BeginIngest, EndIngest, plan
    <2>4. CASE \/ CheckProvisioned(r) \/ StartQueries(r) \/ NextAnswer(r) \/ CheckAsked(r)
               \/ (\E d \in Docs : Ask(r, d)) \/ (\E a \in answers[r] : Record(r, a))
               \/ Finalize(r) \/ Raises(r) \/ Dies(r)
        BY <1>5, <2>4 DEF CheckProvisioned, StartQueries, NextAnswer, CheckAsked, Ask, Record,
           Finalize, Raises, Dies, TypeOK, Goto, plan, ingest
    <2> QED
        BY <1>5, <2>1, <2>2, <2>3, <2>4 DEF Task
<1> QED
    BY <1>1, <1>2, <1>3, <1>4, <1>5 DEF Next

\* What a task does to its own locals, label by label.
LEMMA OwnSteps ==
    ASSUME TypeOK, NEW r \in Runs, Task(r)
    PROVE  \/ /\ pc[r] \in Early /\ pc'[r] \in Early \union {"done"} /\ coll' = coll
              /\ todo' = todo /\ repaired' = repaired
           \/ CreateCollection(r) \/ \E c \in Collections : Reuse(r, c)
           \/ (\E d \in Docs : Register(r, d)) \/ Registered(r) \/ Repair(r) \/ Collect(r)
           \/ (\E x \in Rows : BeginIngest(r, x) \/ EndIngest(r, x))
           \/ /\ pc[r] \notin Early /\ pc'[r] = "done" /\ coll' = coll
           \/ /\ pc[r] \in Past \union {"finalizing"} /\ pc'[r] \in Past \union {"finalizing", "done"}
              /\ SameTask(r) \/ (coll' = coll /\ corpus' = corpus)
<1>1. CASE Start(r) \/ Plan(r) \/ Announce(r) \/ FindNothing(r)
    BY <1>1 DEF Start, Plan, Announce, FindNothing, Here, Goto, TypeOK, Early, ingest
<1>2. CASE \/ CheckProvisioned(r) \/ StartQueries(r) \/ NextAnswer(r) \/ CheckAsked(r)
           \/ (\E d \in Docs : Ask(r, d)) \/ (\E a \in answers[r] : Record(r, a)) \/ Finalize(r)
    BY <1>2 DEF CheckProvisioned, StartQueries, NextAnswer, CheckAsked, Ask, Record, Finalize,
       Here, Goto, TypeOK, Past, plan
<1>3. CASE Raises(r) \/ Dies(r)
    BY <1>3 DEF Raises, Dies, Goto, TypeOK, Early, ingest
<1> QED
    BY <1>1, <1>2, <1>3 DEF Task

LEMMA FinalizingEnds ==
    ASSUME TypeOK, NEW r \in Runs, Task(r), pc[r] = "finalizing"
    PROVE  pc'[r] = "done"
<1>1. ASSUME NEW x \in Rows PROVE ~BeginIngest(r, x) /\ ~EndIngest(r, x)
    BY DEF BeginIngest, EndIngest
<1>2. ~Repair(r) /\ ~Collect(r) /\ ~Registered(r) /\ \A d \in Docs : ~Register(r, d) /\ ~Ask(r, d)
    BY DEF Repair, Collect, Registered, Register, Ask, Drained
<1>3. /\ ~Start(r) /\ ~Plan(r) /\ ~Announce(r) /\ ~FindNothing(r) /\ ~CreateCollection(r)
      /\ \A c \in Collections : ~Reuse(r, c)
      /\ ~CheckProvisioned(r) /\ ~StartQueries(r) /\ ~NextAnswer(r) /\ ~CheckAsked(r)
      /\ \A a \in answers[r] : ~Record(r, a)
    BY DEF Start, Plan, Announce, FindNothing, CreateCollection, Reuse, CheckProvisioned,
       StartQueries, NextAnswer, CheckAsked, Record, Here
<1>4. CASE Finalize(r) \/ Raises(r) \/ Dies(r)
    BY <1>4 DEF Finalize, Raises, Dies, Goto, TypeOK
<1> QED
    BY <1>1, <1>2, <1>3, <1>4 DEF Task

\* ... and hence which step leads to which label.
LEMMA LabelSteps ==
    ASSUME TypeOK, NEW r \in Runs, Task(r)
    PROVE  /\ pc'[r] \in Early =>
                pc[r] \in Early /\ coll' = coll /\ todo' = todo /\ repaired' = repaired
           /\ pc'[r] = "registering" =>
                \/ CreateCollection(r) \/ \E c \in Collections : Reuse(r, c)
                \/ \E d \in Docs : Register(r, d)
           /\ pc'[r] = "ingesting" =>
                \/ Registered(r) \/ Repair(r)
                \/ \E x \in Rows : BeginIngest(r, x) \/ EndIngest(r, x)
           /\ pc'[r] \in Past =>
                \/ Collect(r)
                \/ pc[r] \in Past \union {"finalizing"} /\ coll'[r] = coll[r] /\ corpus'[r] = corpus[r]
<1>1. CreateCollection(r) \/ (\E c \in Collections : Reuse(r, c)) => pc'[r] = "registering"
    BY DEF CreateCollection, Reuse, Goto, TypeOK
<1>2. ASSUME NEW d \in Docs, Register(r, d) PROVE pc'[r] = "registering"
    BY <1>2 DEF Register
<1>3. Registered(r) \/ Repair(r) => pc'[r] = "ingesting"
    BY DEF Registered, Repair, Drained, Goto, TypeOK
<1>4. ASSUME NEW x \in Rows, BeginIngest(r, x) \/ EndIngest(r, x) PROVE pc'[r] = "ingesting"
    BY <1>4 DEF BeginIngest, EndIngest
<1>5. Collect(r) => pc'[r] = "provisioned"
    BY DEF Collect, Goto, TypeOK
<1>6. SameTask(r) => coll'[r] = coll[r] /\ corpus'[r] = corpus[r]
    BY DEF SameTask
<1> QED
    BY <1>1, <1>2, <1>3, <1>4, <1>5, <1>6, OwnSteps DEF Early, Past

LEMMA LateStays ==
    ASSUME IInv, [Next]_vars, NEW r \in Runs, pc'[r] \in Early
    PROVE  pc[r] \in Early
<1>0. TypeOK /\ Outcome(r)
    BY DEF IInv, RunOK
<1>1. CASE Task(r)
    BY <1>0, <1>1, LabelSteps
<1>2. CASE CreateRun(r) \/ Crash \/ SameTask(r)
    BY <1>0, <1>2 DEF CreateRun, Crash, SameTask, TypeOK, Early, Outcome
<1> QED
    BY <1>0, <1>1, <1>2, TaskFrame

\* The steps that write documents, their names, or whether there is a collection.
LEMMA QuietSteps ==
    ASSUME [Next]_vars, ~Queue, ~Crash, \A c \in Collections : ~DeleteCollection(c),
           \A r \in Runs : /\ \A d \in Docs : ~Register(r, d)
                           /\ \A x \in Rows : ~BeginIngest(r, x) /\ ~EndIngest(r, x)
    PROVE  UNCHANGED <<doc, named>> /\ (exists' = exists \/ \E r \in Runs : CreateCollection(r))
<1> DEFINE Quiet == UNCHANGED <<doc, named, exists>>
<1>1. CASE UNCHANGED vars
    BY <1>1 DEF vars, colls
<1>2. ASSUME NEW r \in Runs, CreateRun(r) \/ CancelRead(r) \/ CancelWrite(r) \/ DeleteRun(r)
      PROVE  Quiet
    BY <1>2 DEF CreateRun, CancelRead, CancelWrite, DeleteRun, colls
<1>3. ASSUME NEW r \in Runs, Start(r) \/ Plan(r) \/ Announce(r) \/ FindNothing(r)
                \/ Registered(r) \/ Repair(r) \/ Collect(r) \/ \E c \in Collections : Reuse(r, c)
      PROVE  Quiet
    BY <1>3 DEF Start, Plan, Announce, FindNothing, Registered, Repair, Collect, Reuse, colls
<1>4. ASSUME NEW r \in Runs, \/ CheckProvisioned(r) \/ StartQueries(r) \/ NextAnswer(r)
                \/ (\E d \in Docs : Ask(r, d)) \/ (\E a \in answers[r] : Record(r, a))
                \/ CheckAsked(r) \/ Finalize(r) \/ Raises(r) \/ Dies(r)
      PROVE  Quiet
    BY <1>4 DEF CheckProvisioned, StartQueries, NextAnswer, Ask, Record, CheckAsked, Finalize,
       Raises, Dies, colls
<1>5. ASSUME NEW r \in Runs, CreateCollection(r)
      PROVE  UNCHANGED <<doc, named>>
    BY <1>5 DEF CreateCollection
<1> QED
    BY <1>1, <1>2, <1>3, <1>4, <1>5 DEF Next, Task

\* Reading a document row, or its name, that was written.
LEMMA DocRead ==
    ASSUME TypeOK, NEW c \in Collections, NEW x \in Rows, NEW s,
           NEW e \in Collections, NEW y \in Rows
    PROVE  [doc EXCEPT ![c][x] = s][e][y] = IF e = c /\ y = x THEN s ELSE doc[e][y]
BY DEF TypeOK
LEMMA NameRead ==
    ASSUME TypeOK, NEW c \in Collections, NEW d \in Docs, NEW s,
           NEW e \in Collections, NEW f \in Docs
    PROVE  [named EXCEPT ![c][d] = s][e][f] = IF e = c /\ f = d THEN s ELSE named[e][f]
BY DEF TypeOK

\* What a step may do to a document row.
LEMMA DocSteps ==
    ASSUME TypeOK, CollOf, [Next]_vars, NEW c \in Collections, NEW d \in Docs, NEW o \in Runs
    PROVE  \/ doc'[c][<<d, o>>] = doc[c][<<d, o>>]
           \/ Register(o, d) /\ c = coll[o]
           \/ doc[c][<<d, o>>] # "none" /\ doc'[c][<<d, o>>] \in Taken
           \/ Crash /\ doc[c][<<d, o>>] # "none" /\ doc'[c][<<d, o>>] # "none"
           \/ DeleteCollection(c) /\ ~exists'[c] /\ doc'[c][<<d, o>>] = "none"
<1> DEFINE x == <<d, o>>
<1>0. x \in Rows
    BY DEF Rows
<1> USE DEF Taken
<1>1. CASE doc' = doc
    BY <1>1
<1>2. CASE Crash
    <2>1. doc'[c][x] = IF doc[c][x] = "processing" THEN "pending" ELSE doc[c][x]
        BY <1>0, <1>2 DEF Crash
    <2> QED
        BY <1>2, <2>1
<1>3. ASSUME NEW e \in Collections, DeleteCollection(e), doc' # doc
      PROVE  \/ doc'[c][x] = doc[c][x]
             \/ DeleteCollection(c) /\ ~exists'[c] /\ doc'[c][x] = "none"
    <2>1. doc' = [doc EXCEPT ![e] = [y \in Rows |-> "none"]] /\ exists' = [exists EXCEPT ![e] = FALSE]
        BY <1>3 DEF DeleteCollection
    <2>2. CASE e = c
        BY <1>0, <1>3, <2>1, <2>2 DEF TypeOK
    <2>3. CASE e # c
        BY <2>1, <2>3 DEF TypeOK
    <2> QED
        BY <2>2, <2>3
<1>4. ASSUME NEW r \in Runs, NEW e \in Docs, Register(r, e)
      PROVE  doc'[c][x] = doc[c][x] \/ (Register(o, d) /\ c = coll[o])
    <2>1. coll[r] \in Collections /\ <<e, r>> \in Rows
        BY <1>4 DEF Register, CollOf, Rows
    <2>2. doc' = [doc EXCEPT ![coll[r]][<<e, r>>] = "pending"]
        BY <1>4 DEF Register
    <2>3. doc'[c][x] = IF c = coll[r] /\ x = <<e, r>> THEN "pending" ELSE doc[c][x]
        BY <1>0, <2>1, <2>2, DocRead
    <2> QED
        BY <1>4, <2>3
<1>5. ASSUME NEW r \in Runs, NEW y \in Rows, BeginIngest(r, y) \/ EndIngest(r, y)
      PROVE  doc'[c][x] = doc[c][x] \/ (doc[c][x] # "none" /\ doc'[c][x] \in Taken)
    <2>1. coll[r] \in Collections
        BY <1>5 DEF BeginIngest, EndIngest, CollOf
    <2>2. \/ doc' = doc
          \/ doc[coll[r]][y] # "none" /\ \E s \in Taken : doc' = [doc EXCEPT ![coll[r]][y] = s]
        BY <1>5 DEF BeginIngest, EndIngest
    <2>3. ASSUME NEW s \in Taken, doc' = [doc EXCEPT ![coll[r]][y] = s]
          PROVE  doc'[c][x] = IF c = coll[r] /\ x = y THEN s ELSE doc[c][x]
        BY <1>0, <2>1, <2>3, DocRead
    <2> QED
        BY <2>2, <2>3
<1>6. CASE Queue
    <2>1. PICK e \in Collections, y \in Rows : QueueClaims(e, y) \/ QueueEnds(e, y)
        BY <1>6 DEF Queue
    <2>2. \/ doc' = doc
          \/ doc[e][y] # "none" /\ \E s \in Taken : doc' = [doc EXCEPT ![e][y] = s]
        BY <2>1 DEF QueueClaims, QueueEnds
    <2>3. ASSUME NEW s \in Taken, doc' = [doc EXCEPT ![e][y] = s]
          PROVE  doc'[c][x] = IF c = e /\ x = y THEN s ELSE doc[c][x]
        <3>1. [doc EXCEPT ![e][y] = s][c][x] = IF c = e /\ x = y THEN s ELSE doc[c][x]
            BY <1>0, DocRead
        <3> QED
            BY <2>3, <3>1
    <2> QED
        BY <2>2, <2>3
<1> QED
    BY <1>1, <1>2, <1>3, <1>4, <1>5, <1>6, QuietSteps

\* ... to the name of one, and to the existence of a collection.
LEMMA NameSteps ==
    ASSUME TypeOK, CollOf, [Next]_vars, NEW c \in Collections, NEW d \in Docs
    PROVE  \/ named'[c][d] = named[c][d]
           \/ \E r \in Runs : Register(r, d) /\ c = coll[r] /\ named[c][d] = None /\ named'[c][d] = r
           \/ ~exists'[c] /\ named'[c][d] = None
<1>1. CASE named' = named
    BY <1>1
<1>2. ASSUME NEW e \in Collections, DeleteCollection(e), named' # named
      PROVE  named'[c][d] = named[c][d] \/ (~exists'[c] /\ named'[c][d] = None)
    <2>1. named' = [named EXCEPT ![e] = [f \in Docs |-> None]] /\ exists' = [exists EXCEPT ![e] = FALSE]
        BY <1>2 DEF DeleteCollection
    <2>2. /\ named \in [Collections -> [Docs -> Runs \union {None}]]
          /\ exists \in [Collections -> BOOLEAN]
        BY DEF TypeOK
    <2>3. CASE e = c
        BY <2>1, <2>2, <2>3
    <2>4. CASE e # c
        <3>1. named'[c] = named[c]
            BY <2>1, <2>2, <2>4
        <3> QED
            BY <3>1
    <2> QED
        BY <2>3, <2>4
<1>3. ASSUME NEW r \in Runs, NEW e \in Docs, Register(r, e), named' # named
      PROVE  \/ named'[c][d] = named[c][d]
             \/ Register(r, d) /\ c = coll[r] /\ named[c][d] = None /\ named'[c][d] = r
    <2>1. coll[r] \in Collections /\ named' = [named EXCEPT ![coll[r]][e] = r] /\ named[coll[r]][e] = None
        BY <1>3 DEF Register, CollOf
    <2>2. named'[c][d] = IF c = coll[r] /\ d = e THEN r ELSE named[c][d]
        BY <2>1, NameRead
    <2> QED
        BY <1>3, <2>1, <2>2
<1>4. CASE Queue \/ Crash
    BY <1>4 DEF Queue, QueueClaims, QueueEnds, Crash
<1>5. ASSUME NEW r \in Runs, NEW x \in Rows, BeginIngest(r, x) \/ EndIngest(r, x)
      PROVE  named' = named
    BY <1>5 DEF BeginIngest, EndIngest
<1> QED
    BY <1>1, <1>2, <1>3, <1>4, <1>5, QuietSteps

LEMMA ExistsSteps ==
    ASSUME TypeOK, [Next]_vars, NEW c \in Collections, exists'[c]
    PROVE  exists[c] \/ CreateCollection(c)
<1>1. ASSUME NEW e \in Collections, DeleteCollection(e)
      PROVE  exists[c]
    BY <1>1 DEF DeleteCollection, TypeOK
<1>2. ASSUME NEW r \in Runs, CreateCollection(r)
      PROVE  exists[c] \/ CreateCollection(c)
    BY <1>2 DEF CreateCollection, TypeOK, Collections
<1>3. CASE exists' = exists
    BY <1>3
<1>4. CASE Queue \/ Crash
    BY <1>4 DEF Queue, QueueClaims, QueueEnds, Crash
<1>5. ASSUME NEW r \in Runs, (\E d \in Docs : Register(r, d))
                \/ \E x \in Rows : BeginIngest(r, x) \/ EndIngest(r, x)
      PROVE  exists' = exists
    BY <1>5 DEF BeginIngest, EndIngest, Register
<1> QED
    BY <1>1, <1>2, <1>3, <1>4, <1>5, QuietSteps

LEMMA CreatedOnceStep ==
    ASSUME IInv, CreatedOnce, [Next]_vars
    PROVE  CreatedOnce'
<1> USE DEF IInv
<1>1. ASSUME NEW c \in Collections, exists'[c], pc'[c] \in Early
      PROVE  FALSE
    <2>1. c \in Runs
        BY DEF Collections
    <2>2. pc[c] \in Early
        BY <1>1, <2>1, LateStays
    <2>3. CreateCollection(c)
        BY <1>1, <2>2, ExistsSteps DEF CreatedOnce
    <2> QED
        BY <1>1, <2>1, <2>3 DEF CreateCollection, Goto, TypeOK, Early
<1>2. ASSUME NEW r \in Runs, coll'[r] # None, pc'[coll'[r]] \in Early
      PROVE  FALSE
    <2>1. coll'[r] \in Runs
        BY <1>2, TypeStep, CollStep DEF TypeOK, Collections
    <2>2. pc[coll'[r]] \in Early
        BY <1>2, <2>1, LateStays
    <2>3. coll'[r] # coll[r]
        BY <1>2, <2>2 DEF CreatedOnce
    <2>4. Task(r)
        BY <2>3, TaskFrame DEF SameTask, CreateRun, Crash
    <2>5. CreateCollection(r) \/ \E c \in Collections : Reuse(r, c)
        BY <2>3, <2>4, OwnSteps DEF SameTask, Register, Registered, Repair, Collect,
           BeginIngest, EndIngest
    <2>6. CASE CreateCollection(r)
        BY <1>2, <2>1, <2>6 DEF CreateCollection, Goto, TypeOK, Early
    <2>7. CASE \E c \in Collections : Reuse(r, c)
        BY <2>2, <2>7 DEF Reuse, TypeOK, CreatedOnce
    <2> QED
        BY <2>5, <2>6, <2>7
<1> QED
    BY <1>1, <1>2 DEF CreatedOnce

LEMMA OwnRowsStep ==
    ASSUME IInv, [Next]_vars, NEW r \in Runs, OwnRows(r)
    PROVE  OwnRows(r)'
<1> USE DEF IInv
<1>1. ASSUME pc'[r] \in Early
      PROVE  todo'[r] = {} /\ ~repaired'[r] /\ \A c \in Collections, d \in Docs : doc'[c][<<d, r>>] = "none"
    <2>1. pc[r] \in Early
        BY <1>1, LateStays
    <2>2. todo'[r] = {} /\ ~repaired'[r]
        <3>1. CASE Task(r)
            BY <1>1, <2>1, <3>1, LabelSteps DEF OwnRows
        <3>2. CASE CreateRun(r) \/ Crash \/ SameTask(r)
            BY <2>1, <3>2 DEF OwnRows, CreateRun, Crash, SameTask, ingest
        <3> QED
            BY <3>1, <3>2, TaskFrame
    <2>3. ASSUME NEW c \in Collections, NEW d \in Docs
          PROVE  doc'[c][<<d, r>>] = "none"
        BY <2>1, DocSteps DEF OwnRows, Register, Early
    <2> QED
        BY <2>2, <2>3
<1>2. ASSUME pc'[r] = "registering", NEW d \in missing'[r]
      PROVE  doc'[coll'[r]][<<d, r>>] = "none"
    <2>0. d \in Docs
        BY TypeStep, CollStep, <1>2 DEF TypeOK
    <2>1. CASE Task(r)
        <3>1. CASE CreateCollection(r) \/ \E c \in Collections : Reuse(r, c)
            BY <1>2, <2>0, <3>1 DEF CreateCollection, Reuse, OwnRows, Early, TypeOK, Collections
        <3>2. CASE \E e \in Docs : Register(r, e)
            BY <1>2, <3>2 DEF Register, OwnRows, TypeOK, Rows
        <3> QED
            BY <1>2, <2>1, <3>1, <3>2, LabelSteps
    <2>2. CASE SameTask(r)
        <3>1. d \in missing[r] /\ pc[r] = "registering" /\ coll'[r] = coll[r]
            BY <1>2, <2>2 DEF SameTask
        <3>2. CASE coll[r] \in Collections
            <4>1. doc[coll[r]][<<d, r>>] = "none"
                BY <3>1 DEF OwnRows
            <4>2. ~Register(r, d)
                BY <2>2, <3>1 DEF Register, SameTask, TypeOK
            <4> QED
                BY <2>0, <3>1, <3>2, <4>1, <4>2, DocSteps
        <3> QED
            BY <3>1, <3>2 DEF CollOf
    <2>3. CASE CreateRun(r) \/ Crash
        BY <1>2, <2>3 DEF CreateRun, Crash, Goto, TypeOK
    <2> QED
        BY <2>1, <2>2, <2>3, TaskFrame
<1> QED
    BY <1>1, <1>2 DEF OwnRows

\* The collection a task works on is not created under it.
LEMMA NotRecreated ==
    ASSUME TypeOK, CreatedOnce, [Next]_vars, NEW r \in Runs, coll[r] # None, exists'[coll[r]]
    PROVE  exists[coll[r]]
<1>1. coll[r] \in Collections
    BY DEF TypeOK
<1>2. ~CreateCollection(coll[r])
    BY DEF CreatedOnce, CreateCollection, Early
<1> QED
    BY <1>1, <1>2, ExistsSteps

LEMMA RowsExistStep ==
    ASSUME TypeOK, CollOf, CorpusInv, [Next]_vars
    PROVE  RowsExist'
<1> USE DEF CorpusInv
<1>1. ASSUME NEW c \in Collections, NEW d \in Docs, named'[c][d] # None
      PROVE  doc'[c][<<d, named'[c][d]>>] # "none"
    <2>1. CASE named'[c][d] = named[c][d]
        <3>1. named[c][d] \in Runs /\ doc[c][<<d, named[c][d]>>] # "none"
            BY <1>1, <2>1 DEF TypeOK, RowsExist
        <3>2. ASSUME DeleteCollection(c), ~exists'[c] PROVE FALSE
            BY <1>1, <3>2 DEF DeleteCollection, TypeOK
        <3>3. Register(named[c][d], d) /\ c = coll[named[c][d]] => doc'[c][<<d, named[c][d]>>] = "pending"
            BY <3>1 DEF Register, TypeOK, Rows
        <3> QED
            BY <2>1, <3>1, <3>2, <3>3, DocSteps DEF Taken
    <2>2. CASE \E r \in Runs : Register(r, d) /\ c = coll[r] /\ named'[c][d] = r
        BY <2>2 DEF Register, TypeOK, Rows
    <2> QED
        BY <1>1, <2>1, <2>2, NameSteps
<1>2. ASSUME NEW r \in Runs, pc'[r] \in {"registering", "ingesting"}, exists'[coll'[r]],
             NEW x \in todo'[r]
      PROVE  doc'[coll'[r]][x] # "none"
    <2>1. TypeOK' /\ CollOf'
        BY TypeStep, CollStep
    <2>2. coll'[r] \in Collections /\ x \in Rows
        BY <1>2, <2>1 DEF CollOf, TypeOK
    <2>3. PICK d \in Docs, o \in Runs : x = <<d, o>>
        BY <2>2 DEF Rows
    \* A row that is there stays, as long as its collection does.
    <2>4. doc[coll'[r]][x] # "none" => doc'[coll'[r]][x] # "none"
        <3>1. Register(o, d) /\ coll'[r] = coll[o] => doc'[coll'[r]][x] = "pending"
            BY <2>2, <2>3 DEF Register, TypeOK
        <3> QED
            BY <1>2, <2>2, <2>3, <3>1, DocSteps DEF Taken
    <2>5. CASE SameTask(r)
        BY <1>2, <2>2, <2>4, <2>5, NotRecreated, NoneAssumption DEF SameTask, RowsExist, Collections
    <2>6. CASE Task(r)
        <3>1. CASE CreateCollection(r) \/ \E c \in Collections : Reuse(r, c)
            BY <1>2, <3>1 DEF CreateCollection, Reuse, OwnRows, Early
        <3>2. CASE \E e \in Docs : Register(r, e)
            <4>1. PICK e \in Docs : Register(r, e)
                BY <3>2
            <4>2. x \in todo[r] \/ x = <<e, r>>
                BY <1>2, <4>1 DEF Register, TypeOK
            <4>3. doc'[coll'[r]][<<e, r>>] = "pending"
                BY <2>2, <4>1 DEF Register, TypeOK, Rows
            <4>4. x \in todo[r] => doc[coll'[r]][x] # "none"
                BY <4>1 DEF Register, RowsExist
            <4> QED
                BY <2>4, <4>2, <4>3, <4>4
        <3>3. CASE Repair(r)
            BY <1>2, <2>4, <3>3 DEF Repair, TypeOK
        <3>4. CASE Registered(r) \/ \E y \in Rows : BeginIngest(r, y) \/ EndIngest(r, y)
            <4>1. /\ x \in todo[r] /\ coll' = coll /\ exists' = exists
                  /\ pc[r] \in {"registering", "ingesting"}
                BY <1>2, <3>4 DEF Registered, BeginIngest, EndIngest, TypeOK, ingest, colls
            <4> QED
                BY <1>2, <2>4, <4>1 DEF RowsExist
        <3> QED
            BY <1>2, <2>6, <3>1, <3>2, <3>3, <3>4, LabelSteps
    <2>7. CASE CreateRun(r) \/ Crash
        BY <1>2, <2>7 DEF CreateRun, Crash, Goto, TypeOK
    <2> QED
        BY <2>5, <2>6, <2>7, TaskFrame
<1> QED
    BY <1>1, <1>2 DEF RowsExist

\* A document that was attempted stays so unless the process restarts or its
\* collection goes: a row is registered once.
LEMMA AttemptedStays ==
    ASSUME TypeOK, CollOf, CorpusInv, [Next]_vars, ~Crash,
           NEW c \in Collections, exists'[c], NEW d \in Docs, Attempted(c, d)
    PROVE  Attempted(c, d)'
<1>1. PICK o \in Runs : doc[c][<<d, o>>] \in Taken
    BY DEF Attempted
<1>2. ~(Register(o, d) /\ c = coll[o])
    BY <1>1 DEF Register, CorpusInv, OwnRows, Taken
<1>3. doc'[c][<<d, o>>] \in Taken
    BY <1>1, <1>2, DocSteps
<1> QED
    BY <1>3 DEF Attempted

LEMMA NamesStay ==
    ASSUME TypeOK, CollOf, [Next]_vars, NEW c \in Collections, exists'[c], NEW d \in Docs,
           named[c][d] # None
    PROVE  named'[c][d] # None
BY NameSteps, NoneAssumption

LEMMA DeletedStays ==
    ASSUME TypeOK, [Next]_vars, NEW r \in Runs, status[r] = "deleted"
    PROVE  status'[r] = "deleted"
<1>1. CASE UNCHANGED vars \/ Queue \/ Crash \/ \E c \in Collections : DeleteCollection(c)
    BY <1>1 DEF vars, runRows, Queue, QueueClaims, QueueEnds, Crash, DeleteCollection
<1>2. ASSUME NEW s \in Runs, CreateRun(s) \/ CancelRead(s) \/ CancelWrite(s) \/ DeleteRun(s)
      PROVE  status'[r] = "deleted"
    BY <1>2 DEF CreateRun, CancelRead, CancelWrite, DeleteRun, SetStatus, TypeOK, runRows
<1>3. ASSUME NEW s \in Runs, Task(s)
      PROVE  status' = status \/ (status[s] # "deleted" /\ \E t : SetStatus(s, t))
    <2>1. CASE Start(s) \/ FindNothing(s) \/ CreateCollection(s) \/ (\E c \in Collections : Reuse(s, c))
            \/ Registered(s) \/ Repair(s) \/ Collect(s) \/ \E d \in Docs : Register(s, d) \/ Ask(s, d)
        BY <2>1 DEF Start, FindNothing, CreateCollection, Reuse, Registered, Repair, Collect,
           Register, Ask, runRows
    <2>2. CASE \E x \in Rows : BeginIngest(s, x) \/ EndIngest(s, x)
        BY <2>2 DEF BeginIngest, EndIngest, runRows
    <2>3. CASE Plan(s) \/ Announce(s) \/ StartQueries(s) \/ Finalize(s) \/ Raises(s)
        BY <2>3 DEF Plan, Announce, StartQueries, Finalize, Raises, Here
    <2>4. CASE CheckProvisioned(s) \/ NextAnswer(s) \/ CheckAsked(s) \/ Dies(s)
            \/ \E a \in answers[s] : Record(s, a)
        BY <2>4 DEF CheckProvisioned, NextAnswer, CheckAsked, Dies, Record, runRows
    <2> QED
        BY <1>3, <2>1, <2>2, <2>3, <2>4 DEF Task
<1>4. ASSUME NEW s \in Runs, Task(s)
      PROVE  status'[r] = "deleted"
    BY <1>3, <1>4 DEF SetStatus, TypeOK
<1> QED
    BY <1>1, <1>2, <1>4 DEF Next

\* The task's collection is one, from when it chose it.
LEMMA CollStays ==
    ASSUME TypeOK, CollOf, CorpusInv, [Next]_vars, NEW r \in Runs, pc'[r] \in Busy
    PROVE  coll'[r] \in Collections
<1>1. CASE Task(r)
    <2>1. CASE CreateCollection(r) \/ \E c \in Collections : Reuse(r, c)
        BY <2>1 DEF CreateCollection, Reuse, Collections, TypeOK
    <2>2. coll[r] = coll'[r] /\ pc[r] \in Busy => coll'[r] \in Collections
        BY DEF CorpusInv
    <2>3. ASSUME NEW d \in Docs, Register(r, d) PROVE coll' = coll /\ pc[r] \in Busy
        BY <2>3 DEF Register, Busy
    <2>4. ASSUME NEW x \in Rows, BeginIngest(r, x) \/ EndIngest(r, x) PROVE coll' = coll /\ pc[r] \in Busy
        BY <2>4 DEF BeginIngest, EndIngest, Busy
    <2>5. Registered(r) \/ Repair(r) \/ Collect(r) => coll' = coll /\ pc[r] \in Busy
        BY DEF Registered, Repair, Collect, Drained, Busy
    <2>6. pc[r] = "finalizing" => pc'[r] \notin Busy
        BY <1>1, FinalizingEnds DEF Busy, Past
    <2> QED
        BY <1>1, <2>1, <2>2, <2>3, <2>4, <2>5, <2>6, LabelSteps DEF Busy
<1>2. CASE CreateRun(r) \/ Crash
    <2>1. pc'[r] \in {"scheduled", "none", "done"}
        <3>1. CASE CreateRun(r)
            BY <3>1 DEF CreateRun, Goto, TypeOK
        <3>2. CASE Crash
            BY <3>2 DEF Crash
        <3> QED
            BY <1>2, <3>1, <3>2
    <2> QED
        BY <2>1 DEF Busy, Past
<1>3. CASE SameTask(r)
    BY <1>3 DEF SameTask, CorpusInv
<1> QED
    BY <1>1, <1>2, <1>3, TaskFrame

LEMMA CorpusAheadStep ==
    ASSUME TypeOK, CollOf, CorpusInv, [Next]_vars, NEW r \in Runs, pc'[r] \in Busy, exists'[coll'[r]]
    PROVE  CorpusAhead(r)'
<1>0. corpus'[r] \in SUBSET Docs /\ corpus[r] \in SUBSET Docs
    BY TypeStep DEF TypeOK
<1>1. ~Crash /\ ~CreateRun(r)
    <2>1. pc'[r] \notin {"none", "done", "scheduled"}
        BY DEF Busy, Past
    <2>2. Crash => pc'[r] \in {"none", "done"}
        BY DEF Crash
    <2>3. CreateRun(r) => pc'[r] = "scheduled"
        BY DEF CreateRun, Goto, TypeOK
    <2> QED
        BY <2>1, <2>2, <2>3
<1>2. pc[r] \in Busy /\ coll'[r] = coll[r] =>
            exists[coll[r]] /\ exists'[coll[r]] /\ coll[r] \in Collections /\ CorpusAhead(r)
    BY NotRecreated, NoneAssumption DEF Collections, CorpusInv
\* What is ahead stays ahead of a task that goes on.
<1>3. ASSUME coll'[r] = coll[r], pc[r] \in Busy, NEW d \in Docs
      PROVE  /\ Attempted(coll[r], d) => Attempted(coll[r], d)'
             /\ named[coll[r]][d] # None => named'[coll[r]][d] # None
    BY <1>1, <1>2, <1>3, AttemptedStays, NamesStay
<1>4. ASSUME coll'[r] = coll[r], pc[r] \in Busy, todo[r] \subseteq todo'[r],
             repaired'[r] = repaired[r], NEW d \in Docs, Ahead(r, d)
      PROVE  Ahead(r, d)'
    BY <1>3, <1>4 DEF Ahead, Attempted
<1>5. CASE SameTask(r)
    <2>1. /\ pc'[r] = pc[r] /\ coll'[r] = coll[r] /\ corpus'[r] = corpus[r] /\ pc[r] \in Busy
          /\ missing'[r] = missing[r] /\ todo'[r] = todo[r] /\ repaired'[r] = repaired[r]
        BY <1>5 DEF SameTask
    <2>2. CorpusAhead(r) /\ exists[coll[r]]
        BY <1>2, <2>1
    <2>3. status'[r] # "deleted" => status[r] # "deleted"
        BY DeletedStays
    <2>4. \A d \in Docs : Ahead(r, d) => Ahead(r, d)'
        BY <1>4, <2>1
    <2>5. \A d \in Docs : Attempted(coll[r], d) => Attempted(coll[r], d)'
        BY <1>3, <2>1
    <2> QED
        BY <1>0, <2>1, <2>2, <2>3, <2>4, <2>5 DEF CorpusAhead, Attempted
<1>6. CASE Task(r) /\ pc'[r] = "registering"
    <2>0. SUFFICES \A d \in corpus'[r] \ missing'[r] : Ahead(r, d)'
        BY <1>6 DEF CorpusAhead, Past
    <2>1. CASE CreateCollection(r)
        BY <2>1 DEF CreateCollection, TypeOK, plan
    <2>2. CASE \E c \in Collections : Reuse(r, c)
        <3>1. PICK c \in Collections : Reuse(r, c)
            BY <2>2
        <3>2. ~repaired[r]
            BY <3>1 DEF Reuse, CorpusInv, OwnRows, Early
        <3>3. /\ coll'[r] = c /\ named' = named /\ corpus' = corpus /\ ~repaired'[r]
              /\ missing'[r] = {d \in corpus[r] : named[c][d] = None}
            BY <3>1, <3>2 DEF Reuse, TypeOK, plan
        <3> QED
            BY <3>3 DEF Ahead
    <2>3. CASE \E e \in Docs : Register(r, e)
        <3>1. PICK e \in Docs : Register(r, e)
            BY <2>3
        <3>2. pc[r] = "registering" /\ coll' = coll /\ corpus' = corpus /\ repaired' = repaired
            BY <3>1 DEF Register, plan
        <3>3. missing'[r] = missing[r] \ {e} /\ todo'[r] = todo[r] \union {<<e, r>>}
            BY <3>1 DEF Register, TypeOK
        <3>4. pc[r] \in Busy /\ CorpusAhead(r) /\ exists[coll[r]]
            BY <1>2, <3>2 DEF Busy
        <3>5. \A d \in Docs : Ahead(r, d) => Ahead(r, d)'
            BY <1>4, <3>2, <3>3, <3>4
        <3>6. Ahead(r, e)'
            <4>1. <<e, r>> \in todo'[r] /\ <<e, r>>[1] = e
                BY <3>3
            <4> QED
                BY <4>1 DEF Ahead
        <3>7. \A d \in corpus[r] \ missing[r] : Ahead(r, d)
            BY <3>2, <3>4 DEF CorpusAhead
        <3> QED
            BY <1>0, <3>2, <3>3, <3>5, <3>6, <3>7
    <2> QED
        BY <1>6, <2>1, <2>2, <2>3, LabelSteps
<1>7. CASE Task(r) /\ pc'[r] = "ingesting"
    <2>0. SUFFICES ASSUME status'[r] # "deleted", NEW d \in corpus'[r]
                   PROVE  Ahead(r, d)'
        BY <1>7 DEF CorpusAhead, Past
    <2>1. status[r] # "deleted" /\ d \in Docs
        <3>1. status[r] # "deleted"
            BY <2>0, DeletedStays
        <3> QED
            BY <1>0, <3>1
    <2>2. CASE Registered(r)
        <3>1. /\ pc[r] = "registering" /\ missing[r] = {} /\ coll' = coll
              /\ corpus' = corpus /\ todo' = todo /\ repaired' = repaired
            BY <2>2 DEF Registered, plan, ingest
        <3>2. pc[r] \in Busy /\ CorpusAhead(r) /\ exists[coll[r]]
            BY <1>2, <3>1 DEF Busy
        <3>3. Ahead(r, d)
            BY <3>1, <3>2 DEF CorpusAhead
        <3> QED
            BY <1>4, <2>1, <3>1, <3>2, <3>3
    <2>3. CASE Repair(r) \/ \E x \in Rows : BeginIngest(r, x) \/ EndIngest(r, x)
        <3>1. pc[r] = "ingesting" /\ coll' = coll /\ corpus' = corpus
            BY <2>3 DEF Repair, Drained, BeginIngest, EndIngest, plan
        <3>2. pc[r] \in Busy /\ coll[r] \in Collections /\ CorpusAhead(r) /\ exists[coll[r]]
            BY <1>2, <3>1 DEF Busy
        <3>3. Ahead(r, d)
            BY <2>1, <3>1, <3>2 DEF CorpusAhead
        <3>4. ASSUME NEW x \in Rows, BeginIngest(r, x) PROVE Ahead(r, d)'
            <4>1. PICK e \in Docs, o \in Runs : x = <<e, o>>
                BY DEF Rows
            <4>2. x \in todo[r] /\ todo'[r] = todo[r] \ {x} /\ repaired' = repaired
                BY <3>4 DEF BeginIngest, TypeOK
            <4>3. doc[coll[r]][x] # "none"
                BY <3>1, <3>2, <4>2 DEF CorpusInv, RowsExist
            <4>4. doc' = [doc EXCEPT ![coll[r]][x] = "processing"]
                BY <3>4, <4>3 DEF BeginIngest
            <4>5. doc'[coll[r]][x] = "processing"
                BY <3>2, <4>4 DEF TypeOK
            <4>6. CASE e = d
                BY <3>1, <4>1, <4>5, <4>6 DEF Ahead, Attempted, Taken
            <4>7. CASE e # d
                <5>1. named' = named
                    BY <3>4 DEF BeginIngest
                <5>2. Attempted(coll[r], d) => Attempted(coll[r], d)'
                    <6>1. ASSUME NEW q \in Runs
                          PROVE  doc'[coll[r]][<<d, q>>] = doc[coll[r]][<<d, q>>]
                        <7>1. <<d, q>> # x
                            BY <4>1, <4>7
                        <7>2. <<d, q>> \in Rows
                            BY <2>1 DEF Rows
                        <7> QED
                            BY <3>2, <4>4, <7>1, <7>2 DEF TypeOK
                    <6> QED
                        BY <3>1, <6>1 DEF Attempted
                <5>3. \A y \in todo[r] : y[1] = d => y \in todo'[r]
                    BY <4>1, <4>2, <4>7
                <5> QED
                    BY <3>1, <3>3, <4>2, <5>1, <5>2, <5>3 DEF Ahead
            <4> QED
                BY <4>6, <4>7
        <3>5. ASSUME NEW x \in Rows, EndIngest(r, x) PROVE Ahead(r, d)'
            <4>1. repaired' = repaired /\ todo' = todo
                BY <2>1, <3>5 DEF EndIngest
            <4> QED
                BY <1>4, <2>1, <3>1, <3>2, <3>3, <4>1
        <3>6. CASE Repair(r)
            <4>1. doc' = doc /\ todo[r] = {}
                BY <3>6 DEF Repair, Drained, colls
            <4>2. todo'[r] = {<<f, named[coll[r]][f]>> : f \in
                    {e \in corpus[r] : named[coll[r]][e] # None
                        /\ doc[coll[r]][<<e, named[coll[r]][e]>>] \in {"pending", "failed"}}}
                BY <3>6 DEF Repair, TypeOK
            <4>3. CASE Attempted(coll[r], d)
                BY <3>1, <4>1, <4>3 DEF Ahead, Attempted
            <4>4. CASE named[coll[r]][d] # None
                <5> DEFINE o == named[coll[r]][d]
                <5>1. o \in Runs /\ <<d, o>> \in Rows
                    BY <2>1, <3>2, <4>4 DEF TypeOK, Rows
                <5>2. doc[coll[r]][<<d, o>>] # "none"
                    BY <2>1, <3>2, <4>4 DEF CorpusInv, RowsExist
                <5>3. doc[coll[r]][<<d, o>>] \in {"none", "pending", "processing", "ready", "failed"}
                    BY <3>2, <5>1 DEF TypeOK
                <5>4. CASE doc[coll[r]][<<d, o>>] \in Taken
                    BY <4>3, <5>1, <5>4 DEF Attempted
                <5>5. CASE doc[coll[r]][<<d, o>>] = "pending"
                    <6>1. <<d, o>> \in todo'[r]
                        BY <3>1, <4>2, <4>4, <5>5
                    <6>2. <<d, o>>[1] = d
                        OBVIOUS
                    <6> QED
                        BY <6>1, <6>2 DEF Ahead
                <5> QED
                    BY <5>2, <5>3, <5>4, <5>5 DEF Taken
            <4> QED
                BY <3>3, <4>1, <4>3, <4>4 DEF Ahead
        <3> QED
            BY <2>3, <3>4, <3>5, <3>6
    <2> QED
        BY <1>7, <2>2, <2>3, LabelSteps
<1>8. CASE Task(r) /\ pc'[r] \in Past
    <2>0. SUFFICES ASSUME NEW d \in corpus'[r]
                   PROVE  Attempted(coll[r], d)' /\ coll'[r] = coll[r]
        BY <1>8 DEF CorpusAhead, Past, Attempted
    <2>1. CASE Collect(r)
        <3>1. /\ pc[r] = "ingesting" /\ todo[r] = {} /\ repaired[r] /\ status[r] # "deleted"
              /\ coll' = coll /\ corpus' = corpus
            BY <2>1 DEF Collect, Drained, plan
        <3>2. pc[r] \in Busy /\ CorpusAhead(r) /\ exists[coll[r]]
            BY <1>2, <3>1 DEF Busy
        <3>3. Attempted(coll[r], d)
            BY <3>1, <3>2 DEF CorpusAhead, Ahead
        <3> QED
            BY <1>0, <1>3, <3>1, <3>2, <3>3
    <2>2. CASE pc[r] \in Past \union {"finalizing"} /\ coll'[r] = coll[r] /\ corpus'[r] = corpus[r]
        <3>1. pc[r] \in Past
            BY <1>8, <2>2, FinalizingEnds DEF Past
        <3>2. pc[r] \in Busy /\ CorpusAhead(r) /\ exists[coll[r]]
            BY <1>2, <2>2, <3>1 DEF Busy
        <3>3. Attempted(coll[r], d)
            BY <2>2, <3>1, <3>2 DEF CorpusAhead
        <3> QED
            BY <1>0, <1>3, <2>2, <3>2, <3>3
    <2> QED
        BY <1>8, <2>1, <2>2, LabelSteps
<1> QED
    BY <1>1, <1>5, <1>6, <1>7, <1>8, TaskFrame DEF Busy

LEMMA CorpusStep == IInv /\ CorpusInv /\ [Next]_vars => CorpusInv'
<1> SUFFICES ASSUME IInv, CorpusInv, [Next]_vars PROVE CorpusInv'
    OBVIOUS
<1>0. TypeOK /\ CollOf
    BY DEF IInv
<1>1. CreatedOnce' /\ RowsExist' /\ \A r \in Runs : OwnRows(r)'
    BY <1>0, CreatedOnceStep, RowsExistStep, OwnRowsStep DEF CorpusInv
<1>2. ASSUME NEW r \in Runs, pc'[r] \in Busy
      PROVE  coll'[r] \in Collections /\ CorpusAhead(r)'
    <2>1. exists'[coll'[r]] => CorpusAhead(r)'
        BY <1>0, <1>2, CorpusAheadStep
    <2>2. ~exists'[coll'[r]] => CorpusAhead(r)'
        BY DEF CorpusAhead
    <2> QED
        BY <1>0, <1>2, <2>1, <2>2, CollStays
<1> QED
    BY <1>1, <1>2 DEF CorpusInv, Busy

LEMMA CorpusInit == Init => CorpusInv
BY DEF Init, CorpusInv, CreatedOnce, OwnRows, RowsExist, CorpusAhead, Early, Busy, Past,
       Collections, Rows

LEMMA CorpusInvHolds == Spec => []CorpusInv
BY CorpusInit, CorpusStep, IInvHolds, PTL DEF Spec

\* A row is only `processing` while its ingest is under way.
Held == \A c \in Collections, x \in Rows : doc[c][x] = "processing" => InHand(c, x)

\* A step that writes one row.
LEMMA RowWritten ==
    ASSUME TypeOK, NEW c \in Collections, NEW x \in Rows, NEW s,
           doc' = [doc EXCEPT ![c][x] = s]
    PROVE  /\ doc'[c][x] = s
           /\ \A e \in Collections, y \in Rows : e # c \/ y # x => doc'[e][y] = doc[e][y]
BY DEF TypeOK

\* A step that writes no row, and ends no run's ingests, keeps what is in hand.
LEMMA InHandStays ==
    ASSUME Held, UNCHANGED <<doc, queued, busy>>,
           \A q \in Runs : busy[q] # {} /\ pc[q] = "ingesting" =>
                             pc'[q] = "ingesting" /\ coll'[q] = coll[q]
    PROVE  Held'
<1> SUFFICES ASSUME NEW c \in Collections, NEW x \in Rows, doc[c][x] = "processing",
                    <<c, x>> \notin queued
             PROVE  \E q \in Runs : coll'[q] = c /\ pc'[q] = "ingesting" /\ x \in busy'[q]
    BY DEF Held, InHand
<1>1. PICK q \in Runs : coll[q] = c /\ pc[q] = "ingesting" /\ x \in busy[q]
    BY DEF Held, InHand
<1> QED
    BY <1>1

LEMMA HeldByTask ==
    ASSUME TypeOK, CollOf, Held, NEW r \in Runs, Task(r)
    PROVE  Held'
<1> DEFINE Others == \A q \in Runs \ {r} : pc'[q] = pc[q] /\ coll'[q] = coll[q] /\ busy'[q] = busy[q]
<1>1. ASSUME NEW d \in Docs, Register(r, d)
      PROVE  Held'
    <2>1. /\ doc' = [doc EXCEPT ![coll[r]][<<d, r>>] = "pending"]
          /\ UNCHANGED <<pc, coll, busy, queued>>
        BY <1>1 DEF Register, env
    <2>2. coll[r] \in Collections /\ <<d, r>> \in Rows
        BY <1>1 DEF Register, CollOf, Rows
    <2>3. \A c \in Collections, x \in Rows :
              doc'[c][x] = "processing" => doc[c][x] = "processing"
        BY <2>1, <2>2, RowWritten
    <2> QED
        BY <2>1, <2>3 DEF Held, InHand
<1>2. ASSUME NEW y \in Rows, BeginIngest(r, y)
      PROVE  Held'
    <2>1. /\ pc[r] = "ingesting" /\ UNCHANGED <<pc, coll, queued>>
          /\ busy' = [busy EXCEPT ![r] = @ \union {y}]
          /\ doc' = doc \/ doc' = [doc EXCEPT ![coll[r]][y] = "processing"]
        BY <1>2 DEF BeginIngest, env
    <2>2. coll[r] \in Collections
        BY <2>1 DEF CollOf
    <2>3. \A q \in Runs : busy[q] \subseteq busy'[q]
        BY <2>1 DEF TypeOK
    <2>4. \A c \in Collections, x \in Rows : InHand(c, x) => InHand(c, x)'
        BY <2>1, <2>3 DEF InHand
    <2>5. y \in busy'[r]
        BY <2>1 DEF TypeOK
    <2>6. \A c \in Collections : c = coll[r] => InHand(c, y)'
        BY <2>1, <2>5 DEF InHand
    <2>7. \A c \in Collections, x \in Rows : doc'[c][x] = "processing" =>
              doc[c][x] = "processing" \/ (c = coll[r] /\ x = y)
        BY <2>1, <2>2, RowWritten
    <2>8. \A c \in Collections, x \in Rows : doc'[c][x] = "processing" => InHand(c, x)'
        BY <2>4, <2>6, <2>7 DEF Held
    <2> QED
        BY <2>8 DEF Held
<1>3. ASSUME NEW y \in Rows, EndIngest(r, y)
      PROVE  Held'
    <2>1. /\ pc[r] = "ingesting" /\ UNCHANGED <<pc, coll, queued>>
          /\ busy' = [busy EXCEPT ![r] = @ \ {y}]
          /\ \/ \E s \in {"ready", "failed"} : doc' = [doc EXCEPT ![coll[r]][y] = s]
             \/ doc[coll[r]][y] = "none" /\ doc' = doc
        BY <1>3 DEF EndIngest, env
    <2>2. coll[r] \in Collections
        BY <2>1 DEF CollOf
    <2>3. /\ doc'[coll[r]][y] # "processing"
          /\ \A c \in Collections, x \in Rows :
                 doc'[c][x] = "processing" => doc[c][x] = "processing"
        <3>1. CASE doc[coll[r]][y] = "none" /\ doc' = doc
            BY <3>1
        <3>2. CASE \E s \in {"ready", "failed"} : doc' = [doc EXCEPT ![coll[r]][y] = s]
            <4>1. PICK s \in {"ready", "failed"} : doc' = [doc EXCEPT ![coll[r]][y] = s]
                BY <3>2
            <4>2. doc'[coll[r]][y] = s
                BY <2>2, <4>1 DEF TypeOK
            <4>3. ASSUME NEW c \in Collections, NEW x \in Rows
                  PROVE  doc'[c][x] \in {doc[c][x], s}
                BY <2>2, <4>1 DEF TypeOK
            <4> QED
                BY <4>1, <4>2, <4>3
        <3> QED
            BY <2>1, <3>1, <3>2
    <2>5. ASSUME NEW q \in Runs, NEW x \in Rows, x \in busy[q], coll[q] # coll[r] \/ x # y
          PROVE  x \in busy'[q]
        BY <2>1, <2>5 DEF TypeOK
    <2>6. ASSUME NEW c \in Collections, NEW x \in Rows, InHand(c, x), c # coll[r] \/ x # y
          PROVE  InHand(c, x)'
        BY <2>1, <2>5, <2>6 DEF InHand
    <2> QED
        BY <2>3, <2>6 DEF Held
<1>4. ASSUME UNCHANGED <<doc, queued, busy>>, Others,
             pc[r] # "ingesting" \/ busy[r] = {} \/ (pc'[r] = pc[r] /\ coll'[r] = coll[r])
      PROVE  Held'
    BY <1>4, InHandStays
<1>5. CASE Start(r) \/ Plan(r) \/ Announce(r) \/ FindNothing(r) \/ Registered(r)
    BY <1>4, <1>5 DEF Start, Plan, Announce, FindNothing, Registered, Here, Goto, TypeOK,
       colls, plan, ingest, env
<1>6. CASE CreateCollection(r) \/ \E c \in Collections : Reuse(r, c)
    BY <1>4, <1>6 DEF CreateCollection, Reuse, Goto, TypeOK, env
<1>7. CASE Repair(r) \/ Collect(r)
    BY <1>4, <1>7 DEF Repair, Collect, Drained, Goto, TypeOK, colls, plan, ingest, env
<1>8. CASE \/ CheckProvisioned(r) \/ StartQueries(r) \/ NextAnswer(r)
           \/ (\E d \in Docs : Ask(r, d)) \/ (\E a \in answers[r] : Record(r, a))
    BY <1>4, <1>8 DEF CheckProvisioned, StartQueries, NextAnswer, Ask, Record, Here, Goto, TypeOK,
       colls, plan, ingest, env
<1>9. CASE CheckAsked(r) \/ Finalize(r) \/ Raises(r) \/ Dies(r)
    BY <1>4, <1>9 DEF CheckAsked, Finalize, Raises, Dies, Here, Drained, Goto, TypeOK,
       colls, plan, ingest, env
<1> QED
    BY <1>1, <1>2, <1>3, <1>5, <1>6, <1>7, <1>8, <1>9 DEF Task

LEMMA HeldStep ==
    ASSUME IInv, Held, [Next]_vars
    PROVE  Held'
<1>0. TypeOK /\ CollOf
    BY DEF IInv
<1>1. CASE UNCHANGED vars
    BY <1>1 DEF vars, colls, plan, ingest, env, Held, InHand
<1>2. ASSUME NEW r \in Runs, CreateRun(r)
      PROVE  Held'
    <2>1. /\ UNCHANGED <<doc, queued, busy, coll>>
          /\ \A q \in Runs \ {r} : pc'[q] = pc[q]
        BY <1>0, <1>2 DEF CreateRun, Goto, TypeOK, colls, plan, ingest, env
    <2>2. pc[r] # "ingesting"
        BY <1>2 DEF CreateRun, IInv, RunOK, Outcome
    <2> QED
        BY <2>1, <2>2, InHandStays
<1>3. ASSUME NEW r \in Runs, CancelRead(r) \/ CancelWrite(r) \/ DeleteRun(r)
      PROVE  Held'
    <2>1. UNCHANGED <<doc, queued, busy, pc, coll>>
        BY <1>3 DEF CancelRead, CancelWrite, DeleteRun, colls, plan, ingest
    <2> QED
        BY <2>1, InHandStays
<1>4. ASSUME NEW c \in Collections, DeleteCollection(c)
      PROVE  Held'
    <2>1. UNCHANGED <<queued, busy, pc, coll>>
        BY <1>4 DEF DeleteCollection, ingest
    <2>2. \A b \in Collections, x \in Rows : doc'[b][x] = "processing" => doc[b][x] = "processing"
        <3>1. CASE doc' = [doc EXCEPT ![c] = [x \in Rows |-> "none"]]
            BY <1>0, <3>1 DEF TypeOK
        <3>2. CASE doc' = doc
            BY <3>2
        <3> QED
            BY <1>4, <3>1, <3>2 DEF DeleteCollection
    <2> QED
        BY <2>1, <2>2 DEF Held, InHand
<1>5. ASSUME NEW c \in Collections, NEW y \in Rows, QueueClaims(c, y)
      PROVE  Held'
    <2>1. /\ <<c, y>> \in queued /\ UNCHANGED <<queued, busy, pc, coll>>
          /\ doc' = [doc EXCEPT ![c][y] = "processing"]
        BY <1>5 DEF QueueClaims, ingest, env
    <2>2. \A b \in Collections, x \in Rows : InHand(b, x) => InHand(b, x)'
        BY <2>1 DEF InHand
    <2>3. \A b \in Collections, x \in Rows : doc'[b][x] = "processing" =>
              doc[b][x] = "processing" \/ (b = c /\ x = y)
        BY <1>0, <2>1, RowWritten
    <2>4. InHand(c, y)'
        BY <2>1 DEF InHand
    <2> QED
        BY <2>2, <2>3, <2>4 DEF Held
<1>6. ASSUME NEW c \in Collections, NEW y \in Rows, QueueEnds(c, y)
      PROVE  Held'
    <2>1. /\ queued' = queued \ {<<c, y>>} /\ UNCHANGED <<busy, pc, coll>>
          /\ \/ \E s \in {"ready", "failed"} : doc' = [doc EXCEPT ![c][y] = s]
             \/ doc[c][y] # "processing" /\ doc' = doc
        BY <1>6 DEF QueueEnds, ingest
    <2>2. /\ doc'[c][y] # "processing"
          /\ \A b \in Collections, x \in Rows :
                 doc'[b][x] = "processing" => doc[b][x] = "processing"
        <3>1. CASE doc[c][y] # "processing" /\ doc' = doc
            BY <3>1
        <3>2. CASE \E s \in {"ready", "failed"} : doc' = [doc EXCEPT ![c][y] = s]
            <4>1. PICK s \in {"ready", "failed"} : doc' = [doc EXCEPT ![c][y] = s]
                BY <3>2
            <4>2. doc'[c][y] = s
                BY <1>0, <4>1 DEF TypeOK
            <4>3. ASSUME NEW b \in Collections, NEW x \in Rows
                  PROVE  doc'[b][x] \in {doc[b][x], s}
                BY <1>0, <4>1 DEF TypeOK
            <4> QED
                BY <4>1, <4>2, <4>3
        <3> QED
            BY <2>1, <3>1, <3>2
    <2>4. ASSUME NEW b \in Collections, NEW x \in Rows, InHand(b, x), b # c \/ x # y
          PROVE  InHand(b, x)'
        BY <2>1, <2>4 DEF InHand
    <2> QED
        BY <2>2, <2>4 DEF Held
<1>7. CASE Crash
    BY <1>0, <1>7 DEF Crash, TypeOK, Held
<1> QED
    BY <1>1, <1>2, <1>3, <1>4, <1>5, <1>6, <1>7, <1>0, HeldByTask DEF Next, Queue

LEMMA HeldHolds == Spec => []Held
<1>1. Init => Held
    BY DEF Init, Held
<1>2. IInv /\ Held /\ [Next]_vars => Held'
    BY HeldStep
<1> QED
    BY <1>1, <1>2, IInvHolds, PTL DEF Spec

\* Before a run asks anything, no document of its corpus is left out by an earlier
\* run's failure or restart, or by another run that fills the collection: it has a
\* row whose ingest is over, or in the hands of that other run or of the queue
\* (`_missing_docs`, `_reingest_unindexed`).
THEOREM CorpusIsAttempted == Spec => []CorpusAttempted
<1>1. TypeOK /\ CorpusInv /\ Held => CorpusAttempted
    <2> SUFFICES ASSUME TypeOK, CorpusInv, Held, NEW r \in Runs, pc[r] \in Past,
                        exists[coll[r]], NEW d \in corpus[r]
                 PROVE  \E o \in Runs :
                            \/ doc[coll[r]][<<d, o>>] \in {"ready", "failed"}
                            \/ doc[coll[r]][<<d, o>>] = "processing" /\ InHand(coll[r], <<d, o>>)
        BY DEF CorpusAttempted, Past
    <2>1. d \in Docs /\ coll[r] \in Collections /\ Attempted(coll[r], d)
        BY DEF TypeOK, CorpusInv, CorpusAhead, Busy
    <2>2. PICK o \in Runs : doc[coll[r]][<<d, o>>] \in Taken
        BY <2>1 DEF Attempted
    <2>3. <<d, o>> \in Rows
        BY <2>1 DEF Rows
    <2> QED
        BY <2>1, <2>2, <2>3 DEF Held, Taken
<1> QED
    BY <1>1, TypeCorrect, CorpusInvHolds, HeldHolds, PTL
=============================================================================
