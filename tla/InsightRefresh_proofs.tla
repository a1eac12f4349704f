------------------------ MODULE InsightRefresh_proofs ------------------------
(* Theorems about InsightRefresh, for any threads, operations and bounds.     *)
EXTENDS InsightRefresh, FiniteSetTheorems, WellFoundedInduction, TLAPS

USE InsightBounds, InsightFlags

(***************************************************************************)
(* The inductive invariant.                                                *)
(***************************************************************************)

Actors == Threads \union {Worker}
Computing == {"decide", "read", "write"}

\* Rows are created in order.
InOrder == \A i \in Ids : i > created => snapshot[i] = "none"

\* A marker is in the hands of its trigger, in the queue or with the worker,
\* and in one place only ...
OneHolder ==
    /\ \A t \in Actors : stage[t] = "submit" => marker[t] \in 1 .. created
    /\ \A n \in DOMAIN queue : queue[n] \in 1 .. created
    /\ work.at # "idle" => work.id \in 1 .. created
    /\ \A t, u \in Actors :
           stage[t] = "submit" /\ stage[u] = "submit" /\ marker[t] = marker[u] => t = u
    /\ \A m, n \in DOMAIN queue : queue[m] = queue[n] => m = n
    /\ \A t \in Actors, n \in DOMAIN queue : stage[t] = "submit" => marker[t] # queue[n]
    /\ \A t \in Actors : work.at # "idle" /\ stage[t] = "submit" => marker[t] # work.id
    /\ \A n \in DOMAIN queue : work.at # "idle" => queue[n] # work.id

\* ... and not the map before the worker has made it so.
NotYetTheMap ==
    /\ \A t \in Actors : stage[t] = "submit" => snapshot[marker[t]] # "ready"
    /\ \A n \in DOMAIN queue : snapshot[queue[n]] # "ready"
    /\ work.at \in Computing => snapshot[work.id] # "ready"

Markers == InOrder /\ OneHolder /\ NotYetTheMap

IInv == TypeOK /\ Markers /\ PointsExist /\ ExtendsItsOwnLayout

(***************************************************************************)
(* The latest row of a set.                                                *)
(***************************************************************************)

LEMMA LatestFacts ==
    ASSUME NEW S \in SUBSET Ids
    PROVE  /\ S = {} => Latest(S) = 0
           /\ S # {} => Latest(S) \in S
<1> SUFFICES ASSUME S # {} PROVE Latest(S) \in S
    BY DEF Latest
<1> DEFINE Below == {b \in Nat : \E i \in S : b = MaxSnapshots - i}
<1>1. MaxSnapshots \in Nat /\ S \subseteq Nat /\ \A i \in S : i <= MaxSnapshots
    BY DEF Ids
<1>2. Below \subseteq Nat /\ Below # {}
    <2>1. PICK i \in S : TRUE
        OBVIOUS
    <2>2. MaxSnapshots - i \in Below
        BY <1>1
    <2> QED
        BY <2>2
<1>3. PICK k \in Below : \A j \in Below : ~(<<j, k>> \in OpToRel(<, Nat))
    <2> HIDE DEF Below
    <2>1. PICK j0 \in Below : TRUE
        BY <1>2
    <2> QED
        BY <1>2, <2>1, NatLessThanWellFounded, WFMin
<1>4. \A j \in Below : ~(j < k)
    <2> SUFFICES ASSUME NEW j \in Below, j < k PROVE FALSE
        OBVIOUS
    <2>1. j \in Nat /\ k \in Nat
        BY <1>2
    <2>2. <<j, k>> \in OpToRel(<, Nat)
        <3> HIDE DEF Below
        <3> QED
            BY <2>1 DEF OpToRel
    <2> QED
        BY <1>3, <2>2
<1>5. PICK i \in S : k = MaxSnapshots - i
    OBVIOUS
<1>6. \A j \in S : i >= j
    <2> SUFFICES ASSUME NEW j \in S PROVE i >= j
        OBVIOUS
    <2>1. ~(MaxSnapshots - j < k)
        <3>1. MaxSnapshots - j \in Below
            BY <1>1
        <3> QED
            BY <1>4, <3>1
    <2> QED
        BY <1>1, <1>5, <2>1
<1>7. Latest(S) = CHOOSE x \in S : \A y \in S : x >= y
    BY DEF Latest, Max
<1> QED
    BY <1>6, <1>7

\* The map is one of the ready rows, where there are any.
LEMMA ReadyFacts ==
    /\ Ready # 0 => Ready \in Ids /\ snapshot[Ready] = "ready"
    /\ \A i \in Ids : snapshot[i] = "ready" => Ready # 0
<1> DEFINE S == Rows({"ready"})
<1>1. S \in SUBSET Ids /\ \A i \in Ids : i \in S <=> snapshot[i] = "ready"
    BY DEF Rows
<1>2. Ready = Latest(S)
    BY DEF Ready
<1> HIDE DEF S
<1>3. 0 \notin Ids
    BY DEF Ids
<1> QED
    BY <1>1, <1>2, <1>3, LatestFacts

(***************************************************************************)
(* Initially.                                                              *)
(***************************************************************************)

LEMMA InitCorrect == Init => IInv
<1> SUFFICES ASSUME Init PROVE IInv
    OBVIOUS
<1>1. MaxSnapshots \in Nat
    OBVIOUS
<1>2. TypeOK
    <2>1. /\ corpus \subseteq 1 .. minted /\ minted \in Nat /\ created \in 0 .. MaxSnapshots
          /\ {changes, crashes} \subseteq Nat /\ troubled \in BOOLEAN
          /\ bundle \in Ids \union {0} /\ old \subseteq Ids /\ queue \in Seq(Ids)
        <3>1. created \in 0 .. MaxSnapshots
            BY <1>1 DEF Init
        <3>2. queue \in Seq(Ids)
            BY DEF Init
        <3>3. troubled \in BOOLEAN
            BY DEF Init
        <3>4. {changes, crashes} \subseteq Nat /\ minted \in Nat
            BY DEF Init
        <3>5. corpus \subseteq 1 .. minted /\ bundle \in Ids \union {0} /\ old \subseteq Ids
            BY DEF Init
        <3> QED
            BY <3>1, <3>2, <3>3, <3>4, <3>5
    <2>2. /\ snapshot \in [Ids -> {"none", "computing", "ready", "failed"}]
          /\ points \in [Ids -> SUBSET (1 .. minted)] /\ fitted \in [Ids -> SUBSET (1 .. minted)]
          /\ stage \in [Actors -> {"idle", "ingesting", "due", "insert", "submit"}]
          /\ marker \in [Actors -> Ids \union {0}]
        BY DEF Init, Actors
    <2>3. work \in [at : {"idle", "decide", "read", "write", "recheck"}, id : Ids \union {0},
                    before : Nat, base : Ids \union {0}, seen : SUBSET (1 .. minted)]
        BY DEF Init, Rest
    <2> QED
        BY <2>1, <2>2, <2>3 DEF TypeOK, Actors
<1>3. Markers
    BY DEF Init, Markers, InOrder, OneHolder, NotYetTheMap, Actors, Computing, Rest
<1>4. PointsExist /\ ExtendsItsOwnLayout
    BY DEF Init, PointsExist, ExtendsItsOwnLayout, Rest
<1> QED
    BY <1>2, <1>3, <1>4 DEF IInv

(***************************************************************************)
(* What steps that hand no marker on keep.                                 *)
(***************************************************************************)

LEMMA MarkersKept ==
    ASSUME Markers, UNCHANGED <<created, queue, marker>>,
           \A t \in Actors : stage'[t] = "submit" => stage[t] = "submit",
           work'.at # "idle" => work.at # "idle" /\ work'.id = work.id,
           work'.at \in Computing => work.at \in Computing,
           \A i \in Ids : snapshot'[i] = "ready" => snapshot[i] = "ready",
           \A i \in Ids : snapshot[i] = "none" => snapshot'[i] = "none",
           created \in 0 .. MaxSnapshots
    PROVE  Markers'
<1>1. \A i \in 1 .. created : i \in Ids
    BY DEF Ids
<1>2. InOrder'
    BY DEF Markers, InOrder
<1>3. OneHolder'
    BY DEF Markers, OneHolder
<1>4. NotYetTheMap'
    <2>1. \A t \in Actors : stage'[t] = "submit" => snapshot'[marker[t]] # "ready"
        BY <1>1 DEF Markers, OneHolder, NotYetTheMap
    <2>2. \A n \in DOMAIN queue : snapshot'[queue[n]] # "ready"
        BY <1>1 DEF Markers, OneHolder, NotYetTheMap
    <2>3. work'.at \in Computing => snapshot'[work'.id] # "ready"
        <3>1. work.at \in Computing => work.at # "idle"
            BY DEF Computing
        <3> QED
            BY <1>1, <3>1 DEF Markers, OneHolder, NotYetTheMap, Computing
    <2> QED
        BY <2>1, <2>2, <2>3 DEF NotYetTheMap
<1> QED
    BY <1>2, <1>3, <1>4 DEF Markers

LEMMA LayoutKept ==
    ASSUME ExtendsItsOwnLayout,
           work'.at \in {"read", "write"} /\ work'.base # 0 =>
               /\ work.at \in {"read", "write"} /\ work'.base = work.base
               /\ bundle' = bundle /\ snapshot'[work.base] = snapshot[work.base]
    PROVE  ExtendsItsOwnLayout'
BY DEF ExtendsItsOwnLayout

\* What changes only the corpus, the threads' stages and the history.
LEMMA ThreadStep ==
    ASSUME IInv, UNCHANGED <<snapshot, created, fitted, bundle, old, marker, queue, work>>,
           \A t \in Actors : stage'[t] = "submit" => stage[t] = "submit"
    PROVE  Markers' /\ ExtendsItsOwnLayout'
<1>1. created \in 0 .. MaxSnapshots
    BY DEF IInv, TypeOK
<1>2. Markers'
    BY <1>1, MarkersKept DEF IInv
<1>3. ExtendsItsOwnLayout'
    BY LayoutKept DEF IInv
<1> QED
    BY <1>2, <1>3

(***************************************************************************)
(* The corpus changes.                                                     *)
(***************************************************************************)

LEMMA MintCorrect ==
    ASSUME IInv, Mint, UNCHANGED tableVars
    PROVE  /\ minted' \in Nat /\ corpus' \subseteq 1 .. minted'
           /\ points' \in [Ids -> SUBSET (1 .. minted')]
           /\ fitted' \in [Ids -> SUBSET (1 .. minted')]
           /\ work.seen \subseteq 1 .. minted'
           /\ PointsExist'
<1>1. /\ minted \in Nat /\ corpus \subseteq 1 .. minted
      /\ points \in [Ids -> SUBSET (1 .. minted)] /\ fitted \in [Ids -> SUBSET (1 .. minted)]
      /\ work.seen \subseteq 1 .. minted
    BY DEF IInv, TypeOK
<1>2. minted' = minted + 1 /\ corpus' = corpus \union {minted + 1}
    BY DEF Mint
<1>3. points' = points /\ fitted' = fitted
    BY DEF tableVars
<1>4. \A x \in 1 .. minted : x \in 1 .. minted'
    BY <1>1, <1>2
<1>5. minted' \in Nat /\ corpus' \subseteq 1 .. minted'
    BY <1>1, <1>2
<1>6. \A f : f \in [Ids -> SUBSET (1 .. minted)] => f \in [Ids -> SUBSET (1 .. minted')]
    BY <1>4
<1>7. PointsExist'
    BY <1>2, <1>3 DEF IInv, PointsExist
<1> QED
    BY <1>1, <1>3, <1>4, <1>5, <1>6, <1>7

LEMMA PurgeCorrect ==
    ASSUME IInv, NEW c \in corpus, Purge(c)
    PROVE  /\ corpus' \subseteq 1 .. minted /\ points' \in [Ids -> SUBSET (1 .. minted)]
           /\ PointsExist'
<1>1. corpus \subseteq 1 .. minted /\ points \in [Ids -> SUBSET (1 .. minted)]
    BY DEF IInv, TypeOK
<1>2. /\ corpus' = corpus \ {c} /\ points' = [i \in Ids |-> points[i] \ {c}]
    BY DEF Purge
<1>3. \A i \in Ids : points'[i] = points[i] \ {c}
    BY <1>2
<1>4. PointsExist'
    BY <1>2, <1>3 DEF IInv, PointsExist
<1> QED
    BY <1>1, <1>2, <1>4

LEMMA OperateCorrect ==
    ASSUME IInv, NEW t \in Threads, Operate(t) \/ Ingested(t)
    PROVE  IInv'
<1>1. /\ \E s \in {"due", "ingesting"} : stage' = [stage EXCEPT ![t] = s]
      /\ UNCHANGED <<snapshot, created, fitted, bundle, old, marker, queue, work, crashes>>
      /\ changes' \in Nat /\ troubled' \in BOOLEAN
    <2>1. changes \in Nat /\ troubled \in BOOLEAN
        BY DEF IInv, TypeOK
    <2>2. CASE Upload(t)
        BY <2>1, <2>2 DEF Upload, Begin, tableVars
    <2>3. CASE Reingest(t)
        BY <2>1, <2>3 DEF Reingest, Begin, Purge
    <2>4. CASE Delete(t)
        BY <2>1, <2>4 DEF Delete, Begin, Purge
    <2>5. CASE Refresh(t)
        BY <2>1, <2>5 DEF Refresh, Begin, tableVars
    <2>6. CASE Ingested(t)
        BY <2>1, <2>6 DEF Ingested, tableVars, envVars
    <2> QED
        BY <2>2, <2>3, <2>4, <2>5, <2>6 DEF Operate
<1>2. /\ stage' \in [Actors -> {"idle", "ingesting", "due", "insert", "submit"}]
      /\ \A u \in Actors : stage'[u] = "submit" => stage[u] = "submit"
    <2>1. stage \in [Actors -> {"idle", "ingesting", "due", "insert", "submit"}]
        BY DEF IInv, TypeOK, Actors
    <2> QED
        BY <1>1, <2>1
<1>3. Markers' /\ ExtendsItsOwnLayout'
    BY <1>1, <1>2, ThreadStep
<1>4. /\ minted' \in Nat /\ corpus' \subseteq 1 .. minted'
      /\ points' \in [Ids -> SUBSET (1 .. minted')] /\ fitted' \in [Ids -> SUBSET (1 .. minted')]
      /\ work.seen \subseteq 1 .. minted'
      /\ PointsExist'
    <2>1. CASE Upload(t) \/ Ingested(t)
        <3>1. Mint /\ UNCHANGED tableVars
            BY <2>1 DEF Upload, Ingested
        <3> QED
            BY <3>1, MintCorrect
    <2>2. CASE Reingest(t) \/ Delete(t)
        <3>1. PICK c \in corpus : Purge(c)
            BY <2>2 DEF Reingest, Delete
        <3>2. minted' = minted /\ fitted' = fitted
            BY <3>1 DEF Purge
        <3> QED
            BY <3>1, <3>2, PurgeCorrect DEF IInv, TypeOK
    <2>3. CASE Refresh(t)
        <3>1. UNCHANGED <<corpus, minted, points, fitted>>
            BY <2>3 DEF Refresh, corpusVars, tableVars
        <3> QED
            BY <3>1 DEF IInv, TypeOK, PointsExist
    <2> QED
        BY <2>1, <2>2, <2>3 DEF Operate
<1>5. TypeOK'
    BY <1>1, <1>2, <1>4 DEF IInv, TypeOK, Actors
<1> QED
    BY <1>3, <1>4, <1>5 DEF IInv

(***************************************************************************)
(* Triggers.                                                               *)
(***************************************************************************)

LEMMA CheckCorrect ==
    ASSUME IInv, NEW t \in Actors, Check(t)
    PROVE  IInv'
<1>1. /\ \E s \in {"insert", "idle"} : stage' = [stage EXCEPT ![t] = s]
      /\ UNCHANGED <<corpus, minted, snapshot, created, points, fitted, bundle, old, marker, queue,
                     work, changes, crashes, troubled>>
    BY DEF Check, corpusVars, tableVars, envVars
<1>2. /\ stage' \in [Actors -> {"idle", "ingesting", "due", "insert", "submit"}]
      /\ \A u \in Actors : stage'[u] = "submit" => stage[u] = "submit"
    <2>1. stage \in [Actors -> {"idle", "ingesting", "due", "insert", "submit"}]
        BY DEF IInv, TypeOK, Actors
    <2> QED
        BY <1>1, <2>1
<1>3. Markers' /\ ExtendsItsOwnLayout'
    BY <1>1, <1>2, ThreadStep
<1>4. TypeOK' /\ PointsExist'
    BY <1>1, <1>2 DEF IInv, TypeOK, PointsExist, Actors
<1> QED
    BY <1>3, <1>4 DEF IInv

\* A new marker is younger than every other, and in nobody else's hands.
LEMMA InsertCorrect ==
    ASSUME IInv, NEW t \in Actors, Insert(t)
    PROVE  IInv'
<1> DEFINE new == created + 1
<1>1. /\ created \in 0 .. MaxSnapshots /\ new \in Ids /\ created \in Nat
      /\ \A i \in 1 .. created : i \in Ids /\ i # new /\ i \in 1 .. new
    BY DEF IInv, TypeOK, Insert, Ids
<1>2. /\ created' = new /\ snapshot' = [snapshot EXCEPT ![new] = "computing"]
      /\ marker' = [marker EXCEPT ![t] = new] /\ stage' = [stage EXCEPT ![t] = "submit"]
      /\ UNCHANGED <<corpus, minted, points, fitted, bundle, old, queue, work, changes, crashes, troubled>>
      /\ stage[t] = "insert"
    BY DEF Insert, corpusVars, envVars
<1>3. /\ snapshot \in [Ids -> {"none", "computing", "ready", "failed"}]
      /\ marker \in [Actors -> Ids \union {0}]
      /\ stage \in [Actors -> {"idle", "ingesting", "due", "insert", "submit"}]
    BY DEF IInv, TypeOK, Actors
<1>4. /\ created' \in 0 .. MaxSnapshots
      /\ snapshot' \in [Ids -> {"none", "computing", "ready", "failed"}]
      /\ marker' \in [Actors -> Ids \union {0}]
      /\ stage' \in [Actors -> {"idle", "ingesting", "due", "insert", "submit"}]
    BY <1>1, <1>2, <1>3 DEF Insert
<1>5. TypeOK'
    BY <1>2, <1>4 DEF IInv, TypeOK, Actors
<1>6. /\ snapshot'[new] = "computing" /\ \A i \in Ids : i # new => snapshot'[i] = snapshot[i]
      /\ marker'[t] = new /\ \A u \in Actors : u # t => marker'[u] = marker[u] /\ stage'[u] = stage[u]
    BY <1>1, <1>2, <1>3
<1>7. snapshot[new] = "none"
    BY <1>1 DEF IInv, Markers, InOrder
<1> HIDE DEF new
<1>8. InOrder'
    <2>1. \A i \in Ids : i > created' => i > created /\ i # new
        BY <1>1, <1>2 DEF new, Ids
    <2> QED
        BY <1>6, <2>1 DEF IInv, Markers, InOrder
<1>9. OneHolder'
    <2> USE DEF IInv, Markers, OneHolder
    <2>1. \A u \in Actors : stage'[u] = "submit" =>
              \/ u = t /\ marker'[u] = new
              \/ u # t /\ stage[u] = "submit" /\ marker'[u] = marker[u]
        BY <1>6
    <2>2. \A u \in Actors : stage'[u] = "submit" => marker'[u] \in 1 .. new
        <3>1. new \in 1 .. new
            BY <1>1 DEF new
        <3> QED
            BY <1>1, <2>1, <3>1
    <2>3. \A n \in DOMAIN queue : queue[n] \in 1 .. new
        BY <1>1
    <2>4. work.at # "idle" => work.id \in 1 .. new
        BY <1>1
    <2>5. \A u, v \in Actors :
              stage'[u] = "submit" /\ stage'[v] = "submit" /\ marker'[u] = marker'[v] => u = v
        BY <1>1, <2>1
    <2>6. \A u \in Actors, n \in DOMAIN queue : stage'[u] = "submit" => marker'[u] # queue[n]
        BY <1>1, <2>1
    <2>7. \A u \in Actors : work.at # "idle" /\ stage'[u] = "submit" => marker'[u] # work.id
        BY <1>1, <2>1
    <2> QED
        BY <1>2, <2>2, <2>3, <2>4, <2>5, <2>6, <2>7
<1>10. NotYetTheMap'
    <2>1. \A u \in Actors : stage'[u] = "submit" => snapshot'[marker'[u]] # "ready"
        BY <1>1, <1>6 DEF IInv, Markers, OneHolder, NotYetTheMap
    <2>2. \A n \in DOMAIN queue : snapshot'[queue[n]] # "ready"
        BY <1>1, <1>6 DEF IInv, Markers, OneHolder, NotYetTheMap
    <2>3. work.at \in Computing => snapshot'[work.id] # "ready"
        <3>1. work.at \in Computing => work.at # "idle"
            BY DEF Computing
        <3> QED
            BY <1>1, <1>6, <3>1 DEF IInv, Markers, OneHolder, NotYetTheMap
    <2> QED
        BY <1>2, <2>1, <2>2, <2>3 DEF NotYetTheMap
<1>11. ExtendsItsOwnLayout'
    <2>1. work.base \in Ids \union {0}
        BY DEF IInv, TypeOK
    <2> QED
        BY <1>2, <1>6, <1>7, <2>1 DEF IInv, ExtendsItsOwnLayout
<1>12. PointsExist'
    BY <1>2 DEF IInv, PointsExist
<1> QED
    BY <1>5, <1>8, <1>9, <1>10, <1>11, <1>12 DEF IInv, Markers

LEMMA SubmitCorrect ==
    ASSUME IInv, NEW t \in Actors, Submit(t)
    PROVE  IInv'
<1>1. /\ queue' = Append(queue, marker[t]) /\ marker' = [marker EXCEPT ![t] = 0]
      /\ stage' = [stage EXCEPT ![t] = "idle"] /\ stage[t] = "submit"
      /\ UNCHANGED <<corpus, minted, snapshot, created, points, fitted, bundle, old, work, changes,
                     crashes, troubled>>
    BY DEF Submit, corpusVars, tableVars, envVars
<1>2. /\ marker \in [Actors -> Ids \union {0}] /\ queue \in Seq(Ids)
      /\ stage \in [Actors -> {"idle", "ingesting", "due", "insert", "submit"}]
      /\ created \in 0 .. MaxSnapshots
    BY DEF IInv, TypeOK, Actors
<1>3. marker[t] \in 1 .. created /\ marker[t] \in Ids
    BY <1>1, <1>2 DEF IInv, Markers, OneHolder, Ids
<1>4. /\ queue' \in Seq(Ids) /\ marker' \in [Actors -> Ids \union {0}]
      /\ stage' \in [Actors -> {"idle", "ingesting", "due", "insert", "submit"}]
    BY <1>1, <1>2, <1>3
<1>5. TypeOK'
    BY <1>1, <1>4 DEF IInv, TypeOK, Actors
<1>6. /\ \A u \in Actors : stage'[u] = "submit" => u # t /\ stage[u] = "submit" /\ marker'[u] = marker[u]
      /\ \A n \in DOMAIN queue' : \/ n \in DOMAIN queue /\ queue'[n] = queue[n]
                                  \/ n = Len(queue) + 1 /\ queue'[n] = marker[t]
    BY <1>1, <1>2, <1>3
<1>7. OneHolder'
    <2> USE DEF IInv, Markers, OneHolder
    <2>1. \A u \in Actors : stage'[u] = "submit" => marker'[u] \in 1 .. created'
        BY <1>1, <1>6
    <2>2. \A n \in DOMAIN queue' : queue'[n] \in 1 .. created'
        BY <1>1, <1>3, <1>6
    <2>3. \A m, n \in DOMAIN queue' : queue'[m] = queue'[n] => m = n
        BY <1>1, <1>6
    <2>4. \A u \in Actors, n \in DOMAIN queue' : stage'[u] = "submit" => marker'[u] # queue'[n]
        BY <1>1, <1>6
    <2>5. \A n \in DOMAIN queue' : work'.at # "idle" => queue'[n] # work'.id
        BY <1>1, <1>6
    <2> QED
        BY <1>1, <1>6, <2>1, <2>2, <2>3, <2>4, <2>5
<1>8. NotYetTheMap'
    <2> USE DEF IInv, Markers, NotYetTheMap
    <2>1. \A u \in Actors : stage'[u] = "submit" => snapshot'[marker'[u]] # "ready"
        BY <1>1, <1>6
    <2>2. \A n \in DOMAIN queue' : snapshot'[queue'[n]] # "ready"
        BY <1>1, <1>6
    <2> QED
        BY <1>1, <2>1, <2>2 DEF Computing
<1>9. InOrder' /\ ExtendsItsOwnLayout' /\ PointsExist'
    BY <1>1 DEF IInv, Markers, InOrder, ExtendsItsOwnLayout, PointsExist
<1> QED
    BY <1>5, <1>7, <1>8, <1>9 DEF IInv, Markers

(***************************************************************************)
(* The worker.                                                             *)
(***************************************************************************)

LEMMA StartCorrect ==
    ASSUME IInv, Start
    PROVE  IInv'
<1> DEFINE run == [Rest EXCEPT !.at = "decide", !.id = Head(queue), !.before = Cardinality(corpus)]
<1>1. /\ queue # <<>> /\ queue' = Tail(queue) /\ work.at = "idle"
      /\ work' = IF snapshot[Head(queue)] = "none" THEN Rest ELSE run
      /\ UNCHANGED <<corpus, minted, snapshot, created, points, fitted, bundle, old, stage, marker,
                     changes, crashes, troubled>>
    BY DEF Start, corpusVars, tableVars, envVars
<1>2. queue \in Seq(Ids) /\ minted \in Nat /\ corpus \subseteq 1 .. minted
    BY DEF IInv, TypeOK
<1>3. /\ queue' \in Seq(Ids) /\ Head(queue) \in Ids /\ Head(queue) = queue[1] /\ 1 \in DOMAIN queue
      /\ \A n \in DOMAIN queue' : n + 1 \in DOMAIN queue /\ n + 1 # 1 /\ queue'[n] = queue[n + 1]
      /\ \A n \in DOMAIN queue' : n \in Nat
    BY <1>1, <1>2
<1>4. Cardinality(corpus) \in Nat
    <2>1. IsFiniteSet(1 .. minted)
        BY <1>2, FS_Interval
    <2>2. IsFiniteSet(corpus)
        BY <1>2, <2>1, FS_Subset
    <2> QED
        BY <2>2, FS_CardinalityType
<1>5. /\ Rest.at = "idle" /\ Rest.base = 0 /\ run.at = "decide" /\ run.id = Head(queue) /\ run.base = 0
      /\ work' \in [at : {"idle", "decide", "read", "write", "recheck"}, id : Ids \union {0},
                    before : Nat, base : Ids \union {0}, seen : SUBSET (1 .. minted)]
    BY <1>1, <1>3, <1>4 DEF Rest
<1> HIDE DEF run
<1>6. TypeOK'
    BY <1>1, <1>3, <1>5 DEF IInv, TypeOK
<1>7. work'.at # "idle" => work'.id = queue[1]
    BY <1>1, <1>3, <1>5
<1>8. OneHolder'
    <2> USE DEF IInv, Markers, OneHolder
    <2>1. \A n \in DOMAIN queue' : queue'[n] \in 1 .. created
        BY <1>3
    <2>2. work'.at # "idle" => work'.id \in 1 .. created
        BY <1>3, <1>7
    <2>3. \A m, n \in DOMAIN queue' : queue'[m] = queue'[n] => m = n
        <3> SUFFICES ASSUME NEW m \in DOMAIN queue', NEW n \in DOMAIN queue', queue'[m] = queue'[n]
                     PROVE  m = n
            OBVIOUS
        <3>1. m + 1 = n + 1
            BY <1>3
        <3> QED
            BY <1>3, <3>1
    <2>4. \A t \in Actors, n \in DOMAIN queue' : stage[t] = "submit" => marker[t] # queue'[n]
        BY <1>3
    <2>5. \A t \in Actors : work'.at # "idle" /\ stage[t] = "submit" => marker[t] # work'.id
        BY <1>3, <1>7
    <2>6. \A n \in DOMAIN queue' : work'.at # "idle" => queue'[n] # work'.id
        BY <1>3, <1>7
    <2> QED
        BY <1>1, <2>1, <2>2, <2>3, <2>4, <2>5, <2>6
<1>9. NotYetTheMap'
    <2> USE DEF IInv, Markers, NotYetTheMap
    <2>1. \A n \in DOMAIN queue' : snapshot[queue'[n]] # "ready"
        BY <1>3
    <2>2. work'.at \in Computing => snapshot[work'.id] # "ready"
        BY <1>3, <1>7 DEF Computing
    <2> QED
        BY <1>1, <2>1, <2>2
<1>10. ExtendsItsOwnLayout'
    BY <1>1, <1>5, LayoutKept DEF IInv
<1>11. InOrder' /\ PointsExist'
    BY <1>1 DEF IInv, Markers, InOrder, PointsExist
<1> QED
    BY <1>6, <1>8, <1>9, <1>10, <1>11 DEF IInv, Markers

\* A map is extended only if the file on disk is its own.
LEMMA DecideCorrect ==
    ASSUME IInv, Decide
    PROVE  IInv'
<1>1. /\ work.at = "decide"
      /\ \E b \in {0, Ready} : /\ work' = [work EXCEPT !.at = "read", !.base = b]
                               /\ b # 0 => bundle = Ready /\ b = Ready
      /\ UNCHANGED <<corpus, minted, snapshot, created, points, fitted, bundle, old, stage, marker,
                     queue, changes, crashes, troubled>>
    BY DEF Decide, MustRebuild, corpusVars, tableVars, envVars
<1>2. work \in [at : {"idle", "decide", "read", "write", "recheck"}, id : Ids \union {0},
                before : Nat, base : Ids \union {0}, seen : SUBSET (1 .. minted)]
    BY DEF IInv, TypeOK
<1>3. Ready \in Ids \union {0}
    BY ReadyFacts
<1>4. /\ work' \in [at : {"idle", "decide", "read", "write", "recheck"}, id : Ids \union {0},
                    before : Nat, base : Ids \union {0}, seen : SUBSET (1 .. minted)]
      /\ work'.at = "read" /\ work'.id = work.id
      /\ work'.base # 0 => bundle = work'.base /\ work'.base = Ready
    BY <1>1, <1>2, <1>3
<1>5. TypeOK'
    BY <1>1, <1>4 DEF IInv, TypeOK
<1>6. Markers'
    <2>1. created \in 0 .. MaxSnapshots
        BY DEF IInv, TypeOK
    <2> QED
        BY <1>1, <1>4, <2>1, MarkersKept DEF IInv, Computing
<1>7. ExtendsItsOwnLayout'
    BY <1>1, <1>4, ReadyFacts DEF ExtendsItsOwnLayout
<1>8. PointsExist'
    BY <1>1 DEF IInv, PointsExist
<1> QED
    BY <1>5, <1>6, <1>7, <1>8 DEF IInv

LEMMA ReadCorrect ==
    ASSUME IInv, Read
    PROVE  IInv'
<1>1. /\ work.at = "read" /\ work' = [work EXCEPT !.at = "write", !.seen = corpus \ Placed]
      /\ UNCHANGED <<corpus, minted, snapshot, created, points, fitted, bundle, old, stage, marker,
                     queue, changes, crashes, troubled>>
    BY DEF Read, corpusVars, tableVars, envVars
<1>2. /\ corpus \subseteq 1 .. minted
      /\ work \in [at : {"idle", "decide", "read", "write", "recheck"}, id : Ids \union {0},
                   before : Nat, base : Ids \union {0}, seen : SUBSET (1 .. minted)]
    BY DEF IInv, TypeOK
<1>3. corpus \ Placed \in SUBSET (1 .. minted)
    BY <1>2
<1>4. /\ work' \in [at : {"idle", "decide", "read", "write", "recheck"}, id : Ids \union {0},
                    before : Nat, base : Ids \union {0}, seen : SUBSET (1 .. minted)]
      /\ work'.at = "write" /\ work'.id = work.id /\ work'.base = work.base
    BY <1>1, <1>2, <1>3
<1>5. TypeOK'
    BY <1>1, <1>4 DEF IInv, TypeOK
<1>6. Markers'
    <2>1. created \in 0 .. MaxSnapshots
        BY DEF IInv, TypeOK
    <2> QED
        BY <1>1, <1>4, <2>1, MarkersKept DEF IInv, Computing
<1>7. ExtendsItsOwnLayout'
    BY <1>1, <1>4, LayoutKept DEF IInv
<1>8. PointsExist'
    BY <1>1 DEF IInv, PointsExist
<1> QED
    BY <1>5, <1>6, <1>7, <1>8 DEF IInv

\* The rows the new points refer to exist when they are written.
LEMMA ExtendCorrect ==
    ASSUME IInv, Extend
    PROVE  IInv'
<1> DEFINE b == work.base
           grown == points[b] \union work.seen
<1>1. /\ work.at = "write" /\ b # 0 /\ work.seen \subseteq corpus
      /\ points' = [points EXCEPT ![b] = grown]
      /\ snapshot' = [snapshot EXCEPT ![work.id] = "none"]
      /\ work' = [work EXCEPT !.at = "recheck"]
      /\ UNCHANGED <<corpus, minted, created, fitted, bundle, old, stage, marker, queue, changes,
                     crashes, troubled>>
    BY DEF Extend, corpusVars, envVars
<1>2. /\ corpus \subseteq 1 .. minted /\ points \in [Ids -> SUBSET (1 .. minted)]
      /\ snapshot \in [Ids -> {"none", "computing", "ready", "failed"}]
      /\ work \in [at : {"idle", "decide", "read", "write", "recheck"}, id : Ids \union {0},
                   before : Nat, base : Ids \union {0}, seen : SUBSET (1 .. minted)]
      /\ created \in 0 .. MaxSnapshots
    BY DEF IInv, TypeOK
<1>3. b \in Ids /\ work.id \in Ids
    BY <1>1, <1>2 DEF IInv, Markers, OneHolder, Ids
<1>4. grown \subseteq corpus
    BY <1>1, <1>3 DEF IInv, PointsExist
<1> HIDE DEF grown
<1>5. /\ points' \in [Ids -> SUBSET (1 .. minted)]
      /\ \A i \in Ids : points'[i] = points[i] \/ points'[i] = grown
    BY <1>1, <1>2, <1>3, <1>4
<1>6. /\ snapshot' \in [Ids -> {"none", "computing", "ready", "failed"}]
      /\ \A i \in Ids : snapshot'[i] \in {snapshot[i], "none"}
    BY <1>1, <1>2
<1>7. /\ work' \in [at : {"idle", "decide", "read", "write", "recheck"}, id : Ids \union {0},
                    before : Nat, base : Ids \union {0}, seen : SUBSET (1 .. minted)]
      /\ work'.at = "recheck" /\ work'.id = work.id
    BY <1>1, <1>2
<1>8. TypeOK'
    BY <1>1, <1>5, <1>6, <1>7 DEF IInv, TypeOK
<1>9. Markers'
    BY <1>1, <1>2, <1>6, <1>7, MarkersKept DEF IInv, Computing
<1>10. ExtendsItsOwnLayout'
    BY <1>7, LayoutKept DEF IInv
<1>11. PointsExist'
    BY <1>1, <1>4, <1>5 DEF IInv, PointsExist
<1> QED
    BY <1>8, <1>9, <1>10, <1>11 DEF IInv

\* The markers other runs hold go, and none of them becomes the map.
LEMMA ReplaceCorrect ==
    ASSUME IInv, Replace
    PROVE  IInv'
<1> DEFINE id == work.id
<1>1. /\ work.at = "write" /\ work.seen \subseteq corpus
      /\ snapshot' = [i \in Ids |-> IF i = id THEN "ready" ELSE "none"]
      /\ points' = [i \in Ids |-> IF i = id THEN work.seen ELSE {}]
      /\ fitted' = [fitted EXCEPT ![id] = work.seen]
      /\ bundle' = id /\ work' = [work EXCEPT !.at = "recheck"]
      /\ UNCHANGED <<corpus, minted, created, old, stage, marker, queue, changes, crashes, troubled>>
    BY DEF Replace, corpusVars, envVars
<1>2. /\ corpus \subseteq 1 .. minted /\ fitted \in [Ids -> SUBSET (1 .. minted)]
      /\ work \in [at : {"idle", "decide", "read", "write", "recheck"}, id : Ids \union {0},
                   before : Nat, base : Ids \union {0}, seen : SUBSET (1 .. minted)]
      /\ created \in 0 .. MaxSnapshots
    BY DEF IInv, TypeOK
<1>3. /\ id \in Ids /\ id \in 1 .. created
      /\ \A i \in 1 .. created : i \in Ids
    BY <1>1, <1>2 DEF IInv, Markers, OneHolder, Ids
<1>4. \A i \in Ids : snapshot'[i] = (IF i = id THEN "ready" ELSE "none") /\ points'[i] \subseteq corpus
    BY <1>1
<1>5. /\ points' \in [Ids -> SUBSET (1 .. minted)] /\ fitted' \in [Ids -> SUBSET (1 .. minted)]
      /\ snapshot' \in [Ids -> {"none", "computing", "ready", "failed"}]
      /\ bundle' \in Ids \union {0}
    BY <1>1, <1>2, <1>3
<1>6. /\ work' \in [at : {"idle", "decide", "read", "write", "recheck"}, id : Ids \union {0},
                    before : Nat, base : Ids \union {0}, seen : SUBSET (1 .. minted)]
      /\ work'.at = "recheck" /\ work'.id = id
    BY <1>1, <1>2
<1>7. TypeOK'
    BY <1>1, <1>5, <1>6 DEF IInv, TypeOK
<1>8. InOrder'
    <2>1. \A i \in Ids : i > created => i # id
        BY <1>2, <1>3 DEF Ids
    <2> QED
        BY <1>1, <1>4, <2>1 DEF InOrder
<1>9. OneHolder'
    BY <1>1, <1>6 DEF IInv, Markers, OneHolder
<1>10. NotYetTheMap'
    <2> USE DEF IInv, Markers, OneHolder
    <2>1. \A t \in Actors : stage[t] = "submit" => snapshot'[marker[t]] # "ready"
        BY <1>1, <1>3, <1>4
    <2>2. \A n \in DOMAIN queue : snapshot'[queue[n]] # "ready"
        BY <1>1, <1>3, <1>4
    <2> QED
        BY <1>1, <1>6, <2>1, <2>2 DEF NotYetTheMap, Computing
<1>11. ExtendsItsOwnLayout'
    BY <1>6, LayoutKept DEF IInv
<1>12. PointsExist'
    BY <1>1, <1>4 DEF PointsExist
<1> QED
    BY <1>7, <1>8, <1>9, <1>10, <1>11, <1>12 DEF IInv, Markers

LEMMA FailCorrect ==
    ASSUME IInv, Fail
    PROVE  IInv'
<1>1. /\ work.at \in {"decide", "read", "write", "recheck"}
      /\ snapshot' = [snapshot EXCEPT ![work.id] = IF @ = "none" THEN @ ELSE "failed"]
      /\ bundle' \in {bundle} \union {work.id} /\ work' = Rest
      /\ troubled' \in BOOLEAN
      /\ UNCHANGED <<corpus, minted, created, points, fitted, old, stage, marker, queue, changes, crashes>>
    BY DEF Fail, Impossible, FileLeft, corpusVars
<1>2. /\ snapshot \in [Ids -> {"none", "computing", "ready", "failed"}]
      /\ work.id \in Ids \union {0} /\ bundle \in Ids \union {0} /\ minted \in Nat
      /\ created \in 0 .. MaxSnapshots
    BY DEF IInv, TypeOK
<1>3. /\ snapshot' \in [Ids -> {"none", "computing", "ready", "failed"}]
      /\ \A i \in Ids : snapshot'[i] = snapshot[i] \/ (snapshot[i] # "none" /\ snapshot'[i] = "failed")
    BY <1>1, <1>2
<1>4. /\ work' \in [at : {"idle", "decide", "read", "write", "recheck"}, id : Ids \union {0},
                    before : Nat, base : Ids \union {0}, seen : SUBSET (1 .. minted)]
      /\ work'.at = "idle"
    BY <1>1 DEF Rest
<1>5. TypeOK'
    BY <1>1, <1>2, <1>3, <1>4 DEF IInv, TypeOK
<1>6. Markers'
    BY <1>1, <1>2, <1>3, <1>4, MarkersKept DEF IInv, Computing
<1>7. ExtendsItsOwnLayout'
    BY <1>4, LayoutKept DEF IInv
<1>8. PointsExist'
    BY <1>1 DEF IInv, PointsExist
<1> QED
    BY <1>5, <1>6, <1>7, <1>8 DEF IInv

LEMMA RecheckCorrect ==
    ASSUME IInv, Recheck
    PROVE  IInv'
<1>1. /\ \E s \in {"due", stage[Worker]} : stage' = [stage EXCEPT ![Worker] = s]
      /\ work' = Rest
      /\ UNCHANGED <<corpus, minted, snapshot, created, points, fitted, bundle, old, marker, queue,
                     changes, crashes, troubled>>
    BY DEF Recheck, corpusVars, tableVars, envVars
<1>2. /\ stage \in [Actors -> {"idle", "ingesting", "due", "insert", "submit"}]
      /\ minted \in Nat /\ created \in 0 .. MaxSnapshots /\ Worker \in Actors
    BY DEF IInv, TypeOK, Actors
<1>3. /\ stage' \in [Actors -> {"idle", "ingesting", "due", "insert", "submit"}]
      /\ \A t \in Actors : stage'[t] = "submit" => stage[t] = "submit"
    BY <1>1, <1>2
<1>4. /\ work' \in [at : {"idle", "decide", "read", "write", "recheck"}, id : Ids \union {0},
                    before : Nat, base : Ids \union {0}, seen : SUBSET (1 .. minted)]
      /\ work'.at = "idle"
    BY <1>1 DEF Rest
<1>5. TypeOK'
    BY <1>1, <1>3, <1>4 DEF IInv, TypeOK, Actors
<1>6. Markers'
    BY <1>1, <1>2, <1>3, <1>4, MarkersKept DEF IInv, Computing
<1>7. ExtendsItsOwnLayout'
    BY <1>4, LayoutKept DEF IInv
<1>8. PointsExist'
    BY <1>1 DEF IInv, PointsExist
<1> QED
    BY <1>5, <1>6, <1>7, <1>8 DEF IInv

(***************************************************************************)
(* Time and crashes.                                                       *)
(***************************************************************************)

LEMMA AgeCorrect ==
    ASSUME IInv, Age
    PROVE  IInv'
<1>1. /\ old' \subseteq Ids /\ troubled' \in BOOLEAN
      /\ UNCHANGED <<corpus, minted, snapshot, created, points, fitted, bundle, stage, marker, queue,
                     work, changes, crashes>>
    BY DEF Age, Rows, corpusVars, IInv, TypeOK
<1>2. TypeOK'
    BY <1>1 DEF IInv, TypeOK
<1>3. Markers'
    BY <1>1, MarkersKept DEF IInv, TypeOK
<1>4. ExtendsItsOwnLayout' /\ PointsExist'
    BY <1>1 DEF IInv, ExtendsItsOwnLayout, PointsExist
<1> QED
    BY <1>2, <1>3, <1>4 DEF IInv

LEMMA CrashCorrect ==
    ASSUME IInv, Crash
    PROVE  IInv'
<1>1. /\ stage' = [t \in DOMAIN stage |-> "idle"] /\ marker' = [t \in DOMAIN marker |-> 0]
      /\ queue' = <<>> /\ work' = Rest /\ troubled' \in BOOLEAN /\ crashes' = crashes + 1
      /\ bundle' \in {bundle} \union {work.id}
      /\ UNCHANGED <<corpus, minted, snapshot, created, points, fitted, old, changes>>
    BY DEF Crash, FileLeft, corpusVars
<1>2. /\ DOMAIN stage = Actors /\ DOMAIN marker = Actors /\ minted \in Nat /\ crashes \in Nat
      /\ bundle \in Ids \union {0} /\ work.id \in Ids \union {0}
    BY DEF IInv, TypeOK, Actors
<1>3. /\ stage' \in [Actors -> {"idle", "ingesting", "due", "insert", "submit"}]
      /\ marker' \in [Actors -> Ids \union {0}] /\ \A t \in Actors : stage'[t] = "idle"
    BY <1>1, <1>2
<1>4. queue' \in Seq(Ids) /\ DOMAIN queue' = {}
    BY <1>1
<1>5. /\ work' \in [at : {"idle", "decide", "read", "write", "recheck"}, id : Ids \union {0},
                    before : Nat, base : Ids \union {0}, seen : SUBSET (1 .. minted)]
      /\ work'.at = "idle"
    BY <1>1 DEF Rest
<1>6. crashes' \in Nat /\ bundle' \in Ids \union {0}
    BY <1>1, <1>2
<1>7. TypeOK'
    BY <1>1, <1>3, <1>4, <1>5, <1>6 DEF IInv, TypeOK, Actors
<1>8. Markers'
    BY <1>1, <1>3, <1>4, <1>5 DEF IInv, Markers, InOrder, OneHolder, NotYetTheMap, Computing
<1>9. ExtendsItsOwnLayout' /\ PointsExist'
    BY <1>1, <1>5 DEF IInv, ExtendsItsOwnLayout, PointsExist
<1> QED
    BY <1>7, <1>8, <1>9 DEF IInv

(***************************************************************************)
(* The theorems.                                                           *)
(***************************************************************************)

LEMMA NextCorrect == IInv /\ [Next]_vars => IInv'
<1> SUFFICES ASSUME IInv, [Next]_vars PROVE IInv'
    OBVIOUS
<1>1. CASE UNCHANGED vars
    <2>1. UNCHANGED <<corpus, minted, snapshot, created, points, fitted, bundle, old, stage, marker,
                      queue, work, changes, crashes, troubled>>
        BY <1>1 DEF vars, corpusVars, tableVars, envVars
    <2>2. TypeOK' /\ PointsExist' /\ ExtendsItsOwnLayout'
        BY <2>1 DEF IInv, TypeOK, PointsExist, ExtendsItsOwnLayout
    <2>3. Markers'
        BY <2>1, MarkersKept DEF IInv, TypeOK
    <2> QED
        BY <2>2, <2>3 DEF IInv
<1>2. ASSUME NEW t \in Threads, Operate(t) \/ Ingested(t)
      PROVE  IInv'
    BY <1>2, OperateCorrect
<1>3. ASSUME NEW t \in Actors, Trigger(t)
      PROVE  IInv'
    BY <1>3, CheckCorrect, InsertCorrect, SubmitCorrect DEF Trigger
<1>4. CASE Compute
    BY <1>4, StartCorrect, DecideCorrect, ReadCorrect, ExtendCorrect, ReplaceCorrect, FailCorrect,
       RecheckCorrect DEF Compute
<1>5. CASE Age \/ Crash
    BY <1>5, AgeCorrect, CrashCorrect
<1> QED
    BY <1>1, <1>2, <1>3, <1>4, <1>5 DEF Next, Actors

\* A step that leaves some row ready leaves the collection a map; only the
\* failing check for a follow-up run takes the last one away.
LEMMA MapKept ==
    ASSUME IInv, [Next]_vars, Ready # 0, work.at # "recheck"
    PROVE  \E i \in Ids : snapshot'[i] = "ready"
<1>1. Ready \in Ids /\ snapshot[Ready] = "ready"
    BY ReadyFacts
<1>2. CASE UNCHANGED snapshot
    BY <1>1, <1>2
<1>3. ASSUME NEW t \in Actors, Insert(t)
      PROVE  \E i \in Ids : snapshot'[i] = "ready"
    <2>1. snapshot' = [snapshot EXCEPT ![created + 1] = "computing"] /\ created \in Nat
        BY <1>3 DEF Insert, IInv, TypeOK
    <2>2. snapshot[created + 1] # "ready" \/ created + 1 \notin Ids
        BY <2>1 DEF IInv, Markers, InOrder
    <2>3. snapshot'[Ready] = "ready"
        BY <1>1, <2>1, <2>2 DEF IInv, TypeOK
    <2> QED
        BY <1>1, <2>3
<1>4. CASE Extend \/ Fail
    <2>1. work.at \in Computing
        BY <1>4 DEF Extend, Fail, Impossible, Computing
    <2>2. snapshot[work.id] # "ready"
        BY <2>1 DEF IInv, Markers, NotYetTheMap
    <2>3. \E v \in {"none", "failed"} : snapshot' = [snapshot EXCEPT ![work.id] = v]
        BY <1>4, <2>1 DEF Extend, Fail
    <2>4. snapshot'[Ready] = "ready"
        BY <1>1, <2>2, <2>3 DEF IInv, TypeOK
    <2> QED
        BY <1>1, <2>4
<1>5. CASE Replace
    <2>1. work.id \in Ids /\ snapshot'[work.id] = "ready"
        BY <1>5 DEF Replace, IInv, TypeOK, Markers, OneHolder, Ids
    <2> QED
        BY <2>1
<1>6. \/ UNCHANGED snapshot
      \/ \E t \in Actors : Insert(t)
      \/ Extend \/ Fail \/ Replace
    <2>1. CASE UNCHANGED vars
        BY <2>1 DEF vars, tableVars
    <2>2. ASSUME NEW t \in Threads, Operate(t) \/ Ingested(t)
          PROVE  UNCHANGED snapshot
        BY <2>2 DEF Operate, Upload, Reingest, Delete, Refresh, Ingested, Purge, tableVars
    <2>3. ASSUME NEW t \in Actors, Trigger(t)
          PROVE  UNCHANGED snapshot \/ Insert(t)
        BY <2>3 DEF Trigger, Check, Submit, tableVars
    <2>4. CASE Compute
        BY <2>4 DEF Compute, Start, Decide, Read, Recheck, tableVars
    <2>5. CASE Age \/ Crash
        BY <2>5 DEF Age, Crash, tableVars
    <2> QED
        BY <2>1, <2>2, <2>3, <2>4, <2>5 DEF Next, Actors
<1> QED
    BY <1>2, <1>3, <1>4, <1>5, <1>6

\* Type correctness.
THEOREM TypeCorrect == Spec => []TypeOK
<1>1. IInv => TypeOK
    BY DEF IInv
<1> QED
    BY <1>1, InitCorrect, NextCorrect, PTL DEF Spec

\* Whatever purges and computations overlap, no snapshot places a chunk that is
\* gone.
THEOREM PointsAlwaysExist == Spec => []PointsExist
<1>1. IInv => PointsExist
    BY DEF IInv
<1> QED
    BY <1>1, InitCorrect, NextCorrect, PTL DEF Spec

\* The worker extends a map only with the model the map was fitted with, however
\* crashes and failures leave file and rows apart.
THEOREM LayoutIsItsOwn == Spec => []ExtendsItsOwnLayout
<1>1. IInv => ExtendsItsOwnLayout
    BY DEF IInv
<1> QED
    BY <1>1, InitCorrect, NextCorrect, PTL DEF Spec

\* A collection that has a map keeps one through failures, crashes and any
\* number of triggers, the failing follow-up check excepted.
THEOREM MapIsKept == Spec => OnlyRecheckLosesTheMap
<1>1. (\A i \in Ids : snapshot[i] = "ready" => Ready # 0)'
    BY ReadyFacts, PTL
<1>2. ASSUME IInv, [Next]_vars
      PROVE  [(Ready # 0 /\ Ready' = 0) => work.at = "recheck"]_<<snapshot, work>>
    BY <1>1, <1>2, MapKept
<1> QED
    BY <1>2, InitCorrect, NextCorrect, PTL DEF Spec, OnlyRecheckLosesTheMap
============================================================================
