----------------------- MODULE DocumentIngestion_proofs -----------------------
(* Theorems about DocumentIngestion, for every value of its constants. *)
EXTENDS DocumentIngestion, FiniteSetTheorems, TLAPS

USE DocsAssumption, IndexAssumption, BoundAssumption, FlagAssumption, ManualAssumption

(***************************************************************************)
(* Typing.                                                                 *)
(***************************************************************************)

\* Recovery enqueues every pending document.
LEMMA OrderingsType ==
    ASSUME NEW S \in SUBSET Docs, NEW s \in Orderings(S)
    PROVE  /\ s \in Seq(Docs)
           /\ \A d \in S : \E i \in DOMAIN s : s[i] = d
<1>1. Cardinality(S) \in Nat
  BY FS_Subset, FS_CardinalityType
<1> QED BY <1>1 DEF Orderings

LEMMA NothingType == Nothing \in [Indexes -> SUBSET Chunks]
BY DEF Nothing

LEMMA FreshType == Fresh \in Memory
BY NothingType DEF Fresh, Memory, Status

LEMMA IdleType == Idle \in Request
<1>1. [d \in Docs |-> "absent"] \in [Docs -> Status]
  BY DEF Status
<1> QED BY <1>1, NothingType DEF Idle, Request

LEMMA InitTyped == Init => TypeOK
<1> SUFFICES ASSUME Init PROVE TypeOK
  OBVIOUS
<1>1. RowsTyped
  BY NothingType DEF Init, RowsTyped, Status
<1>2. PoolTyped
  BY DEF Init, PoolTyped
<1>3. WorkTyped
  BY FreshType DEF Init, WorkTyped, Labels
<1> QED BY <1>1, <1>2, <1>3, IdleType DEF Init, TypeOK

\* A worker moving on, or back to the pool.
LEMMA GotoTyped ==
    ASSUME WorkTyped, NEW w \in Workers, NEW label \in Labels, Goto(w, label),
           job[w] \in Docs, job' = job, mem' = mem
    PROVE  WorkTyped'
BY DEF Goto, WorkTyped

LEMMA DoneTyped ==
    ASSUME WorkTyped, NEW w \in Workers, Done(w)
    PROVE  WorkTyped'
<1>1. pc' \in [Workers -> Labels] /\ job' \in [Workers -> Docs \union {None}]
  BY DEF Done, Goto, WorkTyped, Labels
<1>2. mem' \in [Workers -> Memory]
  BY FreshType DEF Done, WorkTyped
<1>3. ASSUME NEW v \in Workers, pc'[v] # "idle" PROVE job'[v] \in Docs
  BY <1>3 DEF Done, Goto, WorkTyped
<1> QED BY <1>1, <1>2, <1>3 DEF WorkTyped

\* What a worker remembers while its label stays or changes.
LEMMA MemTyped ==
    ASSUME WorkTyped, NEW w \in Workers, NEW m \in Memory, mem' = [mem EXCEPT ![w] = m]
    PROVE  mem' \in [Workers -> Memory]
BY DEF WorkTyped

LEMMA ReqTyped ==
    ASSUME req \in [Requests -> Request], NEW r \in Requests, NEW q \in Request,
           req' = [req EXCEPT ![r] = q]
    PROVE  req' \in [Requests -> Request]
OBVIOUS

LEMMA CommitTyped ==
    ASSUME TypeOK, NEW w \in Workers, CommitVectors(w), job[w] \in Docs
    PROVE  /\ vectors' \in [Docs -> [Indexes -> SUBSET Chunks]]
           /\ req' \in [Requests -> Request]
<1>1. mem[w].put \in [Indexes -> SUBSET Chunks]
  BY DEF TypeOK, WorkTyped, Memory
<1>3. vectors' \in [Docs -> [Indexes -> SUBSET Chunks]]
  BY <1>1 DEF CommitVectors, TypeOK, RowsTyped
<1>4. \A r \in Requests : [req[r] EXCEPT !.known = Nothing] \in Request
  BY NothingType DEF TypeOK, Request
<1>5. req' \in [Requests -> Request]
  BY <1>4 DEF CommitVectors, TypeOK
<1> QED BY <1>3, <1>5

LEMMA WorkerTyped ==
    ASSUME TypeOK, NEW w \in Workers, WorkerStep(w)
    PROVE  TypeOK'
<1> USE DEF TypeOK
<1> DEFINE d == job[w]
<1>1. CASE Take(w)
  <2>1. Head(queue) \in Docs /\ Tail(queue) \in Seq(Docs)
    BY <1>1 DEF Take, PoolTyped
  <2>2. WorkTyped'
    BY <1>1, <2>1 DEF Take, WorkTyped, Labels
  <2> QED BY <1>1, <2>1, <2>2 DEF Take, docVars, envVars, RowsTyped, PoolTyped
<1>2. CASE Claim(w)
  <2>1. d \in Docs
    BY <1>2 DEF Claim, WorkTyped
  <2>2. WorkTyped'
    BY <1>2, <2>1, DoneTyped, GotoTyped DEF Claim, Labels
  <2>3. status' \in [Docs -> Status]
    BY <1>2 DEF Claim, RowsTyped, Status
  <2> QED BY <1>2, <2>2, <2>3 DEF Claim, poolVars, envVars, RowsTyped, PoolTyped
<1>3. CASE Load(w)
  <2>1. d \in Docs
    BY <1>3 DEF Load, WorkTyped
  <2>2. \A writes \in BOOLEAN :
          [mem[w] EXCEPT !.seen = status[d], !.retry = hasRun[d], !.writes = writes] \in Memory
    <3>1. status[d] \in Status /\ hasRun[d] \in BOOLEAN
      BY <2>1 DEF RowsTyped
    <3>2. mem[w] \in Memory
      BY DEF WorkTyped
    <3> QED BY <3>1, <3>2 DEF Memory
  <2>3. CASE Done(w)
    BY <1>3, <2>3, DoneTyped DEF Load, docVars, poolVars, envVars, RowsTyped, PoolTyped
  <2>4. CASE /\ \E writes \in BOOLEAN :
                   mem' = [mem EXCEPT ![w].seen = status[d], ![w].retry = hasRun[d],
                                      ![w].writes = writes]
             /\ Goto(w, "begin") /\ UNCHANGED job
    <3>1. mem' \in [Workers -> Memory]
      <4>1. PICK writes \in BOOLEAN :
              mem' = [mem EXCEPT ![w] = [mem[w] EXCEPT !.seen = status[d], !.retry = hasRun[d],
                                                       !.writes = writes]]
        BY <2>4 DEF WorkTyped
      <4> QED BY <2>2, <4>1, MemTyped
    <3>2. WorkTyped'
      BY <2>1, <2>4, <3>1 DEF Goto, WorkTyped, Labels
    <3> QED BY <1>3, <3>2 DEF Load, docVars, poolVars, envVars, RowsTyped, PoolTyped
  <2> QED BY <1>3, <2>3, <2>4 DEF Load
<1>4. CASE BeginFails(w)
  <2>1. d \in Docs
    BY <1>4 DEF BeginFails, WorkTyped
  <2>2. WorkTyped'
    BY <1>4, <2>1, GotoTyped DEF BeginFails, Labels
  <2> QED BY <1>4, <2>2 DEF BeginFails, docVars, poolVars, envVars, RowsTyped, PoolTyped
<1>5. CASE Begin(w)
  <2>1. d \in Docs
    BY <1>5 DEF Begin, WorkTyped
  <2>2. WorkTyped'
    BY <1>5, <2>1, GotoTyped DEF Begin, Labels
  <2>3. RowsTyped'
    BY <1>5, NothingType DEF Begin, RowsTyped, Status
  <2> QED BY <1>5, <2>2, <2>3 DEF Begin, poolVars, envVars, PoolTyped
<1>6. CASE \E r \in Requests : BeginDeadlock(w, r)
  <2>1. PICK r \in Requests : BeginDeadlock(w, r)
    BY <1>6
  <2>2. d \in Docs
    BY <2>1 DEF BeginDeadlock, WorkTyped
  <2>3. WorkTyped'
    BY <2>1, <2>2, GotoTyped DEF BeginDeadlock, Labels, WorkTyped
  <2>4. req' \in [Requests -> Request]
    BY <2>1, IdleType DEF BeginDeadlock
  <2> QED BY <2>1, <2>3, <2>4 DEF BeginDeadlock, docVars, poolVars, envVars, RowsTyped, PoolTyped
<1>7. CASE Purge(w)
  <2>1. d \in Docs
    BY <1>7 DEF Purge, WorkTyped
  <2>2. WorkTyped'
    BY <1>7, <2>1, GotoTyped DEF Purge, Labels
  <2>3. vectors' \in [Docs -> [Indexes -> SUBSET Chunks]]
    <3>1. PICK failed \in SUBSET External :
                 vectors' = [vectors EXCEPT ![d] = [i \in Indexes |->
                   IF mem[w].retry /\ i \in External \ failed THEN {} ELSE @[i]]]
      BY <1>7 DEF Purge
    <3>2. [i \in Indexes |-> IF mem[w].retry /\ i \in External \ failed
                             THEN {} ELSE vectors[d][i]] \in [Indexes -> SUBSET Chunks]
      BY <2>1 DEF RowsTyped
    <3> QED BY <3>1, <3>2 DEF RowsTyped
  <2> QED BY <1>7, <2>2, <2>3 DEF Purge, poolVars, envVars, RowsTyped, PoolTyped
<1>8. CASE StartRun(w)
  <2>1. d \in Docs
    BY <1>8 DEF StartRun, WorkTyped
  <2>2. mem' = [mem EXCEPT ![w].read = file[d] = "stored"]
    BY <1>8 DEF StartRun
  <2>3. mem[w] \in Memory
    BY DEF WorkTyped
  <2>4. [mem[w] EXCEPT !.read = file[d] = "stored"] \in Memory
    BY <2>3 DEF Memory
  <2>5. WorkTyped'
    BY <1>8, <2>1, <2>2, <2>4 DEF StartRun, Goto, WorkTyped, Labels
  <2> QED BY <1>8, <2>5 DEF StartRun, poolVars, envVars, RowsTyped, PoolTyped
<1>9. CASE StartRunFails(w)
  <2>1. d \in Docs
    BY <1>9 DEF StartRunFails, WorkTyped
  <2>2. WorkTyped'
    BY <1>9, <2>1, GotoTyped DEF StartRunFails, Labels
  <2> QED BY <1>9, <2>2 DEF StartRunFails, docVars, poolVars, envVars, RowsTyped, PoolTyped
<1>10. CASE \E i \in Indexes : Index(w, i)
  <2>1. PICK i \in Indexes : Index(w, i)
    BY <1>10
  <2>2. mem[w] \in Memory
    BY DEF WorkTyped
  <2>3. PICK accepted \in SUBSET Chunks :
          /\ mem' = [mem EXCEPT ![w].wrote = @ \union {i}, ![w].put[i] = accepted]
          /\ vectors' = IF i \in External
                        THEN [vectors EXCEPT ![d][i] = @ \union accepted]
                        ELSE vectors
    BY <2>1 DEF Index
  <2>4. [mem[w].put EXCEPT ![i] = accepted] \in [Indexes -> SUBSET Chunks]
    BY <2>2 DEF Memory
  <2>5. [mem[w] EXCEPT !.wrote = @ \union {i}, !.put[i] = accepted] \in Memory
    BY <2>2, <2>4 DEF Memory
  <2>6. WorkTyped'
    BY <2>1, <2>3, <2>5 DEF Index, WorkTyped
  <2>7. vectors' \in [Docs -> [Indexes -> SUBSET Chunks]]
    <3>1. CASE i \in External
      <4>1. vectors' = [vectors EXCEPT ![d][i] = @ \union accepted]
        BY <2>3, <3>1
      <4>2. d \in Docs
        BY <2>1 DEF Index, WorkTyped
      <4>3. [vectors[d] EXCEPT ![i] = @ \union accepted] \in [Indexes -> SUBSET Chunks]
        BY <4>2 DEF RowsTyped
      <4> QED BY <4>1, <4>3 DEF RowsTyped
    <3> QED BY <2>3, <3>1 DEF RowsTyped
  <2> QED BY <2>1, <2>6, <2>7 DEF Index, poolVars, envVars, RowsTyped, PoolTyped
<1>11. CASE Succeed(w)
  <2>1. d \in Docs
    BY <1>11 DEF Succeed, WorkTyped
  <2>2. WorkTyped'
    BY <1>11, DoneTyped DEF Succeed
  <2>3. mem[w].put \in [Indexes -> SUBSET Chunks]
    BY DEF WorkTyped, Memory
  <2>4. /\ vectors' \in [Docs -> [Indexes -> SUBSET Chunks]]
        /\ req' \in [Requests -> Request]
    BY <1>11, <2>1, CommitTyped DEF Succeed
  <2>5. /\ count' \in [Docs -> Nat] /\ rows' \in [Docs -> Nat]
        /\ late' \in [Docs -> SUBSET Requests]
    BY <1>11, <2>1 DEF Succeed, RowsTyped
  <2>6. indexed' \in [Docs -> [Indexes -> SUBSET Chunks]]
    BY <1>11, <2>1, <2>3 DEF Succeed, RowsTyped
  <2> QED BY <1>11, <2>2, <2>4, <2>5, <2>6 DEF Succeed, poolVars, envVars, RowsTyped, PoolTyped, Status
<1>12. CASE RecordFailure(w)
  <2>1. d \in Docs
    BY <1>12 DEF RecordFailure, WorkTyped
  <2>2. WorkTyped'
    BY <1>12, <2>1, GotoTyped DEF RecordFailure, Labels
  <2>3. /\ vectors' \in [Docs -> [Indexes -> SUBSET Chunks]]
        /\ req' \in [Requests -> Request]
    BY <1>12, <2>1, CommitTyped DEF RecordFailure
  <2>4. status' \in [Docs -> Status] /\ hasRun' \in [Docs -> BOOLEAN]
    BY <1>12 DEF RecordFailure, RowsTyped, Status
  <2>5. holder' \in [Docs -> Workers \union {None}]
    BY <1>12 DEF RecordFailure, RowsTyped
  <2> QED BY <1>12, <2>2, <2>3, <2>4, <2>5 DEF RecordFailure, poolVars, envVars, RowsTyped, PoolTyped
<1>13. CASE Abort(w)
  <2>1. d \in Docs
    BY <1>13 DEF Abort, WorkTyped
  <2>2. WorkTyped'
    BY <1>13, <2>1, GotoTyped DEF Abort, Labels
  <2> QED BY <1>13, <2>2 DEF Abort, poolVars, envVars, RowsTyped, PoolTyped
<1>14. CASE RescueRead(w)
  <2>1. d \in Docs
    BY <1>14 DEF RescueRead, WorkTyped
  <2>2. WorkTyped'
    BY <1>14, <2>1, DoneTyped, GotoTyped DEF RescueRead, Labels
  <2> QED BY <1>14, <2>2 DEF RescueRead, docVars, poolVars, envVars, RowsTyped, PoolTyped
<1>15. CASE RescueWrite(w)
  <2>1. WorkTyped'
    BY <1>15, DoneTyped DEF RescueWrite
  <2>2. status' \in [Docs -> Status]
    BY <1>15 DEF RescueWrite, RowsTyped, Status
  <2> QED BY <1>15, <2>1, <2>2 DEF RescueWrite, poolVars, envVars, RowsTyped, PoolTyped
<1> QED
  BY <1>1, <1>2, <1>3, <1>4, <1>5, <1>6, <1>7, <1>8, <1>9, <1>10, <1>11, <1>12,
     <1>13, <1>14, <1>15 DEF WorkerStep

LEMMA SubmitsTyped ==
    ASSUME req \in [Requests -> Request], NEW r \in Requests,
           NEW ids \in SUBSET Docs, Submits(r, ids)
    PROVE  req' \in [Requests -> Request]
<1>1. [Idle EXCEPT !.op = "enqueue", !.ids = ids] \in Request
  BY IdleType DEF Request
<1> QED BY <1>1 DEF Submits

LEMMA RequestTyped ==
    ASSUME TypeOK, NEW r \in Requests, RequestStep(r)
    PROVE  TypeOK'
<1> USE DEF TypeOK
<1>0. req[r] \in Request
  OBVIOUS
<1>1. CASE CommitRequeue(r)
  <2>1. req[r].ids \subseteq Docs
    BY <1>0 DEF Request
  <2>2. req' \in [Requests -> Request]
    BY <1>1, <2>1, SubmitsTyped DEF CommitRequeue
  <2>3. status' \in [Docs -> Status]
    BY <1>1 DEF CommitRequeue, RowsTyped, Status
  <2> QED BY <1>1, <2>2, <2>3 DEF CommitRequeue, poolVars, workVars, envVars, RowsTyped, PoolTyped, WorkTyped
<1>2. CASE RequeueFails(r)
  BY <1>2, IdleType DEF RequeueFails, docVars, poolVars, workVars, envVars, RowsTyped, PoolTyped, WorkTyped
<1>3. ASSUME NEW d \in Docs, Enqueue(r, d) PROVE TypeOK'
  <2>1. [req[r] EXCEPT !.ids = @ \ {d}] \in Request
    BY <1>0 DEF Request
  <2>2. req' \in [Requests -> Request]
    <3>1. CASE req[r].ids = {d}
      BY <1>3, <3>1, IdleType DEF Enqueue
    <3>2. CASE req[r].ids # {d}
      <4>1. req' = [req EXCEPT ![r] = [req[r] EXCEPT !.ids = @ \ {d}]]
        BY <1>3, <3>2 DEF Enqueue
      <4> QED BY <2>1, <4>1
    <3> QED BY <3>1, <3>2
  <2>3. queue' \in Seq(Docs)
    BY <1>3 DEF Enqueue, PoolTyped
  <2> QED BY <1>3, <2>2, <2>3 DEF Enqueue, docVars, workVars, envVars, RowsTyped, PoolTyped, WorkTyped
<1>4. ASSUME NEW d \in Docs, PurgeVectors(r, d) PROVE TypeOK'
  <2> DEFINE known == [i \in Indexes |-> IF i \in External THEN {} ELSE vectors[d][i]]
  <2>1. known \in [Indexes -> SUBSET Chunks]
    BY DEF RowsTyped
  <2>2. /\ [req[r] EXCEPT !.op = "bytes"] \in Request
        /\ [req[r] EXCEPT !.op = "bytes", !.known = known] \in Request
    BY <1>0, <2>1 DEF Request
  <2>3. req' \in [Requests -> Request]
    BY <1>4, <2>2, IdleType DEF PurgeVectors
  <2>4. \A done : [i \in Indexes |-> IF i \in done THEN {} ELSE vectors[d][i]]
                     \in [Indexes -> SUBSET Chunks]
    BY DEF RowsTyped
  <2>5. vectors' \in [Docs -> [Indexes -> SUBSET Chunks]]
    <3>1. \/ vectors' = vectors
          \/ \E done \in SUBSET External :
               vectors' = [vectors EXCEPT ![d] = [i \in Indexes |-> IF i \in done THEN {} ELSE @[i]]]
      BY <1>4 DEF PurgeVectors
    <3>2. ASSUME NEW done \in SUBSET External,
                 vectors' = [vectors EXCEPT ![d] = [i \in Indexes |-> IF i \in done THEN {} ELSE @[i]]]
          PROVE  vectors' \in [Docs -> [Indexes -> SUBSET Chunks]]
      <4>1. vectors' = [vectors EXCEPT ![d] = [i \in Indexes |-> IF i \in done THEN {} ELSE vectors[d][i]]]
        BY <3>2 DEF RowsTyped
      <4> QED BY <2>4, <4>1 DEF RowsTyped
    <3> QED BY <3>1, <3>2 DEF RowsTyped
  <2> QED BY <1>4, <2>3, <2>5 DEF PurgeVectors, poolVars, workVars, envVars, RowsTyped, PoolTyped, WorkTyped
<1>5. ASSUME NEW d \in Docs, PurgeBytes(r, d) PROVE TypeOK'
  <2>1. \A b \in BOOLEAN : [req[r] EXCEPT !.op = "row", !.tries = 1, !.held = b] \in Request
    <3>1. 1 \in 0 .. 2
      OBVIOUS
    <3> QED BY <1>0, <3>1, Zenon DEF Request
  <2>2. req' \in [Requests -> Request]
    BY <1>5, <2>1 DEF PurgeBytes
  <2> QED BY <1>5, <2>2 DEF PurgeBytes, poolVars, workVars, envVars, RowsTyped, PoolTyped, WorkTyped
<1>6. ASSUME NEW d \in Docs, DeleteRow(r, d) PROVE TypeOK'
  <2>1. [i \in Indexes |-> vectors[d][i] \ req[r].known[i]] \in [Indexes -> SUBSET Chunks]
    BY DEF RowsTyped
  <2>2. vectors' \in [Docs -> [Indexes -> SUBSET Chunks]]
    BY <1>6, <2>1 DEF DeleteRow, RowsTyped
  <2>4. indexed' \in [Docs -> [Indexes -> SUBSET Chunks]]
    BY <1>6, NothingType DEF DeleteRow, RowsTyped
  <2>3. req' \in [Requests -> Request]
    BY <1>6, IdleType DEF DeleteRow
  <2> QED BY <1>6, <2>2, <2>3, <2>4 DEF DeleteRow, poolVars, workVars, envVars, RowsTyped, PoolTyped, WorkTyped, Status
<1>7. ASSUME NEW d \in Docs, RetryDelete(r, d) PROVE TypeOK'
  <2>1. [req[r] EXCEPT !.tries = 2, !.held = TRUE] \in Request
    <3>1. 2 \in 0 .. 2
      OBVIOUS
    <3> QED BY <1>0, <3>1, Zenon DEF Request
  <2>2. req' \in [Requests -> Request]
    BY <1>7, <2>1 DEF RetryDelete
  <2> QED BY <1>7, <2>2 DEF RetryDelete, poolVars, workVars, envVars, RowsTyped, PoolTyped, WorkTyped
<1>8. ASSUME NEW d \in Docs, DeleteFails(r, d) PROVE TypeOK'
  BY <1>8, IdleType DEF DeleteFails, docVars, poolVars, workVars, envVars, RowsTyped, PoolTyped, WorkTyped
<1> QED
  BY <1>1, <1>2, <1>3, <1>4, <1>5, <1>6, <1>7, <1>8 DEF RequestStep

LEMMA ClientTyped ==
    ASSUME TypeOK, NEW r \in Requests, Client(r)
    PROVE  TypeOK'
<1> USE DEF TypeOK
<1>0. served' \in Nat
  <2>1. Arrive(r)
    BY DEF Client, Upload, Copy, ReadForRequeue, ReadForDelete
  <2> QED BY <2>1 DEF Arrive
<1>1. ASSUME NEW d \in Docs, NEW outcome \in {"pending", "unsupported", "absent"},
             NewFile(r, d, outcome), req' \in [Requests -> Request]
      PROVE  TypeOK'
  BY <1>0, <1>1 DEF NewFile, RowsTyped, PoolTyped, WorkTyped, poolVars, workVars, Status
<1>2. ASSUME NEW d \in Docs, Upload(r, d) PROVE TypeOK'
  BY <1>1, <1>2, SubmitsTyped DEF Upload
<1>3. ASSUME NEW d \in Docs, NEW source \in Docs, Copy(r, source, d) PROVE TypeOK'
  BY <1>1, <1>3, SubmitsTyped DEF Copy
<1>4. ASSUME NEW d \in Docs, ReadForDelete(r, d) PROVE TypeOK'
  <2>1. [Idle.seen EXCEPT ![d] = status[d]] \in [Docs -> Status]
    BY IdleType DEF Request, RowsTyped
  <2>2. [Idle EXCEPT !.op = "delete", !.ids = {d}, !.seen[d] = status[d]] \in Request
    BY <2>1, IdleType DEF Request
  <2> QED BY <1>0, <1>4, <2>2 DEF ReadForDelete, docVars, poolVars, workVars, RowsTyped, PoolTyped, WorkTyped
<1>5. ASSUME NEW kind \in Kinds, ReadForRequeue(r, kind) PROVE TypeOK'
  <2>1. PICK ids \in Requeueable(kind) :
               req' = [req EXCEPT ![r] = [Idle EXCEPT !.op = "requeue", !.ids = ids,
                         !.seen = [d \in Docs |-> IF d \in ids THEN status[d] ELSE "absent"]]]
    BY <1>5 DEF ReadForRequeue
  <2>2. ids \subseteq Docs
    BY <2>1, KindAssumption DEF Requeueable
  <2>3. [d \in Docs |-> IF d \in ids THEN status[d] ELSE "absent"] \in [Docs -> Status]
    BY DEF RowsTyped, Status
  <2>4. [Idle EXCEPT !.op = "requeue", !.ids = ids,
            !.seen = [d \in Docs |-> IF d \in ids THEN status[d] ELSE "absent"]] \in Request
    BY <2>2, <2>3, IdleType DEF Request
  <2> QED BY <1>0, <1>5, <2>1, <2>4 DEF ReadForRequeue, docVars, poolVars, workVars, RowsTyped, PoolTyped, WorkTyped
<1> QED BY <1>2, <1>3, <1>4, <1>5 DEF Client

LEMMA ProcessTyped ==
    ASSUME TypeOK, Stop \/ Exit \/ Crash \/ Recover
    PROVE  TypeOK'
<1> USE DEF TypeOK
<1>1. CASE Stop
  BY <1>1 DEF Stop, docVars, workVars, RowsTyped, PoolTyped, WorkTyped
<1>2. CASE Exit
  BY <1>2 DEF Exit, docVars, workVars, envVars, RowsTyped, PoolTyped, WorkTyped
<1>3. CASE Crash
  BY <1>3, FreshType, IdleType DEF Crash, RowsTyped, PoolTyped, WorkTyped, Labels
<1>4. CASE Recover
  <2>1. status' \in [Docs -> Status]
    BY <1>4 DEF Recover, RowsTyped, Status
  <2>2. queue' \in Seq(Docs)
    BY <1>4, OrderingsType DEF Recover
  <2> QED BY <1>4, <2>1, <2>2 DEF Recover, workVars, envVars, RowsTyped, PoolTyped, WorkTyped
<1> QED BY <1>1, <1>2, <1>3, <1>4

\* Type correctness, for any documents, workers, handlers and indexes.
THEOREM TypeCorrect == Spec => []TypeOK
<1>1. TypeOK /\ [Next]_vars => TypeOK'
  <2>1. CASE UNCHANGED vars
    BY <2>1 DEF vars, TypeOK, RowsTyped, PoolTyped, WorkTyped
  <2> QED BY <2>1, WorkerTyped, RequestTyped, ClientTyped, ProcessTyped DEF Next
<1> QED BY InitTyped, <1>1, PTL DEF Spec

(***************************************************************************)
(* The row lock.  Only the steps into and out of the label "index" touch   *)
(* it; every other step keeps its worker off that label.                   *)
(***************************************************************************)

LEMMA LockKept ==
    ASSUME TypeOK, RowLockIsTheRun, holder' = holder, NEW w \in Workers,
           pc[w] # "index", pc'[w] # "index",
           \A v \in Workers \ {w} : pc'[v] = pc[v] /\ job'[v] = job[v]
    PROVE  RowLockIsTheRun'
BY DEF RowLockIsTheRun

\* A worker that lets go of its own lock, and of the label with it.
LEMMA LockReleased ==
    ASSUME TypeOK, RowLockIsTheRun, NEW w \in Workers, pc[w] = "index",
           pc'[w] # "index", holder' = [holder EXCEPT ![job[w]] = None],
           \A v \in Workers \ {w} : pc'[v] = pc[v] /\ job'[v] = job[v]
    PROVE  RowLockIsTheRun'
<1>1. job[w] \in Docs /\ holder[job[w]] = w
  BY DEF RowLockIsTheRun, TypeOK, WorkTyped
<1>2. holder \in [Docs -> Workers \union {None}]
  BY DEF TypeOK, RowsTyped
<1> QED BY <1>1, <1>2 DEF RowLockIsTheRun

LEMMA LockWorker ==
    ASSUME TypeOK, RowLockIsTheRun, NEW w \in Workers, WorkerStep(w)
    PROVE  RowLockIsTheRun'
<1> DEFINE Others == \A v \in Workers \ {w} : pc'[v] = pc[v] /\ job'[v] = job[v]
<1> USE DEF Goto, Done
<1>0. /\ pc \in [Workers -> Labels] /\ job \in [Workers -> Docs \union {None}]
      /\ \A v \in Workers : pc[v] # "idle" => job[v] \in Docs
      /\ holder \in [Docs -> Workers \union {None}]
  BY DEF TypeOK, WorkTyped, RowsTyped
<1>1. CASE Take(w)
  BY <1>0, <1>1, LockKept DEF Take, docVars
<1>2. CASE Claim(w)
  BY <1>0, <1>2, LockKept DEF Claim
<1>3. CASE Load(w)
  BY <1>0, <1>3, LockKept DEF Load, docVars
<1>4. CASE BeginFails(w)
  BY <1>0, <1>4, LockKept DEF BeginFails, docVars
<1>5. CASE Begin(w)
  BY <1>0, <1>5, LockKept DEF Begin
<1>6. CASE \E r \in Requests : BeginDeadlock(w, r)
  BY <1>0, <1>6, LockKept DEF BeginDeadlock, docVars
<1>7. CASE Purge(w)
  BY <1>0, <1>7, LockKept DEF Purge
<1>8. CASE StartRun(w)
  <2>1. job[w] \in Docs /\ holder[job[w]] = None
    BY <1>0, <1>8 DEF StartRun, Unlocked
  <2> QED BY <1>0, <1>8, <2>1, DocsAssumption DEF StartRun, RowLockIsTheRun
<1>9. CASE StartRunFails(w)
  BY <1>0, <1>9, LockKept DEF StartRunFails, docVars
<1>10. CASE \E i \in Indexes : Index(w, i)
  BY <1>10 DEF Index, RowLockIsTheRun
<1>11. CASE Succeed(w)
  BY <1>0, <1>11, LockReleased DEF Succeed
<1>12. CASE RecordFailure(w)
  <2>1. CASE pc[w] = "index"
    <3>1. holder[job[w]] = w
      BY <1>0, <2>1 DEF RowLockIsTheRun
    <3> QED BY <1>0, <1>12, <2>1, <3>1, LockReleased DEF RecordFailure
  <2>2. CASE pc[w] # "index"
    <3>1. job[w] \in Docs /\ holder[job[w]] = None
      BY <1>0, <1>12, <2>2 DEF RecordFailure, Unlocked
    <3>2. holder' = holder
      BY <1>0, <1>12, <3>1, DocsAssumption DEF RecordFailure
    <3> QED BY <1>0, <1>12, <2>2, <3>2, LockKept DEF RecordFailure
  <2> QED BY <2>1, <2>2
<1>13. CASE Abort(w)
  BY <1>0, <1>13, LockReleased DEF Abort
<1>14. CASE RescueRead(w)
  BY <1>0, <1>14, LockKept DEF RescueRead, docVars
<1>15. CASE RescueWrite(w)
  BY <1>0, <1>15, LockKept DEF RescueWrite
<1> QED
  BY <1>1, <1>2, <1>3, <1>4, <1>5, <1>6, <1>7, <1>8, <1>9, <1>10, <1>11, <1>12,
     <1>13, <1>14, <1>15 DEF WorkerStep

\* The row lock is that of the one worker inside the document's run, however
\* many workers and requests interleave and whenever the process dies.
THEOREM LockCorrect == Spec => []RowLockIsTheRun
<1>1. Init => RowLockIsTheRun
  BY DEF Init, RowLockIsTheRun
<1>2. TypeOK /\ RowLockIsTheRun /\ [Next]_vars => RowLockIsTheRun'
  <2> SUFFICES ASSUME TypeOK, RowLockIsTheRun, [Next]_vars PROVE RowLockIsTheRun'
    OBVIOUS
  <2>1. ASSUME NEW w \in Workers, WorkerStep(w) PROVE RowLockIsTheRun'
    BY <2>1, LockWorker
  <2>2. ASSUME NEW r \in Requests, RequestStep(r) \/ Client(r) PROVE RowLockIsTheRun'
    <3>1. UNCHANGED <<holder, pc, job>>
      <4>1. CASE RequestStep(r)
        BY <4>1 DEF RequestStep, CommitRequeue, RequeueFails, Enqueue, PurgeVectors, PurgeBytes,
           DeleteRow, RetryDelete, DeleteFails, docVars, workVars
      <4>2. CASE Client(r)
        BY <4>2 DEF Client, Upload, Copy, NewFile, ReadForRequeue, ReadForDelete, docVars, workVars
      <4> QED BY <2>2, <4>1, <4>2
    <3> QED BY <3>1 DEF RowLockIsTheRun
  <2>3. CASE Stop \/ Exit \/ Recover
    BY <2>3 DEF Stop, Exit, Recover, docVars, workVars, RowLockIsTheRun
  <2>4. CASE Crash
    BY <2>4, DocsAssumption DEF Crash, RowLockIsTheRun
  <2>5. CASE UNCHANGED vars
    BY <2>5 DEF vars, RowLockIsTheRun
  <2> QED BY <2>1, <2>2, <2>3, <2>4, <2>5 DEF Next
<1> QED BY <1>1, <1>2, TypeCorrect, PTL DEF Spec

(***************************************************************************)
(* Nothing is stranded.                                                    *)
(***************************************************************************)

\* A worker moving its document along, or dropping one that is settled.
LEMMA TrackedMove ==
    ASSUME TypeOK, NEW w \in Workers, pc[w] \in Working, NEW d \in Docs, Tracked(d),
           queue' = queue,
           \A r \in Requests : req[r].op = "enqueue" => req'[r].op = "enqueue" /\ req'[r].ids = req[r].ids,
           \A v \in Workers \ {w} : pc'[v] = pc[v] /\ job'[v] = job[v],
           \/ pc'[w] \in Working /\ job'[w] = job[w]
           \/ job[w] = d => status'[d] # "processing",
           \/ status'[d] = status[d]
           \/ d = job[w] /\ status'[d] # "pending"
    PROVE  Tracked(d)'
<1>1. Queued(d)' = Queued(d)
  BY DEF Queued
<1>2. Claiming(d) => Claiming(d)'
  BY DEF Claiming, Working
<1>3. Promised(d) => Promised(d)'
  BY DEF Promised
<1>4. CASE status'[d] = status[d]
  <2>1. status'[d] = "processing" => WorkedOn(d)'
    BY <1>4 DEF Tracked, WorkedOn
  <2> QED BY <1>1, <1>2, <1>3, <1>4, <2>1 DEF Tracked
<1>5. CASE d = job[w] /\ status'[d] # "pending"
  <2>1. status'[d] = "processing" => WorkedOn(d)'
    BY <1>5 DEF WorkedOn
  <2> QED BY <1>5, <2>1 DEF Tracked
<1> QED BY <1>4, <1>5

LEMMA TrackedWorker ==
    ASSUME TypeOK, NEW w \in Workers, WorkerStep(w), NEW d \in Docs, Tracked(d)
    PROVE  Tracked(d)'
<1> USE DEF Goto, Done, Working, Labels
<1>0. /\ pc \in [Workers -> Labels] /\ job \in [Workers -> Docs \union {None}]
      /\ \A v \in Workers : pc[v] # "idle" => job[v] \in Docs
      /\ status \in [Docs -> Status]
  BY DEF TypeOK, WorkTyped, RowsTyped
<1>1. CASE Take(w)
  <2>1. queue \in Seq(Docs) /\ queue # <<>> /\ queue' = Tail(queue)
    BY <1>1 DEF Take, TypeOK, PoolTyped
  <2>2. Queued(d) => Queued(d)' \/ Head(queue) = d
    <3>1. ASSUME NEW i \in DOMAIN queue, queue[i] = d, i # 1 PROVE Queued(d)'
      <4>1. i - 1 \in DOMAIN Tail(queue) /\ Tail(queue)[i - 1] = d
        BY <2>1, <3>1
      <4> QED BY <2>1, <4>1 DEF Queued
    <3> QED BY <2>1, <3>1 DEF Queued
  <2>3. Head(queue) = d => Claiming(d)'
    BY <1>0, <1>1 DEF Take, Claiming
  <2>4. (Claiming(d) => Claiming(d)') /\ (WorkedOn(d) => WorkedOn(d)')
    BY <1>0, <1>1 DEF Take, Claiming, WorkedOn
  <2>5. Promised(d)' = Promised(d) /\ status' = status
    BY <1>1 DEF Take, Promised, docVars
  <2> QED BY <2>2, <2>3, <2>4, <2>5 DEF Tracked
<1>2. CASE Claim(w)
  <2>1. Queued(d)' = Queued(d) /\ Promised(d)' = Promised(d)
    BY <1>2 DEF Claim, poolVars, Queued, Promised
  <2>2. CASE d = job[w]
    BY <1>0, <1>2, <2>2 DEF Claim, Tracked, WorkedOn
  <2>3. CASE d # job[w]
    <3>1. (Claiming(d) => Claiming(d)') /\ (WorkedOn(d) => WorkedOn(d)')
      BY <1>0, <1>2, <2>3 DEF Claim, Claiming, WorkedOn
    <3>2. status'[d] = status[d]
      BY <1>0, <1>2, <2>3 DEF Claim
    <3> QED BY <2>1, <3>1, <3>2 DEF Tracked
  <2> QED BY <2>2, <2>3
<1>3. CASE Load(w)
  BY <1>0, <1>3, TrackedMove DEF Load, docVars, poolVars
<1>4. CASE BeginFails(w)
  BY <1>0, <1>4, TrackedMove DEF BeginFails, docVars, poolVars
<1>5. CASE Begin(w)
  BY <1>0, <1>5, TrackedMove DEF Begin, poolVars
<1>6. CASE \E r \in Requests : BeginDeadlock(w, r)
  <2>1. \A r \in Requests : req[r].op = "enqueue" => req'[r] = req[r]
    BY <1>6 DEF BeginDeadlock, HoldsChunks, TypeOK
  <2> QED BY <1>0, <1>6, <2>1, TrackedMove DEF BeginDeadlock, docVars, poolVars
<1>7. CASE Purge(w)
  BY <1>0, <1>7, TrackedMove DEF Purge, poolVars
<1>8. CASE StartRun(w)
  BY <1>0, <1>8, TrackedMove DEF StartRun, poolVars
<1>9. CASE StartRunFails(w)
  BY <1>0, <1>9, TrackedMove DEF StartRunFails, docVars, poolVars
<1>10. CASE \E i \in Indexes : Index(w, i)
  BY <1>0, <1>10, TrackedMove DEF Index, poolVars
<1>11. ASSUME CommitVectors(w), NEW r \in Requests
       PROVE  req'[r].op = req[r].op /\ req'[r].ids = req[r].ids
  BY <1>11 DEF CommitVectors, TypeOK, Request
<1>12. CASE Succeed(w)
  BY <1>0, <1>11, <1>12, TrackedMove DEF Succeed, poolVars
<1>13. CASE RecordFailure(w)
  BY <1>0, <1>11, <1>13, TrackedMove DEF RecordFailure, poolVars
<1>14. CASE Abort(w)
  BY <1>0, <1>14, TrackedMove DEF Abort, poolVars
<1>15. CASE RescueRead(w)
  BY <1>0, <1>15, TrackedMove DEF RescueRead, docVars, poolVars
<1>16. CASE RescueWrite(w)
  BY <1>0, <1>16, TrackedMove DEF RescueWrite, poolVars, Status
<1> QED
  BY <1>1, <1>2, <1>3, <1>4, <1>5, <1>6, <1>7, <1>8, <1>9, <1>10, <1>12,
     <1>13, <1>14, <1>15, <1>16 DEF WorkerStep

\* A handler that promises nothing, or no less than before, and changes no
\* status other than to one nobody has to follow up.
LEMMA TrackedQuiet ==
    ASSUME NEW r \in Requests, NEW d \in Docs, Tracked(d), UNCHANGED <<queue, pc, job>>,
           req[r].op # "enqueue", \A q \in Requests \ {r} : req'[q] = req[q],
           status'[d] = status[d] \/ status'[d] \notin {"pending", "processing"}
    PROVE  Tracked(d)'
<1>1. /\ Queued(d)' = Queued(d) /\ Claiming(d)' = Claiming(d) /\ WorkedOn(d)' = WorkedOn(d)
      /\ Promised(d) => Promised(d)'
  BY DEF Queued, Claiming, WorkedOn, Promised
<1> QED BY <1>1 DEF Tracked

LEMMA TrackedRequest ==
    ASSUME TypeOK, NEW r \in Requests, RequestStep(r) \/ Client(r), NEW d \in Docs, Tracked(d)
    PROVE  Tracked(d)'
<1>0. /\ status \in [Docs -> Status] /\ req \in [Requests -> Request] /\ queue \in Seq(Docs)
  BY DEF TypeOK, RowsTyped, PoolTyped
<1> DEFINE Others == \A q \in Requests \ {r} : req'[q] = req[q]
<1>1. CASE CommitRequeue(r)
  <2>1. CASE d \in Changed(r)
    <3>1. Promised(d)' /\ status'[d] = "pending"
      BY <1>0, <1>1, <2>1 DEF CommitRequeue, Submits, Changed, Promised, Idle
    <3> QED BY <3>1 DEF Tracked
  <2>2. CASE d \notin Changed(r)
    BY <1>0, <1>1, <2>2, TrackedQuiet DEF CommitRequeue, Submits, poolVars, workVars
  <2> QED BY <2>1, <2>2
<1>2. CASE RequeueFails(r)
  BY <1>0, <1>2, TrackedQuiet DEF RequeueFails, docVars, poolVars, workVars
<1>3. ASSUME NEW f \in Docs, Enqueue(r, f) PROVE Tracked(d)'
  <2>1. Queued(d) => Queued(d)'
    BY <1>0, <1>3 DEF Enqueue, Queued
  <2>2. Queued(f)'
    <3>1. Len(queue) + 1 \in DOMAIN queue' /\ queue'[Len(queue) + 1] = f
      BY <1>0, <1>3 DEF Enqueue
    <3> QED BY <3>1 DEF Queued
  <2>3. Promised(d) => Promised(d)' \/ d = f
    <3>1. d \in req[r].ids /\ d # f => req'[r].op = "enqueue" /\ d \in req'[r].ids
      BY <1>0, <1>3 DEF Enqueue, Request
    <3>2. Others
      BY <1>0, <1>3 DEF Enqueue
    <3> QED BY <3>1, <3>2 DEF Promised
  <2>4. Claiming(d)' = Claiming(d) /\ WorkedOn(d)' = WorkedOn(d) /\ status' = status
    BY <1>3 DEF Enqueue, docVars, workVars, Claiming, WorkedOn
  <2> QED BY <2>1, <2>2, <2>3, <2>4 DEF Tracked
<1>4. ASSUME NEW f \in Docs, PurgeVectors(r, f) PROVE Tracked(d)'
  BY <1>0, <1>4, TrackedQuiet DEF PurgeVectors, poolVars, workVars
<1>5. ASSUME NEW f \in Docs, PurgeBytes(r, f) PROVE Tracked(d)'
  BY <1>0, <1>5, TrackedQuiet DEF PurgeBytes, poolVars, workVars
<1>6. ASSUME NEW f \in Docs, DeleteRow(r, f) PROVE Tracked(d)'
  BY <1>0, <1>6, TrackedQuiet DEF DeleteRow, poolVars, workVars
<1>7. ASSUME NEW f \in Docs, RetryDelete(r, f) PROVE Tracked(d)'
  BY <1>0, <1>7, TrackedQuiet DEF RetryDelete, poolVars, workVars
<1>8. ASSUME NEW f \in Docs, DeleteFails(r, f) PROVE Tracked(d)'
  BY <1>0, <1>8, TrackedQuiet DEF DeleteFails, docVars, poolVars, workVars
<1>9. ASSUME NEW f \in Docs, NEW outcome \in Status \ {"processing"},
             NewFile(r, f, outcome), req[r].op = "idle",
             \/ Submits(r, {f})
             \/ outcome # "pending" /\ UNCHANGED req
      PROVE  Tracked(d)'
  <2>1. CASE d = f /\ Submits(r, {f})
    <3>1. Promised(d)'
      BY <1>0, <2>1 DEF Submits, Promised, Idle
    <3>2. status'[d] = "processing" => WorkedOn(d)'
      BY <1>0, <1>9, <2>1 DEF NewFile
    <3> QED BY <3>1, <3>2 DEF Tracked
  <2>2. CASE d # f \/ ~Submits(r, {f})
    BY <1>0, <1>9, <2>2, TrackedQuiet DEF NewFile, Submits, poolVars, workVars
  <2> QED BY <2>1, <2>2
<1>10. ASSUME NEW f \in Docs, Upload(r, f) PROVE Tracked(d)'
  BY <1>9, <1>10 DEF Upload, Arrive, Status
<1>11. ASSUME NEW f \in Docs, NEW source \in Docs, Copy(r, source, f) PROVE Tracked(d)'
  BY <1>9, <1>11 DEF Copy, Arrive, Status
<1>12. ASSUME NEW f \in Docs, ReadForDelete(r, f) PROVE Tracked(d)'
  BY <1>0, <1>12, TrackedQuiet DEF ReadForDelete, Arrive, docVars, poolVars, workVars
<1>13. ASSUME NEW kind \in Kinds, ReadForRequeue(r, kind) PROVE Tracked(d)'
  BY <1>0, <1>13, TrackedQuiet DEF ReadForRequeue, Arrive, docVars, poolVars, workVars
<1> QED
  BY <1>1, <1>2, <1>3, <1>4, <1>5, <1>6, <1>7, <1>8, <1>10, <1>11, <1>12, <1>13
     DEF RequestStep, Client

\* No interleaving of workers, requests, deletions and restarts leaves a
\* document pending that no thread will look at, or processing without a
\* worker, while the process runs.
THEOREM StrandedNever == Spec => []NothingStranded
<1>1. Init => NothingStranded
  BY DEF Init, NothingStranded, Tracked
<1>2. TypeOK /\ NothingStranded /\ [Next]_vars => NothingStranded'
  <2> SUFFICES ASSUME TypeOK, NothingStranded, [Next]_vars, phase' = "up", NEW d \in Docs
               PROVE  Tracked(d)'
    BY DEF NothingStranded
  <2>1. ASSUME NEW w \in Workers, WorkerStep(w) PROVE Tracked(d)'
    <3>1. phase' = phase
      BY <2>1 DEF WorkerStep, Take, Claim, Load, BeginFails, Begin, BeginDeadlock, Purge,
         StartRun, StartRunFails, Index, Succeed, RecordFailure, Abort, RescueRead,
         RescueWrite, poolVars
    <3> QED BY <2>1, <3>1, TrackedWorker DEF NothingStranded
  <2>2. ASSUME NEW r \in Requests, RequestStep(r) \/ Client(r) PROVE Tracked(d)'
    <3>1. phase' = phase
      BY <2>2 DEF RequestStep, CommitRequeue, RequeueFails, Enqueue, PurgeVectors, PurgeBytes,
         DeleteRow, RetryDelete, DeleteFails, Client, Upload, Copy, NewFile, ReadForRequeue,
         ReadForDelete, poolVars
    <3> QED BY <2>2, <3>1, TrackedRequest DEF NothingStranded
  <2>3. CASE Recover
    <3>1. {f \in Docs : status'[f] = "pending"} \in SUBSET Docs
      OBVIOUS
    <3>2. status'[d] = "pending" => Queued(d)'
      BY <2>3, <3>1, OrderingsType DEF Recover, Queued
    <3>3. status'[d] # "processing"
      BY <2>3 DEF Recover
    <3> QED BY <3>2, <3>3 DEF Tracked
  <2>4. CASE Stop \/ Exit \/ Crash
    BY <2>4 DEF Stop, Exit, Crash
  <2>5. CASE UNCHANGED vars
    BY <2>5 DEF vars, NothingStranded, Tracked, Queued, Claiming, Promised, WorkedOn
  <2> QED BY <2>1, <2>2, <2>3, <2>4, <2>5 DEF Next
<1> QED BY <1>1, <1>2, TypeCorrect, PTL DEF Spec

(***************************************************************************)
(* What a document row promises its readers: that the claim keeps a        *)
(* document with one worker, what a ready document's rows and vectors are  *)
(* while it does, and that the whole implements DocumentLifecycle.         *)
(*                                                                         *)
(* The inductive invariant.                                                *)
(***************************************************************************)

HIDE DocsAssumption
HIDE BoundAssumption
HIDE FlagAssumption
HIDE ManualAssumption
HIDE IndexAssumption

Own == Indexes \ External
Clean(d) == \A i \in Own : vectors[d][i] = {}

\* Without a run id nothing was ever committed to the database's own indexes,
\* and a ready document has there exactly what its attempt was to leave.
DocOK(d) ==
    /\ file[d] \in {"new", "gone"} => status[d] = "absent"
    /\ ~hasRun[d] /\ file[d] # "gone" => Clean(d)
    /\ status[d] = "ready" =>
          /\ rows[d] = count[d]
          /\ \A i \in Own : vectors[d][i] = indexed[d][i]
          /\ d \notin Deletable => \A i \in External : indexed[d][i] \subseteq vectors[d][i]

\* No indexer of the attempt has run.
HandedNothing(m) == m.wrote = {} /\ \A i \in Indexes : m.put[i] = {}

\* A worker has the row to itself, the previous rows are gone, and what it has
\* sent is there.
RunOK(w) ==
    /\ pc[w] \in Running => status[job[w]] # "ready"
    /\ pc[w] = "index" => status[job[w]] # "absent"
    /\ pc[w] \in {"purge", "run", "index"} => rows[job[w]] = 0
    /\ pc[w] \in {"begin", "purge", "run", "index"} /\ ~mem[w].retry /\ file[job[w]] # "gone"
          => Clean(job[w])
    /\ pc[w] \notin {"index", "rescue", "recording"} => HandedNothing(mem[w])
    /\ pc[w] = "index" /\ ~mem[w].read => HandedNothing(mem[w])
    /\ pc[w] = "index" /\ job[w] \notin Deletable =>
          \A i \in External : mem[w].put[i] \subseteq vectors[job[w]][i]

\* Once a deletion has removed the bytes, a run that read them before is the
\* only one that can still commit chunk rows.
ReqOK(r) ==
    /\ req[r].op \in {"delete", "bytes", "row"} => \E d \in Deletable : req[r].ids = {d}
    /\ req[r].op = "requeue" => \A d \in req[r].ids : file[d] # "new"
    /\ req[r].op = "row" => \A d \in req[r].ids :
          /\ file[d] \in {"emptied", "gone"}
          /\ r \in late[d] \/ req[r].tries = 2 =>
                \A w \in Workers : pc[w] = "index" /\ job[w] = d => ~mem[w].read
          /\ ~(r \in late[d] /\ req[r].tries = 2)

Outcomes ==
    /\ \A d \in Docs : DocOK(d)
    /\ \A w \in Workers : RunOK(w)
    /\ \A r \in Requests : ReqOK(r)

\* What the steps rely on.
Context == TypeOK /\ RowLockIsTheRun /\ ExclusiveIngestion /\ Outcomes /\ Indexes # {}

LEMMA Typing ==
    ASSUME TypeOK
    PROVE  /\ pc \in [Workers -> Labels] /\ job \in [Workers -> Docs \union {None}]
           /\ mem \in [Workers -> Memory]
           /\ \A w \in Workers : pc[w] # "idle" => job[w] \in Docs
           /\ file \in [Docs -> {"new", "stored", "emptied", "gone"}]
           /\ status \in [Docs -> Status] /\ hasRun \in [Docs -> BOOLEAN]
           /\ count \in [Docs -> Nat] /\ rows \in [Docs -> Nat]
           /\ late \in [Docs -> SUBSET Requests]
           /\ vectors \in [Docs -> [Indexes -> SUBSET Chunks]]
           /\ indexed \in [Docs -> [Indexes -> SUBSET Chunks]]
           /\ holder \in [Docs -> Workers \union {None}]
           /\ req \in [Requests -> Request]
BY DEF TypeOK, WorkTyped, RowsTyped

LEMMA InitOutcomes == Init => Outcomes
<1> SUFFICES ASSUME Init PROVE Outcomes
    OBVIOUS
<1>1. \A d \in Docs : DocOK(d)
    BY DEF Init, DocOK, Clean, Own, Nothing
<1>2. \A w \in Workers : RunOK(w)
    BY DEF Init, RunOK, Running, Working, Labels, Fresh, HandedNothing, Nothing
<1>3. \A r \in Requests : ReqOK(r)
    BY DEF Init, ReqOK, Idle
<1> QED
    BY <1>1, <1>2, <1>3 DEF Outcomes

(***************************************************************************)
(* Frames.                                                                 *)
(***************************************************************************)

LEMMA DocKept ==
    ASSUME NEW d \in Docs, DocOK(d),
           file'[d] = file[d], status'[d] = status[d], hasRun'[d] = hasRun[d],
           count'[d] = count[d], rows'[d] = rows[d], vectors'[d] = vectors[d],
           indexed'[d] = indexed[d]
    PROVE  DocOK(d)'
BY DEF DocOK, Clean, Own

\* The rows and vectors a step of one worker may touch are its document's.
OnlyItsOwn(w) ==
    /\ file' = file
    /\ \A d \in Docs : d # job[w] =>
          /\ status'[d] = status[d] /\ hasRun'[d] = hasRun[d] /\ count'[d] = count[d]
          /\ rows'[d] = rows[d] /\ late'[d] = late[d] /\ vectors'[d] = vectors[d]
          /\ indexed'[d] = indexed[d]
    /\ \A v \in Workers : v # w => pc'[v] = pc[v] /\ job'[v] = job[v] /\ mem'[v] = mem[v]
    /\ pc[w] \notin Running =>
          /\ rows' = rows /\ vectors' = vectors /\ indexed' = indexed
          /\ IF pc[w] = "idle" THEN status' = status
             ELSE status'[job[w]] \in {status[job[w]], "processing", "failed"}

LEMMA ItsOwnOnly ==
    ASSUME TypeOK, NEW w \in Workers, WorkerStep(w)
    PROVE  OnlyItsOwn(w)
<1> USE Typing DEF OnlyItsOwn, Goto, Done, docVars, Running, Working, Labels
<1>1. CASE Take(w)
    BY <1>1 DEF Take
<1>2. CASE Claim(w)
    BY <1>2 DEF Claim
<1>3. CASE Load(w)
    BY <1>3 DEF Load
<1>4. CASE BeginFails(w) \/ StartRunFails(w) \/ RescueRead(w)
    BY <1>4 DEF BeginFails, StartRunFails, RescueRead
<1>5. CASE Begin(w)
    BY <1>5 DEF Begin
<1>6. CASE \E r \in Requests : BeginDeadlock(w, r)
    BY <1>6 DEF BeginDeadlock
<1>7. CASE Purge(w)
    BY <1>7 DEF Purge
<1>8. CASE StartRun(w) \/ Abort(w)
    BY <1>8 DEF StartRun, Abort
<1>9. CASE \E i \in Indexes : Index(w, i)
    BY <1>9 DEF Index
<1>10. CASE Succeed(w)
    BY <1>10 DEF Succeed, CommitVectors
<1>11. CASE RecordFailure(w)
    BY <1>11 DEF RecordFailure, CommitVectors
<1>12. CASE RescueWrite(w)
    BY <1>12 DEF RescueWrite
<1> QED
    BY <1>1, <1>2, <1>3, <1>4, <1>5, <1>6, <1>7, <1>8, <1>9, <1>10, <1>11, <1>12 DEF WorkerStep

\* Another worker is with another document, or not past its claim.
LEMMA OthersKept ==
    ASSUME Context, NEW w \in Workers, OnlyItsOwn(w), NEW v \in Workers, v # w
    PROVE  RunOK(v)'
<1>1. RunOK(v) /\ pc'[v] = pc[v] /\ job'[v] = job[v] /\ mem'[v] = mem[v] /\ file' = file
    BY DEF Context, Outcomes, OnlyItsOwn
<1>2. CASE pc[v] \notin Running
    BY <1>1, <1>2 DEF RunOK, Running, Working, Labels
<1>3. CASE pc[v] \in Running
    <2>1. job[v] \in Docs
        BY <1>3, Typing DEF Context, Running, Working
    <2>2. CASE job[v] # job[w]
        BY <1>1, <2>1, <2>2 DEF RunOK, OnlyItsOwn, Clean
    <2>3. CASE job[v] = job[w]
        <3>1. pc[w] \notin Running
            BY <1>3, <2>3 DEF Context, ExclusiveIngestion
        <3>2. rows' = rows /\ vectors' = vectors
              /\ status'[job[v]] \in {status[job[v]], "processing", "failed"}
            BY <2>3, <3>1 DEF OnlyItsOwn
        <3> QED
            BY <1>1, <3>2 DEF RunOK, Clean
    <2> QED
        BY <2>2, <2>3
<1> QED
    BY <1>2, <1>3

\* Deletions and requeues under way see bytes and rows go, and never return.
LEMMA ReqKept ==
    ASSUME Context, NEW r \in Requests,
           \/ req'[r].op = "idle"
           \/ req'[r].op = req[r].op /\ req'[r].ids = req[r].ids /\ req'[r].tries = req[r].tries,
           \A d \in Docs : /\ file[d] # "new" => file'[d] # "new"
                           /\ file[d] \in {"emptied", "gone"} => file'[d] \in {"emptied", "gone"}
                           /\ r \in late'[d] => r \in late[d],
           \A v \in Workers : pc'[v] = "index" /\ mem'[v].read =>
               \/ file[job'[v]] = "stored"
               \/ pc[v] = "index" /\ mem[v].read /\ job'[v] = job[v]
    PROVE  ReqOK(r)'
<1>1. ReqOK(r) /\ req[r] \in Request /\ req[r].ids \subseteq Docs
    BY Typing DEF Context, Outcomes, Request
<1>2. CASE req'[r].op = "idle"
    BY <1>2 DEF ReqOK
<1>3. CASE req'[r].op = req[r].op /\ req'[r].ids = req[r].ids /\ req'[r].tries = req[r].tries
    <2>1. req'[r].op \in {"delete", "bytes", "row"} => \E d \in Deletable : req'[r].ids = {d}
        BY <1>1, <1>3 DEF ReqOK
    <2>2. req'[r].op = "requeue" => \A d \in req'[r].ids : file'[d] # "new"
        BY <1>1, <1>3 DEF ReqOK
    <2>3. ASSUME req'[r].op = "row", NEW d \in req'[r].ids
          PROVE  /\ file'[d] \in {"emptied", "gone"}
                 /\ r \in late'[d] \/ req'[r].tries = 2 =>
                       \A w \in Workers : pc'[w] = "index" /\ job'[w] = d => ~mem'[w].read
                 /\ ~(r \in late'[d] /\ req'[r].tries = 2)
        <3>1. /\ d \in Docs /\ file[d] \in {"emptied", "gone"}
              /\ r \in late[d] \/ req[r].tries = 2 =>
                    \A w \in Workers : pc[w] = "index" /\ job[w] = d => ~mem[w].read
              /\ ~(r \in late[d] /\ req[r].tries = 2)
            BY <1>1, <1>3, <2>3 DEF ReqOK
        <3> QED
            BY <1>3, <3>1
    <2> QED
        BY <2>1, <2>2, <2>3 DEF ReqOK
<1> QED
    BY <1>2, <1>3

(***************************************************************************)
(* The steps of a worker, for its document and itself.                     *)
(***************************************************************************)

\* A worker that ends up idle, rescuing or recording has no more to answer for.
LEMMA Released ==
    ASSUME NEW w \in Workers, pc'[w] \in {"rescue", "recording"} \/ (pc'[w] = "idle" /\ mem'[w] = Fresh)
    PROVE  RunOK(w)'
BY DEF RunOK, Running, Working, Labels, Fresh, HandedNothing, Nothing

\* Work that neither reads nor commits: the document as it is, but for a status
\* that promises nothing.
LEMMA OwnDocKept ==
    ASSUME NEW d \in Docs, DocOK(d), file' = file, hasRun' = hasRun, vectors' = vectors,
           status'[d] # "ready", status'[d] # "absent" => status[d] # "absent"
    PROVE  DocOK(d)'
BY DEF DocOK, Clean, Own

LEMMA TakeStep ==
    ASSUME Context, NEW w \in Workers, Take(w)
    PROVE  RunOK(w)' /\ docVars' = docVars
<1>1. pc'[w] = "claim" /\ mem' = mem /\ docVars' = docVars
    BY Typing DEF Context, Take, docVars
<1>2. HandedNothing(mem'[w])
    BY <1>1 DEF Context, Outcomes, RunOK, Take
<1> QED
    BY <1>1, <1>2 DEF RunOK, Running, Working, Labels

LEMMA PreparingSteps ==
    ASSUME Context, NEW w \in Workers, NEW d \in Docs, job[w] = d,
           Claim(w) \/ Load(w) \/ BeginFails(w) \/ Begin(w) \/ \E r \in Requests : BeginDeadlock(w, r)
    PROVE  RunOK(w)' /\ DocOK(d)'
<1>0. /\ RunOK(w) /\ pc \in [Workers -> Labels] /\ mem \in [Workers -> Memory]
      /\ job \in [Workers -> Docs \union {None}]
      /\ status \in [Docs -> Status] /\ rows \in [Docs -> Nat]
      /\ DocOK(d)
    BY Typing DEF Context, Outcomes
<1>1. CASE Claim(w)
    <2>1. file' = file /\ hasRun' = hasRun /\ count' = count /\ rows' = rows
          /\ vectors' = vectors /\ indexed' = indexed
        BY <1>0, <1>1 DEF Claim
    <2>2. CASE status[d] = "pending"
        <3>1. status'[d] = "processing" /\ pc'[w] = "load" /\ mem' = mem
            BY <1>0, <1>1, <2>1, <2>2 DEF Claim, Goto
        <3>2. DocOK(d)'
            BY <1>0, <2>1, <2>2, <3>1, OwnDocKept
        <3>3. HandedNothing(mem'[w]) /\ job' = job
            BY <1>0, <1>1, <2>2, <3>1 DEF RunOK, Claim
        <3>4. RunOK(w)'
            BY <3>1, <3>3 DEF RunOK, Running, Working, Labels
        <3> QED
            BY <3>2, <3>4
    <2>3. CASE status[d] # "pending"
        <3>1. status' = status /\ pc'[w] = "idle" /\ mem'[w] = Fresh
            BY <1>0, <1>1, <2>3 DEF Claim, Done, Goto
        <3> QED
            BY <1>0, <2>1, <3>1, DocKept, Released
    <2> QED
        BY <2>2, <2>3
<1>2. CASE Load(w)
    <2>1. docVars' = docVars /\ DocOK(d)'
        BY <1>0, <1>2, DocKept DEF Load, docVars
    <2>2. CASE status[d] = "absent"
        BY <1>0, <1>2, <2>1, <2>2, Released DEF Load, Done, Goto
    <2>3. CASE status[d] # "absent"
        <3>1. /\ pc'[w] = "begin" /\ job' = job /\ mem'[w].retry = hasRun[d]
              /\ mem'[w].wrote = mem[w].wrote /\ mem'[w].put = mem[w].put
            <4>1. PICK writes \in BOOLEAN :
                    mem' = [mem EXCEPT ![w].seen = status[d], ![w].retry = hasRun[d],
                                       ![w].writes = writes]
                BY <1>0, <1>2, <2>3 DEF Load
            <4>2. mem'[w] = [mem[w] EXCEPT !.seen = status[d], !.retry = hasRun[d],
                                           !.writes = writes]
                BY <1>0, <4>1
            <4> QED
                BY <1>0, <1>2, <2>3, <4>2 DEF Load, Goto, Memory
        <3>2. status[d] # "ready" /\ HandedNothing(mem[w])
            BY <1>0, <1>2 DEF Load, RunOK, Running, Working, Labels
        <3>3. ~mem'[w].retry /\ file'[d] # "gone" => Clean(d)'
            BY <1>0, <2>1, <3>1 DEF DocOK, Clean, docVars
        <3>4. RunOK(w)'
            BY <2>1, <3>1, <3>2, <3>3 DEF RunOK, docVars, HandedNothing
        <3> QED
            BY <2>1, <3>4
    <2> QED
        BY <2>2, <2>3
<1>3. CASE BeginFails(w)
    BY <1>0, <1>3, DocKept, Released DEF BeginFails, Goto, docVars
<1>4. CASE Begin(w)
    <2>1. /\ file' = file /\ hasRun' = hasRun /\ vectors' = vectors
          /\ status[d] \notin {"absent", "ready"}
          /\ status'[d] \in {status[d], "processing"} /\ rows'[d] = 0
          /\ pc'[w] = "purge" /\ job' = job /\ mem' = mem
        BY <1>0, <1>4 DEF Begin, Goto, RunOK, Running, Working, Labels
    <2>2. DocOK(d)'
        BY <1>0, <2>1, OwnDocKept
    <2>3. (~mem[w].retry /\ file[d] # "gone" => Clean(d)) /\ HandedNothing(mem[w])
        BY <1>0, <1>4 DEF Begin, RunOK
    <2>4. RunOK(w)'
        BY <2>1, <2>3 DEF RunOK, Clean
    <2> QED
        BY <2>2, <2>4
<1>5. CASE \E r \in Requests : BeginDeadlock(w, r)
    <2>1. docVars' = docVars /\ job' = job /\ mem' = mem
        BY <1>0, <1>5 DEF BeginDeadlock
    <2>2. DocOK(d)'
        BY <1>0, <2>1, DocKept DEF docVars
    <2>3. pc'[w] = "rescue" \/ pc' = pc
        BY <1>0, <1>5 DEF BeginDeadlock, Goto
    <2>4. RunOK(w)'
        BY <1>0, <2>1, <2>3, Released DEF RunOK, Clean, docVars
    <2> QED
        BY <2>2, <2>4
<1> QED
    BY <1>1, <1>2, <1>3, <1>4, <1>5

\* What the commit leaves in the indexes of the document.
LEMMA Committed ==
    ASSUME Context, NEW w \in Workers, NEW d \in Docs, job[w] = d, CommitVectors(w),
           ~mem[w].retry => Clean(d)
    PROVE  /\ \A i \in Own : vectors'[d][i] = mem[w].put[i]
           /\ \A i \in External : vectors'[d][i] = vectors[d][i]
BY Typing, IndexAssumption DEF Context, CommitVectors, Clean, Own

LEMMA PipelineSteps ==
    ASSUME Context, NEW w \in Workers, NEW d \in Docs, job[w] = d,
           Purge(w) \/ StartRun(w) \/ (\E i \in Indexes : Index(w, i))
           \/ Succeed(w) \/ RecordFailure(w)
    PROVE  RunOK(w)' /\ DocOK(d)'
<1>0. /\ RunOK(w) /\ pc \in [Workers -> Labels] /\ mem \in [Workers -> Memory]
      /\ job \in [Workers -> Docs \union {None}] /\ status \in [Docs -> Status]
      /\ hasRun \in [Docs -> BOOLEAN] /\ count \in [Docs -> Nat] /\ rows \in [Docs -> Nat]
      /\ vectors \in [Docs -> [Indexes -> SUBSET Chunks]]
      /\ DocOK(d) /\ External \subseteq Indexes
    BY Typing, IndexAssumption DEF Context, Outcomes
<1>1. mem[w] \in Memory
    BY <1>0
<1>2. CASE Purge(w)
    <2>1. /\ pc[w] = "purge" /\ pc'[w] = "run" /\ job' = job /\ mem' = mem
          /\ file' = file /\ status' = status /\ hasRun' = hasRun /\ count' = count /\ rows' = rows
          /\ \A i \in Own : vectors'[d][i] = vectors[d][i]
        BY <1>0, <1>2 DEF Purge, Goto, Own
    <2>2. status[d] # "ready" /\ rows[d] = 0 /\ HandedNothing(mem[w])
          /\ (~mem[w].retry /\ file[d] # "gone" => Clean(d))
        BY <1>0, <2>1 DEF RunOK, Running, Working, Labels
    <2>3. DocOK(d)'
        BY <1>0, <2>1, <2>2 DEF DocOK, Clean
    <2>4. RunOK(w)'
        BY <2>1, <2>2 DEF RunOK, Clean
    <2> QED
        BY <2>3, <2>4
<1>3. CASE StartRun(w)
    <2>1. /\ pc[w] = "run" /\ pc'[w] = "index" /\ job' = job /\ status[d] # "absent"
          /\ file' = file /\ status' = status /\ hasRun' = hasRun /\ count' = count /\ rows' = rows
          /\ vectors' = vectors /\ indexed' = indexed
          /\ mem'[w].wrote = mem[w].wrote /\ mem'[w].put = mem[w].put /\ mem'[w].retry = mem[w].retry
        <3>1. /\ pc[w] = "run" /\ pc' = [pc EXCEPT ![w] = "index"] /\ job' = job /\ status[d] # "absent"
              /\ UNCHANGED <<file, status, hasRun, count, rows, vectors, indexed>>
              /\ mem' = [mem EXCEPT ![w].read = file[d] = "stored"]
            BY <1>3 DEF StartRun, Goto
        <3>3. mem'[w] = [mem[w] EXCEPT !.read = file[d] = "stored"]
            BY <1>0, <3>1
        <3>4. mem'[w].wrote = mem[w].wrote /\ mem'[w].put = mem[w].put /\ mem'[w].retry = mem[w].retry
            BY <1>1, <3>3 DEF Memory
        <3> QED
            BY <1>0, <3>1, <3>4
    <2>2. status[d] # "ready" /\ rows[d] = 0 /\ HandedNothing(mem[w])
          /\ (~mem[w].retry /\ file[d] # "gone" => Clean(d))
        BY <1>0, <2>1 DEF RunOK, Running, Working, Labels
    <2>3. DocOK(d)'
        BY <1>0, <2>1, DocKept
    <2>4. HandedNothing(mem'[w])
        BY <2>1, <2>2 DEF HandedNothing
    <2>5. External \subseteq Indexes
        BY <1>0
    <2>6. RunOK(w)'
        BY <2>1, <2>2, <2>4, <2>5 DEF RunOK, Clean, HandedNothing
    <2> QED
        BY <2>3, <2>6
<1>4. CASE \E i \in Indexes : Index(w, i)
    <2> PICK i \in Indexes : Index(w, i)
        BY <1>4
    <2>0. PICK accepted \in SUBSET Chunks :
            /\ mem' = [mem EXCEPT ![w].wrote = @ \union {i}, ![w].put[i] = accepted]
            /\ vectors' = IF i \in External
                          THEN [vectors EXCEPT ![d][i] = @ \union accepted]
                          ELSE vectors
        BY DEF Index
    <2>1. /\ pc[w] = "index" /\ pc' = pc /\ job' = job /\ mem[w].read
          /\ file' = file /\ status' = status /\ hasRun' = hasRun /\ count' = count
          /\ rows' = rows /\ indexed' = indexed
          /\ mem'[w] = [mem[w] EXCEPT !.wrote = @ \union {i}, !.put[i] = accepted]
          /\ \A j \in Own : vectors'[d][j] = vectors[d][j]
          /\ \A j \in External : vectors'[d][j] =
                vectors[d][j] \union (IF j = i THEN accepted ELSE {})
        <3>1. /\ pc[w] = "index" /\ pc' = pc /\ job' = job /\ mem[w].read
              /\ UNCHANGED <<file, status, hasRun, count, rows, indexed>>
            BY DEF Index
        <3>2. mem'[w] = [mem[w] EXCEPT !.wrote = @ \union {i}, !.put[i] = accepted]
            BY <1>0, <2>0
        <3>3. \A j \in Indexes : vectors'[d][j] =
                IF j = i /\ i \in External THEN vectors[d][j] \union accepted ELSE vectors[d][j]
            BY <1>0, <2>0
        <3>4. \A j \in Own : vectors'[d][j] = vectors[d][j]
            BY <3>3 DEF Own
        <3>5. \A j \in External : vectors'[d][j] =
                vectors[d][j] \union (IF j = i THEN accepted ELSE {})
            BY <1>0, <3>3
        <3> QED
            BY <3>1, <3>2, <3>4, <3>5
    <2>2. /\ mem'[w].read /\ mem'[w].retry = mem[w].retry
          /\ mem'[w].put = [mem[w].put EXCEPT ![i] = accepted]
        BY <1>1, <2>1 DEF Memory
    <2>3. status[d] # "ready" /\ status[d] # "absent" /\ rows[d] = 0
          /\ (~mem[w].retry /\ file[d] # "gone" => Clean(d))
          /\ (d \notin Deletable => \A j \in External : mem[w].put[j] \subseteq vectors[d][j])
        BY <1>0, <2>1 DEF RunOK, Running, Working, Labels
    <2>4. DocOK(d)'
        BY <1>0, <2>1, <2>3 DEF DocOK, Clean
    <2>5. d \notin Deletable => \A j \in External : mem'[w].put[j] \subseteq vectors'[d][j]
        <3>1. mem[w].put \in [Indexes -> SUBSET Chunks]
            BY <1>1 DEF Memory
        <3>2. \A j \in External : mem'[w].put[j] = IF j = i THEN accepted ELSE mem[w].put[j]
            BY <1>0, <2>2, <3>1
        <3> QED
            BY <2>1, <2>3, <3>2
    <2>6. RunOK(w)'
        BY <2>1, <2>2, <2>3, <2>5 DEF RunOK, Clean, Running, Working, Labels
    <2> QED
        BY <2>4, <2>6
<1>5. CASE Succeed(w)
    <2> PICK n \in 0 .. MaxChunks :
            /\ count' = [count EXCEPT ![d] = n]
            /\ rows' = [rows EXCEPT ![d] = @ + n]
        BY <1>5 DEF Succeed
    <2>1. /\ pc[w] = "index" /\ pc'[w] = "idle" /\ mem'[w] = Fresh
          /\ file' = file /\ status'[d] = "ready" /\ hasRun'[d] /\ count'[d] = n
          /\ rows'[d] = rows[d] + n /\ CommitVectors(w)
        BY <1>0, <1>5 DEF Succeed, Done, Goto
    <2>2. status[d] # "absent" /\ rows[d] = 0 /\ (~mem[w].retry /\ file[d] # "gone" => Clean(d))
          /\ (d \notin Deletable => \A i \in External : mem[w].put[i] \subseteq vectors[d][i])
        BY <1>0, <2>1 DEF RunOK, Running, Working, Labels
    <2>3. file[d] \notin {"new", "gone"}
        BY <1>0, <2>2 DEF DocOK
    <2>4. /\ \A i \in Own : vectors'[d][i] = mem[w].put[i]
          /\ \A i \in External : vectors'[d][i] = vectors[d][i]
        BY <2>1, <2>2, <2>3, Committed
    <2>5. rows'[d] = count'[d]
        BY <2>1, <2>2
    <2>6. indexed'[d] = mem[w].put
        BY <1>5, Typing DEF Succeed, Context
    <2>7. DocOK(d)'
        BY <2>1, <2>2, <2>3, <2>4, <2>5, <2>6 DEF DocOK
    <2> QED
        BY <2>1, <2>7, Released
<1>6. CASE RecordFailure(w)
    <2>1. /\ pc[w] \in {"run", "index"} /\ pc'[w] = "rescue" /\ file' = file
          /\ status'[d] \in {"failed", "unsupported"} /\ CommitVectors(w)
          /\ hasRun'[d] = (hasRun[d] \/ pc[w] = "index")
        BY <1>0, <1>6 DEF RecordFailure, Goto
    <2>2. status[d] # "absent" /\ (~mem[w].retry /\ file[d] # "gone" => Clean(d))
          /\ (pc[w] = "run" => HandedNothing(mem[w]))
        BY <1>0, <1>6, <2>1 DEF RecordFailure, RunOK, Running, Working, Labels
    <2>3. file[d] \notin {"new", "gone"}
        BY <1>0, <2>2 DEF DocOK
    <2>4. \A i \in Own : vectors'[d][i] = mem[w].put[i]
        BY <2>1, <2>2, <2>3, Committed
    <2>5. ~hasRun'[d] => Clean(d)'
        BY <2>1, <2>2, <2>4 DEF Clean, Own, HandedNothing
    <2>6. DocOK(d)'
        BY <2>1, <2>3, <2>5 DEF DocOK
    <2> QED
        BY <2>1, <2>6, Released
<1> QED
    BY <1>2, <1>3, <1>4, <1>5, <1>6

LEMMA LeavingSteps ==
    ASSUME Context, NEW w \in Workers, NEW d \in Docs, job[w] = d,
           StartRunFails(w) \/ Abort(w) \/ RescueRead(w) \/ RescueWrite(w)
    PROVE  RunOK(w)' /\ DocOK(d)'
<1>0. /\ RunOK(w) /\ pc \in [Workers -> Labels] /\ mem \in [Workers -> Memory]
      /\ job \in [Workers -> Docs \union {None}] /\ status \in [Docs -> Status] /\ DocOK(d)
    BY Typing DEF Context, Outcomes
<1>1. CASE StartRunFails(w) \/ Abort(w)
    <2>1. /\ pc'[w] = "rescue" /\ file' = file /\ status' = status /\ hasRun' = hasRun
          /\ count' = count /\ rows' = rows /\ vectors' = vectors /\ indexed' = indexed
        BY <1>0, <1>1 DEF StartRunFails, Abort, Goto, docVars
    <2> QED
        BY <1>0, <2>1, DocKept, Released
<1>2. CASE RescueRead(w)
    <2>1. DocOK(d)'
        BY <1>0, <1>2, DocKept DEF RescueRead, docVars
    <2>2. pc'[w] = "recording" \/ (pc'[w] = "idle" /\ mem'[w] = Fresh)
        BY <1>0, <1>2 DEF RescueRead, Done, Goto
    <2> QED
        BY <2>1, <2>2, Released
<1>3. CASE RescueWrite(w)
    <2>1. /\ pc'[w] = "idle" /\ mem'[w] = Fresh /\ file' = file /\ hasRun' = hasRun
          /\ vectors' = vectors
          /\ status'[d] = (IF status[d] = "absent" THEN "absent" ELSE "failed")
        BY <1>0, <1>3 DEF RescueWrite, Done, Goto
    <2> QED
        BY <1>0, <2>1, OwnDocKept, Released
<1> QED
    BY <1>1, <1>2, <1>3

\* Chunk rows that Succeed commits are late for every deletion under way: the
\* run had read the bytes before they went, so none of them has retried.
LEMMA SucceedRequests ==
    ASSUME Context, NEW w \in Workers, Succeed(w), NEW r \in Requests
    PROVE  ReqOK(r)'
<1> DEFINE d == job[w]
<1>1. /\ pc[w] = "index" /\ d \in Docs /\ mem[w].read /\ file' = file
      /\ \A e \in Docs : e # d => late'[e] = late[e]
      /\ \A v \in Workers : v # w => pc'[v] = pc[v] /\ job'[v] = job[v] /\ mem'[v] = mem[v]
      /\ pc'[w] = "idle"
    <2>1. /\ pc[w] = "index" /\ mem[w].wrote = Indexes /\ file' = file /\ Done(w) /\ RunOK(w)
        BY DEF Context, Outcomes, Succeed
    <2>2. d \in Docs /\ mem[w].read
        BY <2>1, Typing DEF Context, RunOK, HandedNothing
    <2>3. \A e \in Docs : e # d => late'[e] = late[e]
        BY Typing DEF Context, Succeed
    <2> QED
        BY <2>1, <2>2, <2>3, Typing DEF Context, Done, Goto
<1>2. req'[r].op = req[r].op /\ req'[r].ids = req[r].ids /\ req'[r].tries = req[r].tries
    BY Typing DEF Context, Succeed, CommitVectors, Request
<1>3. ReqOK(r) /\ req[r].ids \subseteq Docs
    BY Typing DEF Context, Outcomes, Request
<1>4. ASSUME req[r].op = "row", NEW e \in req[r].ids
      PROVE  /\ file'[e] \in {"emptied", "gone"}
             /\ r \in late'[e] \/ req'[r].tries = 2 =>
                   \A v \in Workers : pc'[v] = "index" /\ job'[v] = e => ~mem'[v].read
             /\ ~(r \in late'[e] /\ req'[r].tries = 2)
    <2>1. /\ e \in Docs /\ file[e] \in {"emptied", "gone"}
          /\ r \in late[e] \/ req[r].tries = 2 =>
                \A v \in Workers : pc[v] = "index" /\ job[v] = e => ~mem[v].read
          /\ ~(r \in late[e] /\ req[r].tries = 2)
        BY <1>3, <1>4 DEF ReqOK
    <2>2. CASE e # d
        BY <1>1, <1>2, <2>1, <2>2
    <2>3. CASE e = d
        <3>1. req[r].tries # 2
            BY <1>1, <2>1, <2>3
        <3>2. ASSUME NEW v \in Workers, pc'[v] = "index", job'[v] = e
              PROVE  FALSE
            <4>1. v # w /\ pc[v] = "index" /\ job[v] = job[w]
                BY <1>1, <2>3, <3>2
            <4> QED
                BY <1>1, <4>1 DEF Context, ExclusiveIngestion, Running, Working, Labels
        <3> QED
            BY <1>1, <1>2, <2>1, <3>1, <3>2
    <2> QED
        BY <2>2, <2>3
<1> QED
    BY <1>1, <1>2, <1>3, <1>4 DEF ReqOK

LEMMA WorkerRequests ==
    ASSUME Context, NEW w \in Workers, WorkerStep(w), NEW r \in Requests
    PROVE  ReqOK(r)'
<1>1. CASE Succeed(w)
    BY <1>1, SucceedRequests
<1>2. CASE ~Succeed(w)
    <2>1. \/ req'[r].op = "idle"
          \/ req'[r].op = req[r].op /\ req'[r].ids = req[r].ids /\ req'[r].tries = req[r].tries
        <3>1. CASE \E q \in Requests : BeginDeadlock(w, q)
            <4>1. PICK q \in Requests : req' = req \/ req' = [req EXCEPT ![q] = Idle]
                BY <3>1 DEF BeginDeadlock
            <4>2. Idle.op = "idle" /\ req \in [Requests -> Request]
                BY Typing DEF Context, Idle
            <4> QED
                BY <4>1, <4>2
        <3>2. CASE RecordFailure(w)
            BY <3>2, Typing DEF Context, RecordFailure, CommitVectors, Request
        <3>3. CASE ~RecordFailure(w) /\ ~\E q \in Requests : BeginDeadlock(w, q)
            <4>1. req' = req
                BY <1>2, <3>3 DEF WorkerStep, Take, Claim, Load, BeginFails, Begin, Purge, StartRun,
                                  StartRunFails, Index, Abort, RescueRead, RescueWrite
            <4> QED
                BY <4>1
        <3> QED
            BY <3>1, <3>2, <3>3
    <2>2. file' = file /\ \A v \in Workers : v # w => pc'[v] = pc[v] /\ job'[v] = job[v] /\ mem'[v] = mem[v]
        BY ItsOwnOnly DEF Context, OnlyItsOwn
    <2>3. \A d \in Docs : r \in late'[d] => r \in late[d]
        <3>1. CASE Begin(w)
            BY <3>1, Typing DEF Context, Begin
        <3>2. CASE ~Begin(w)
            <4>1. late' = late
                BY <1>2, <3>2 DEF WorkerStep, docVars, Take, Claim, Load, BeginFails, BeginDeadlock, Purge,
                                  StartRun, StartRunFails, Index, RecordFailure, Abort, RescueRead,
                                  RescueWrite
            <4> QED
                BY <4>1
        <3> QED
            BY <3>1, <3>2
    <2>4. pc'[w] = "index" /\ mem'[w].read =>
              file[job'[w]] = "stored" \/ (pc[w] = "index" /\ mem[w].read /\ job'[w] = job[w])
        <3> USE Typing DEF Context, Goto, Done
        <3>1. CASE StartRun(w)
            <4>1. mem[w] \in Memory
                OBVIOUS
            <4>2. mem'[w].read = (file[job[w]] = "stored") /\ job' = job
                BY <3>1, <4>1 DEF StartRun, Memory
            <4> QED
                BY <4>2
        <3>2. CASE \E i \in Indexes : Index(w, i)
            BY <3>2 DEF Index, Memory
        <3>3. CASE ~StartRun(w) /\ ~\E i \in Indexes : Index(w, i)
            <4>1. pc'[w] # "index"
                BY <1>2, <3>3 DEF WorkerStep, Take, Claim, Load, BeginFails, Begin, BeginDeadlock, Purge,
                                  StartRunFails, RecordFailure, Abort, RescueRead, RescueWrite
            <4> QED
                BY <4>1
        <3> QED
            BY <3>1, <3>2, <3>3
    <2> QED
        BY <2>1, <2>2, <2>3, <2>4, ReqKept
<1> QED
    BY <1>1, <1>2

LEMMA WorkerOutcomes ==
    ASSUME Context, NEW w \in Workers, WorkerStep(w)
    PROVE  Outcomes'
<1>1. OnlyItsOwn(w)
    BY ItsOwnOnly DEF Context
<1>2. CASE Take(w)
    <2>1. RunOK(w)' /\ docVars' = docVars
        BY <1>2, TakeStep
    <2>2. \A d \in Docs : DocOK(d)'
        BY <2>1, DocKept DEF Context, Outcomes, docVars
    <2> QED
        BY <1>1, <2>1, <2>2, OthersKept, WorkerRequests DEF Outcomes
<1>3. CASE ~Take(w)
    <2>1. pc[w] # "idle"
        BY <1>3 DEF WorkerStep, Claim, Load, BeginFails, Begin, BeginDeadlock, Purge, StartRun,
                    StartRunFails, Index, Succeed, RecordFailure, Abort, RescueRead, RescueWrite
    <2> PICK d \in Docs : job[w] = d
        BY <2>1, Typing DEF Context
    <2>2. RunOK(w)' /\ DocOK(d)'
        BY <1>3, PreparingSteps, PipelineSteps, LeavingSteps DEF WorkerStep
    <2>3. \A e \in Docs : e # d => DocOK(e)'
        BY <1>1, DocKept DEF Context, Outcomes, OnlyItsOwn
    <2> QED
        BY <1>1, <2>2, <2>3, OthersKept, WorkerRequests DEF Outcomes
<1> QED
    BY <1>2, <1>3

(***************************************************************************)
(* The steps of requests, clients and the process.                         *)
(***************************************************************************)

\* A running worker stays right while nobody makes its document ready, takes
\* its locked row, or the external vectors of a file nobody may delete.
LEMMA RunKept ==
    ASSUME Context, NEW w \in Workers, pc' = pc, job' = job, mem' = mem,
           \A d \in Docs :
               /\ status'[d] = "ready" => status[d] = "ready"
               /\ status'[d] = "absent" => status[d] = "absent" \/ Unlocked(d)
               /\ rows'[d] \in {0, rows[d]}
               /\ file'[d] # "gone" => file[d] # "gone"
               /\ Clean(d) => Clean(d)'
               /\ d \notin Deletable => \A i \in External : vectors'[d][i] = vectors[d][i]
    PROVE  RunOK(w)'
<1>1. RunOK(w)
    BY DEF Context, Outcomes
<1>2. CASE pc[w] \notin Running
    BY <1>1, <1>2 DEF RunOK, Running, Working, Labels
<1>3. CASE pc[w] \in Running
    <2> PICK d \in Docs : job[w] = d
        BY <1>3, Typing DEF Context, Running, Working
    <2>1. pc[w] = "index" => status'[d] # "absent"
        <3>1. pc[w] = "index" => holder[d] = w /\ w # None
            BY DocsAssumption DEF Context, RowLockIsTheRun
        <3> QED
            BY <1>1, <3>1 DEF RunOK, Unlocked
    <2> QED
        BY <1>1, <1>3, <2>1 DEF RunOK
<1> QED
    BY <1>2, <1>3

\* Steps that leave the rows, the files and the workers alone.
LEMMA OnlyRequests ==
    ASSUME Context, docVars' = docVars, pc' = pc, job' = job, mem' = mem,
           NEW r \in Requests, ReqOK(r)', \A q \in Requests : q # r => req'[q] = req[q]
    PROVE  Outcomes'
<1>1. \A d \in Docs : DocOK(d)'
    BY DocKept DEF Context, Outcomes, docVars
<1>2. \A w \in Workers : RunOK(w)'
    BY RunKept, Typing DEF Context, docVars, Clean
<1>3. \A q \in Requests : q # r => ReqOK(q)'
    BY ReqKept DEF docVars
<1> QED
    BY <1>1, <1>2, <1>3 DEF Outcomes

LEMMA RequeueSteps ==
    ASSUME Context, NEW r \in Requests,
           CommitRequeue(r) \/ RequeueFails(r) \/ \E d \in Docs : Enqueue(r, d)
    PROVE  Outcomes'
<1>0. req[r] \in Request /\ ReqOK(r) /\ req \in [Requests -> Request]
      /\ status \in [Docs -> Status]
    BY Typing DEF Context, Outcomes
<1>1. CASE CommitRequeue(r)
    <2>1. /\ req'[r].op = "enqueue" /\ \A q \in Requests : q # r => req'[q] = req[q]
          /\ file' = file /\ hasRun' = hasRun /\ count' = count /\ rows' = rows /\ late' = late
          /\ vectors' = vectors /\ indexed' = indexed /\ pc' = pc /\ job' = job /\ mem' = mem
          /\ req[r].op = "requeue"
        BY <1>0, <1>1 DEF CommitRequeue, Submits, Idle, workVars
    <2>2. \A d \in Docs : \/ status'[d] = status[d]
                          \/ status'[d] = "pending" /\ file[d] \notin {"new", "gone"}
        BY <1>0, <1>1, <2>1 DEF CommitRequeue, ReqOK, Changed
    <2>3. \A d \in Docs : DocOK(d)'
        BY <2>1, <2>2 DEF Context, Outcomes, DocOK, Clean
    <2>4. \A w \in Workers : RunOK(w)'
        BY <2>1, <2>2, RunKept DEF Clean
    <2>5. \A q \in Requests : q # r => ReqOK(q)'
        BY <2>1, ReqKept
    <2>6. ReqOK(r)'
        BY <2>1 DEF ReqOK
    <2> QED
        BY <2>3, <2>4, <2>5, <2>6 DEF Outcomes
<1>2. CASE RequeueFails(r)
    <2>1. ReqOK(r)' /\ \A q \in Requests : q # r => req'[q] = req[q]
        BY <1>0, <1>2 DEF RequeueFails, ReqOK, Idle
    <2> QED
        BY <1>2, <2>1, OnlyRequests DEF RequeueFails, workVars
<1>3. CASE \E d \in Docs : Enqueue(r, d)
    <2>1. req'[r].op \in {"idle", "enqueue"} /\ \A q \in Requests : q # r => req'[q] = req[q]
        BY <1>0, <1>3 DEF Enqueue, Idle, Request
    <2>2. ReqOK(r)'
        BY <2>1 DEF ReqOK
    <2> QED
        BY <1>3, <2>1, <2>2, OnlyRequests DEF Enqueue, workVars
<1> QED
    BY <1>1, <1>2, <1>3

LEMMA PurgeVectorsStep ==
    ASSUME Context, NEW r \in Requests, NEW d \in Docs, PurgeVectors(r, d)
    PROVE  Outcomes'
<1>0. req[r] \in Request /\ ReqOK(r) /\ req \in [Requests -> Request]
      /\ vectors \in [Docs -> [Indexes -> SUBSET Chunks]] /\ External \subseteq Indexes
    BY Typing, IndexAssumption DEF Context, Outcomes
<1>1. /\ req[r].op = "delete" /\ d \in req[r].ids
      /\ file' = file /\ status' = status /\ hasRun' = hasRun /\ count' = count /\ rows' = rows
      /\ late' = late /\ indexed' = indexed /\ pc' = pc /\ job' = job /\ mem' = mem
    BY DEF PurgeVectors, poolVars, workVars
<1>2. PICK e \in Deletable : req[r].ids = {e}
    BY <1>0, <1>1 DEF ReqOK
<1>3. d \in Deletable
    BY <1>1, <1>2
<1>4. \A c \in Docs : /\ c # d => vectors'[c] = vectors[c]
                      /\ \A i \in Own : vectors'[c][i] = vectors[c][i]
    BY <1>0 DEF PurgeVectors, Own
<1>5. \A q \in Requests : q # r => req'[q] = req[q]
    BY <1>0 DEF PurgeVectors
<1>6. req'[r].op = "idle" \/ (req'[r].op = "bytes" /\ req'[r].ids = req[r].ids)
    BY <1>0 DEF PurgeVectors, Idle, Request
<1>7. \A c \in Docs : DocOK(c)'
    BY <1>1, <1>3, <1>4 DEF Context, Outcomes, DocOK, Clean
<1>8. \A w \in Workers : RunOK(w)'
    BY <1>1, <1>3, <1>4, RunKept DEF Clean
<1>9. \A q \in Requests : q # r => ReqOK(q)'
    BY <1>1, <1>5, ReqKept
<1>10. ReqOK(r)'
    BY <1>2, <1>6 DEF ReqOK
<1> QED
    BY <1>7, <1>8, <1>9, <1>10 DEF Outcomes

LEMMA PurgeBytesStep ==
    ASSUME Context, NEW r \in Requests, NEW d \in Docs, PurgeBytes(r, d)
    PROVE  Outcomes'
<1>0. req[r] \in Request /\ ReqOK(r) /\ req \in [Requests -> Request]
      /\ file \in [Docs -> {"new", "stored", "emptied", "gone"}]
      /\ late \in [Docs -> SUBSET Requests]
    BY Typing DEF Context, Outcomes
<1>1. /\ req[r].op = "bytes" /\ d \in req[r].ids
      /\ status' = status /\ hasRun' = hasRun /\ count' = count /\ rows' = rows
      /\ vectors' = vectors /\ indexed' = indexed /\ pc' = pc /\ job' = job /\ mem' = mem
    BY DEF PurgeBytes, poolVars, workVars
<1>2. PICK e \in Deletable : req[r].ids = {e}
    BY <1>0, <1>1 DEF ReqOK
<1>3. /\ file'[d] = (IF file[d] = "gone" THEN "gone" ELSE "emptied")
      /\ r \notin late'[d]
      /\ \A c \in Docs : /\ c # d => file'[c] = file[c]
                         /\ late'[c] \subseteq late[c]
    BY <1>0 DEF PurgeBytes
<1>4. \A q \in Requests : q # r => req'[q] = req[q]
    BY <1>0 DEF PurgeBytes
<1>5. req'[r].op = "row" /\ req'[r].ids = req[r].ids /\ req'[r].tries = 1
    BY <1>0 DEF PurgeBytes, Request
<1>6. \A c \in Docs : DocOK(c)'
    BY <1>1, <1>3 DEF Context, Outcomes, DocOK, Clean
<1>7. \A w \in Workers : RunOK(w)'
    BY <1>1, <1>3, RunKept DEF Clean
<1>8. \A q \in Requests : q # r => ReqOK(q)'
    BY <1>1, <1>3, <1>4, ReqKept
<1>9. ReqOK(r)'
    BY <1>1, <1>2, <1>3, <1>5 DEF ReqOK
<1> QED
    BY <1>6, <1>7, <1>8, <1>9 DEF Outcomes

LEMMA DeleteRowStep ==
    ASSUME Context, NEW r \in Requests, NEW d \in Docs, DeleteRow(r, d)
    PROVE  Outcomes'
<1>0. req[r] \in Request /\ ReqOK(r) /\ req \in [Requests -> Request]
      /\ file \in [Docs -> {"new", "stored", "emptied", "gone"}] /\ status \in [Docs -> Status]
      /\ late \in [Docs -> SUBSET Requests] /\ rows \in [Docs -> Nat]
      /\ hasRun \in [Docs -> BOOLEAN] /\ count \in [Docs -> Nat]
      /\ vectors \in [Docs -> [Indexes -> SUBSET Chunks]]
    BY Typing DEF Context, Outcomes
<1>1. /\ req[r].op = "row" /\ d \in req[r].ids /\ Unlocked(d)
      /\ pc' = pc /\ job' = job /\ mem' = mem
      /\ req'[r].op = "idle" /\ \A q \in Requests : q # r => req'[q] = req[q]
    BY <1>0 DEF DeleteRow, poolVars, workVars, Idle
<1>2. PICK e \in Deletable : req[r].ids = {e}
    BY <1>0, <1>1 DEF ReqOK
<1>3. d \in Deletable
    BY <1>1, <1>2
<1>4. /\ file'[d] = "gone" /\ status'[d] = "absent" /\ rows'[d] = 0 /\ late'[d] = {}
      /\ \A i \in Indexes : vectors'[d][i] \subseteq vectors[d][i]
      /\ \A c \in Docs : c # d =>
            /\ file'[c] = file[c] /\ status'[c] = status[c] /\ hasRun'[c] = hasRun[c]
            /\ count'[c] = count[c] /\ rows'[c] = rows[c] /\ late'[c] = late[c]
            /\ vectors'[c] = vectors[c] /\ indexed'[c] = indexed[c]
    BY <1>0 DEF DeleteRow
<1>5. \A c \in Docs : DocOK(c)'
    <2>1. DocOK(d)'
        BY <1>4 DEF DocOK
    <2>2. \A c \in Docs : c # d => DocOK(c)'
        BY <1>4, DocKept DEF Context, Outcomes
    <2> QED
        BY <2>1, <2>2
<1>6. \A w \in Workers : RunOK(w)'
    <2>1. \A c \in Docs : Clean(c) => Clean(c)'
        BY <1>4 DEF Clean, Own
    <2> QED
        BY <1>1, <1>3, <1>4, <2>1, RunKept
<1>7. \A q \in Requests : q # r => ReqOK(q)'
    BY <1>1, <1>4, ReqKept
<1>8. ReqOK(r)'
    BY <1>1 DEF ReqOK
<1> QED
    BY <1>5, <1>6, <1>7, <1>8 DEF Outcomes

LEMMA RetrySteps ==
    ASSUME Context, NEW r \in Requests, NEW d \in Docs, RetryDelete(r, d) \/ DeleteFails(r, d)
    PROVE  Outcomes'
<1>0. req[r] \in Request /\ ReqOK(r) /\ req \in [Requests -> Request]
      /\ late \in [Docs -> SUBSET Requests]
    BY Typing DEF Context, Outcomes
<1>1. CASE DeleteFails(r, d)
    <2>1. ReqOK(r)' /\ \A q \in Requests : q # r => req'[q] = req[q]
        BY <1>0, <1>1 DEF DeleteFails, ReqOK, Idle
    <2> QED
        BY <1>1, <2>1, OnlyRequests DEF DeleteFails, workVars
<1>2. CASE RetryDelete(r, d)
    <2>1. /\ req[r].op = "row" /\ d \in req[r].ids /\ r \in late[d]
          /\ file' = file /\ status' = status /\ hasRun' = hasRun /\ count' = count /\ rows' = rows
          /\ vectors' = vectors /\ indexed' = indexed /\ pc' = pc /\ job' = job /\ mem' = mem
          /\ r \notin late'[d] /\ \A c \in Docs : late'[c] \subseteq late[c]
          /\ \A q \in Requests : q # r => req'[q] = req[q]
          /\ req'[r].op = "row" /\ req'[r].ids = req[r].ids
        BY <1>0, <1>2 DEF RetryDelete, poolVars, workVars, Request
    <2>2. PICK e \in Deletable : req[r].ids = {e}
        BY <1>0, <2>1 DEF ReqOK
    <2>3. /\ file[d] \in {"emptied", "gone"}
          /\ \A w \in Workers : pc[w] = "index" /\ job[w] = d => ~mem[w].read
        BY <1>0, <2>1 DEF ReqOK
    <2>4. ReqOK(r)'
        BY <2>1, <2>2, <2>3 DEF ReqOK
    <2>5. \A q \in Requests : q # r => ReqOK(q)'
        BY <2>1, ReqKept
    <2>6. \A c \in Docs : DocOK(c)'
        BY <2>1, DocKept DEF Context, Outcomes
    <2>7. \A w \in Workers : RunOK(w)'
        BY <2>1, Typing, RunKept DEF Context, Clean
    <2> QED
        BY <2>4, <2>5, <2>6, <2>7 DEF Outcomes
<1> QED
    BY <1>1, <1>2

LEMMA RequestOutcomes ==
    ASSUME Context, NEW r \in Requests, RequestStep(r)
    PROVE  Outcomes'
BY RequeueSteps, PurgeVectorsStep, PurgeBytesStep, DeleteRowStep, RetrySteps DEF RequestStep

LEMMA ClientOutcomes ==
    ASSUME Context, NEW r \in Requests, Client(r)
    PROVE  Outcomes'
<1>0. req[r] \in Request /\ ReqOK(r) /\ req \in [Requests -> Request]
      /\ file \in [Docs -> {"new", "stored", "emptied", "gone"}] /\ status \in [Docs -> Status]
    BY Typing DEF Context, Outcomes
<1>1. CASE \E d \in Docs : Upload(r, d) \/ \E source \in Docs : Copy(r, source, d)
    <2> PICK d \in Docs : Upload(r, d) \/ \E source \in Docs : Copy(r, source, d)
        BY <1>1
    <2>1. /\ file[d] = "new" /\ file'[d] = "stored" /\ status'[d] # "ready"
          /\ hasRun' = hasRun /\ count' = count /\ rows' = rows /\ late' = late
          /\ vectors' = vectors /\ indexed' = indexed /\ pc' = pc /\ job' = job /\ mem' = mem
          /\ \A c \in Docs : c # d => file'[c] = file[c] /\ status'[c] = status[c]
        BY <1>0 DEF Upload, Copy, NewFile, workVars
    <2>2. req'[r].op \in {"idle", "enqueue"} /\ \A q \in Requests : q # r => req'[q] = req[q]
        BY <1>0 DEF Upload, Copy, Arrive, Submits, Idle
    <2>3. status[d] = "absent" /\ (~hasRun[d] => Clean(d))
        BY <2>1 DEF Context, Outcomes, DocOK
    <2>4. \A c \in Docs : DocOK(c)'
        <3>1. DocOK(d)'
            BY <2>1, <2>3 DEF DocOK, Clean
        <3>2. \A c \in Docs : c # d => DocOK(c)'
            BY <2>1, DocKept DEF Context, Outcomes
        <3> QED
            BY <3>1, <3>2
    <2>5. \A w \in Workers : RunOK(w)'
        BY <2>1, <2>3, RunKept DEF Clean
    <2>6. \A q \in Requests : q # r => ReqOK(q)'
        BY <2>1, <2>2, ReqKept
    <2>7. ReqOK(r)'
        BY <2>2 DEF ReqOK
    <2> QED
        BY <2>4, <2>5, <2>6, <2>7 DEF Outcomes
<1>2. CASE \E d \in Docs : ReadForDelete(r, d)
    <2> PICK d \in Docs : ReadForDelete(r, d)
        BY <1>2
    <2>1. /\ req'[r].op = "delete" /\ req'[r].ids = {d} /\ d \in Deletable
          /\ \A q \in Requests : q # r => req'[q] = req[q]
        BY <1>0 DEF ReadForDelete, Idle
    <2>2. ReqOK(r)'
        BY <2>1 DEF ReqOK
    <2> QED
        BY <2>1, <2>2, OnlyRequests DEF ReadForDelete, workVars
<1>3. CASE \E kind \in Kinds : ReadForRequeue(r, kind)
    <2> PICK kind \in Kinds : ReadForRequeue(r, kind)
        BY <1>3
    <2>1. PICK ids \in Requeueable(kind) :
              req' = [req EXCEPT ![r] = [Idle EXCEPT !.op = "requeue", !.ids = ids,
                          !.seen = [d \in Docs |-> IF d \in ids THEN status[d] ELSE "absent"]]]
        BY DEF ReadForRequeue
    <2>2. /\ req'[r].op = "requeue" /\ req'[r].ids = ids
          /\ \A q \in Requests : q # r => req'[q] = req[q]
        BY <1>0, <2>1 DEF Idle
    <2>3. \A d \in ids : d \in Docs /\ (status[d] # "absent" \/ file[d] # "new")
        BY KindAssumption DEF Requeueable
    <2>4. \A d \in ids : file[d] # "new"
        BY <2>3 DEF Context, Outcomes, DocOK
    <2>5. ReqOK(r)' /\ docVars' = docVars /\ pc' = pc /\ job' = job /\ mem' = mem
        BY <2>2, <2>4 DEF ReqOK, ReadForRequeue, docVars, workVars
    <2> QED
        BY <2>2, <2>5, OnlyRequests
<1> QED
    BY <1>1, <1>2, <1>3 DEF Client

LEMMA ProcessOutcomes ==
    ASSUME Context, Stop \/ Exit \/ Crash \/ Recover
    PROVE  Outcomes'
<1>1. CASE Stop \/ Exit
    <2>1. docVars' = docVars /\ pc' = pc /\ job' = job /\ mem' = mem /\ req' = req
        BY <1>1 DEF Stop, Exit, docVars, workVars
    <2> QED
        BY <2>1 DEF Context, Outcomes, DocOK, RunOK, ReqOK, Clean, docVars
<1>2. CASE Crash
    <2>1. \A d \in Docs : DocOK(d)'
        BY <1>2 DEF Context, Outcomes, Crash, DocOK, Clean
    <2>2. \A w \in Workers : RunOK(w)'
        BY <1>2, Released DEF Crash
    <2>3. \A r \in Requests : ReqOK(r)'
        BY <1>2 DEF Crash, ReqOK, Idle
    <2> QED
        BY <2>1, <2>2, <2>3 DEF Outcomes
<1>3. CASE Recover
    <2>1. /\ file' = file /\ hasRun' = hasRun /\ count' = count /\ rows' = rows /\ late' = late
          /\ vectors' = vectors /\ indexed' = indexed /\ pc' = pc /\ job' = job /\ mem' = mem /\ req' = req
          /\ \A d \in Docs : \/ status'[d] = status[d]
                             \/ status[d] = "processing" /\ status'[d] = "pending"
        BY <1>3, Typing DEF Context, Recover, workVars
    <2>2. \A d \in Docs : DocOK(d)'
        BY <2>1 DEF Context, Outcomes, DocOK, Clean
    <2>3. \A w \in Workers : RunOK(w)'
        BY <2>1, RunKept DEF Clean
    <2>4. \A r \in Requests : ReqOK(r)'
        BY <2>1, ReqKept
    <2> QED
        BY <2>2, <2>3, <2>4 DEF Outcomes
<1> QED
    BY <1>1, <1>2, <1>3

LEMMA NextOutcomes ==
    ASSUME Context, [Next]_vars
    PROVE  Outcomes'
<1>1. CASE UNCHANGED vars
    BY <1>1 DEF vars, Context, Outcomes, DocOK, RunOK, ReqOK, Clean
<1> QED
    BY <1>1, WorkerOutcomes, RequestOutcomes, ClientOutcomes, ProcessOutcomes DEF Next

(***************************************************************************)
(* The claim.                                                              *)
(***************************************************************************)

\* Nobody can claim the document of a running worker.
Claimed ==
    \A w \in Workers : pc[w] \in Running => status[job[w]] # "pending" /\ file[job[w]] # "new"

\* A process that is down has no threads.
DownIsEmpty == phase = "down" => \A w \in Workers : pc[w] = "idle"

LEMMA DownHasNoThreads == Spec => []DownIsEmpty
<1>1. Init => DownIsEmpty
    BY DEF Init, DownIsEmpty
<1>2. TypeOK /\ DownIsEmpty /\ [Next]_vars => DownIsEmpty'
    <2> SUFFICES ASSUME TypeOK, DownIsEmpty, [Next]_vars PROVE DownIsEmpty'
        OBVIOUS
    <2>1. CASE UNCHANGED vars
        BY <2>1 DEF vars, DownIsEmpty
    <2>2. ASSUME NEW w \in Workers, WorkerStep(w) PROVE DownIsEmpty'
        <3>1. phase' = phase /\ (phase = "up" \/ pc[w] # "idle")
            BY <2>2 DEF WorkerStep, Take, Claim, Load, BeginFails, Begin, BeginDeadlock, Purge, StartRun,
                        StartRunFails, Index, Succeed, RecordFailure, Abort, RescueRead, RescueWrite,
                        poolVars
        <3> QED
            BY <3>1 DEF DownIsEmpty
    <2>3. ASSUME NEW r \in Requests, RequestStep(r) \/ Client(r) PROVE DownIsEmpty'
        <3>1. phase' = phase /\ pc' = pc
            BY <2>3 DEF RequestStep, CommitRequeue, RequeueFails, Enqueue, PurgeVectors, PurgeBytes,
                        DeleteRow, RetryDelete, DeleteFails, Client, Upload, Copy, NewFile,
                        ReadForRequeue, ReadForDelete, poolVars, workVars
        <3> QED
            BY <3>1 DEF DownIsEmpty
    <2>4. CASE Stop \/ Exit \/ Crash \/ Recover
        BY <2>4 DEF Stop, Exit, Crash, Recover, DownIsEmpty, workVars
    <2> QED
        BY <2>1, <2>2, <2>3, <2>4 DEF Next
<1> QED
    BY <1>1, <1>2, TypeCorrect, PTL DEF Spec

\* No request requeues a document under a worker that is running it.
RequeuesSpareWorkers ==
    \A r \in Requests : CommitRequeue(r) =>
        \A d \in Changed(r), w \in Workers : ~(pc[w] \in Running /\ job[w] = d)

\* A worker comes to run a document by claiming it, and by nothing else.
LEMMA ByClaim ==
    ASSUME TypeOK, NEW w \in Workers, WorkerStep(w)
    PROVE  /\ pc'[w] \in Running =>
                 /\ job'[w] = job[w]
                 /\ \/ pc[w] \in Running
                    \/ status[job[w]] = "pending" /\ status'[job[w]] = "processing"
           /\ \A d \in Docs : status'[d] # "pending" \/ status'[d] = status[d]
<1> USE Typing DEF Goto, Done, docVars, Running, Working, Labels
<1>1. CASE Take(w)
    BY <1>1 DEF Take
<1>2. CASE Claim(w)
    BY <1>2 DEF Claim
<1>3. CASE Load(w)
    BY <1>3 DEF Load
<1>4. CASE BeginFails(w) \/ StartRunFails(w)
    BY <1>4 DEF BeginFails, StartRunFails
<1>5. CASE Begin(w)
    BY <1>5 DEF Begin
<1>6. CASE \E r \in Requests : BeginDeadlock(w, r)
    BY <1>6 DEF BeginDeadlock
<1>7. CASE Purge(w)
    BY <1>7 DEF Purge
<1>8. CASE StartRun(w) \/ Abort(w)
    BY <1>8 DEF StartRun, Abort
<1>9. CASE \E i \in Indexes : Index(w, i)
    BY <1>9 DEF Index
<1>10. CASE Succeed(w)
    BY <1>10 DEF Succeed
<1>11. CASE RecordFailure(w)
    BY <1>11 DEF RecordFailure
<1>12. CASE RescueRead(w)
    BY <1>12 DEF RescueRead
<1>13. CASE RescueWrite(w)
    BY <1>13 DEF RescueWrite
<1> QED
    BY <1>1, <1>2, <1>3, <1>4, <1>5, <1>6, <1>7, <1>8, <1>9, <1>10, <1>11, <1>12, <1>13 DEF WorkerStep

LEMMA WorkerClaims ==
    ASSUME Context, Claimed, NEW w \in Workers, WorkerStep(w)
    PROVE  ExclusiveIngestion' /\ Claimed'
<1>1. OnlyItsOwn(w)
    BY ItsOwnOnly DEF Context
<1>2. /\ pc'[w] \in Running =>
            /\ job'[w] = job[w]
            /\ \/ pc[w] \in Running
               \/ status[job[w]] = "pending" /\ status'[job[w]] = "processing"
      /\ \A d \in Docs : status'[d] # "pending" \/ status'[d] = status[d]
    BY ByClaim DEF Context
<1>3. \A v \in Workers : pc[v] \in Running \/ pc'[v] \in Running => pc'[v] # "idle" \/ pc[v] # "idle"
    BY DEF Running, Working
<1>4. \A v \in Workers : pc[v] # "idle" => job[v] \in Docs
    BY Typing DEF Context
<1>5. pc'[w] \in Running => job[w] \in Docs
    <2>1. pc'[w] \in Running => pc'[w] # "idle"
        BY DEF Running, Working
    <2>2. TypeOK'
        BY WorkerTyped DEF Context
    <2>3. pc'[w] # "idle" => job'[w] \in Docs
        BY <2>2 DEF TypeOK, WorkTyped
    <2> QED
        BY <1>2, <2>1, <2>3
<1>6. \A v \in Workers : v # w /\ pc'[v] \in Running => pc[v] \in Running /\ job'[v] = job[v] /\ job[v] \in Docs
    BY <1>1, <1>4 DEF OnlyItsOwn, Running, Working
<1>7. pc'[w] \in Running /\ pc[w] \notin Running =>
          \A v \in Workers : pc[v] \in Running => job[v] # job[w]
    BY <1>2 DEF Claimed
<1>8. ExclusiveIngestion'
    BY <1>2, <1>6, <1>7 DEF Context, ExclusiveIngestion
<1>9. ASSUME NEW v \in Workers, pc'[v] \in Running
      PROVE  status'[job'[v]] # "pending" /\ file'[job'[v]] # "new"
    <2>1. CASE v # w
        BY <1>1, <1>2, <1>6, <1>9, <2>1 DEF Claimed, OnlyItsOwn
    <2>2. CASE v = w /\ pc[w] \in Running
        BY <1>1, <1>2, <1>5, <1>9, <2>2 DEF Claimed, OnlyItsOwn
    <2>3. CASE v = w /\ pc[w] \notin Running
        <3>1. status[job[w]] = "pending" /\ status'[job[w]] = "processing" /\ job'[w] = job[w]
              /\ job[w] \in Docs
            BY <1>2, <1>5, <1>9, <2>3
        <3>2. file[job[w]] # "new"
            BY <3>1 DEF Context, Outcomes, DocOK
        <3> QED
            BY <1>1, <2>3, <3>1, <3>2 DEF OnlyItsOwn
    <2> QED
        BY <2>1, <2>2, <2>3
<1> QED
    BY <1>8, <1>9 DEF Claimed

\* Steps of others make a document pending only by requeueing or creating it.
LEMMA OthersClaim ==
    ASSUME Context, Claimed, pc' = pc, job' = job,
           \A d \in Docs : /\ file[d] # "new" => file'[d] # "new"
                           /\ \/ status'[d] # "pending"
                              \/ status'[d] = status[d]
                              \/ file[d] = "new"
                              \/ \A w \in Workers : ~(pc[w] \in Running /\ job[w] = d)
    PROVE  ExclusiveIngestion' /\ Claimed'
<1>1. \A w \in Workers : pc[w] \in Running => job[w] \in Docs
    BY Typing DEF Context, Running, Working
<1>2. Claimed'
    BY <1>1 DEF Claimed
<1> QED
    BY <1>2 DEF Context, ExclusiveIngestion

LEMMA NextClaims ==
    ASSUME Context, Claimed, DownIsEmpty, [Next]_vars, [RequeuesSpareWorkers]_vars
    PROVE  ExclusiveIngestion' /\ Claimed'
<1>0. req \in [Requests -> Request] /\ file \in [Docs -> {"new", "stored", "emptied", "gone"}]
      /\ status \in [Docs -> Status]
    BY Typing DEF Context
<1>1. CASE UNCHANGED vars
    BY <1>1, OthersClaim DEF vars
<1>2. CASE \E w \in Workers : WorkerStep(w)
    BY <1>2, WorkerClaims
<1>3. ASSUME NEW r \in Requests, RequestStep(r)
      PROVE  ExclusiveIngestion' /\ Claimed'
    <2>1. CASE CommitRequeue(r)
        <3>1. RequeuesSpareWorkers
            <4>1. req' # req
                BY <1>0, <2>1 DEF CommitRequeue, Submits, Idle
            <4> QED
                BY <4>1 DEF vars
        <3>2. /\ pc' = pc /\ job' = job /\ file' = file
              /\ \A d \in Docs : status'[d] = status[d] \/ d \in Changed(r)
            BY <1>0, <2>1 DEF CommitRequeue, workVars
        <3> QED
            BY <2>1, <3>1, <3>2, OthersClaim DEF RequeuesSpareWorkers
    <2>2. CASE ~CommitRequeue(r)
        <3>1. /\ pc' = pc /\ job' = job
              /\ \A d \in Docs : /\ file[d] # "new" => file'[d] # "new"
                                 /\ status'[d] \in {"absent", status[d]}
            BY <1>0, <1>3, <2>2 DEF RequestStep, RequeueFails, Enqueue, PurgeVectors, PurgeBytes, DeleteRow,
                              RetryDelete, DeleteFails, docVars, workVars
        <3> QED
            BY <3>1, OthersClaim
    <2> QED
        BY <2>1, <2>2
<1>4. ASSUME NEW r \in Requests, Client(r)
      PROVE  ExclusiveIngestion' /\ Claimed'
    <2>1. /\ pc' = pc /\ job' = job
          /\ \A d \in Docs : /\ file[d] # "new" => file'[d] # "new"
                             /\ status'[d] = status[d] \/ file[d] = "new"
        BY <1>0, <1>4 DEF Client, Upload, Copy, NewFile, ReadForDelete, ReadForRequeue, docVars, workVars
    <2> QED
        BY <2>1, OthersClaim
<1>5. CASE Stop \/ Exit
    BY <1>5, OthersClaim DEF Stop, Exit, docVars, workVars
<1>6. CASE Crash
    BY <1>6 DEF Crash, ExclusiveIngestion, Claimed, Running, Working
<1>7. CASE Recover
    <2>1. /\ pc' = pc /\ job' = job /\ file' = file
          /\ \A w \in Workers : pc[w] = "idle"
        BY <1>7 DEF Recover, DownIsEmpty, workVars
    <2> QED
        BY <2>1, OthersClaim DEF Running, Working
<1> QED
    BY <1>1, <1>2, <1>3, <1>4, <1>5, <1>6, <1>7 DEF Next

(***************************************************************************)
(* The theorems.  A pipeline has an indexer.                               *)
(***************************************************************************)

\* "hands a document to exactly one worker" (ingestion_queue.py): over
\* deletions, failures, rescues and restarts the conditional UPDATE suffices, as
\* long as no request requeues a document that is being run.
THEOREM ClaimIsExclusive ==
    ASSUME Indexes # {}
    PROVE  Spec /\ [][RequeuesSpareWorkers]_vars => []ExclusiveIngestion
<1> DEFINE IInv == ExclusiveIngestion /\ Claimed /\ Outcomes
<1>1. Init => IInv
    BY InitOutcomes DEF Init, ExclusiveIngestion, Claimed, Running, Working
<1>2. TypeOK /\ RowLockIsTheRun /\ DownIsEmpty /\ IInv /\ [Next]_vars /\ [RequeuesSpareWorkers]_vars
          => IInv'
    BY NextOutcomes, NextClaims DEF Context
<1> HIDE DEF IInv
<1>3. IInv => ExclusiveIngestion
    BY DEF IInv
<1> QED
    BY <1>1, <1>2, <1>3, TypeCorrect, LockCorrect, DownHasNoThreads, PTL DEF Spec

\* What the four theorems below rest on.
LEMMA OutcomesHold ==
    ASSUME Indexes # {}
    PROVE  Spec /\ []ExclusiveIngestion => []Outcomes
<1>1. TypeOK /\ RowLockIsTheRun /\ ExclusiveIngestion /\ Outcomes /\ [Next]_vars => Outcomes'
    BY NextOutcomes DEF Context
<1> QED
    BY <1>1, InitOutcomes, TypeCorrect, LockCorrect, PTL DEF Spec

\* What the Files page counts of a ready document is what is stored, over any
\* history of failures, re-ingestions, deletions and restarts (`IngestionService`).
THEOREM CountIsTrue ==
    ASSUME Indexes # {}
    PROVE  Spec /\ []ExclusiveIngestion => []ReadyCountsItsRows
<1>1. Outcomes => ReadyCountsItsRows
    BY DEF Outcomes, DocOK, ReadyCountsItsRows
<1> QED
    BY <1>1, OutcomesHold, PTL

\* Each index holds what its indexer handed to it in the attempt a ready row
\* reports, whatever was purged, retried or deleted before and since (the
\* indexer nodes, `_purge_previous_vectors` and deletion).
THEOREM ReadyIsFound ==
    ASSUME Indexes # {}
    PROVE  Spec /\ []ExclusiveIngestion => []ReadyIsSearchable
<1>1. Outcomes => ReadyIsSearchable
    BY IndexAssumption DEF Outcomes, DocOK, ReadyIsSearchable, Own
<1> QED
    BY <1>1, OutcomesHold, PTL

\* No earlier attempt's chunks stay in the database's own index, although the
\* purge is skipped whenever the row carries no run (`_purge_previous_vectors`).
THEOREM NoTailIsLeft ==
    ASSUME Indexes # {}
    PROVE  Spec /\ []ExclusiveIngestion => []NoStaleTail
<1>1. Outcomes => NoStaleTail
    BY DEF Outcomes, DocOK, NoStaleTail, Own
<1> QED
    BY <1>1, OutcomesHold, PTL

\* A deletion that has purged a second time meets no chunk rows: one retry is
\* enough (`FileDeletionService.delete`).
THEOREM OneRetryIsEnough ==
    ASSUME Indexes # {}
    PROVE  Spec /\ []ExclusiveIngestion => []DeletionWins
<1>1. Outcomes => DeletionWins
    BY DEF Outcomes, ReqOK, DeletionWins
<1> QED
    BY <1>1, OutcomesHold, PTL

\* With one pool thread the premise of the four theorems always holds.
LEMMA OneThreadIsExclusive ==
    ASSUME NEW w \in Workers, Workers = {w}
    PROVE  Spec => []ExclusiveIngestion
<1>1. ExclusiveIngestion
    BY DEF ExclusiveIngestion
<1> QED
    BY <1>1, PTL

(***************************************************************************)
(* The row's lifecycle.                                                    *)
(***************************************************************************)

\* An attempt begins with the claim and ends with the worker's last write, the
\* rescue's included: no request requeues a document before that.
RequeuesSpareAttempts ==
    \A r \in Requests : CommitRequeue(r) =>
        \A d \in Changed(r), w \in Workers : ~(pc[w] \in Working /\ job[w] = d)

OneAttempt ==
    \A v, w \in Workers : pc[v] \in Working /\ pc[w] \in Working /\ job[v] = job[w] => v = w

\* What a worker may find of its own document while it is the only one with it.
AttemptOK(w) ==
    pc[w] \in Working =>
        /\ file[job[w]] # "new"
        /\ status[job[w]] \in {"processing", "absent"}
                \union (IF pc[w] = "rescue" THEN {"failed", "unsupported"} ELSE {})

Attempts == OneAttempt /\ \A w \in Workers : AttemptOK(w)

\* Requests are only under way while the process is up.
RequestsWhileUp == \A r \in Requests : req[r].op # "idle" => phase = "up"

LEMMA RequestsNeedTheProcess == Spec => []RequestsWhileUp
<1>1. Init => RequestsWhileUp
    BY DEF Init, RequestsWhileUp, Idle
<1>2. TypeOK /\ RequestsWhileUp /\ [Next]_vars => RequestsWhileUp'
    <2> SUFFICES ASSUME TypeOK, RequestsWhileUp, [Next]_vars PROVE RequestsWhileUp'
        OBVIOUS
    <2>1. CASE UNCHANGED vars
        BY <2>1 DEF vars, RequestsWhileUp
    <2>2. ASSUME NEW w \in Workers, WorkerStep(w) PROVE RequestsWhileUp'
        <3>1. phase' = phase
            BY <2>2 DEF WorkerStep, Take, Claim, Load, BeginFails, Begin, BeginDeadlock, Purge, StartRun,
                        StartRunFails, Index, Succeed, RecordFailure, Abort, RescueRead, RescueWrite,
                        poolVars
        <3>2. \A r \in Requests : req'[r].op \in {"idle", req[r].op}
            <4>1. CASE \E r \in Requests : BeginDeadlock(w, r)
                <5>1. PICK q \in Requests : req' = req \/ req' = [req EXCEPT ![q] = Idle]
                    BY <4>1 DEF BeginDeadlock
                <5>2. Idle.op = "idle" /\ req \in [Requests -> Request]
                    BY Typing DEF Idle
                <5> QED
                    BY <5>1, <5>2
            <4>2. CASE Succeed(w) \/ RecordFailure(w)
                <5>1. \A r \in Requests : req[r] \in Request
                    BY Typing
                <5>2. \A r \in Requests : req'[r] = req[r] \/ req'[r] = [req[r] EXCEPT !.known = Nothing]
                    BY <4>2 DEF Succeed, RecordFailure, CommitVectors
                <5> QED
                    BY <5>1, <5>2 DEF Request
            <4>3. CASE ~Succeed(w) /\ ~RecordFailure(w) /\ ~\E r \in Requests : BeginDeadlock(w, r)
                <5>1. req' = req
                    BY <2>2, <4>3 DEF WorkerStep, Take, Claim, Load, BeginFails, Begin, Purge, StartRun,
                                      StartRunFails, Index, Abort, RescueRead, RescueWrite
                <5> QED
                    BY <5>1
            <4> QED
                BY <4>1, <4>2, <4>3
        <3> QED
            BY <3>1, <3>2 DEF RequestsWhileUp
    <2>3. ASSUME NEW r \in Requests, RequestStep(r) \/ Client(r) PROVE RequestsWhileUp'
        <3>1. phase' = phase /\ (phase = "up" \/ req[r].op # "idle")
              /\ \A q \in Requests : q # r => req'[q] = req[q]
            BY <2>3, Typing DEF RequestStep, CommitRequeue, RequeueFails, Enqueue, PurgeVectors, PurgeBytes,
                        DeleteRow, RetryDelete, DeleteFails, Client, Upload, Copy, NewFile, Arrive,
                        ReadForRequeue, ReadForDelete, Submits, poolVars
        <3> QED
            BY <3>1 DEF RequestsWhileUp
    <2>4. CASE Stop \/ Exit \/ Crash \/ Recover
        BY <2>4 DEF Stop, Exit, Crash, Recover, RequestsWhileUp, Idle
    <2> QED
        BY <2>1, <2>2, <2>3, <2>4 DEF Next
<1> QED
    BY <1>1, <1>2, TypeCorrect, PTL DEF Spec

\* What a step does to the attempt of the worker that takes it.
LEMMA OwnAttempt ==
    ASSUME Context, NEW w \in Workers, WorkerStep(w), AttemptOK(w)
    PROVE  /\ AttemptOK(w)'
           /\ pc'[w] \in Working => job'[w] = job[w] /\ (pc[w] \in Working \/ status[job[w]] = "pending")
           /\ pc[w] \notin Working /\ pc'[w] \notin Working => status' = status
<1> USE Typing DEF Context, AttemptOK, Goto, Done, docVars, Running, Working, Labels
<1>1. CASE Take(w)
    BY <1>1 DEF Take
<1>2. CASE Claim(w)
    <2>1. job[w] \in Docs /\ (status[job[w]] = "pending" => file[job[w]] # "new")
        BY <1>2 DEF Claim, Outcomes, DocOK
    <2> QED
        BY <1>2, <2>1 DEF Claim
<1>3. CASE Load(w)
    BY <1>3 DEF Load
<1>4. CASE BeginFails(w) \/ StartRunFails(w)
    BY <1>4 DEF BeginFails, StartRunFails
<1>5. CASE Begin(w)
    BY <1>5 DEF Begin
<1>6. CASE \E r \in Requests : BeginDeadlock(w, r)
    BY <1>6 DEF BeginDeadlock
<1>7. CASE Purge(w)
    BY <1>7 DEF Purge
<1>8. CASE StartRun(w) \/ Abort(w)
    BY <1>8 DEF StartRun, Abort
<1>9. CASE \E i \in Indexes : Index(w, i)
    BY <1>9 DEF Index
<1>10. CASE Succeed(w)
    BY <1>10 DEF Succeed
<1>11. CASE RecordFailure(w)
    BY <1>11 DEF RecordFailure
<1>12. CASE RescueRead(w)
    BY <1>12 DEF RescueRead
<1>13. CASE RescueWrite(w)
    BY <1>13 DEF RescueWrite
<1> QED
    BY <1>1, <1>2, <1>3, <1>4, <1>5, <1>6, <1>7, <1>8, <1>9, <1>10, <1>11, <1>12, <1>13 DEF WorkerStep

LEMMA WorkerAttempts ==
    ASSUME Context, Attempts, NEW w \in Workers, WorkerStep(w)
    PROVE  Attempts'
<1>1. OnlyItsOwn(w)
    BY ItsOwnOnly DEF Context
<1>2. /\ AttemptOK(w)'
      /\ pc'[w] \in Working => job'[w] = job[w] /\ (pc[w] \in Working \/ status[job[w]] = "pending")
      /\ pc[w] \notin Working /\ pc'[w] \notin Working => status' = status
    BY OwnAttempt DEF Attempts
<1>3. \A v \in Workers : v # w => pc'[v] = pc[v] /\ job'[v] = job[v]
    BY <1>1 DEF OnlyItsOwn
<1>4. \A v \in Workers : pc[v] \in Working => job[v] \in Docs
    BY Typing DEF Context, Working
<1>5. \A v \in Workers : pc[v] \in Working => status[job[v]] # "pending"
    BY DEF Attempts, AttemptOK
<1>6. OneAttempt'
    BY <1>2, <1>3, <1>5 DEF Attempts, OneAttempt
<1>7. ASSUME NEW v \in Workers, v # w, pc[v] \in Working
      PROVE  AttemptOK(v)'
    <2>1. status'[job[v]] = status[job[v]]
        <3>1. CASE job[v] # job[w]
            BY <1>1, <1>4, <1>7, <3>1 DEF OnlyItsOwn
        <3>2. CASE job[v] = job[w]
            <4>1. pc[w] \notin Working
                BY <1>7, <3>2 DEF Attempts, OneAttempt
            <4>2. pc'[w] \notin Working
                BY <1>2, <1>5, <1>7, <3>2, <4>1
            <4> QED
                BY <1>2, <4>1, <4>2
        <3> QED
            BY <3>1, <3>2
    <2>2. pc'[v] = pc[v] /\ job'[v] = job[v] /\ file' = file
        BY <1>1, <1>7 DEF OnlyItsOwn
    <2> QED
        BY <1>7, <2>1, <2>2 DEF Attempts, AttemptOK
<1>8. ASSUME NEW v \in Workers
      PROVE  AttemptOK(v)'
    <2>1. CASE v # w /\ pc[v] \notin Working
        BY <1>3, <2>1 DEF AttemptOK
    <2> QED
        BY <1>2, <1>7, <2>1
<1> QED
    BY <1>6, <1>8 DEF Attempts

\* Others delete a document, or make one pending that nobody attempts.
LEMMA OthersAttempt ==
    ASSUME Context, Attempts, pc' = pc, job' = job,
           \A d \in Docs : /\ file[d] # "new" => file'[d] # "new"
                           /\ \/ status'[d] \in {"absent", status[d]}
                              \/ file[d] = "new"
                              \/ \A w \in Workers : ~(pc[w] \in Working /\ job[w] = d)
    PROVE  Attempts'
<1>1. \A w \in Workers : pc[w] \in Working => job[w] \in Docs
    BY Typing DEF Context, Working
<1>2. \A w \in Workers : AttemptOK(w)'
    BY <1>1 DEF Attempts, AttemptOK
<1> QED
    BY <1>2 DEF Attempts, OneAttempt

LEMMA NextAttempts ==
    ASSUME Context, Attempts, DownIsEmpty, [Next]_vars, [RequeuesSpareAttempts]_vars
    PROVE  Attempts'
<1>0. req \in [Requests -> Request] /\ file \in [Docs -> {"new", "stored", "emptied", "gone"}]
      /\ status \in [Docs -> Status]
    BY Typing DEF Context
<1>1. CASE UNCHANGED vars
    BY <1>1, OthersAttempt DEF vars
<1>2. CASE \E w \in Workers : WorkerStep(w)
    BY <1>2, WorkerAttempts
<1>3. ASSUME NEW r \in Requests, RequestStep(r)
      PROVE  Attempts'
    <2>1. CASE CommitRequeue(r)
        <3>1. RequeuesSpareAttempts
            <4>1. req' # req
                BY <1>0, <2>1 DEF CommitRequeue, Submits, Idle
            <4> QED
                BY <4>1 DEF vars
        <3>2. /\ pc' = pc /\ job' = job /\ file' = file
              /\ \A d \in Docs : status'[d] = status[d] \/ d \in Changed(r)
            BY <1>0, <2>1 DEF CommitRequeue, workVars
        <3> QED
            BY <2>1, <3>1, <3>2, OthersAttempt DEF RequeuesSpareAttempts
    <2>2. CASE ~CommitRequeue(r)
        <3>1. /\ pc' = pc /\ job' = job
              /\ \A d \in Docs : /\ file[d] # "new" => file'[d] # "new"
                                 /\ status'[d] \in {"absent", status[d]}
            BY <1>0, <1>3, <2>2 DEF RequestStep, RequeueFails, Enqueue, PurgeVectors, PurgeBytes, DeleteRow,
                              RetryDelete, DeleteFails, docVars, workVars
        <3> QED
            BY <3>1, OthersAttempt
    <2> QED
        BY <2>1, <2>2
<1>4. ASSUME NEW r \in Requests, Client(r)
      PROVE  Attempts'
    <2>1. /\ pc' = pc /\ job' = job
          /\ \A d \in Docs : /\ file[d] # "new" => file'[d] # "new"
                             /\ status'[d] = status[d] \/ file[d] = "new"
        BY <1>0, <1>4 DEF Client, Upload, Copy, NewFile, ReadForDelete, ReadForRequeue, docVars, workVars
    <2> QED
        BY <2>1, OthersAttempt
<1>5. CASE Stop \/ Exit
    BY <1>5, OthersAttempt DEF Stop, Exit, docVars, workVars
<1>6. CASE Crash
    BY <1>6 DEF Crash, Attempts, OneAttempt, AttemptOK, Working
<1>7. CASE Recover
    <2>1. /\ pc' = pc /\ job' = job /\ file' = file
          /\ \A w \in Workers : pc[w] = "idle"
        BY <1>7 DEF Recover, DownIsEmpty, workVars
    <2> QED
        BY <2>1, OthersAttempt DEF Working
<1> QED
    BY <1>1, <1>2, <1>3, <1>4, <1>5, <1>6, <1>7 DEF Next

\* Every step of a worker is one of the lifecycle, or none.
LEMMA WorkerFollows ==
    ASSUME Context, Attempts, NEW w \in Workers, WorkerStep(w)
    PROVE  [Lifecycle!Next]_<<status, rows, count>>
<1> DEFINE d == job[w]
<1>0. /\ RunOK(w) /\ AttemptOK(w) /\ mem[w] \in Memory /\ (pc[w] # "idle" => d \in Docs)
      /\ status \in [Docs -> Status] /\ rows \in [Docs -> Nat] /\ count \in [Docs -> Nat]
    BY Typing DEF Context, Outcomes, Attempts
<1>1. CASE Claim(w)
    <2>1. CASE status[d] = "pending"
        <3>1. d \in Docs /\ Lifecycle!Claim(d)
            BY <1>0, <1>1, <2>1 DEF Claim, Lifecycle!Claim, Lifecycle!Move
        <3> QED
            BY <3>1 DEF Lifecycle!Next
    <2>2. CASE status[d] # "pending"
        BY <1>1, <2>2 DEF Claim
    <2> QED
        BY <2>1, <2>2
<1>2. CASE Begin(w)
    <2>1. d \in Docs /\ status[d] = "processing"
        BY <1>0, <1>2 DEF Begin, AttemptOK, Working, Labels
    <2>2. status' = status
        BY <1>0, <1>2, <2>1 DEF Begin
    <2>3. Lifecycle!Clear(d)
        BY <1>2, <2>1, <2>2 DEF Begin, Lifecycle!Clear
    <2> QED
        BY <2>1, <2>3 DEF Lifecycle!Next
<1>3. CASE Succeed(w)
    <2>1. d \in Docs /\ status[d] = "processing" /\ rows[d] = 0
        BY <1>0, <1>3 DEF Succeed, RunOK, AttemptOK, Running, Working, Labels
    <2>2. \E n \in 0 .. MaxChunks :
             /\ status' = [status EXCEPT ![d] = "ready"] /\ count' = [count EXCEPT ![d] = n]
             /\ rows' = [rows EXCEPT ![d] = n]
        <3>1. PICK n \in 0 .. MaxChunks :
                 count' = [count EXCEPT ![d] = n] /\ rows' = [rows EXCEPT ![d] = @ + n]
            BY <1>3 DEF Succeed
        <3>2. status' = [status EXCEPT ![d] = "ready"]
            BY <1>3 DEF Succeed
        <3>3. rows[d] + n = n
            BY <2>1
        <3> QED
            BY <3>1, <3>2, <3>3
    <2>3. Lifecycle!Finish(d)
        BY <2>1, <2>2 DEF Lifecycle!Finish, Lifecycle!Move
    <2> QED
        BY <2>1, <2>3 DEF Lifecycle!Next
<1>4. CASE RecordFailure(w)
    <2>1. d \in Docs /\ status[d] = "processing"
        BY <1>0, <1>4 DEF RecordFailure, RunOK, AttemptOK, Running, Working, Labels
    <2>2. Lifecycle!Fail(d)
        BY <1>4, <2>1 DEF RecordFailure, Lifecycle!Fail, Lifecycle!Move
    <2> QED
        BY <2>1, <2>2 DEF Lifecycle!Next
<1>5. CASE RescueWrite(w)
    <2>1. d \in Docs /\ status[d] \in {"processing", "absent"}
        BY <1>0, <1>5 DEF RescueWrite, AttemptOK, Working, Labels
    <2>2. CASE status[d] = "absent"
        <3>1. status' = status /\ rows' = rows /\ count' = count
            BY <1>0, <1>5, <2>2 DEF RescueWrite
        <3> QED
            BY <3>1
    <2>3. CASE status[d] = "processing"
        <3>1. Lifecycle!Fail(d)
            BY <1>5, <2>3 DEF RescueWrite, Lifecycle!Fail, Lifecycle!Move
        <3> QED
            BY <2>1, <3>1 DEF Lifecycle!Next
    <2> QED
        BY <2>1, <2>2, <2>3
<1>6. CASE ~Claim(w) /\ ~Begin(w) /\ ~Succeed(w) /\ ~RecordFailure(w) /\ ~RescueWrite(w)
    <2>1. status' = status /\ rows' = rows /\ count' = count
        BY <1>6 DEF WorkerStep, Take, Load, BeginFails, BeginDeadlock, Purge, StartRun, StartRunFails,
                    Index, Abort, RescueRead, docVars
    <2> QED
        BY <2>1
<1> QED
    BY <1>1, <1>2, <1>3, <1>4, <1>5, <1>6

\* So is every other step: a requeue only takes documents nobody works on.
LEMMA OthersFollow ==
    ASSUME Context, Attempts, NothingStranded, RequestsWhileUp, [RequeuesSpareAttempts]_vars,
           \/ \E r \in Requests : RequestStep(r) \/ Client(r)
           \/ Stop \/ Exit \/ Crash \/ Recover
    PROVE  [Lifecycle!Next]_<<status, rows, count>>
<1>0. /\ status \in [Docs -> Status] /\ rows \in [Docs -> Nat] /\ count \in [Docs -> Nat]
      /\ req \in [Requests -> Request]
    BY Typing DEF Context
<1>1. ASSUME NEW r \in Requests, CommitRequeue(r)
      PROVE  [Lifecycle!Next]_<<status, rows, count>>
    <2>1. RequeuesSpareAttempts
        <3>1. req' # req
            BY <1>0, <1>1 DEF CommitRequeue, Submits, Idle
        <3> QED
            BY <3>1 DEF vars
    <2>2. Changed(r) \subseteq Docs
        BY <1>0 DEF Changed, Request
    <2>3. \A d \in Changed(r) : status[d] # "processing"
        <3>1. phase = "up"
            BY <1>1 DEF CommitRequeue, RequestsWhileUp
        <3>2. \A d \in Changed(r) : ~WorkedOn(d)
            BY <1>1, <2>1 DEF RequeuesSpareAttempts, WorkedOn
        <3> QED
            BY <2>2, <3>1, <3>2 DEF NothingStranded, Tracked
    <2>4. Lifecycle!Requeue
        BY <1>1, <2>2, <2>3 DEF CommitRequeue, Lifecycle!Requeue
    <2> QED
        BY <2>4 DEF Lifecycle!Next
<1>2. ASSUME NEW r \in Requests, NEW d \in Docs, DeleteRow(r, d)
      PROVE  [Lifecycle!Next]_<<status, rows, count>>
    <2>1. Lifecycle!Delete(d)
        BY <1>2 DEF DeleteRow, Lifecycle!Delete
    <2> QED
        BY <2>1 DEF Lifecycle!Next
<1>3. ASSUME NEW r \in Requests, NEW d \in Docs, Upload(r, d) \/ \E source \in Docs : Copy(r, source, d)
      PROVE  [Lifecycle!Next]_<<status, rows, count>>
    <2>1. PICK outcome \in {"pending", "unsupported", "absent"} : NewFile(r, d, outcome)
        BY <1>3 DEF Upload, Copy
    <2>2. status[d] = "absent"
        BY <2>1 DEF NewFile, Context, Outcomes, DocOK
    <2>3. CASE outcome = "absent"
        <3>1. status' = status /\ rows' = rows /\ count' = count
            BY <1>0, <2>1, <2>2, <2>3 DEF NewFile
        <3> QED
            BY <3>1
    <2>4. CASE outcome # "absent"
        <3>1. Lifecycle!Create(d)
            BY <2>1, <2>2, <2>4 DEF NewFile, Lifecycle!Create, Lifecycle!Move
        <3> QED
            BY <3>1 DEF Lifecycle!Next
    <2> QED
        BY <2>3, <2>4
<1>4. CASE Recover
    <2>1. Lifecycle!Recover
        BY <1>4 DEF Recover, Lifecycle!Recover
    <2> QED
        BY <2>1 DEF Lifecycle!Next
<1>5. CASE Stop \/ Exit \/ Crash
    <2>1. status' = status /\ rows' = rows /\ count' = count
        BY <1>5 DEF Stop, Exit, Crash, docVars
    <2> QED
        BY <2>1
<1>6. ASSUME NEW r \in Requests,
             \/ RequestStep(r) /\ ~CommitRequeue(r) /\ ~\E d \in Docs : DeleteRow(r, d)
             \/ (\E d \in Docs : ReadForDelete(r, d)) \/ (\E kind \in Kinds : ReadForRequeue(r, kind))
      PROVE  [Lifecycle!Next]_<<status, rows, count>>
    <2>1. status' = status /\ rows' = rows /\ count' = count
        BY <1>6 DEF RequestStep, RequeueFails, Enqueue, PurgeVectors, PurgeBytes, RetryDelete, DeleteFails,
                    ReadForDelete, ReadForRequeue, docVars
    <2> QED
        BY <2>1
<1> QED
    BY <1>1, <1>2, <1>3, <1>4, <1>5, <1>6 DEF Client

\* The machinery implements the lifecycle of a row (`DocumentLifecycle`): as long
\* as no request requeues a document that a worker still has, crashes, failures,
\* rescues and deletions of any number move every row along it and no other way.
THEOREM FollowsTheLifecycle ==
    ASSUME Indexes # {}
    PROVE  Spec /\ [][RequeuesSpareAttempts]_vars => KeepsTheLifecycle
<1> DEFINE IInv == ExclusiveIngestion /\ Attempts /\ Outcomes
<1>1. Init => IInv /\ Lifecycle!Init
    BY InitOutcomes DEF Init, ExclusiveIngestion, Attempts, OneAttempt, AttemptOK, Running, Working,
                        Lifecycle!Init
<1>2. TypeOK /\ RowLockIsTheRun /\ DownIsEmpty /\ IInv /\ [Next]_vars /\ [RequeuesSpareAttempts]_vars
          => IInv'
    <2>1. OneAttempt' => ExclusiveIngestion'
        BY DEF OneAttempt, ExclusiveIngestion, Running
    <2> QED
        BY <2>1, NextOutcomes, NextAttempts DEF Context, Attempts
<1>3. TypeOK /\ RowLockIsTheRun /\ NothingStranded /\ RequestsWhileUp /\ IInv
          /\ [Next]_vars /\ [RequeuesSpareAttempts]_vars
          => [Lifecycle!Next]_<<status, rows, count>>
    <2>1. UNCHANGED vars => UNCHANGED <<status, rows, count>>
        BY DEF vars
    <2> QED
        BY <2>1, WorkerFollows, OthersFollow DEF Context, Next
<1> HIDE DEF IInv
<1> QED
    BY <1>1, <1>2, <1>3, TypeCorrect, LockCorrect, StrandedNever, DownHasNoThreads,
       RequestsNeedTheProcess, PTL DEF Spec, KeepsTheLifecycle, Lifecycle!Spec
=============================================================================
