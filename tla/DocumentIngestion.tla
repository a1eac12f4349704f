------------------------- MODULE DocumentIngestion -------------------------
(***************************************************************************)
(* The documents table as a durable queue, the worker pool that drains it, *)
(* the HTTP requests that fill it, file deletion, and process crashes.     *)
(*                                                                         *)
(* A document row is shared by every session.  Sessions are READ COMMITTED *)
(* transactions: a worker's first UPDATE of the row inside the pipeline    *)
(* run takes its row lock until that session commits, and an UPDATE or     *)
(* DELETE by any other session waits for it.  A request reads the row in   *)
(* one step and writes it in a later one.                                  *)
(***************************************************************************)
EXTENDS Integers, Sequences, FiniteSets

CONSTANTS
    Docs,         \* file ids; each has at most one document row
    Workers,      \* threads of the ingestion pool
    Requests,     \* request handlers that may be active at once
    Indexes,      \* the vector indexes the bound pipeline writes
    External,     \* those outside the database transaction (Pinecone)
    MaxChunks,    \* bound: chunks one run may produce
    MaxRequests,  \* bound: requests served
    MaxCrashes,   \* bound: process deaths
    Kinds,        \* the requeueing endpoints clients use
    ManualWhen,   \* statuses in which a client asks to ingest one file
    Deletable,    \* the files a client may delete
    PurgeMayFail  \* whether purging a previous attempt's vectors may fail

ASSUME IndexAssumption == External \subseteq Indexes
ASSUME BoundAssumption == MaxChunks \in Nat /\ MaxRequests \in Nat /\ MaxCrashes \in Nat
ASSUME FlagAssumption == PurgeMayFail \in BOOLEAN /\ Deletable \subseteq Docs

Status == {"absent", "pending", "processing", "ready", "failed", "unsupported"}

ASSUME ManualAssumption == ManualWhen \subseteq Status
ASSUME KindAssumption == Kinds \subseteq {"retry", "stale", "ingest"}

None   == "none"
Chunks == 1 .. MaxChunks

ASSUME DocsAssumption == IsFiniteSet(Docs) /\ None \notin Docs \union Workers

VARIABLES
    file,     \* file node: "new", "stored", "emptied" (bytes removed) or "gone"
    status,   \* document row status, "absent" when there is no row
    hasRun,   \* the row's ingestion_run_id is set
    count,    \* the row's num_chunks
    rows,     \* committed document_chunks rows of the document
    late,     \* deleting requests that have not seen all of those chunk rows
    vectors,  \* chunk ids held by each index
    indexed,  \* history: what the attempt that made it ready gave each index
    holder,   \* the worker whose open transaction has updated the row
    phase,    \* the process: "up", "stopping" or "down"
    queue,    \* futures submitted to the pool, not yet picked up
    pc,       \* where each worker is
    job,      \* the document each worker holds
    mem,      \* what each worker has read or produced so far
    req,      \* the handlers' local state
    served, crashes

docVars == <<file, status, hasRun, count, rows, late, vectors, indexed, holder>>
vars == <<file, status, hasRun, count, rows, late, vectors, indexed, holder,
          phase, queue, pc, job, mem, req, served, crashes>>

Nothing == [i \in Indexes |-> {}]
Fresh == [seen |-> "absent", retry |-> FALSE, writes |-> FALSE, read |-> FALSE,
          wrote |-> {}, put |-> Nothing]
Idle  == [op |-> "idle", ids |-> {}, seen |-> [d \in Docs |-> "absent"],
          known |-> Nothing, tries |-> 0, held |-> FALSE]

Init ==
    /\ file = [d \in Docs |-> "new"]
    /\ status = [d \in Docs |-> "absent"]
    /\ hasRun = [d \in Docs |-> FALSE]
    /\ count = [d \in Docs |-> 0]
    /\ rows = [d \in Docs |-> 0]
    /\ late = [d \in Docs |-> {}]
    /\ vectors = [d \in Docs |-> Nothing]
    /\ indexed = [d \in Docs |-> Nothing]
    /\ holder = [d \in Docs |-> None]
    /\ phase = "up"
    /\ queue = <<>>
    /\ pc = [w \in Workers |-> "idle"]
    /\ job = [w \in Workers |-> None]
    /\ mem = [w \in Workers |-> Fresh]
    /\ req = [r \in Requests |-> Idle]
    /\ served = 0
    /\ crashes = 0

Unlocked(d) == holder[d] = None

\* `_reached_the_index`: ready, with chunks.
ReachedTheIndex(d) == status[d] = "ready" /\ count[d] > 0

-----------------------------------------------------------------------------
(* The queue: `IngestionQueue` and the process around it.                  *)

poolVars == <<phase, queue>>
workVars == <<pc, job, mem>>
envVars  == <<served, crashes>>

\* A pool thread picks up the next future.
Take(w) ==
    /\ phase = "up" /\ queue # <<>> /\ pc[w] = "idle"
    /\ pc' = [pc EXCEPT ![w] = "claim"]
    /\ job' = [job EXCEPT ![w] = Head(queue)]
    /\ queue' = Tail(queue)
    /\ UNCHANGED <<docVars, phase, mem, req, envVars>>

\* `enqueue`: a request's background task submits one committed document.
Enqueue(r, d) ==
    /\ phase = "up" /\ req[r].op = "enqueue" /\ d \in req[r].ids
    /\ queue' = Append(queue, d)
    /\ req' = [req EXCEPT ![r] =
                 IF req[r].ids = {d} THEN Idle ELSE [req[r] EXCEPT !.ids = @ \ {d}]]
    /\ UNCHANGED <<docVars, phase, workVars, envVars>>

\* `stop`: once requests have drained, queued futures are cancelled and the
\* ones in flight run on; the process exits when its threads have ended.
Stop ==
    /\ phase = "up" /\ \A r \in Requests : req[r].op = "idle"
    /\ crashes < MaxCrashes /\ crashes' = crashes + 1
    /\ phase' = "stopping"
    /\ queue' = <<>>
    /\ UNCHANGED <<docVars, workVars, req, served>>

Exit ==
    /\ phase = "stopping" /\ \A w \in Workers : pc[w] = "idle"
    /\ phase' = "down"
    /\ UNCHANGED <<docVars, queue, workVars, req, envVars>>

\* The process dies: open transactions roll back, threads, futures and
\* handlers are gone; what was committed or sent to an external index stays.
Crash ==
    /\ phase # "down"
    /\ crashes < MaxCrashes /\ crashes' = crashes + 1
    /\ phase' = "down"
    /\ queue' = <<>>
    /\ pc' = [w \in Workers |-> "idle"]
    /\ job' = [w \in Workers |-> None]
    /\ mem' = [w \in Workers |-> Fresh]
    /\ req' = [r \in Requests |-> Idle]
    /\ holder' = [d \in Docs |-> None]
    /\ UNCHANGED <<file, status, hasRun, count, rows, late, vectors, indexed, served>>

Orderings(S) ==
    {s \in [1 .. Cardinality(S) -> S] : \A d \in S : \E i \in DOMAIN s : s[i] = d}

\* Mutant: recovery forgets the documents that were being processed.
RecoverPendingOnly ==
    /\ phase = "down"
    /\ phase' = "up"
    /\ queue' \in Orderings({d \in Docs : status[d] = "pending"})
    /\ UNCHANGED <<docVars, workVars, req, envVars>>

\* `start` and `recover`: stranded documents go back to pending and every
\* pending document is enqueued (oldest first: some fixed order).
Recover ==
    /\ phase = "down"
    /\ phase' = "up"
    /\ status' = [d \in Docs |-> IF status[d] = "processing" THEN "pending" ELSE status[d]]
    /\ queue' \in Orderings({d \in Docs : status'[d] = "pending"})
    /\ UNCHANGED <<file, hasRun, count, rows, late, vectors, indexed, holder, workVars, req, envVars>>

-----------------------------------------------------------------------------
(* A worker: `run_document_ingestion` and `IngestionService`.              *)

Goto(w, label) == pc' = [pc EXCEPT ![w] = label]

\* Mutant: the worker drops its job but does not return to the pool.
DoneStays(w) ==
    /\ job' = [job EXCEPT ![w] = None]
    /\ mem' = [mem EXCEPT ![w] = Fresh]
    /\ UNCHANGED pc

Done(w) ==
    /\ Goto(w, "idle")
    /\ job' = [job EXCEPT ![w] = None]
    /\ mem' = [mem EXCEPT ![w] = Fresh]

\* Mutant: the claim does not ask for the status.
ClaimAnyStatus(w) ==
    LET d == job[w] IN
    /\ pc[w] = "claim"
    /\ \/ /\ status[d] # "absent" /\ Unlocked(d)
          /\ status' = [status EXCEPT ![d] = "processing"]
          /\ Goto(w, "load")
          /\ UNCHANGED <<job, mem>>
       \/ /\ status[d] = "absent"
          /\ Done(w)
          /\ UNCHANGED status
    /\ UNCHANGED <<file, hasRun, count, rows, late, vectors, indexed, holder, poolVars, req, envVars>>

\* The conditional UPDATE.  A row that is not pending matches nothing; a
\* pending row is waited for while another session holds it.
Claim(w) ==
    LET d == job[w] IN
    /\ pc[w] = "claim"
    /\ \/ /\ status[d] = "pending" /\ Unlocked(d)
          /\ status' = [status EXCEPT ![d] = "processing"]
          /\ Goto(w, "load")
          /\ UNCHANGED <<job, mem>>
       \/ /\ status[d] # "pending"
          /\ Done(w)
          /\ UNCHANGED status
    /\ UNCHANGED <<file, hasRun, count, rows, late, vectors, indexed, holder, poolVars, req, envVars>>

\* The session loads the row it works on; a deleted document ends the job.
\* `writes`: the attempt's settings, status, error or warnings differ from what
\* the row carries, so that `ingest_document` will UPDATE it.
Load(w) ==
    LET d == job[w] IN
    /\ pc[w] = "load"
    /\ \/ /\ status[d] = "absent"
          /\ Done(w)
       \/ /\ status[d] # "absent"
          /\ \E writes \in BOOLEAN :
               /\ status[d] # "processing" => writes
               /\ mem' = [mem EXCEPT ![w].seen = status[d], ![w].retry = hasRun[d],
                                     ![w].writes = writes]
          /\ Goto(w, "begin")
          /\ UNCHANGED job
    /\ UNCHANGED <<docVars, poolVars, req, envVars>>

\* The ingest binding does not resolve, or the row was deleted meanwhile:
\* the exception leaves `ingest_document` before its `try`.
BeginFails(w) ==
    /\ pc[w] = "begin"
    /\ Goto(w, "rescue")
    /\ UNCHANGED <<docVars, poolVars, job, mem, req, envVars>>

\* A deletion whose open transaction has deleted the document's chunk rows.
HoldsChunks(r, d) == req[r].op = "row" /\ d \in req[r].ids /\ req[r].held

\* Mutant: the previous attempt's chunk rows stay.
BeginKeepsRows(w) ==
    LET d == job[w] IN
    /\ pc[w] = "begin" /\ status[d] # "absent"
    /\ mem[w].writes => Unlocked(d)
    /\ status' = [status EXCEPT ![d] = IF mem[w].seen = "processing" THEN @ ELSE "processing"]
    /\ Goto(w, "purge")
    /\ UNCHANGED <<file, hasRun, count, rows, late, vectors, indexed, holder, poolVars, job, mem, req, envVars>>

\* The first commit: `processing`, and the previous attempt's chunk rows go.
\* The ORM writes only columns that differ from what was read.
Begin(w) ==
    LET d == job[w] IN
    /\ pc[w] = "begin" /\ status[d] # "absent"
    /\ mem[w].writes => Unlocked(d)
    /\ rows[d] > 0 => \A r \in Requests : ~HoldsChunks(r, d)
    /\ status' = [status EXCEPT ![d] = IF mem[w].seen = "processing" THEN @ ELSE "processing"]
    /\ rows' = [rows EXCEPT ![d] = 0]
    /\ late' = [late EXCEPT ![d] = {}]
    /\ indexed' = [indexed EXCEPT ![d] = Nothing]
    /\ Goto(w, "purge")
    /\ UNCHANGED <<file, hasRun, count, vectors, holder, poolVars, job, mem, req, envVars>>

\* The row is locked before its chunk rows here, after them by a deletion:
\* the database breaks the deadlock by failing either session.
BeginDeadlock(w, r) ==
    LET d == job[w] IN
    /\ pc[w] = "begin" /\ status[d] # "absent" /\ rows[d] > 0
    /\ mem[w].writes /\ Unlocked(d) /\ HoldsChunks(r, d)
    /\ \/ Goto(w, "rescue") /\ UNCHANGED req
       \/ req' = [req EXCEPT ![r] = Idle] /\ UNCHANGED pc
    /\ UNCHANGED <<docVars, poolVars, job, mem, envVars>>

\* A deletion whose open transaction has deleted vectors of the document.
HoldsVectors(r, d) ==
    req[r].op \in {"bytes", "row"} /\ d \in req[r].ids /\ req[r].known # Nothing

\* `_purge_previous_vectors`: external indexes at once, the database's own
\* with the transaction; a failure is logged and ignored.
Purge(w) ==
    LET d == job[w] IN
    /\ pc[w] = "purge"
    /\ mem[w].retry => \A r \in Requests : ~HoldsVectors(r, d)
    /\ \E failed \in SUBSET External :
         /\ failed # {} => PurgeMayFail
         /\ vectors' = [vectors EXCEPT ![d] = [i \in Indexes |->
                          IF mem[w].retry /\ i \in External \ failed THEN {} ELSE @[i]]]
    /\ Goto(w, "run")
    /\ UNCHANGED <<file, status, hasRun, count, rows, late, indexed, holder, poolVars, job, mem, req, envVars>>

\* The first node's flush writes `ingestion_run_id`: the row lock.
StartRun(w) ==
    LET d == job[w] IN
    /\ pc[w] = "run" /\ status[d] # "absent" /\ Unlocked(d)
    /\ holder' = [holder EXCEPT ![d] = w]
    /\ mem' = [mem EXCEPT ![w].read = file[d] = "stored"]
    /\ Goto(w, "index")
    /\ UNCHANGED <<file, status, hasRun, count, rows, late, vectors, indexed, poolVars, job, req, envVars>>

\* The row was deleted (StaleDataError), so recording the failure on the
\* same session fails too.
StartRunFails(w) ==
    /\ pc[w] = "run" /\ status[job[w]] = "absent"
    /\ Goto(w, "rescue")
    /\ UNCHANGED <<docVars, poolVars, job, mem, req, envVars>>

\* An indexer node upserts those chunks of its branch that its port accepts
\* (embedded ones, or text), perhaps none; an external index has them at once.
Index(w, i) ==
    LET d == job[w] IN
    /\ pc[w] = "index" /\ mem[w].read /\ i \in Indexes \ mem[w].wrote
    /\ \E accepted \in SUBSET Chunks :
         /\ mem' = [mem EXCEPT ![w].wrote = @ \union {i}, ![w].put[i] = accepted]
         /\ vectors' = IF i \in External
                       THEN [vectors EXCEPT ![d][i] = @ \union accepted]
                       ELSE vectors
    /\ UNCHANGED <<file, status, hasRun, count, rows, late, indexed, holder, poolVars, pc, job, req, envVars>>

\* Mutant: the previous attempt's vectors are not purged.
CommitOverOld(w) ==
    LET d == job[w] IN
    /\ vectors' = [vectors EXCEPT ![d] = [i \in Indexes |->
                     IF i \in External THEN @[i] ELSE @[i] \union mem[w].put[i]]]
    /\ UNCHANGED req

\* Mutant: the purge of the previous attempt reaches the database last.
CommitPurgedLast(w) ==
    LET d == job[w] IN
    /\ vectors' = [vectors EXCEPT ![d] = [i \in Indexes |->
                     IF i \in External THEN @[i]
                     ELSE IF mem[w].retry THEN {} ELSE @[i] \union mem[w].put[i]]]
    /\ UNCHANGED req

\* What the transaction leaves in the database's own indexes at commit; rows
\* it purged are no longer there for a deletion that was waiting for them.
CommitVectors(w) ==
    LET d == job[w]
        kept(i) == IF mem[w].retry THEN {} ELSE vectors[d][i] IN
    /\ vectors' = [vectors EXCEPT ![d] = [i \in Indexes |->
                     IF i \in External THEN @[i] ELSE kept(i) \union mem[w].put[i]]]
    /\ req' = [r \in Requests |->
                 IF mem[w].retry /\ d \in req[r].ids
                 THEN [req[r] EXCEPT !.known = Nothing] ELSE req[r]]

\* Every indexer ran; the chunks of the richest branch become chunk rows and
\* the outcome is committed.
Succeed(w) ==
    LET d == job[w] IN
    /\ pc[w] = "index" /\ mem[w].wrote = Indexes
    /\ status' = [status EXCEPT ![d] = "ready"]
    /\ \E n \in 0 .. MaxChunks :
         /\ count' = [count EXCEPT ![d] = n]
         /\ rows' = [rows EXCEPT ![d] = @ + n]
         /\ late' = [late EXCEPT ![d] = IF n = 0 THEN @ ELSE Requests]
    /\ indexed' = [indexed EXCEPT ![d] = mem[w].put]
    /\ hasRun' = [hasRun EXCEPT ![d] = TRUE]
    /\ holder' = [holder EXCEPT ![d] = None]
    /\ CommitVectors(w)
    /\ Done(w)
    /\ UNCHANGED <<file, poolVars, envVars>>

\* `_record_failure` on the run's own session, committed with whatever the
\* run wrote; a run without chunks may have been read by no parse node.
RecordFailure(w) ==
    LET d == job[w] IN
    /\ \/ pc[w] = "index"
       \/ pc[w] = "run" /\ status[d] # "absent" /\ Unlocked(d)
    /\ \/ status' = [status EXCEPT ![d] = "failed"]
       \/ /\ pc[w] = "index" /\ mem[w].wrote = Indexes
          /\ status' = [status EXCEPT ![d] = "unsupported"]
    /\ hasRun' = [hasRun EXCEPT ![d] = @ \/ pc[w] = "index"]
    /\ holder' = [holder EXCEPT ![d] = IF @ = w THEN None ELSE @]
    /\ CommitVectors(w)
    /\ Goto(w, "rescue")
    /\ UNCHANGED <<file, count, rows, late, indexed, poolVars, job, mem, envVars>>

\* Mutant: a failed session is neither rolled back nor closed.
AbortKeepsLock(w) ==
    /\ pc[w] = "index"
    /\ Goto(w, "rescue")
    /\ UNCHANGED <<docVars, poolVars, job, mem, req, envVars>>

\* The session's transaction is aborted, so recording fails as well.
Abort(w) ==
    LET d == job[w] IN
    /\ pc[w] = "index"
    /\ holder' = [holder EXCEPT ![d] = None]
    /\ Goto(w, "rescue")
    /\ UNCHANGED <<file, status, hasRun, count, rows, late, vectors, indexed, poolVars, job, mem, req, envVars>>

\* `_ensure_failure_recorded` reads the row on a fresh session ...
RescueRead(w) ==
    /\ pc[w] = "rescue"
    /\ \/ status[job[w]] = "processing" /\ Goto(w, "recording") /\ UNCHANGED <<job, mem>>
       \/ status[job[w]] # "processing" /\ Done(w)
    /\ UNCHANGED <<docVars, poolVars, req, envVars>>

\* ... and writes FAILED by primary key, unless the row is gone by then.
RescueWrite(w) ==
    LET d == job[w] IN
    /\ pc[w] = "recording" /\ Unlocked(d)
    /\ status' = [status EXCEPT ![d] = IF @ = "absent" THEN @ ELSE "failed"]
    /\ Done(w)
    /\ UNCHANGED <<file, hasRun, count, rows, late, vectors, indexed, holder, poolVars, req, envVars>>

-----------------------------------------------------------------------------
(* Requests: uploads, copies and the requeueing endpoints.                 *)

Arrive(r) ==
    /\ phase = "up" /\ req[r].op = "idle" /\ served < MaxRequests
    /\ served' = served + 1

\* A request that will hand these documents to the queue.
Submits(r, ids) == req' = [req EXCEPT ![r] = [Idle EXCEPT !.op = "enqueue", !.ids = ids]]

\* A new file gets a pending document when its type is ingestible.
NewFile(r, d, outcome) ==
    /\ file[d] = "new"
    /\ file' = [file EXCEPT ![d] = "stored"]
    /\ status' = [status EXCEPT ![d] = outcome]
    /\ UNCHANGED <<hasRun, count, rows, late, vectors, indexed, holder, poolVars, workVars, crashes>>

\* `register_upload`; a type no parse node reads is unsupported at once, and
\* only the MCP upload enqueues it all the same.
Upload(r, d) ==
    /\ Arrive(r)
    /\ \E outcome \in {"pending", "unsupported", "absent"} :
         /\ NewFile(r, d, outcome)
         /\ \/ outcome # "absent" /\ Submits(r, {d})
            \/ outcome # "pending" /\ UNCHANGED req

\* `copy`: the clone re-ingests like a fresh upload, unless the bytes of the
\* original are gone.
Copy(r, source, d) ==
    /\ Arrive(r)
    /\ file[source] = "stored"
    /\ \/ NewFile(r, d, "pending") /\ Submits(r, {d})
       \/ NewFile(r, d, "absent") /\ UNCHANGED req

\* Mutant: a document being processed counts as stale.
RequeueableRunning(kind) ==
    {{d} : d \in {f \in Docs : status[f] \in {"ready", "processing"} /\ hasRun[f]}}

\* Which documents an endpoint requeues, from the statuses it reads: those
\* not in the index and idle; ready ones a newer pipeline version makes
\* stale; or the one document the client names.
Requeueable(kind) ==
    CASE kind = "retry" ->
           {{d \in Docs : ~ReachedTheIndex(d)
                          /\ status[d] \notin {"absent", "processing", "unsupported"}}}
      [] kind = "stale"  -> SUBSET {d \in Docs : status[d] = "ready" /\ hasRun[d]}
      [] kind = "ingest" -> {{d} : d \in {f \in Docs : file[f] \in {"stored", "emptied"}
                                                       /\ status[f] \in ManualWhen}}

\* Two handlers creating one file's document at once would leave it with two
\* documents: left out.
Creating(d) == \E r \in Requests :
    req[r].op = "requeue" /\ d \in req[r].ids /\ req[r].seen[d] = "absent"

ReadForRequeue(r, kind) ==
    /\ Arrive(r)
    /\ \E ids \in Requeueable(kind) \ {{}} :
         /\ \A d \in ids : ~Creating(d)
         /\ req' = [req EXCEPT ![r] = [Idle EXCEPT !.op = "requeue", !.ids = ids,
                       !.seen = [d \in Docs |-> IF d \in ids THEN status[d] ELSE "absent"]]]
    /\ UNCHANGED <<docVars, poolVars, workVars, crashes>>

\* The rows whose status the ORM will write: pending is no change.
Changed(r) == {d \in req[r].ids : req[r].seen[d] # "pending"}

\* `mark_pending` or `ensure_pending_document`, flushed and committed.
CommitRequeue(r) ==
    /\ req[r].op = "requeue"
    /\ \A d \in Changed(r) : Unlocked(d) /\ file[d] # "gone"
                             /\ (req[r].seen[d] = "absent" \/ status[d] # "absent")
    /\ status' = [d \in Docs |-> IF d \in Changed(r) THEN "pending" ELSE status[d]]
    /\ Submits(r, req[r].ids)
    /\ UNCHANGED <<file, hasRun, count, rows, late, vectors, indexed, holder, poolVars, workVars, envVars>>

\* A row or its file was deleted meanwhile: the request fails as a whole.
RequeueFails(r) ==
    /\ req[r].op = "requeue"
    /\ \E d \in Changed(r) : \/ file[d] = "gone"
                             \/ req[r].seen[d] # "absent" /\ status[d] = "absent"
    /\ req' = [req EXCEPT ![r] = Idle]
    /\ UNCHANGED <<docVars, poolVars, workVars, envVars>>

-----------------------------------------------------------------------------
(* File deletion: `FileDeletionService.delete`.                            *)

ReadForDelete(r, d) ==
    /\ Arrive(r)
    /\ d \in Deletable /\ file[d] \in {"stored", "emptied"}
    /\ req' = [req EXCEPT ![r] = [Idle EXCEPT !.op = "delete", !.ids = {d}, !.seen[d] = status[d]]]
    /\ UNCHANGED <<docVars, poolVars, workVars, crashes>>

\* Vectors of a document read as ready: external indexes at once, the
\* database's own with the transaction.
PurgeVectors(r, d) ==
    /\ req[r].op = "delete" /\ d \in req[r].ids
    /\ \/ /\ req[r].seen[d] # "ready"
          /\ req' = [req EXCEPT ![r].op = "bytes"]
          /\ UNCHANGED vectors
       \/ /\ req[r].seen[d] = "ready"
          /\ vectors' = [vectors EXCEPT ![d] = [i \in Indexes |-> IF i \in External THEN {} ELSE @[i]]]
          /\ req' = [req EXCEPT ![r].op = "bytes",
                        ![r].known = [i \in Indexes |-> IF i \in External THEN {} ELSE vectors[d][i]]]
       \/ /\ req[r].seen[d] = "ready" /\ PurgeMayFail
          /\ \E done \in SUBSET External \ {External} :
               vectors' = [vectors EXCEPT ![d] = [i \in Indexes |-> IF i \in done THEN {} ELSE @[i]]]
          /\ req' = [req EXCEPT ![r] = Idle]
    /\ UNCHANGED <<file, status, hasRun, count, rows, late, indexed, holder, poolVars, workVars, envVars>>

\* A worker whose open transaction has purged the document's vectors.
Purging(w, d) == job[w] = d /\ pc[w] \in {"run", "index"} /\ mem[w].retry

\* The bytes go for good; the chunk rows visible now, with the transaction.
PurgeBytes(r, d) ==
    /\ req[r].op = "bytes" /\ d \in req[r].ids
    /\ req[r].known # Nothing => \A w \in Workers : ~Purging(w, d)
    /\ file' = [file EXCEPT ![d] = IF @ = "gone" THEN @ ELSE "emptied"]
    /\ req' = [req EXCEPT ![r].op = "row", ![r].tries = 1, 
                    ![r].held = req[r].seen[d] # "absent" /\ rows[d] > 0]
    /\ late' = [late EXCEPT ![d] = @ \ {r}]
    /\ UNCHANGED <<status, hasRun, count, rows, vectors, indexed, holder, poolVars, workVars, envVars>>

\* The row, its node and all the transaction purged go together.
DeleteRow(r, d) ==
    /\ req[r].op = "row" /\ d \in req[r].ids
    /\ Unlocked(d) /\ r \notin late[d]
    /\ req[r].seen[d] = "absent" => status[d] = "absent"
    /\ file' = [file EXCEPT ![d] = "gone"]
    /\ status' = [status EXCEPT ![d] = "absent"]
    /\ hasRun' = [hasRun EXCEPT ![d] = FALSE]
    /\ count' = [count EXCEPT ![d] = 0]
    /\ rows' = [rows EXCEPT ![d] = 0]
    /\ late' = [late EXCEPT ![d] = {}]
    /\ vectors' = [vectors EXCEPT ![d] = [i \in Indexes |-> @[i] \ req[r].known[i]]]
    /\ indexed' = [indexed EXCEPT ![d] = Nothing]
    /\ req' = [req EXCEPT ![r] = Idle]
    /\ UNCHANGED <<holder, poolVars, workVars, envVars>>

\* Mutant: the second purge reuses the first one's list of chunk rows.
RetryWithOldList(r, d) ==
    /\ req[r].op = "row" /\ d \in req[r].ids
    /\ Unlocked(d) /\ r \in late[d] /\ req[r].tries = 1
    /\ req' = [req EXCEPT ![r].tries = 2, ![r].held = TRUE]
    /\ UNCHANGED <<docVars, poolVars, workVars, envVars>>

\* Chunk rows committed since the purge reject the delete: purge once more.
RetryDelete(r, d) ==
    /\ req[r].op = "row" /\ d \in req[r].ids
    /\ Unlocked(d) /\ r \in late[d] /\ req[r].tries = 1
    /\ req' = [req EXCEPT ![r].tries = 2, ![r].held = TRUE]
    /\ late' = [late EXCEPT ![d] = @ \ {r}]
    /\ UNCHANGED <<file, status, hasRun, count, rows, vectors, indexed, holder, poolVars, workVars, envVars>>

\* A second time, or a document the request never saw: it fails.
DeleteFails(r, d) ==
    /\ req[r].op = "row" /\ d \in req[r].ids /\ Unlocked(d)
    /\ \/ r \in late[d] /\ req[r].tries = 2
       \/ req[r].seen[d] = "absent" /\ status[d] # "absent"
    /\ req' = [req EXCEPT ![r] = Idle]
    /\ UNCHANGED <<docVars, poolVars, workVars, envVars>>

-----------------------------------------------------------------------------
WorkerStep(w) ==
    \/ Take(w) \/ Claim(w) \/ Load(w) \/ BeginFails(w) \/ Begin(w)
    \/ \E r \in Requests : BeginDeadlock(w, r)
    \/ Purge(w) \/ StartRun(w) \/ StartRunFails(w)
    \/ \E i \in Indexes : Index(w, i)
    \/ Succeed(w) \/ RecordFailure(w) \/ Abort(w)
    \/ RescueRead(w) \/ RescueWrite(w)

\* The steps of a request once it has arrived.
RequestStep(r) ==
    \/ CommitRequeue(r) \/ RequeueFails(r)
    \/ \E d \in Docs :
         \/ Enqueue(r, d) \/ PurgeVectors(r, d) \/ PurgeBytes(r, d)
         \/ DeleteRow(r, d) \/ RetryDelete(r, d) \/ DeleteFails(r, d)

Client(r) ==
    \/ \E d \in Docs : Upload(r, d) \/ ReadForDelete(r, d)
    \/ \E d, source \in Docs : Copy(r, source, d)
    \/ \E kind \in Kinds : ReadForRequeue(r, kind)

Next ==
    \/ \E w \in Workers : WorkerStep(w)
    \/ \E r \in Requests : RequestStep(r) \/ Client(r)
    \/ Stop \/ Exit \/ Crash \/ Recover

Spec == Init /\ [][Next]_vars

\* Pool threads and handlers keep running, and a stopped process ends and is
\* started again.  Nobody has to send a request, and nothing has to fail.
Fairness ==
    /\ \A w \in Workers : WF_vars(WorkerStep(w))
    /\ \A r \in Requests : WF_vars(RequestStep(r))
    /\ WF_vars(Exit) /\ WF_vars(Recover)

FairSpec == Spec /\ Fairness
-----------------------------------------------------------------------------
Labels  == {"idle", "claim", "load", "begin", "purge", "run", "index", "rescue", "recording"}
Working == Labels \ {"idle", "claim"}
Running == Working \ {"rescue", "recording"}

Memory  == [seen : Status, retry : BOOLEAN, writes : BOOLEAN, read : BOOLEAN,
            wrote : SUBSET Indexes, put : [Indexes -> SUBSET Chunks]]
Request == [op : {"idle", "requeue", "enqueue", "delete", "bytes", "row"},
            ids : SUBSET Docs, seen : [Docs -> Status],
            known : [Indexes -> SUBSET Chunks], tries : 0 .. 2, held : BOOLEAN]

RowsTyped ==
    /\ file \in [Docs -> {"new", "stored", "emptied", "gone"}]
    /\ status \in [Docs -> Status]
    /\ hasRun \in [Docs -> BOOLEAN]
    /\ count \in [Docs -> Nat] /\ rows \in [Docs -> Nat]
    /\ late \in [Docs -> SUBSET Requests]
    /\ vectors \in [Docs -> [Indexes -> SUBSET Chunks]]
    /\ indexed \in [Docs -> [Indexes -> SUBSET Chunks]]
    /\ holder \in [Docs -> Workers \union {None}]

PoolTyped == phase \in {"up", "stopping", "down"} /\ queue \in Seq(Docs)

\* A worker that is not idle has a document.
WorkTyped ==
    /\ pc \in [Workers -> Labels]
    /\ job \in [Workers -> Docs \union {None}]
    /\ mem \in [Workers -> Memory]
    /\ \A w \in Workers : pc[w] # "idle" => job[w] \in Docs

TypeOK ==
    /\ RowsTyped /\ PoolTyped /\ WorkTyped
    /\ req \in [Requests -> Request]
    /\ served \in Nat /\ crashes \in Nat

Queued(d)    == \E i \in DOMAIN queue : queue[i] = d
Claiming(d)  == \E w \in Workers : pc[w] = "claim" /\ job[w] = d
Promised(d)  == \E r \in Requests : req[r].op = "enqueue" /\ d \in req[r].ids
WorkedOn(d)  == \E w \in Workers : pc[w] \in Working /\ job[w] = d

Tracked(d) ==
    /\ status[d] = "pending" => Queued(d) \/ Claiming(d) \/ Promised(d)
    /\ status[d] = "processing" => WorkedOn(d)

\* "The documents table is the queue": while the process accepts work, every
\* pending document is on its way to a worker and every processing one has a
\* worker, so that no document waits for a restart (ingestion_queue.py).
NothingStranded == phase = "up" => \A d \in Docs : Tracked(d)

\* The transaction holding a document's row is that of the one worker inside
\* the document's pipeline run; it ends with the run, so no request or
\* recovery waits for a row nobody will release.
RowLockIsTheRun ==
    \A d \in Docs, w \in Workers : holder[d] = w <=> (pc[w] = "index" /\ job[w] = d)

\* "hands a document to exactly one worker": no two workers are past the
\* claim with the same document.
ExclusiveIngestion ==
    \A v, w \in Workers :
        (pc[v] \in Running /\ pc[w] \in Running /\ job[v] = job[w]) => v = w

\* What the Files page shows of a ready document is what is stored: its
\* num_chunks counts its chunk rows, none left from an earlier attempt or
\* committed by a second one.
ReadyCountsItsRows == \A d \in Docs : status[d] = "ready" => rows[d] = count[d]

\* A ready document is searchable: each index has every chunk its indexer
\* handed to it in the attempt the row reports, whatever came before and since;
\* an external index may have lost them to a deletion that did not finish.
ReadyIsSearchable ==
    \A d \in Docs, i \in Indexes :
        (status[d] = "ready" /\ (i \notin External \/ d \notin Deletable))
            => indexed[d][i] \subseteq vectors[d][i]

\* No earlier attempt leaves chunks in the database's own indexes beside those
\* of the attempt the row reports (`_purge_previous_vectors`).
NoStaleTail ==
    \A d \in Docs, i \in Indexes \ External :
        status[d] = "ready" => vectors[d][i] \subseteq indexed[d][i]

\* "deletion wins instead of surfacing an IntegrityError. One retry is
\* enough: ingestion writes a document's chunks once."
DeletionWins ==
    \A r \in Requests, d \in Docs :
        ~(req[r].op = "row" /\ d \in req[r].ids /\ req[r].tries = 2 /\ r \in late[d])

Settled(d) == status[d] \in {"absent", "ready", "failed", "unsupported"}

\* Every queued document is eventually ingested, fails, or is deleted, across
\* crashes and restarts.
EverySettles == \A d \in Docs : []<>Settled(d)

\* A request that has been accepted ends, whoever holds the rows it needs.
RequestsEnd == \A r \in Requests : []<>(req[r].op = "idle")

Lifecycle == INSTANCE DocumentLifecycle
                WITH state <- status, chunks <- rows, reported <- count

\* A document's row is the honest record of one attempt at a time: while each
\* document has one worker, the whole machinery does nothing to it that the
\* lifecycle does not allow.
KeepsTheLifecycle == Lifecycle!Spec
=============================================================================
