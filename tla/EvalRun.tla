------------------------------ MODULE EvalRun ------------------------------
(***************************************************************************)
(* Evaluation runs (app/evals): the requests that create, cancel and       *)
(* delete runs, the background task that provisions a shared corpus        *)
(* collection, asks every sampled query and aggregates, and the deletion   *)
(* of such a collection.                                                   *)
(* All runs evaluate one dataset with one ingestion pipeline, so they have *)
(* the same cache key and share a collection; each has a search tool of    *)
(* its own, named by the run.  A document stands for the query it answers. *)
(***************************************************************************)
EXTENDS Integers, FiniteSets

CONSTANTS
    Runs,
    Docs,          \* the dataset: documents, and the query each is gold for
    Plans,         \* what a configuration may sample: the queries, and a corpus
    Concurrency,   \* of the ingest and the query pool
    MaxCancels,    \* bound: cancel requests
    MaxDeletions,  \* bound: run and collection deletions
    MaxCrashes,    \* bound: restarts of the process
    MayFail,       \* whether ingests, queries and the run itself may raise
    External       \* whether vectors live outside the database transaction

ASSUME EvalAssumption ==
    /\ IsFiniteSet(Runs) /\ IsFiniteSet(Docs)
    /\ Plans \subseteq {p \in [queries : SUBSET Docs, corpus : SUBSET Docs] :
                            p.queries \subseteq p.corpus}
    /\ Concurrency \in Nat \ {0}
    /\ MaxCancels \in Nat /\ MaxDeletions \in Nat /\ MaxCrashes \in Nat
    /\ MayFail \in BOOLEAN /\ External \in BOOLEAN

None == "none"
ASSUME NoneAssumption == None \notin Runs \union Docs

\* A collection is named by the run that created it; of the rows two runs
\* register for one document, the first has its name and the other is a copy.
Collections == Runs
Rows == Docs \X Runs

VARIABLES
    \* The rows of `eval_runs` and `eval_run_items`.
    status, done, total, evalCollection, items,
    \* Collections: whether there is one, its primary tool, its documents, the
    \* row that bears a document's own name, what is searchable, its bytes.
    exists, tool, doc, named, stored, bytes,
    \* The background task of each run.
    pc, sample, corpus, coll, missing, todo, busy, pooled, repaired, indexed, answers,
    \* Requests and the environment.
    cancelling, queued, cancels, deletions, crashes,
    late           \* history: items recorded after the row said cancelled

runRows == <<status, done, total, evalCollection, items>>
colls == <<exists, tool, doc, named, stored, bytes>>
plan == <<sample, corpus>>
ingest == <<missing, todo, busy, pooled, repaired>>
env == <<cancelling, queued, cancels, deletions, crashes, late>>
vars == <<runRows, colls, pc, plan, coll, ingest, indexed, answers, env>>

Active == {"pending", "provisioning", "ingesting", "running"}
Statuses == Active \union {"absent", "completed", "failed", "cancelled", "deleted"}

Init ==
    /\ status = [r \in Runs |-> "absent"]
    /\ done = [r \in Runs |-> 0] /\ total = [r \in Runs |-> 0]
    /\ evalCollection = [r \in Runs |-> None] /\ items = [r \in Runs |-> {}]
    /\ exists = [c \in Collections |-> FALSE]
    /\ tool = [c \in Collections |-> None]
    /\ doc = [c \in Collections |-> [x \in Rows |-> "none"]]
    /\ named = [c \in Collections |-> [d \in Docs |-> None]]
    /\ stored = [c \in Collections |-> {}] /\ bytes = [c \in Collections |-> TRUE]
    /\ pc = [r \in Runs |-> "none"]
    /\ sample = [r \in Runs |-> {}] /\ corpus = [r \in Runs |-> {}]
    /\ coll = [r \in Runs |-> None]
    /\ missing = [r \in Runs |-> {}] /\ todo = [r \in Runs |-> {}]
    /\ busy = [r \in Runs |-> {}] /\ pooled = [r \in Runs |-> FALSE]
    /\ repaired = [r \in Runs |-> FALSE]
    /\ indexed = [r \in Runs |-> {}] /\ answers = [r \in Runs |-> {}]
    /\ cancelling = {} /\ queued = {}
    /\ cancels = 0 /\ deletions = 0 /\ crashes = 0
    /\ late = [r \in Runs |-> 0]

Goto(r, label) == pc' = [pc EXCEPT ![r] = label]
SetStatus(r, s) == status' = [status EXCEPT ![r] = s]

-----------------------------------------------------------------------------
(* Requests.                                                               *)

\* `create_run`: the row, and the background task after the response.
CreateRun(r) ==
    /\ status[r] = "absent"
    /\ SetStatus(r, "pending") /\ Goto(r, "scheduled")
    /\ UNCHANGED <<done, total, evalCollection, items, colls, plan, coll, ingest, indexed,
                   answers, env>>

\* `cancel_run`: the status is read here ...
CancelRead(r) ==
    /\ status[r] \in Active /\ r \notin cancelling /\ cancels < MaxCancels
    /\ cancelling' = cancelling \union {r} /\ cancels' = cancels + 1
    /\ UNCHANGED <<runRows, colls, pc, plan, coll, ingest, indexed, answers, queued,
                   deletions, crashes, late>>

\* ... and overwritten here, whatever it is by then.
CancelWrite(r) ==
    /\ r \in cancelling
    /\ cancelling' = cancelling \ {r}
    /\ IF status[r] = "deleted" THEN UNCHANGED status ELSE SetStatus(r, "cancelled")
    /\ UNCHANGED <<done, total, evalCollection, items, colls, pc, plan, coll, ingest, indexed,
                   answers, queued, cancels, deletions, crashes, late>>

\* `delete_run`: the items and the row, in one transaction.
DeleteRun(r) ==
    /\ status[r] \in {"completed", "failed", "cancelled"} /\ deletions < MaxDeletions
    /\ SetStatus(r, "deleted")
    /\ items' = [items EXCEPT ![r] = {}]
    /\ evalCollection' = [evalCollection EXCEPT ![r] = None]
    /\ deletions' = deletions + 1
    /\ UNCHANGED <<done, total, colls, pc, plan, coll, ingest, indexed, answers, cancelling,
                   queued, cancels, crashes, late>>

\* `CollectionDeletionService.delete`: vectors, then bytes, then rows.  A run
\* that names the collection makes the database reject the last step, when the
\* first two cannot be undone (the vectors can where they share the transaction).
DeleteCollection(c) ==
    LET kept == \E r \in Runs : evalCollection[r] = c IN
    /\ exists[c] /\ deletions < MaxDeletions /\ deletions' = deletions + 1
    /\ bytes' = [bytes EXCEPT ![c] = FALSE]
    /\ stored' = IF (\E x \in Rows : doc[c][x] = "ready") /\ (kept => External)
                 THEN [stored EXCEPT ![c] = {}] ELSE stored
    /\ IF kept
       THEN UNCHANGED <<exists, tool, doc, named>>
       ELSE /\ exists' = [exists EXCEPT ![c] = FALSE]
            /\ tool' = [tool EXCEPT ![c] = None]
            /\ doc' = [doc EXCEPT ![c] = [x \in Rows |-> "none"]]
            /\ named' = [named EXCEPT ![c] = [d \in Docs |-> None]]
    /\ UNCHANGED <<runRows, pc, plan, coll, ingest, indexed, answers, cancelling, queued,
                   cancels, crashes, late>>

-----------------------------------------------------------------------------
(* `run_eval`: planning and provisioning.  A step that writes the run row   *)
(* finds it there; when it was deleted, the step raises and the task ends.  *)

Here(r, label) == pc[r] = label /\ status[r] # "deleted"

\* The task reads the row and goes on only from `pending`.
Start(r) ==
    /\ pc[r] = "scheduled"
    /\ Goto(r, IF status[r] = "pending" THEN "planning" ELSE "done")
    /\ UNCHANGED <<runRows, colls, plan, coll, ingest, indexed, answers, env>>

\* `_build_plan`: the queries, and a corpus with at least their gold.
Plan(r) ==
    /\ Here(r, "planning")
    /\ \E p \in Plans :
        /\ sample' = [sample EXCEPT ![r] = p.queries]
        /\ corpus' = [corpus EXCEPT ![r] = p.corpus]
    /\ SetStatus(r, "provisioning") /\ Goto(r, "provisioning")
    /\ UNCHANGED <<done, total, evalCollection, items, colls, coll, ingest, indexed, answers,
                   env>>

Announce(r) ==
    /\ Here(r, "provisioning")
    /\ SetStatus(r, "ingesting") /\ Goto(r, "finding")
    /\ total' = [total EXCEPT ![r] = Cardinality(corpus[r])]
    /\ done' = [done EXCEPT ![r] = 0]
    /\ UNCHANGED <<evalCollection, items, colls, plan, coll, ingest, indexed, answers, env>>

\* `find_existing`, `_bind_retrieval` and `_missing_docs`: the collection is
\* pointed at this run's tool, and the documents it lacks are noted.
Reuse(r, c) ==
    /\ pc[r] = "finding" /\ exists[c]
    /\ tool' = [tool EXCEPT ![c] = r]
    /\ coll' = [coll EXCEPT ![r] = c]
    /\ missing' = [missing EXCEPT ![r] = {d \in corpus[r] : named[c][d] = None}]
    /\ Goto(r, "registering")
    /\ UNCHANGED <<runRows, exists, doc, named, stored, bytes, plan, todo, busy, pooled,
                   repaired, indexed, answers, env>>

FindNothing(r) ==
    /\ pc[r] = "finding" /\ \A c \in Collections : ~exists[c]
    /\ Goto(r, "creating")
    /\ UNCHANGED <<runRows, colls, plan, coll, ingest, indexed, answers, env>>

\* A fresh collection, though another run may have made one by now; what an
\* earlier run left out cannot be in it.
CreateCollection(r) ==
    /\ pc[r] = "creating"
    /\ exists' = [exists EXCEPT ![r] = TRUE]
    /\ tool' = [tool EXCEPT ![r] = r]
    /\ coll' = [coll EXCEPT ![r] = r]
    /\ missing' = [missing EXCEPT ![r] = corpus[r]]
    /\ repaired' = [repaired EXCEPT ![r] = TRUE]
    /\ Goto(r, "registering")
    /\ UNCHANGED <<runRows, doc, named, stored, bytes, plan, todo, busy, pooled, indexed,
                   answers, env>>

\* `_register`: a file and a pending row; the row bears the document's name
\* unless the name was taken after `_missing_docs` looked.
Register(r, d) ==
    LET c == coll[r] IN
    /\ pc[r] = "registering" /\ d \in missing[r] /\ exists[c]
    /\ doc' = [doc EXCEPT ![c][<<d, r>>] = "pending"]
    /\ named' = IF named[c][d] = None THEN [named EXCEPT ![c][d] = r] ELSE named
    /\ missing' = [missing EXCEPT ![r] = @ \ {d}]
    /\ todo' = [todo EXCEPT ![r] = @ \union {<<d, r>>}]
    /\ UNCHANGED <<runRows, exists, tool, stored, bytes, pc, plan, coll, busy, pooled,
                   repaired, indexed, answers, env>>

Registered(r) ==
    /\ pc[r] = "registering" /\ missing[r] = {}
    /\ Goto(r, "ingesting")
    /\ UNCHANGED <<runRows, colls, plan, coll, ingest, indexed, answers, env>>

Workers(r) == IF pooled[r] THEN Concurrency ELSE 1

\* Mutant: a row is ingested only if nobody else took it up.
BeginUntouched(r, x) ==
    LET c == coll[r] IN
    /\ pc[r] = "ingesting" /\ x \in todo[r] /\ Cardinality(busy[r]) < Workers(r)
    /\ doc[c][x] \in {"pending", "failed"}
    /\ todo' = [todo EXCEPT ![r] = @ \ {x}]
    /\ busy' = [busy EXCEPT ![r] = @ \union {x}]
    /\ doc' = [doc EXCEPT ![c][x] = "processing"]
    /\ stored' = [stored EXCEPT ![c] = @ \ {x}]
    /\ UNCHANGED <<runRows, exists, tool, named, bytes, pc, plan, coll, missing, pooled,
                   repaired, indexed, answers, env>>

\* `ingest_one` up to the commit of `processing`: whatever the row says, and
\* nothing at all for a row that is gone.
BeginIngest(r, x) ==
    LET c == coll[r] IN
    /\ pc[r] = "ingesting" /\ x \in todo[r] /\ Cardinality(busy[r]) < Workers(r)
    /\ todo' = [todo EXCEPT ![r] = @ \ {x}]
    /\ busy' = [busy EXCEPT ![r] = @ \union {x}]
    /\ IF doc[c][x] = "none"
       THEN UNCHANGED <<doc, stored>>
       ELSE /\ doc' = [doc EXCEPT ![c][x] = "processing"]
            /\ stored' = [stored EXCEPT ![c] = @ \ {x}]
    /\ UNCHANGED <<runRows, exists, tool, named, bytes, pc, plan, coll, missing, pooled,
                   repaired, indexed, answers, env>>

\* Its outcome and the progress beat, which leaves the status alone.  A beat
\* that finds the run deleted ends a serial ingest; a pool works off the rest.
EndIngest(r, x) ==
    LET c == coll[r] IN
    /\ pc[r] = "ingesting" /\ x \in busy[r]
    /\ busy' = [busy EXCEPT ![r] = @ \ {x}]
    /\ \/ /\ doc[c][x] # "none" /\ bytes[c]
          /\ doc' = [doc EXCEPT ![c][x] = "ready"]
          /\ stored' = [stored EXCEPT ![c] = @ \union {x}]
          /\ pooled' = [pooled EXCEPT ![r] = TRUE]
       \/ /\ doc[c][x] # "none" /\ (MayFail \/ ~bytes[c])
          /\ doc' = [doc EXCEPT ![c][x] = "failed"]
          /\ UNCHANGED <<stored, pooled>>
       \/ doc[c][x] = "none" /\ UNCHANGED <<doc, stored, pooled>>
    /\ done' = IF status[r] = "deleted" THEN done ELSE [done EXCEPT ![r] = @ + 1]
    /\ todo' = IF status[r] = "deleted" /\ ~pooled[r] THEN [todo EXCEPT ![r] = {}] ELSE todo
    /\ UNCHANGED <<status, total, evalCollection, items, exists, tool, named, bytes, pc, plan,
                   coll, missing, repaired, indexed, answers, env>>

Drained(r) == pc[r] = "ingesting" /\ todo[r] = {} /\ busy[r] = {}

\* Mutant: only failed rows are taken up again.
RepairFailedOnly(r) ==
    LET c == coll[r] IN
    /\ Drained(r) /\ ~repaired[r] /\ status[r] # "deleted" /\ exists[c]
    /\ todo' = [todo EXCEPT ![r] = {<<d, named[c][d]>> : d \in
                    {e \in corpus[r] : named[c][e] # None
                                       /\ doc[c][<<e, named[c][e]>>] = "failed"}}]
    /\ repaired' = [repaired EXCEPT ![r] = TRUE]
    /\ pooled' = [pooled EXCEPT ![r] = FALSE]
    /\ UNCHANGED <<runRows, colls, pc, plan, coll, missing, busy, indexed, answers, env>>

\* `_reingest_unindexed`: the corpus documents of that name an earlier run left
\* out of the index, and that no worker holds.
Repair(r) ==
    LET c == coll[r] IN
    /\ Drained(r) /\ ~repaired[r] /\ status[r] # "deleted" /\ exists[c]
    /\ todo' = [todo EXCEPT ![r] = {<<d, named[c][d]>> : d \in
                    {e \in corpus[r] : named[c][e] # None
                                       /\ doc[c][<<e, named[c][e]>>] \in {"pending", "failed"}}}]
    /\ repaired' = [repaired EXCEPT ![r] = TRUE]
    /\ pooled' = [pooled EXCEPT ![r] = FALSE]
    /\ UNCHANGED <<runRows, colls, pc, plan, coll, missing, busy, indexed, answers, env>>

\* `_ingestion_outcomes`, and the collection is written on the run.
Collect(r) ==
    LET c == coll[r] IN
    /\ Drained(r) /\ repaired[r] /\ status[r] # "deleted" /\ exists[c]
    /\ indexed' = [indexed EXCEPT ![r] =
            {d \in Docs : named[c][d] # None /\ doc[c][<<d, named[c][d]>>] = "ready"}]
    /\ evalCollection' = [evalCollection EXCEPT ![r] = c]
    /\ done' = IF c # r THEN [done EXCEPT ![r] = Cardinality(corpus[r])] ELSE done
    /\ Goto(r, "provisioned")
    /\ UNCHANGED <<status, total, items, colls, plan, coll, ingest, answers, env>>

-----------------------------------------------------------------------------
(* `run_eval`: the queries.                                                *)

\* The first `_cancelled`.
CheckProvisioned(r) ==
    /\ Here(r, "provisioned")
    /\ Goto(r, IF status[r] = "cancelled" THEN "done" ELSE "starting")
    /\ UNCHANGED <<runRows, colls, plan, coll, ingest, indexed, answers, env>>

StartQueries(r) ==
    /\ Here(r, "starting")
    /\ SetStatus(r, "running") /\ Goto(r, IF sample[r] = {} THEN "asked" ELSE "querying")
    /\ total' = [total EXCEPT ![r] = Cardinality(sample[r])]
    /\ done' = [done EXCEPT ![r] = 0]
    /\ UNCHANGED <<evalCollection, items, colls, plan, coll, ingest, indexed, answers, env>>

Answered(r) == {a.query : a \in answers[r]} \union {i.query : i \in items[r]}

\* `evaluate_task` on a pool thread: the query goes to the collection's primary
\* tool of that moment; it is scored when its gold was indexed.
Ask(r, q) ==
    /\ pc[r] \in {"querying", "recording"} /\ q \in sample[r] \ Answered(r)
    /\ exists[coll[r]]
    /\ \E outcome \in {IF q \in indexed[r] THEN "scored" ELSE "unscored"}
                      \union (IF MayFail THEN {"failed"} ELSE {}) :
        answers' = [answers EXCEPT ![r] =
            @ \union {[query |-> q, tool |-> tool[coll[r]], outcome |-> outcome]}]
    /\ UNCHANGED <<runRows, colls, pc, plan, coll, ingest, indexed, env>>

\* Mutant: cancellation is not checked between completions.
NextAnswerUnchecked(r) ==
    /\ Here(r, "querying") /\ answers[r] # {}
    /\ Goto(r, "recording")
    /\ UNCHANGED <<runRows, colls, plan, coll, ingest, indexed, answers, env>>

\* `as_completed`: an answer is taken unless the row says cancelled.
NextAnswer(r) ==
    /\ Here(r, "querying") /\ answers[r] # {}
    /\ Goto(r, IF status[r] = "cancelled" THEN "asked" ELSE "recording")
    /\ UNCHANGED <<runRows, colls, plan, coll, ingest, indexed, answers, env>>

\* Mutant: the answer is not taken off the pool's results.
RecordAgain(r, a) ==
    /\ Here(r, "recording") /\ a \in answers[r]
    /\ items' = [items EXCEPT ![r] = @ \union {a}]
    /\ done' = [done EXCEPT ![r] = @ + 1]
    /\ late' = IF status[r] = "cancelled" THEN [late EXCEPT ![r] = @ + 1] ELSE late
    /\ Goto(r, IF {i.query : i \in items'[r]} = sample[r] THEN "asked" ELSE "querying")
    /\ UNCHANGED <<status, total, evalCollection, colls, plan, coll, ingest, indexed,
                   answers, cancelling, queued, cancels, deletions, crashes>>

\* `add_item` and the progress, in one commit.
Record(r, a) ==
    /\ Here(r, "recording") /\ a \in answers[r]
    /\ answers' = [answers EXCEPT ![r] = @ \ {a}]
    /\ items' = [items EXCEPT ![r] = @ \union {a}]
    /\ done' = [done EXCEPT ![r] = @ + 1]
    /\ late' = IF status[r] = "cancelled" THEN [late EXCEPT ![r] = @ + 1] ELSE late
    /\ Goto(r, IF {i.query : i \in items'[r]} = sample[r] THEN "asked" ELSE "querying")
    /\ UNCHANGED <<status, total, evalCollection, colls, plan, coll, ingest, indexed,
                   cancelling, queued, cancels, deletions, crashes>>

\* The second `_cancelled`.
CheckAsked(r) ==
    /\ Here(r, "asked")
    /\ Goto(r, IF status[r] = "cancelled" THEN "done" ELSE "finalizing")
    /\ UNCHANGED <<runRows, colls, plan, coll, ingest, indexed, answers, env>>

\* `_finalize`: whatever the status is by now.
Finalize(r) ==
    /\ Here(r, "finalizing")
    /\ SetStatus(r, "completed") /\ Goto(r, "done")
    /\ UNCHANGED <<done, total, evalCollection, items, colls, plan, coll, ingest, indexed,
                   answers, env>>

\* `execute` records what planning, provisioning or aggregating raised, a
\* collection that is gone by its next use among it.
Raises(r) ==
    /\ \/ MayFail /\ pc[r] \in {"planning", "provisioning", "registering", "finalizing"}
       \/ Drained(r) /\ ~exists[coll[r]]
    /\ status[r] # "deleted"
    /\ SetStatus(r, "failed") /\ Goto(r, "done")
    /\ UNCHANGED <<done, total, evalCollection, items, colls, plan, coll, ingest, indexed,
                   answers, env>>

\* The task ends and writes nothing: the row is gone, or the database rejected
\* a document of a collection that is gone, and with it the failure's own write.
Dies(r) ==
    /\ \/ status[r] = "deleted" /\ pc[r] \in {"planning", "provisioning", "provisioned",
                "starting", "recording", "asked", "finalizing"}
       \/ status[r] = "deleted" /\ pc[r] = "querying" /\ (answers[r] # {} \/ ~exists[coll[r]])
       \/ status[r] = "deleted" /\ Drained(r)
       \/ pc[r] = "registering" /\ missing[r] # {} /\ ~exists[coll[r]]
    /\ Goto(r, "done")
    /\ UNCHANGED <<runRows, colls, plan, coll, ingest, indexed, answers, env>>

-----------------------------------------------------------------------------
(* A restart: tasks and requests are lost, and the ingestion queue recovers *)
(* every unfinished document, which its workers then ingest.                *)

Crash ==
    /\ crashes < MaxCrashes /\ crashes' = crashes + 1
    /\ pc' = [r \in Runs |-> IF pc[r] = "none" THEN "none" ELSE "done"]
    /\ todo' = [r \in Runs |-> {}] /\ busy' = [r \in Runs |-> {}]
    /\ missing' = [r \in Runs |-> {}] /\ answers' = [r \in Runs |-> {}]
    /\ cancelling' = {}
    /\ doc' = [c \in Collections |-> [x \in Rows |->
                  IF doc[c][x] = "processing" THEN "pending" ELSE doc[c][x]]]
    /\ queued' = {y \in Collections \X Rows : doc[y[1]][y[2]] \in {"pending", "processing"}}
    /\ UNCHANGED <<runRows, exists, tool, named, stored, bytes, plan, coll, pooled, repaired,
                   indexed, cancels, deletions, late>>

\* `claim_for_ingestion` takes pending rows only.
QueueClaims(c, x) ==
    /\ <<c, x>> \in queued /\ doc[c][x] = "pending"
    /\ doc' = [doc EXCEPT ![c][x] = "processing"]
    /\ UNCHANGED <<runRows, exists, tool, named, stored, bytes, pc, plan, coll, ingest,
                   indexed, answers, env>>

QueueEnds(c, x) ==
    /\ <<c, x>> \in queued /\ doc[c][x] # "pending"
    /\ queued' = queued \ {<<c, x>>}
    /\ \/ /\ doc[c][x] = "processing" /\ bytes[c]
          /\ doc' = [doc EXCEPT ![c][x] = "ready"]
          /\ stored' = [stored EXCEPT ![c] = @ \union {x}]
       \/ /\ doc[c][x] = "processing" /\ (MayFail \/ ~bytes[c])
          /\ doc' = [doc EXCEPT ![c][x] = "failed"] /\ UNCHANGED stored
       \/ doc[c][x] # "processing" /\ UNCHANGED <<doc, stored>>
    /\ UNCHANGED <<runRows, exists, tool, named, bytes, pc, plan, coll, ingest, indexed,
                   answers, cancelling, cancels, deletions, crashes, late>>

-----------------------------------------------------------------------------
Task(r) ==
    \/ Start(r) \/ Plan(r) \/ Announce(r) \/ FindNothing(r) \/ CreateCollection(r)
    \/ \E c \in Collections : Reuse(r, c)
    \/ \E d \in Docs : Register(r, d) \/ Ask(r, d)
    \/ Registered(r) \/ Repair(r) \/ Collect(r)
    \/ \E x \in Rows : BeginIngest(r, x) \/ EndIngest(r, x)
    \/ CheckProvisioned(r) \/ StartQueries(r) \/ NextAnswer(r)
    \/ \E a \in answers[r] : Record(r, a)
    \/ CheckAsked(r) \/ Finalize(r) \/ Raises(r) \/ Dies(r)

Queue == \E c \in Collections, x \in Rows : QueueClaims(c, x) \/ QueueEnds(c, x)

Next ==
    \/ \E r \in Runs : Task(r) \/ CreateRun(r) \/ CancelRead(r) \/ CancelWrite(r) \/ DeleteRun(r)
    \/ \E c \in Collections : DeleteCollection(c)
    \/ Queue \/ Crash

Spec == Init /\ [][Next]_vars

\* Tasks and the queue's workers run; nobody has to send a request.
FairSpec == Spec /\ WF_vars(Queue) /\ \A r \in Runs : WF_vars(Task(r))

-----------------------------------------------------------------------------
Labels == {"none", "scheduled", "planning", "provisioning", "finding", "creating",
           "registering", "ingesting", "provisioned", "starting", "querying", "recording",
           "asked", "finalizing", "done"}
Answers == [query : Docs, tool : Runs \union {None},
            outcome : {"scored", "unscored", "failed"}]

\* Types of the run rows, the collections and the tasks' locals; a sampled
\* query has its gold in the corpus (`build_sample_plan`).
TypeOK ==
    /\ status \in [Runs -> Statuses] /\ pc \in [Runs -> Labels]
    /\ done \in [Runs -> Nat] /\ total \in [Runs -> Nat] /\ late \in [Runs -> Nat]
    /\ evalCollection \in [Runs -> Collections \union {None}]
    /\ coll \in [Runs -> Collections \union {None}]
    /\ items \in [Runs -> SUBSET Answers] /\ answers \in [Runs -> SUBSET Answers]
    /\ exists \in [Collections -> BOOLEAN] /\ bytes \in [Collections -> BOOLEAN]
    /\ tool \in [Collections -> Runs \union {None}]
    /\ doc \in [Collections -> [Rows -> {"none", "pending", "processing", "ready", "failed"}]]
    /\ named \in [Collections -> [Docs -> Runs \union {None}]]
    /\ stored \in [Collections -> SUBSET Rows]
    /\ sample \in [Runs -> SUBSET Docs] /\ corpus \in [Runs -> SUBSET Docs]
    /\ \A r \in Runs : sample[r] \subseteq corpus[r]
    /\ missing \in [Runs -> SUBSET Docs] /\ indexed \in [Runs -> SUBSET Docs]
    /\ todo \in [Runs -> SUBSET Rows] /\ busy \in [Runs -> SUBSET Rows]
    /\ pooled \in [Runs -> BOOLEAN] /\ repaired \in [Runs -> BOOLEAN]
    /\ cancelling \subseteq Runs /\ queued \subseteq Collections \X Rows
    /\ cancels \in Nat /\ deletions \in Nat /\ crashes \in Nat

\* A run that says completed has one item for every sampled query and none
\* twice, and its progress says so: whatever was cancelled, deleted, ingested
\* or asked beside it (`_evaluate_queries`, `_finalize`).
CompleteIsComplete ==
    \A r \in Runs : status[r] = "completed" =>
        /\ {i.query : i \in items[r]} = sample[r]
        /\ Cardinality(items[r]) = Cardinality(sample[r])
        /\ done[r] = Cardinality(sample[r]) /\ total[r] = Cardinality(sample[r])

\* Cooperative cancellation is heeded at the next completion: at most the one
\* item whose check was already made is recorded after it (`_cancelled`).
CancelIsHeeded == \A r \in Runs : late[r] <= 1

\* An ingest of the row is under way: a run's, or the queue's after a restart.
InHand(c, x) ==
    \/ <<c, x>> \in queued
    \/ \E q \in Runs : coll[q] = c /\ pc[q] = "ingesting" /\ x \in busy[q]

\* Before a run asks anything, every document of its corpus has a row whose ingest
\* has ended, or that another run or the queue is ingesting at that moment: an
\* earlier run's failure or crash, and another run that fills the collection with
\* it, leave none out (`_missing_docs`, `_reingest_unindexed`).
CorpusAttempted ==
    \A r \in Runs : pc[r] \in {"provisioned", "starting", "querying", "recording", "asked"}
                     /\ exists[coll[r]] =>
        \A d \in corpus[r] : \E o \in Runs :
            \/ doc[coll[r]][<<d, o>>] \in {"ready", "failed"}
            \/ doc[coll[r]][<<d, o>>] = "processing" /\ InHand(coll[r], <<d, o>>)

\* Every run the database knows comes to an end while the process lives: no
\* ingest, query, deletion or other run makes its task wait for ever.
RunsEnd ==
    \A r \in Runs : status[r] = "pending" ~> (status[r] \notin Active \/ crashes > 0
                         \/ (coll[r] # None /\ ~exists[coll[r]]))

=============================================================================
