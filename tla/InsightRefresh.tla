--------------------------- MODULE InsightRefresh ---------------------------
(***************************************************************************)
(* The insight map of one collection (app/visualization/insights): threads *)
(* that change the corpus trigger refreshes, a marker row in the database  *)
(* stands for a refresh under way, and one background worker computes.     *)
(*                                                                         *)
(* Snapshot rows are numbered in the order of their creation.              *)
(***************************************************************************)
EXTENDS Integers, Sequences, FiniteSets, FiniteSetsExt

CONSTANTS
    Threads,      \* ingestion workers and request handlers
    Kinds,        \* what they do: "upload", "reingest", "delete", "refresh"
    MinChunks,    \* chunks a map needs (3 in the code)
    MaxChanges,   \* bound: operations of the threads
    MaxSnapshots, \* bound: snapshot rows ever created
    MaxCrashes,   \* bound: process deaths
    MayAge,       \* whether a marker may get older than STALE_COMPUTING
    MayFail,      \* whether computing a map may fail
    ChainMayFail  \* whether the check for a follow-up run may fail

ASSUME KindAssumption == Kinds \subseteq {"upload", "reingest", "delete", "refresh"}
ASSUME InsightBounds == {MinChunks, MaxChanges, MaxSnapshots, MaxCrashes} \subseteq Nat
ASSUME InsightFlags == {MayAge, MayFail, ChainMayFail} \subseteq BOOLEAN

Worker == "worker"
Ids    == 1 .. MaxSnapshots

ASSUME WorkerAssumption == Worker \notin Threads

VARIABLES
    corpus,   \* the chunk rows of the collection
    minted,   \* how many chunks there have ever been
    snapshot, \* each snapshot row: "none", "computing", "ready" or "failed"
    created,  \* how many rows have been created
    points,   \* the chunks each snapshot places
    fitted,   \* the chunks its layout was fitted on
    bundle,   \* the snapshot the model file on disk belongs to, 0 for none
    old,      \* markers older than STALE_COMPUTING
    stage,    \* where each thread, and the worker as a trigger, is
    marker,   \* the marker row it has created
    queue,    \* markers submitted to the executor
    work,     \* the worker's run
    changes, crashes,
    troubled  \* history: whether a purge came under a run, or anything failed, aged or died

corpusVars == <<corpus, minted>>
tableVars  == <<snapshot, created, points, fitted, bundle, old>>
envVars    == <<changes, crashes, troubled>>
vars == <<corpusVars, tableVars, stage, marker, queue, work, envVars>>

Rest == [at |-> "idle", id |-> 0, before |-> 0, base |-> 0, seen |-> {}]

Init ==
    /\ corpus = {} /\ minted = 0
    /\ snapshot = [i \in Ids |-> "none"] /\ created = 0
    /\ points = [i \in Ids |-> {}] /\ fitted = [i \in Ids |-> {}]
    /\ bundle = 0 /\ old = {}
    /\ stage = [t \in Threads \union {Worker} |-> "idle"]
    /\ marker = [t \in Threads \union {Worker} |-> 0]
    /\ queue = <<>>
    /\ work = Rest
    /\ changes = 0 /\ crashes = 0 /\ troubled = FALSE

Rows(s) == {i \in Ids : snapshot[i] \in s}
Latest(S) == IF S = {} THEN 0 ELSE Max(S)
Ready == Latest(Rows({"ready"}))

-----------------------------------------------------------------------------
(* What changes the corpus, each followed by a trigger.                    *)

Begin(t, kind) ==
    /\ kind \in Kinds /\ stage[t] = "idle"
    /\ changes < MaxChanges /\ changes' = changes + 1

Mint == minted' = minted + 1 /\ corpus' = corpus \union {minted'}

\* Mutant: a purge leaves the map's points behind.
PurgeRowsOnly(c) ==
    /\ corpus' = corpus \ {c}
    /\ UNCHANGED <<minted, tableVars>>

\* `purge_document`: the chunk goes together with its points.
Purge(c) ==
    /\ corpus' = corpus \ {c}
    /\ points' = [i \in Ids |-> points[i] \ {c}]
    /\ UNCHANGED <<minted, snapshot, created, fitted, bundle, old>>

Upload(t) ==
    /\ Begin(t, "upload")
    /\ Mint
    /\ stage' = [stage EXCEPT ![t] = "due"]
    /\ UNCHANGED <<tableVars, marker, queue, work, crashes, troubled>>

\* A re-ingest purges first, and triggers only when it has succeeded.
Reingest(t) ==
    /\ Begin(t, "reingest")
    /\ \E c \in corpus : Purge(c)
    /\ troubled' = (troubled \/ work.at # "idle")
    /\ stage' = [stage EXCEPT ![t] = "ingesting"]
    /\ UNCHANGED <<marker, queue, work, crashes>>

Ingested(t) ==
    /\ stage[t] = "ingesting"
    /\ Mint
    /\ stage' = [stage EXCEPT ![t] = "due"]
    /\ UNCHANGED <<tableVars, marker, queue, work, envVars>>

Delete(t) ==
    /\ Begin(t, "delete")
    /\ \E c \in corpus : Purge(c)
    /\ troubled' = (troubled \/ work.at # "idle")
    /\ stage' = [stage EXCEPT ![t] = "due"]
    /\ UNCHANGED <<marker, queue, work, crashes>>

\* The page's refresh action.
Refresh(t) ==
    /\ Begin(t, "refresh")
    /\ stage' = [stage EXCEPT ![t] = "due"]
    /\ UNCHANGED <<corpusVars, tableVars, marker, queue, work, crashes, troubled>>

-----------------------------------------------------------------------------
(* `schedule_insight_refresh`, by a thread or by the worker itself.        *)

CanCompute == Cardinality(corpus) >= MinChunks

\* `begin_refresh` reads the latest row: a marker that is not old refuses.
Pending == LET latest == Latest(Rows({"computing", "ready", "failed"}))
           IN latest # 0 /\ snapshot[latest] = "computing" /\ latest \notin old

Check(t) ==
    /\ stage[t] = "due"
    /\ stage' = [stage EXCEPT ![t] = IF CanCompute /\ ~Pending THEN "insert" ELSE "idle"]
    /\ UNCHANGED <<corpusVars, tableVars, marker, queue, work, envVars>>

\* Mutant: the old map is deleted when a refresh begins.
InsertClearing(t) ==
    /\ stage[t] = "insert" /\ created < MaxSnapshots
    /\ created' = created + 1
    /\ snapshot' = [i \in Ids |-> IF i = created' THEN "computing" ELSE "none"]
    /\ marker' = [marker EXCEPT ![t] = created']
    /\ stage' = [stage EXCEPT ![t] = "submit"]
    /\ UNCHANGED <<corpusVars, points, fitted, bundle, old, queue, work, envVars>>

\* It then commits a marker of its own ...
Insert(t) ==
    /\ stage[t] = "insert" /\ created < MaxSnapshots
    /\ created' = created + 1
    /\ snapshot' = [snapshot EXCEPT ![created'] = "computing"]
    /\ marker' = [marker EXCEPT ![t] = created']
    /\ stage' = [stage EXCEPT ![t] = "submit"]
    /\ UNCHANGED <<corpusVars, points, fitted, bundle, old, queue, work, envVars>>

\* ... and submits the run.
Submit(t) ==
    /\ stage[t] = "submit"
    /\ queue' = Append(queue, marker[t])
    /\ marker' = [marker EXCEPT ![t] = 0]
    /\ stage' = [stage EXCEPT ![t] = "idle"]
    /\ UNCHANGED <<corpusVars, tableVars, work, envVars>>

-----------------------------------------------------------------------------
(* `_run_refresh`: the single worker of the executor.                      *)

\* The row may have been deleted by a full build meanwhile.
Start ==
    /\ work.at = "idle" /\ stage[Worker] = "idle" /\ queue # <<>>
    /\ queue' = Tail(queue)
    /\ work' = IF snapshot[Head(queue)] = "none" THEN Rest
               ELSE [Rest EXCEPT !.at = "decide", !.id = Head(queue), !.before = Cardinality(corpus)]
    /\ UNCHANGED <<corpusVars, tableVars, stage, marker, envVars>>

\* Mutant: the model file on disk is taken for the map's.
MustRebuildUnchecked == Ready = 0 \/ ~(fitted[Ready] \subseteq corpus)

\* `needs_full_rebuild`; drift and the choice of space are left open.
MustRebuild == Ready = 0 \/ bundle # Ready \/ ~(fitted[Ready] \subseteq corpus)

Decide ==
    /\ work.at = "decide"
    /\ \/ ~MustRebuild /\ work' = [work EXCEPT !.at = "read", !.base = Ready]
       \/ work' = [work EXCEPT !.at = "read", !.base = 0]
    /\ UNCHANGED <<corpusVars, tableVars, stage, marker, queue, envVars>>

Placed == IF work.base = 0 THEN {} ELSE points[work.base]

\* New chunks are placed relative to the fitted ones.
HasBasis == fitted[work.base] \subseteq corpus \/ corpus \subseteq Placed

\* The chunk rows the map is computed from, and which of them are new to it.
Read ==
    /\ work.at = "read"
    /\ work.base = 0 => CanCompute
    /\ work.base # 0 => HasBasis
    /\ work' = [work EXCEPT !.at = "write", !.seen = corpus \ Placed]
    /\ UNCHANGED <<corpusVars, tableVars, stage, marker, queue, envVars>>

\* Points reference chunk rows, which must exist when they are written.
Extend ==
    /\ work.at = "write" /\ work.base # 0 /\ work.seen \subseteq corpus
    /\ points' = [points EXCEPT ![work.base] = @ \union work.seen]
    /\ snapshot' = [snapshot EXCEPT ![work.id] = "none"]
    /\ work' = [work EXCEPT !.at = "recheck"]
    /\ UNCHANGED <<corpusVars, created, fitted, bundle, old, stage, marker, queue, envVars>>

\* `full_build`: the marker becomes the map and every other row goes.
Replace ==
    /\ work.at = "write" /\ work.base = 0 /\ work.seen \subseteq corpus
    /\ snapshot' = [i \in Ids |-> IF i = work.id THEN "ready" ELSE "none"]
    /\ points' = [i \in Ids |-> IF i = work.id THEN work.seen ELSE {}]
    /\ fitted' = [fitted EXCEPT ![work.id] = work.seen]
    /\ bundle' = work.id
    /\ work' = [work EXCEPT !.at = "recheck"]
    /\ UNCHANGED <<corpusVars, created, old, stage, marker, queue, envVars>>

\* `full_build` replaces the file once the rows are flushed, and only then does
\* `run_refresh` commit: what ends the run in between leaves the new file.
FileLeft == {bundle} \union
            (IF work.at = "write" /\ work.base = 0 /\ work.seen \subseteq corpus THEN {work.id} ELSE {})

\* Too few chunks, a basis that is gone, or rows purged under the run; the
\* neighbours of an extension may be among the latter.
Impossible ==
    \/ work.at = "read" /\ IF work.base = 0 THEN ~CanCompute ELSE ~HasBasis
    \/ work.at = "write" /\ ~(work.seen \subseteq corpus)
    \/ work.at = "write" /\ work.base # 0 /\ work.seen # {} /\ ~(fitted[work.base] \subseteq corpus)

\* Mutant: a failed run leaves its marker as it is.
FailUnrecorded ==
    /\ Impossible \/ (MayFail /\ work.at \in {"decide", "read", "write"})
    /\ work' = Rest
    /\ UNCHANGED <<corpusVars, tableVars, stage, marker, queue, envVars>>

\* The exception rolls the run back and `mark_failed` marks its row, if it
\* still exists.
Fail ==
    /\ \/ Impossible
       \/ MayFail /\ work.at \in {"decide", "read", "write"}
       \/ ChainMayFail /\ work.at = "recheck"
    /\ snapshot' = [snapshot EXCEPT ![work.id] = IF @ = "none" THEN @ ELSE "failed"]
    /\ bundle' \in FileLeft
    /\ work' = Rest
    /\ troubled' = TRUE
    /\ UNCHANGED <<corpusVars, created, points, fitted, old, stage, marker, queue, changes, crashes>>

\* Mutant: no follow-up run.
RecheckNothing ==
    /\ work.at = "recheck"
    /\ work' = Rest
    /\ UNCHANGED <<corpusVars, tableVars, stage, marker, queue, envVars>>

\* A second session compares the totals and schedules a follow-up run.
Recheck ==
    /\ work.at = "recheck"
    /\ stage' = [stage EXCEPT ![Worker] = IF Cardinality(corpus) # work.before THEN "due" ELSE @]
    /\ work' = Rest
    /\ UNCHANGED <<corpusVars, tableVars, marker, queue, envVars>>

-----------------------------------------------------------------------------
Age ==
    /\ MayAge
    /\ \E i \in Rows({"computing"}) \ old : old' = old \union {i}
    /\ troubled' = TRUE
    /\ UNCHANGED <<corpusVars, snapshot, created, points, fitted, bundle, stage, marker, queue, work,
                   changes, crashes>>

\* The process dies and starts again; nothing recovers insight work.
Crash ==
    /\ crashes < MaxCrashes /\ crashes' = crashes + 1
    /\ stage' = [t \in DOMAIN stage |-> "idle"]
    /\ marker' = [t \in DOMAIN marker |-> 0]
    /\ queue' = <<>>
    /\ bundle' \in FileLeft
    /\ work' = Rest
    /\ troubled' = TRUE
    /\ UNCHANGED <<corpusVars, snapshot, created, points, fitted, old, changes>>

Operate(t) == Upload(t) \/ Reingest(t) \/ Delete(t) \/ Refresh(t)
Trigger(t) == Check(t) \/ Insert(t) \/ Submit(t)
Compute    == Start \/ Decide \/ Read \/ Extend \/ Replace \/ Fail \/ Recheck

Next ==
    \/ \E t \in Threads : Operate(t) \/ Ingested(t)
    \/ \E t \in Threads \union {Worker} : Trigger(t)
    \/ Compute \/ Age \/ Crash

Spec == Init /\ [][Next]_vars

\* Threads that have begun go on, and so does the executor's.
FairSpec ==
    /\ Spec
    /\ \A t \in Threads : WF_vars(Ingested(t))
    /\ \A t \in Threads \union {Worker} : WF_vars(Trigger(t))
    /\ WF_vars(Compute)

-----------------------------------------------------------------------------
TypeOK ==
    /\ minted \in Nat /\ corpus \subseteq 1 .. minted
    /\ snapshot \in [Ids -> {"none", "computing", "ready", "failed"}]
    /\ created \in 0 .. MaxSnapshots
    /\ points \in [Ids -> SUBSET (1 .. minted)] /\ fitted \in [Ids -> SUBSET (1 .. minted)]
    /\ bundle \in Ids \union {0} /\ old \subseteq Ids
    /\ stage \in [Threads \union {Worker} -> {"idle", "ingesting", "due", "insert", "submit"}]
    /\ marker \in [Threads \union {Worker} -> Ids \union {0}]
    /\ queue \in Seq(Ids)
    /\ work \in [at : {"idle", "decide", "read", "write", "recheck"}, id : Ids \union {0},
                 before : Nat, base : Ids \union {0}, seen : SUBSET (1 .. minted)]
    /\ {changes, crashes} \subseteq Nat /\ troubled \in BOOLEAN

\* The map shows chunks that exist, however purges and computations overlap
\* (`purge_document`, and the foreign key of the points).
PointsExist == \A i \in Ids : points[i] \subseteq corpus

\* A layout is extended only by the model it was fitted with: the file on disk
\* never belongs to a layout other than the one being extended, so a crash or
\* a failure between the file's replacement and the commit costs a refit, not
\* the map (store.py, `load_bundle`).
ExtendsItsOwnLayout ==
    work.at \in {"read", "write"} /\ work.base # 0 => bundle = work.base /\ snapshot[work.base] = "ready"

\* A collection that has a map keeps one: a new map "replaces the previous
\* one only once it is `ready`" (builder.py), so neither a failed computation
\* nor a crash nor a trigger costs the map; a failing check for a follow-up run
\* does (`_run_refresh` records its failure on the new map).
OnlyRecheckLosesTheMap ==
    [][(Ready # 0 /\ Ready' = 0) => work.at = "recheck"]_<<snapshot, work>>

\* The bound on snapshots stops a trigger of one of these.
OutOfSnapshots(ts) == created = MaxSnapshots /\ \E t \in ts : stage[t] = "insert"

\* "The chain terminates the first pass the corpus holds still" (tasks.py): once
\* nothing is uploaded any more every chunk is on the map, where no purge came
\* under a run, no run failed, no marker aged and the process never died.
CatchesUp ==
    <>[](\/ troubled \/ OutOfSnapshots(Threads \union {Worker}) \/ ~CanCompute
         \/ Ready # 0 /\ corpus \subseteq points[Ready])

\* A marker row ends with its run: the page does not show progress for ever
\* and later triggers are not refused.  Nothing recovers markers after a crash.
MarkersResolve ==
    \A i \in Ids : snapshot[i] = "computing" ~>
        (snapshot[i] # "computing" \/ crashes > 0 \/ OutOfSnapshots({Worker}))
=============================================================================
