# Ragworks: models and proofs

TLA+ models of the Ragworks backend (`src/app`, Python): a FastAPI service that
stores files in collections, runs each through a user-defined ingestion pipeline
into one or several vector indexes, and answers searches and chats from them.
The models cover what its unit tests hardly reach: threads, transactions and
requests interleaving on the same rows, a process that dies between two steps,
caches shared by threads, and work that refuses other work.

Run a model with `tlc -workers 2 -config <run>.cfg <module>` (section 3 lists the
runs) and check proofs with `tlapm <module>_proofs.tla` (section 5).

## 1. The system

### Inventory

| Component | State it keeps | Operations | What is hard | What makes it correct |
|---|---|---|---|---|
| Ingestion queue and workers (`services/ingestion_queue.py`, `ingestion_worker.py`, `ingestion.py`) | `documents` rows (status, run id, chunk count), chunk rows, a thread pool with its futures | start, stop, recover, enqueue, claim, run, record the outcome, rescue | crash or stop at any point; a session that cannot record its failure; two enqueues of one document | no document is stranded; one worker per document; a ready row says what is stored |
| Files (`services/files.py`, `file_copy.py`, `file_deletion.py`, `file_staleness.py`, `ingestion_recovery.py`, `api/routes/files.py`, `mcp/tools/files_write.py`) | file nodes, bytes on disk, the document row of each file | upload, copy, (re)ingest, retry failed, re-ingest stale, delete | a status read in one step and acted on in another while a worker moves the row | deletion leaves nothing behind and wins; requeueing never takes a document from its worker |
| Vector indexes (`vectorstores`) | vectors per document; pgvector inside the database transaction, Pinecone outside it | upsert, delete by document, index DDL | the two kinds differ when a transaction fails | an index holds of a ready document what its indexer took in the last attempt, and nothing else |
| Value cache (`cache/values.py`) | entries with value, age and flight; an executor | get, background refresh, invalidate, clear, close | joining a flight, failing flights, invalidation during one, eviction when all are in flight | one load per entry; an invalidation holds; bounded; nobody waits for ever |
| Resource cache (`cache/resources.py`) | one future per key in LRU order | get or create, invalidate, close all | detaching a client that is still being created | each client is closed once or still cached |
| Connection throttle (`providers/throttle.py`, `throttled.py`) | a semaphore and a window of start times per connection | take a slot, pace, retry | the limit is edited under running pipelines; retries inside a slot | bounds on calls in flight and on the rate; every call ends |
| Insight map (`visualization/insights`) | snapshot rows, their points, one model file, a one-thread executor | trigger, incremental update, full build, purge | triggers refused while one runs; a long computation over rows that change; file and database not atomic | points exist; a map is extended by its own model and never lost; every chunk ends up on it |
| Pipeline executor and tracing (`pipelines/execution`, `pipelines/tracing`, `pipelines/validation_graph.py`) | pending, dead and finished nodes, deliveries, fan-in counts; run and node-run rows | validate, pass over ready nodes, settle branches, run, record, degrade, fail | nodes are visited in the order of a set; fan-in counts shrink while branches are under way; failure half way | the order of visits decides nothing; nothing is missed or left waiting; the rows tell what happened |
| Chat (`chat`, `db/repositories/chat.py`) | sessions, transcripts, images, row locks | ask, edit, regenerate, tool calls, stream, branch, delete | disconnect or failure in the middle of a turn with a pruned transcript uncommitted; locks kept over yielded events | a transcript a provider accepts; nothing lost that nothing replaces; turns end |
| Evaluations (`evals`) | run rows and items, shared corpus collections, a background task per run | create, provision, ingest, ask, aggregate, cancel, delete | cancellation and deletion racing the task; runs filling one collection; restarts | every query counted once; a corpus complete before it is asked; cancellation heeded; runs end |
| LLM node engine (`pipelines/llm`) | none beyond a call | call, parse, retry | two retry loops of different failure classes | bounded number of requests |
| Definitions, validation, expressions (`pipelines/validation*.py`, `resolution.py`, `expressions`) | stored versions of graphs | validate, resolve | boundary cases of graphs | accepts exactly executable graphs |
| Settings, observability, telemetry, usage ledger | one settings row; ring buffers; event rows | read, write, flush | little interleaving | |
| Accounts, API keys, provider clients, catalogs, MCP server, diagnostics, migrations, frontend, deployment | rows and wire formats | | no order of events to get wrong | not modelled |

### How the parts interact

A request writes a `pending` row, commits it and hands its id to the queue. A
pool thread claims the row, commits, and runs the pipeline in one long
transaction on the claim's session; embedding calls inside it go through the
connection throttle to clients held by the resource cache. Indexer nodes write to
pgvector in that transaction and to Pinecone at once. The outcome is committed on
the row, and a success triggers the insight refresh of the collection, as does a
deletion. Model catalogs and other provider metadata are read through the value
cache. The `documents` table is the only durable part of the queue; everything
else in memory is lost with the process, and `lifespan` (`api/main.py`) calls
`recover` when the next one starts. A chat turn calls retrieval pipelines as
tools inside its own transaction; an evaluation ingests its corpus through the
ingestion service, in a pool of its own, and asks its queries through a
collection's primary tool.

## 2. The modules

| Module | Models | State and code |
|---|---|---|
| `DocumentLifecycle` | abstract: what a document row promises its readers | status, chunk rows, reported count; a status moves along create, claim, clear, finish, fail, requeue, recover, delete |
| `DocumentIngestion` | queue, workers, ingestion service, file requests, deletion, both kinds of index, crashes | below |
| `ValueCache` | `ValueCache` | one step per hold of the lock; a value is the version of its source, so "older" and "loaded before the invalidation" can be stated; `order` is the recency order of the `OrderedDict`, as the relation "used before" |
| `ResourceCache` | `ResourceCache` | `slot` and `order` are `_entries`; `doomed` is what a thread has detached and still closes outside the lock, `stranded` what it gave up on when a `close` raised; `onDone` the close callbacks |
| `ConnectionThrottle` | `connection_slot`, `_pace_request`, `call_with_retries` and the proxies that captured a limit | `sems` is the list of semaphores ever built, so calls in flight on an old one stay visible; time is ticks |
| `InsightRefresh` | triggers, marker rows, the worker, incremental and full builds, purges, the model file | snapshot rows are numbered by creation, chunks by birth; `bundle` is the file on disk |
| `EvalRun` | runs from request to aggregate, their shared collections, cancellation, deletion, restarts | `pc` is the place of a run's background task; one step per commit or read others can get between; all runs have the same cache key, hence one collection at a time |
| `ChatTurn` | a turn from setup to its last row, edits, branches, deletions, images, row locks | `rows` are the committed transcripts, `prune` says which stretch of one a turn's open transaction has deleted (all after the question it keeps, up to the end at that time; the row lock keeps others from deleting there), `branchedAt` where a transcript or one it descends from was cut; a streaming turn leaves the event loop only where it yields (`MayRun`) |
| `PipelineRun` | graph validation, the executor's passes and settling, trace rows, the caller's last word | a payload is the wire it travelled on; `visit` is what is left of `list(state.pending)` |
| `..._proofs` | theorems about the module they are named after | section 5 |
| `MC...` | instances for TLC | model values, graphs, symmetry |

Each module is self-contained: the components meet in the database or by a call
that returns at once, so they do not share actions. Where one sees another it has
that one's view built in: `InsightRefresh` has the ingestion's view of the corpus
(an upload adds chunks, a re-ingest purges first and adds later), `EvalRun` has
ingestion as a step that succeeds or fails, `ChatTurn` and `EvalRun` have a
retrieval run as one call that answers or raises, which is what `PipelineRun`
says of it.

### DocumentIngestion

A worker's `pc` names the code it is in:

| `pc` | Code |
|---|---|
| `claim` | `claim_for_ingestion`: the conditional UPDATE and its commit |
| `load` | `session.get` of the document, `ingestion_worker.py:43` |
| `begin` | `ingest_document` up to its first commit (status, chunk rows purged) |
| `purge` | `_purge_previous_vectors`, when the row carried a run |
| `run` | `runner.start` up to the first flush, which writes `ingestion_run_id` and locks the row |
| `index` | the nodes, `Index` once per indexer; ends in `Succeed`, `RecordFailure` or `Abort` |
| `rescue`, `recording` | `_ensure_failure_recorded`: read, then write |

A request's `op` is `requeue` (statuses read, not yet written), `enqueue`
(committed, background task outstanding), `delete`, `bytes` and `row` (the three
phases of a deletion). `mem` is what a worker remembers of its attempt: `writes`
says whether `ingest_document` changes a column of the row, and so waits for it;
`put` is what each indexer has been given and has taken. An indexer takes the part
of the stream its port accepts (`partition_items`, `nodes/indexing.py:196-206`),
which may be nothing, and the chunk rows are those of one branch (`nodes/io.py`), so
`Index` takes any subset and `Succeed` any number of rows; that "`ready` always means
chunks were indexed" (`ingestion.py:6`) is more than the code sees to. `indexed` is
the `put` of the attempt that made the document ready, which is what
`ReadyIsSearchable` and `NoStaleTail` compare the indexes with. `holder` is the row lock: an UPDATE or DELETE by another
session waits for it. `late[d]` holds the deletions that have not yet seen all of
the chunk rows, i.e. those the foreign key will reject. `known` is what a
deletion's open transaction removed from the database's own index. `vectors`
distinguishes indexes in `External` (written at once) from the rest (written with
the commit).

The database is modelled as READ COMMITTED PostgreSQL with row locks and deadlock
detection (`BeginDeadlock`), which is how `app/db/engine.py` configures it.

## 3. The runs

| Run | Instance | Checks |
|---|---|---|
| `ingest_one_worker` | 1 document, 1 worker, 2 requests at a time, 4 in all, of every kind, both kinds of index, indexers that take a chunk or nothing, failing purges, 1 crash or stop, with fairness | `ReadyCountsItsRows`, `ReadyIsSearchable`, `NoStaleTail`: what a ready row reports is what its last attempt has stored; `DeletionWins`: a deletion wins over the ingestion it races; `RequestsEnd`: it ends, though it may deadlock with that ingestion |
| `ingest_two_workers` | 2 documents, 2 workers, 1 request at a time, 3 in all: stale re-ingestion, ingesting a file that is queued (its id is then queued twice, and two workers take it), deletion of one of them; 1 crash or stop, with fairness | types, `NothingStranded`, `RowLockIsTheRun`, `ExclusiveIngestion`, `KeepsTheLifecycle` (implements `DocumentLifecycle`), `EverySettles` |
| `cache_policy` | 2 keys in 1 place, 2 callers, 4 entries, 3 calls, 2 ticks, changing source, failing loads, with fairness | `OneLoadPerEntry`, `InvalidationHolds`, `NeverOlder`, `InFlightIsKept`, `CallsEnd` |
| `clients_safe` | 3 threads, 2 keys in 1 place, 3 clients, an invalidation or `close_all`, factories and closes that raise, with fairness | `ClosedOnce`, `NoneLeaks`, `CachedIsOpen`, `LookupsEnd` |
| `throttle_paced` | 2 threads, 4 calls of up to 2 attempts, rpm 2, the limit edited once, with fairness | `StartsPaced`, `CallsEnd` |
| `insights_safe` | 2 threads, 3 changes of every kind, 3 snapshots, failures everywhere, 1 crash, with fairness | `PointsExist`, `ExtendsItsOwnLayout`, `OnlyRecheckLosesTheMap`, `MarkersResolve`, `CatchesUp`: every uploaded chunk ends up on the map |
| `evals_one` | 1 run, 2 documents, two plans, a cancellation, a deletion, a restart, failures everywhere | `CompleteIsComplete`, `CancelIsHeeded` |
| `evals_shared` | 2 runs, 1 document, a deletion, failures, with fairness | `CorpusAttempted`: when a run asks, each document of its corpus has been ingested or another run is at it; `RunsEnd` |
| `chat_edits` | 3 turns in 1 session (one streams), edits and regenerations, a tool call, failures and disconnects | `AsksTheQuestion`, `ImagesAreStored`, `PruneIsReplaced` |
| `chat_branches` | a streaming and a blocking turn, 2 sessions, 2 calls at once, a branch, a deletion, locks taken in both orders and kept until the session is closed, with fairness | `TranscriptIsWhole`, `TurnsEnd` |
| `engine_graphs` | every graph that takes some of 12 wires between 2 inputs, 2 inner nodes of 2 kinds each and an output, cyclic and crowded ones too, with fairness | `SameOutcome`, `WaitsForAll`, `TraceTellsTheOutcome`, `RunEnds` |
| `chat_v_stall` | 2 streaming turns in 1 session | violates `TurnsEnd`: one turn is suspended at an event, or failed and not closed yet, with a row locked, the other blocks the event loop waiting for that row, and the first is never resumed |

### Where the code disagrees with what it says of itself

`chat_v_stall` shows one of the disagreements met; the others were read from the
code and seen in the models, and have no run of their own. Each is a finding in
`PROJECT.json` with the line it quotes.

| Where | What happens |
|---|---|
| requeue (`files.py`) | A client asks to ingest a file whose document is processing; it is requeued and a second worker claims it. |
| deletion (`file_deletion.py`) | A file deleted while, or after, an ingestion that was never ready leaves its vectors in the index. |
| deletion (`file_deletion.py`) | It stops after its external purge; the document stays ready. |
| rescue (`ingestion_worker.py`) | An old attempt's last-resort failure write lands on a newer, ready attempt of another worker. |
| indexers (`nodes/indexing.py`) | One that accepts nothing of its stream writes nothing, and the document is ready all the same. |
| retries (`ingestion.py`) | A crash rolls back the run id but not the external vectors; the next attempt purges nothing. |
| value cache | With all entries in flight a new entry is evicted as it is inserted, and its key loaded twice. |
| value cache | A slow background refresh lets readers have values past the stale window. |
| resource cache | The client just created is the one evicted and closed. |
| resource cache | A client whose close raises leaves those detached with it open (`stranded`, which `NoneLeaks` excepts). |
| throttle | Proxies with the old and the new limit rebuild the semaphore for each other: more calls in flight than both together. |
| throttle | Retries are sent within one paced start. |
| insight map | A run that fails under a re-ingest schedules no successor, having refused the re-ingest's trigger. |
| insight map | Two triggers read before either inserts: two markers. Failed markers outlive incremental runs. |
| insight map | A failure of the follow-up check marks the finished map as failed. |
| chat (`routes/chat.py`) | The route yields in a `finally` (:133) that a leaving client interrupts, and runs the setup before its `try` (:119); in both cases it never closes the turn's session. |
| chat | In a session of more than 50 messages the request is built from the oldest 50, without the question. |
| chat | A turn that ends among its tools leaves calls without results, which every later request repeats. |
| chat | An edit deletes image files before anything is committed; when it fails the messages still name them. |
| chat | A session that was branched from can neither be deleted nor pruned past the branched message. |
| chat | A failed retrieval inside a turn is rolled back with it; its trace link leads nowhere. |
| evaluations | A run repoints the shared collection's tool while another run asks through it. |
| evaluations | Status writes of the task overwrite a cancellation, and a cancellation overwrites `completed`. |
| evaluations | A run active at a restart stays active for ever; so does one whose session the database rejected. |
| evaluations | Deleting a collection that a run references purges its files, then fails. |
| evaluations | Two runs create a collection each, or ingest each other's pending documents. |
| executor | A wired optional port is not waited for, so what a prompt sees depends on the iteration order of a set. |
| executor | An edge without a source port never delivers; the branch behind it is skipped and the run completes. |

The passing runs say under what conditions the promises do hold.

- No ingestion run ingests a `processing` file by hand (`ManualWhen`): the finding
  about requeues is just that. In `ingest_one_worker` a file is not ingested while
  it is pending either; `ingest_two_workers` is about that case, with one request
  at a time, for two that have read the same ready document requeue it under the
  worker the first one gave it to. It has no retry of failed documents: a retry
  between a rescue's read and its write is the finding about the rescue. Section 5
  proves that a requeue under a worker is all that can break `ExclusiveIngestion`.
- `ReadyIsSearchable` and `NoStaleTail` exempt external indexes of files
  somebody may delete, or whose purge may fail.
- `CatchesUp` exempts behaviours in which a run failed, a marker aged, a purge
  came under a run (`troubled`; a deletion or re-ingest while the worker is idle is
  not exempted) or the process died, since nothing makes up for those; uploads
  under any run, one after another, are what it is about. `OnlyRecheckLosesTheMap`
  names its exception.
- `RunsEnd` exempts runs whose collection is deleted or whose process restarts.
- `TranscriptIsWhole` exempts turns that are among their tools or ended there,
  branches cut there, and turns that ran in one session at once;
  `ImagesAreStored` exempts sessions in which an edit was undone; `AsksTheQuestion` transcripts
  longer than the limit. Each is a finding of the table, and only that.
- `WaitsForAll` is about required ports.

### Bounds and why they are enough

Requests, crashes, calls, edits, changes, versions, ticks, snapshots, branches and
deletions are bounded by constants named `Max...` (and `Horizon`), guards of the
actions they limit; all else is finite by construction. Two of a kind (workers,
callers, runs, turns, chunks, keys) is what each race needs; a third appears where
two must meet with a third to hand something over (`clients_safe`) or to come
after both (`chat_edits`). One chunk tells a result that is shorter, namely empty, from
the one before it, and an index that took part from one that took none. One
document suffices where properties are per document; a second one is there when
the queue must have something else to do. In `cache_policy` another entry adds no
state, so four are as good as any number. `HistoryLimit` is 4 instead of 50: a
transcript of three turns gets longer than that. `MinChunks` is 2 instead of 3,
which reaches the same states with fewer operations. The wires of `engine_graphs`
include both ends of every special case of the executor (an optional port, a
fan-in port fed by two branches, an edge without a source port, a cycle, a port
fed twice); a longer chain only repeats its steps, and `PipelineRun_proofs` covers
every size. Identities nobody can see (futures, cache entries) are taken in a
fixed order instead of by symmetry, so that liveness can be checked on the same
instance; `chat_edits`, which has no liveness property, uses symmetry.

Runs set `CHECK_DEADLOCK FALSE` because with bounded requests the system ends
up with nothing left to do. `engine_graphs` does not: a run that is over stutters
(`Done`), and any other state without a step would be an executor that hangs.

### Fairness and why the code justifies it

Weak fairness only, on the steps of threads that have begun: pool threads,
background tasks and request handlers are run by the operating system or the
event loop, a loader or a provider call returns or raises (the clients have
timeouts), and a process that is going down exits and is started again by its
supervisor. `Close` of a turn whose route never closes it is fair because the
interpreter finalises generators nothing refers to, at once for reference counts
and by asyncio's hooks for suspended asynchronous ones. No fairness makes a client send a request, a source change or a
failure happen, so no liveness property relies on somebody repairing something by
asking again. `Tick` is fair because time passes. In `ChatTurn` a turn's next step
is fair only while `MayRun` allows it: a blocked event loop is what
`chat_v_stall` is about.

## 4. Mutants

Beside an action stands, where there is one, a mutated form of it (commented
`Mutant`): a dropped guard, a missing reset, an off-by-one. They are used by no
specification. Each property of each passing run is violated when one of them
takes the place of the action; `PROJECT.json` lists which.

## 5. The proofs

Each theorem holds for all values of the constants that satisfy the assumptions
in its model (finite sets, bounds that are naturals, `None` outside of what it is
distinguished from). A proof of an invariant has one step per action, and under
it one per part of the invariant the action can disturb; actions that leave a
part's variables alone are dismissed together. Every inductive invariant was
checked by TLC before it was proved.

### Ingestion

`DocumentIngestion_proofs`:

- `TypeCorrect`: `Spec => []TypeOK`. Besides sets of values, `TypeOK` says that a
  busy worker has a document, which the others need.
- `LockCorrect`: `Spec => []RowLockIsTheRun`. Inductive together with `TypeOK`:
  a worker takes the lock as it enters `index` and every way out of `index`
  gives it back; that nobody else holds it then is the guard of taking it.
- `StrandedNever`: `Spec => []NothingStranded`. It says nothing of a process that
  is down or stopping, so the step to show is the one back up: recovery turns all
  processing documents into pending ones and queues them all. While up, each step
  that takes a document from one place (queue, claim, request) is shown to put it
  in another.

What the outcomes of ingestion are worth rests on those:

- `ClaimIsExclusive`: `Spec /\ [][RequeuesSpareWorkers]_vars => []ExclusiveIngestion`.
  The conditional UPDATE of the claim keeps a document with one worker as long as
  no request commits a requeue of a document some worker is running. Requests can
  do that (a finding), so the premise is needed; that it suffices means there is
  no second hole, in rescue, recovery, deletion or duplicates in the queue. What
  makes it inductive is that the document of a running worker is never `pending`.
- `CountIsTrue`, `ReadyIsFound`, `NoTailIsLeft`, `OneRetryIsEnough`:
  `Spec /\ []ExclusiveIngestion` implies `[]ReadyCountsItsRows`,
  `[]ReadyIsSearchable`, `[]NoStaleTail`, `[]DeletionWins`. With one worker thread
  the premise always holds (`OneThreadIsExclusive`). One invariant, `Outcomes`,
  is behind all four. Of documents (`DocOK`): without a run id nothing is in the
  database's own indexes, which is why an attempt may skip the purge then. Of
  workers (`RunOK`): the previous rows are gone and what the run's indexers have
  taken (`put`) and sent to an external index is there. Of deletions (`ReqOK`): once the bytes are gone, chunk
  rows can only come from a run that had read them before, and there is no such run
  left when chunk rows have come once.
- `FollowsTheLifecycle`: `Spec /\ [][RequeuesSpareAttempts]_vars => KeepsTheLifecycle`.
  The refinement of `DocumentLifecycle`: every step is a step of the lifecycle or
  none. The premise is a little stronger, for an attempt ends only with the rescue's
  last write. `NothingStranded` enters here: a row that says `processing` while
  the process is up has a worker, so a requeue that spares workers spares it.

`Indexes # {}` (a pipeline has an indexer) is an assumption of these theorems: the
model takes a run that never reached an indexer for one that read nothing.

### Caches

`ResourceCache_proofs` proves `ClosedAtMostOnce` (`ClosedOnce`), `NothingLeaks`
(`NoneLeaks`) and `CacheIsOpen` (`CachedIsOpen`). None of them is inductive: each
step that closes a client must know that nobody else will. The invariant behind
all three (`IInv`) says who is responsible: a client not yet closed is in the cache,
or in the hands of one thread that will close it, or has the callback its creator
will run (`OnePlace`, `Placed`), unless a close that raised stranded it; whatever still has such a place is open
(`OpenUntilClosed`); and a callback is only left with an unfinished future, which
has one creator (`Threads`). `Lookup` gives a new client its place; `Detach` and
`SettleIn` move clients from the cache into a thread's hands, and share one lemma
(`TakingOutKeeps`); `CloseOne` and `Create` give up the place as they close. The
proof needs neither the recency order nor the capacity: whichever finished clients
are evicted, the argument is the same.

`ValueCache_proofs` proves `LoadedOnce` (`OneLoadPerEntry`) and
`InvalidationIsFinal` (`InvalidationHolds`). An entry's load is one caller or one
task (`OneLoad`); slot, callers and tasks that refer to one entry refer to it for
one key (`OneKey`); and a caller has an entry and a key exactly while its call is
under way (`Threads`). For the second theorem every value carries the version of
its source: the value an entry has, or is about to get from a load that has read,
is as new as the last invalidation of the key it is cached for and as the one each
caller using it came after (`Stocked`), where a caller came after no invalidation
that has not happened yet and none is of a version the source has not reached
(`Floors`). The recency order is not needed here either.

The other two properties of the cache are action properties. `OnlyNewer`
(`NeverOlder`): of an entry that is used for a key, the value it has is no newer
than what its load has read, and that no newer than the source (`Newest`). With one
load per entry no second load can settle in between, and a fresh entry starts with
none. `FlightsAreKept` (`InFlightIsKept`) does need the order: eviction takes the key
least recently used among those with no load in flight, and goes on until the cache
is within `max_entries`. The order is a strict order on the keys cached
(`UsedBefore`), so there is such a victim, and the cache never holds more than
`max_entries` (`Capacity`, which is theorem `WithinCapacity`); hence `clear`, `close`
and the loads that settle evict nothing in flight. `TypeCorrect` follows from the
parts of all these.

### Throttle

`ConnectionThrottle_proofs` proves `TypeCorrect` and `PacedAlways` (`StartsPaced`).
The property speaks of all starts there ever were, the code keeps a window of
them. `WindowIsRecent` relates the two: the window is the tail of the history and
every start before it has aged out. That the loop over the window's front ends
where it should (`RecentFacts`) is proved by well-foundedness, since the model
states the loop as a choice.

### Insight map

`InsightRefresh_proofs` proves `TypeCorrect`, `PointsAlwaysExist` (`PointsExist`),
`LayoutIsItsOwn` (`ExtendsItsOwnLayout`) and `MapIsKept`, the action property
`OnlyRecheckLosesTheMap`. The strengthening (`Markers`) is about the rows of the
runs: they are created in order; a marker is with its trigger, in the queue or with
the worker, in one place only; and it is not ready before the worker makes it so.
The worker's commit is then the only step that makes a row ready, and the row it
makes ready is nobody else's. A run that ends after it has replaced the file and
before its commit (`FileLeft`, in `Fail` and in `Crash`) leaves the file of a row
that is not ready, which no extension takes: it compares the file's snapshot with
its own.

### Evaluations and pipeline runs

`EvalRun_proofs` proves `TypeCorrect`, `CompletedIsComplete`
(`CompleteIsComplete`) and `CancelHeeded` (`CancelIsHeeded`). `RunOK` says what a
task knows at each place: only a task that ended has an outcome (`Outcome`); answers
and items are of different sampled queries (`OnePerQuery`); the counters count them
(`Counted`); a task past its last query, unless cancelled, has an item for each
(`AllAsked`); and so on to the completed row (`Complete`). For
the second, `Heeded` says when the one late item may still come. `CorpusIsAttempted`
(`CorpusAttempted`) is about several runs that fill one collection. `CorpusAhead`
follows each document of a run's corpus until somebody has tried to ingest it: it
was, or the run has it in its list, or the run has yet to look at the name another
run gave it; a row still being ingested by then is in the hands of another run, or
of the queue after a restart (`Held`). That a row this relies on does not vanish is `RowsExist`, that only
its creator makes a collection's rows before others see it `CreatedOnce`.

`PipelineRun_proofs` proves `TypeCorrect`, `NothingIsMissed` (`WaitsForAll`) and
`TraceIsTrue` (`TraceTellsTheOutcome`), for graphs of any size. `Bookkeeping` says
that pending, dead and run nodes do not overlap; `Deliveries` that every live wire
of a node that ran has delivered, and that a fan-in port expects all its wires until
every node they come from has run or died; `Recorded` ties the rows to the walk.
`OrderDecidesNothing` (`SameOutcome`) says that whatever order the set of ready nodes
is iterated in, the nodes that ran are those of the reference definition (`Runnable`,
the least set that has every node it feeds), and that a run stalls only for a node that
gets some of what it requires and never all (`HalfFed`). `Reached` keeps the walk
within the reference; `Waiting` says why a loop that changed nothing has nothing left
to do. A walk that ends has then run a set that is closed, so all of `Runnable`.

### Chat turns

`ChatTurn_proofs` states every safety property of the model. It proves `TypeCorrect`,
`ReplacedOnly` (the action property `PruneIsReplaced`), `ImagesOfMessages`
(`ImagesAreStored`), `QuestionIsAsked` (`AsksTheQuestion`) and `TranscriptsAreWhole`
(`TranscriptIsWhole`), for any number of turns, sessions, calls and iterations.

The proofs do not go through all actions of a turn each time.
`StepIsTurnStep` shows that each of them is a `TurnStep`: it keeps what other turns
remember and the locks they hold, and either leaves all transcripts alone (the turn
ends, leaves its session to be closed, edits or goes on) or adds one row to one of them and takes out what the turn
had pruned. `AddedRows` says where each row of the new transcript comes from.
Everything else argues from these.

`TInv` is the invariant the rest is proved with. A turn that prunes holds the row of
its session, and what it has pruned is a stretch of the transcript (`Spans`); every
row in a transcript was written by a place of its turn that is behind it
(`Written`), so a row that is added is new and no row stands twice (`NoRepeats`). Then:

- `ReplacedOnly` follows directly: rows only leave with the turn's next row.
- `ImagesOfMessages`: the images an edit deletes are those of messages in its stretch,
  and these stay in the stretch until it commits, or the turn is in `undone`, which
  the property excuses for the whole session.
- `QuestionIsAsked` needs `Apart` (turns active in one session have met), `Headed` (a
  transcript begins with a question, and the part an edit keeps ends in one) and
  `Aimed`: what a turn alone in its session is to answer stays in the transcript it
  sees, and is in the history it has read unless the transcript is longer than the limit.
- `TranscriptsAreWhole` needs `AtItsTools`: a turn among its tools that met nobody finds
  its calls, and the results it has, at the very end of its transcript. Hence the next
  result lands where a provider expects it. An edit cuts right behind a question, never between
  calls and their results; what was written after an uncommitted edit is of
  turns that met it (`Later`). A branch may cut there, which is why the property, and
  `AllWhole` with it, excuses what is at the cut of a transcript it descends from.

### Only model-checked

Liveness: `EverySettles`, `RequestsEnd`, `CallsEnd` (of both models), `LookupsEnd`,
`MarkersResolve`, `CatchesUp`, `RunsEnd`, `TurnsEnd` and `RunEnds`. Temporal proofs
under fairness, and `ENABLED`, are out of the prover's reach. Every invariant and
every action property a run checks is stated by a theorem.

## 6. What is left out

- `DocumentIngestion`: two handlers that create the document of one file at once
  (guard `Creating`; the code would end up with two documents); a rescue that
  fails itself; a request that arrives while the process stops; the inline
  execution of `enqueue` on a queue that was not started; collections and folders
  (a folder is deleted as its files).
- `ValueCache`: `fresh_seconds = None`, warnings.
- `ConnectionThrottle`: changes of `rpm`, windows of single request kinds, the
  minimum sleep of 0.05 s.
- `InsightRefresh`: how drift and the vector space are chosen (left open, so a
  rebuild may always happen), the feature switch, rows no space can place.
- `EvalRun`: datasets (download, generation, upload), what metrics compute,
  comparisons, which only read.
- `ChatTurn`: the flush of a session's tool collections, reasoning, usage and
  telemetry, the text of an edit, images tools find (they are not stored), and
  questions without an image. `Edit` deletes image files in the step that has the
  session's row; the code deletes them before it waits for that row
  (`persistence.py:322`, `:348`), so they are gone a little earlier.
- `PipelineRun`: payloads, the embedding guard on fan-out, the resolution of
  expressions before a run, the transaction the rows live in (the ingestion's is
  in `DocumentIngestion`); parallel edges that are equal in every respect are one
  wire; of node bodies, that a transform may degrade and any may fail; exceptions of
  the trace recorder or of propagation themselves, after which the run is marked
  failed and the node's row stays as it was; checks of
  facets, modalities, models and variables.
- Components marked `not_modelled` in `PROJECT.json`, each with its reason: most
  are data transformations, wire formats or single-row services, in which no order
  of events can go wrong. They are the larger part of the source tree, so the
  lines this project maps are a small share of it.

## 7. Plan

Done: ingestion with its refinement, both caches, the throttle, the insight
refresh, evaluation runs, chat turns, the pipeline executor, and proofs of all
their safety properties. What would come next:

1. The premises of `ClaimIsExclusive` and `FollowsTheLifecycle` narrowed to the
   statuses a request has read, so that the theorem says which requests need care.
2. `IndexDdl`: the advisory lock around index creation, composed with two workers.
3. The LLM node engine's two retry loops inside the throttle's own.
4. Pure operators against reference definitions: rank fusion, chunk windows, name
   deduplication, the retry delay.
