---------------------------- MODULE ValueCache ----------------------------
(***************************************************************************)
(* `ValueCache` (app/cache/values.py): a bounded stale-while-revalidate    *)
(* cache shared by request threads.  A value stands for the version of the *)
(* source it was loaded from.  Everything a thread does under the cache's  *)
(* lock is one step; loaders run outside it.                               *)
(***************************************************************************)
EXTENDS Integers, FiniteSets

CONSTANTS
    Keys, Callers,
    Entries,         \* identities of `_Entry` objects
    Fresh,           \* fresh_seconds
    MaxStale,        \* max_stale_seconds
    RetryAfter,      \* failure_retry_seconds
    MaxEntries,      \* max_entries
    RefreshWorkers,  \* refresh_workers
    MaxTime,         \* bound: the clock
    MaxVersion,      \* bound: changes of a source
    MaxCalls,        \* bound: calls of `get`
    MayFail          \* whether loaders raise

ASSUME PolicyAssumption ==
    /\ Fresh \in Nat /\ MaxStale \in Nat /\ RetryAfter \in Nat
    /\ MaxEntries \in Nat \ {0} /\ RefreshWorkers \in Nat \ {0}
ASSUME BoundAssumption == MaxTime \in Nat /\ MaxVersion \in Nat /\ MaxCalls \in Nat
ASSUME FailAssumption == MayFail \in BOOLEAN

Missing == -1
NoEntry == "none"
ASSUME NoEntryAssumption == NoEntry \notin Entries

VARIABLES
    now,      \* the clock
    source,   \* version of the data behind each key
    floor,    \* its version when the key was last invalidated
    slot,     \* the cache: key to entry
    order,    \* of its keys: which was used less recently than which
    entry,    \* the entries' fields
    call,     \* where each caller is
    result,   \* what its last call returned, and the floor when it was made
    task,     \* the background refresh of each entry
    closer,   \* whether a thread is inside `close`
    closing,  \* entries whose refreshes it waits for
    calls

cacheVars == <<slot, order, entry>>
closeVars == <<closer, closing>>
vars == <<now, source, floor, slot, order, entry, call, result, task, closer,
          closing, calls>>

Empty    == [value |-> Missing, loadedAt |-> 0, refreshing |-> FALSE, retryAt |-> 0]
AtRest   == [at |-> "idle", key |-> NoEntry, entry |-> NoEntry, force |-> FALSE,
             floor |-> 0, read |-> Missing]
NoTask   == [at |-> "none", key |-> NoEntry, read |-> Missing]
NoResult == [value |-> Missing, floor |-> 0]

Init ==
    /\ now = 0
    /\ source = [k \in Keys |-> 0]
    /\ floor = [k \in Keys |-> 0]
    /\ slot = [k \in Keys |-> NoEntry]
    /\ order = {}
    /\ entry = [e \in Entries |-> Empty]
    /\ call = [c \in Callers |-> AtRest]
    /\ result = [c \in Callers |-> NoResult]
    /\ task = [e \in Entries |-> NoTask]
    /\ closer = FALSE
    /\ closing = {}
    /\ calls = 0

Cached == {k \in Keys : slot[k] # NoEntry}

\* `move_to_end`, and the order without the keys that are gone.
MovedToEnd(k) == {p \in order : k \notin {p[1], p[2]}} \union ((Cached \ {k}) \X {k})
Among(older, gone) == {p \in older : p[1] \notin gone /\ p[2] \notin gone}

\* `_evict_completed`: the first entry without a load in flight goes.  The
\* cache is never more than one over its capacity, so the loop runs once.
Victim(keys, older, busy) ==
    {k \in keys \ busy : /\ Cardinality(keys) > MaxEntries
                         /\ \A j \in keys \ busy : <<j, k>> \notin older}

Busy == {k \in Keys : slot[k] # NoEntry /\ entry[slot[k]].refreshing}

Live(e) ==
    \/ \E k \in Keys : slot[k] = e
    \/ \E c \in Callers : call[c].entry = e
    \/ task[e].at # "none"

Spare == {e \in Entries : ~Live(e)}
EntryOf(k) == IF slot[k] = NoEntry THEN CHOOSE e \in Spare : TRUE ELSE slot[k]

\* `_entry_for`: the key's entry becomes the most recent, or a new one is
\* inserted and one entry may be evicted, the new one included.
Touch(k) ==
    LET gone == IF slot[k] = NoEntry
                THEN Victim(Cached \union {k}, MovedToEnd(k), Busy) ELSE {} IN
    /\ order' = Among(MovedToEnd(k), gone)
    /\ slot' = [j \in Keys |-> IF j \in gone THEN NoEntry
                               ELSE IF j = k THEN EntryOf(k) ELSE slot[j]]

\* The fields an entry starts with when it is created here.
Before(k, e) == IF slot[k] = NoEntry THEN Empty ELSE entry[e]

Age(fields) == IF now > fields.loadedAt THEN now - fields.loadedAt ELSE 0
IsFresh(age) == age <= Fresh
IsServable(age) == age <= Fresh + MaxStale

Serve(c, fields, since) ==
    /\ call' = [call EXCEPT ![c] = AtRest]
    /\ result' = [result EXCEPT ![c] = [value |-> fields.value, floor |-> since]]

-----------------------------------------------------------------------------
(* `get`: what one caller does in its first hold of the lock.              *)

\* A load is in flight: its last value is served, or the caller waits.
JoinFlight(c, k, e, force) ==
    /\ Before(k, e).refreshing
    /\ IF Before(k, e).value # Missing /\ ~force
       THEN Serve(c, Before(k, e), floor[k])
       ELSE /\ call' = [call EXCEPT ![c] = [AtRest EXCEPT !.at = "waiting", !.key = k,
                            !.entry = e, !.force = force, !.floor = floor[k]]]
            /\ UNCHANGED result
    /\ UNCHANGED <<entry, task>>

\* The decision once no load is in flight.
Decide(c, k, e, force, since, fields) ==
    LET age == Age(fields) IN
    \/ /\ fields.value # Missing /\ ~force /\ IsFresh(age)
       /\ Serve(c, fields, since)
       /\ entry' = [entry EXCEPT ![e] = fields]
       /\ UNCHANGED task
    \/ /\ fields.value # Missing /\ ~force /\ ~IsFresh(age) /\ IsServable(age)
       /\ Serve(c, fields, since)
       /\ IF now >= fields.retryAt
          THEN /\ entry' = [entry EXCEPT ![e] = [fields EXCEPT !.refreshing = TRUE]]
               /\ task' = [task EXCEPT ![e] = [NoTask EXCEPT !.at = "queued", !.key = k]]
          ELSE entry' = [entry EXCEPT ![e] = fields] /\ UNCHANGED task
    \/ /\ fields.value = Missing \/ force \/ ~IsServable(age)
       /\ entry' = [entry EXCEPT ![e] = [fields EXCEPT !.refreshing = TRUE]]
       /\ call' = [call EXCEPT ![c] = [AtRest EXCEPT !.at = "loading", !.key = k,
                       !.entry = e, !.force = force, !.floor = since]]
       /\ UNCHANGED <<result, task>>

Get(c, k, force) ==
    LET e == EntryOf(k) IN
    /\ call[c].at = "idle" /\ calls < MaxCalls
    /\ slot[k] # NoEntry \/ Spare # {}
    /\ calls' = calls + 1
    /\ Touch(k)
    /\ \/ JoinFlight(c, k, e, force)
       \/ ~Before(k, e).refreshing /\ Decide(c, k, e, force, floor[k], Before(k, e))
    /\ UNCHANGED <<now, source, floor, closeVars>>

\* A waiter reacquires the lock when no load is in flight: a value ends its
\* call, a failed cold load makes it load itself.
Wake(c) ==
    LET e == call[c].entry IN
    /\ call[c].at = "waiting" /\ ~entry[e].refreshing
    /\ \/ /\ entry[e].value # Missing
          /\ Serve(c, entry[e], call[c].floor)
          /\ UNCHANGED entry
       \/ /\ entry[e].value = Missing
          /\ entry' = [entry EXCEPT ![e].refreshing = TRUE]
          /\ call' = [call EXCEPT ![c].at = "loading"]
          /\ UNCHANGED result
    /\ UNCHANGED <<now, source, floor, slot, order, task, closeVars, calls>>

-----------------------------------------------------------------------------
(* Loads, by a blocked caller or by a refresh thread.                      *)

\* `_record_success` and `_record_failure`, from inside the lock.
Succeeded(e, value) ==
    [entry EXCEPT ![e] = [value |-> value, loadedAt |-> now, refreshing |-> FALSE, retryAt |-> 0]]
\* Mutants: a failure leaves the entry marked as refreshing, or it forgets the
\* last good value.
FailedInFlight(e) == [entry EXCEPT ![e].retryAt = now + RetryAfter]
FailedForgets(e) == [entry EXCEPT ![e] = [Empty EXCEPT !.retryAt = now + RetryAfter]]

Failed(e) ==
    [entry EXCEPT ![e] = [@ EXCEPT !.refreshing = FALSE, !.retryAt = now + RetryAfter]]

\* A success makes the key most recent if the entry is still the key's, and
\* evicts what had to stay while everything was in flight.
Settle(k, e) ==
    LET older == IF slot[k] = e THEN MovedToEnd(k) ELSE order
        gone == Victim(Cached, older, Busy \ {j \in Keys : slot[j] = e}) IN
    /\ order' = Among(older, gone)
    /\ slot' = [j \in Keys |-> IF j \in gone THEN NoEntry ELSE slot[j]]

LoadReads(c) ==
    /\ call[c].at = "loading"
    /\ call' = [call EXCEPT ![c] = [@ EXCEPT !.at = "loaded", !.read = source[call[c].key]]]
    /\ UNCHANGED <<now, source, floor, cacheVars, result, task, closeVars, calls>>

LoadReturns(c) ==
    LET e == call[c].entry IN
    /\ call[c].at = "loaded"
    /\ entry' = Succeeded(e, call[c].read)
    /\ Settle(call[c].key, e)
    /\ Serve(c, entry'[e], call[c].floor)
    /\ UNCHANGED <<now, source, floor, task, closeVars, calls>>

LoadRaises(c) ==
    /\ call[c].at \in {"loading", "loaded"} /\ MayFail
    /\ entry' = Failed(call[c].entry)
    /\ call' = [call EXCEPT ![c] = AtRest]
    /\ UNCHANGED <<now, source, floor, slot, order, result, task, closeVars, calls>>

Refreshing == {e \in Entries : task[e].at \in {"running", "read"}}

\* An executor that is shutting down has workers of its own.
RefreshStarts(e) ==
    /\ task[e].at = "queued"
    /\ Cardinality({f \in Refreshing : f \in closing <=> e \in closing}) < RefreshWorkers
    /\ task' = [task EXCEPT ![e].at = "running"]
    /\ UNCHANGED <<now, source, floor, cacheVars, call, result, closeVars, calls>>

RefreshReads(e) ==
    /\ task[e].at = "running"
    /\ task' = [task EXCEPT ![e] = [@ EXCEPT !.at = "read", !.read = source[task[e].key]]]
    /\ UNCHANGED <<now, source, floor, cacheVars, call, result, closeVars, calls>>

RefreshReturns(e) ==
    /\ task[e].at = "read"
    /\ entry' = Succeeded(e, task[e].read)
    /\ Settle(task[e].key, e)
    /\ task' = [task EXCEPT ![e] = NoTask]
    /\ closing' = closing \ {e}
    /\ UNCHANGED <<now, source, floor, call, result, closer, calls>>

RefreshRaises(e) ==
    /\ task[e].at \in {"running", "read"} /\ MayFail
    /\ entry' = Failed(e)
    /\ task' = [task EXCEPT ![e] = NoTask]
    /\ closing' = closing \ {e}
    /\ UNCHANGED <<now, source, floor, slot, order, call, result, closer, calls>>

-----------------------------------------------------------------------------
(* Maintenance, and the world outside.                                     *)

Drop(gone) ==
    /\ slot' = [k \in Keys |-> IF k \in gone THEN NoEntry ELSE slot[k]]
    /\ order' = Among(order, gone)

\* Mutant: an entry whose load is in flight is skipped rather than detached.
InvalidateIdle(matching) ==
    /\ matching # {} /\ \A k \in matching : floor[k] < source[k]
    /\ floor' = [k \in Keys |-> IF k \in matching THEN source[k] ELSE floor[k]]
    /\ Drop(matching \ Busy)
    /\ UNCHANGED <<now, source, entry, call, result, task, closeVars, calls>>

\* `invalidate` and `invalidate_matching`, after the data changed.
Invalidate(matching) ==
    /\ matching # {} /\ \A k \in matching : floor[k] < source[k]
    /\ floor' = [k \in Keys |-> IF k \in matching THEN source[k] ELSE floor[k]]
    /\ Drop(matching)
    /\ UNCHANGED <<now, source, entry, call, result, task, closeVars, calls>>

\* Mutant: clearing drops the active flights too.
ClearAll ==
    /\ Cached # {}
    /\ Drop(Keys)
    /\ UNCHANGED <<now, source, floor, entry, call, result, task, closeVars, calls>>

\* `clear` keeps the entries whose load is in flight.
Clear ==
    /\ Cached # {}
    /\ Drop(Keys \ Busy)
    /\ UNCHANGED <<now, source, floor, entry, call, result, task, closeVars, calls>>

\* `close` takes the executor, waits for its refreshes, then clears.
Close ==
    /\ ~closer /\ closer' = TRUE
    /\ closing' = {e \in Entries : task[e].at # "none"}
    /\ closing' # {}
    /\ UNCHANGED <<now, source, floor, cacheVars, call, result, task, calls>>

Closed ==
    /\ closer /\ closing = {}
    /\ closer' = FALSE
    /\ Drop(Keys \ Busy)
    /\ UNCHANGED <<now, source, floor, entry, call, result, task, closing, calls>>

Change(k) ==
    /\ source[k] < MaxVersion
    /\ source' = [source EXCEPT ![k] = @ + 1]
    /\ UNCHANGED <<now, floor, cacheVars, call, result, task, closeVars, calls>>

Tick ==
    /\ now < MaxTime
    /\ now' = now + 1
    /\ UNCHANGED <<source, floor, cacheVars, call, result, task, closeVars, calls>>

CallerStep(c) == Wake(c) \/ LoadReads(c) \/ LoadReturns(c) \/ LoadRaises(c)
TaskStep(e) == RefreshStarts(e) \/ RefreshReads(e) \/ RefreshReturns(e) \/ RefreshRaises(e)

Next ==
    \/ \E c \in Callers : CallerStep(c) \/ \E k \in Keys, force \in BOOLEAN : Get(c, k, force)
    \/ \E e \in Entries : TaskStep(e)
    \/ \E matching \in SUBSET Keys : Invalidate(matching)
    \/ Clear \/ Close \/ Closed \/ Tick
    \/ \E k \in Keys : Change(k)

Spec == Init /\ [][Next]_vars

\* Threads run, and a loader returns or raises.
FairSpec ==
    /\ Spec
    /\ \A c \in Callers : WF_vars(CallerStep(c))
    /\ \A e \in Entries : WF_vars(TaskStep(e))
-----------------------------------------------------------------------------
Times == Nat
Versions == Nat
Loads == {"loading", "loaded"}

Value == Versions \union {Missing}
EntryType == [value : Value, loadedAt : Times, refreshing : BOOLEAN, retryAt : Times]
CallType == [at : {"idle", "waiting"} \union Loads, key : Keys \union {NoEntry},
             entry : Entries \union {NoEntry}, force : BOOLEAN, floor : Versions, read : Value]
ResultType == [value : Value, floor : Versions]
TaskType == [at : {"none", "queued", "running", "read"}, key : Keys \union {NoEntry}, read : Value]

TypeOK ==
    /\ now \in Times /\ calls \in Nat
    /\ source \in [Keys -> Versions] /\ floor \in [Keys -> Versions]
    /\ slot \in [Keys -> Entries \union {NoEntry}]
    /\ order \subseteq Keys \X Keys
    /\ entry \in [Entries -> EntryType]
    /\ call \in [Callers -> CallType]
    /\ result \in [Callers -> ResultType]
    /\ task \in [Entries -> TaskType]
    /\ closer \in BOOLEAN /\ closing \in SUBSET Entries

LoadersOf(e) == {c \in Callers : call[c].entry = e /\ call[c].at \in Loads}

\* An entry marked as refreshing has exactly one load behind it, blocking or
\* in the background, and any other entry none: nobody waits for a load that
\* ended, and no two loads race to fill one entry.
OneLoadPerEntry ==
    \A e \in Entries :
        Cardinality(LoadersOf(e)) + (IF task[e].at = "none" THEN 0 ELSE 1)
            = (IF entry[e].refreshing THEN 1 ELSE 0)

\* A call made after `invalidate` returns never gets data loaded before it,
\* "otherwise a refresh started before the invalidation would repopulate the
\* entry with data loaded from the pre-invalidation state" (values.py).
InvalidationHolds ==
    \A c \in Callers : result[c].value # Missing => result[c].value >= result[c].floor

\* Nothing but an invalidation takes an entry out of the cache while its load
\* is in flight.
InFlightIsKept ==
    [][\A k \in Keys : (k \in Busy /\ slot'[k] # slot[k]) => floor'[k] # floor[k]]_vars

\* What is cached for a key is only ever replaced by something newer.
NeverOlder ==
    [][\A k \in Keys : (slot[k] # NoEntry /\ slot'[k] = slot[k])
          => entry'[slot[k]].value >= entry[slot[k]].value]_vars

\* Every call of `get` returns or raises.
CallsEnd == \A c \in Callers : []<>(call[c].at = "idle")
=============================================================================
