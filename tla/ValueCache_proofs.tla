-------------------------- MODULE ValueCache_proofs --------------------------
(* Theorems about ValueCache, for any keys, callers, policy and capacity.     *)
EXTENDS ValueCache, FiniteSetTheorems, WellFoundedInduction, TLAPS

USE PolicyAssumption, BoundAssumption, FailAssumption, NoEntryAssumption

(***************************************************************************)
(* The inductive invariant of entries and loads.  It does not mention the  *)
(* recency order: which finished entries are evicted makes no difference   *)
(* to it.  The order has an invariant of its own, under Eviction below.    *)
(***************************************************************************)

Typed ==
    /\ now \in Nat
    /\ source \in [Keys -> Nat] /\ floor \in [Keys -> Nat]
    /\ slot \in [Keys -> Entries \union {NoEntry}]
    /\ entry \in [Entries -> EntryType]
    /\ call \in [Callers -> CallType]
    /\ result \in [Callers -> ResultType]
    /\ task \in [Entries -> TaskType]

\* A thread inside `get` has an entry of some key, a refresh a key.
Threads ==
    /\ \A c \in Callers : IF call[c].at = "idle" THEN call[c] = AtRest /\ call[c].entry = NoEntry
                          ELSE call[c].entry \in Entries /\ call[c].key \in Keys
    /\ \A e \in Entries : task[e].at # "none" => task[e].key \in Keys

\* Whatever refers to an entry refers to it for one and the same key.
Uses(e, k) ==
    \/ slot[k] = e
    \/ \E c \in Callers : call[c].entry = e /\ call[c].key = k
    \/ task[e].at # "none" /\ task[e].key = k
OneKey == \A e \in Entries, j, k \in Keys : Uses(e, j) /\ Uses(e, k) => j = k

\* The one load behind an entry that is refreshing.
Loader(c, e) == call[c].entry = e /\ call[c].at \in Loads
OneLoad ==
    \A e \in Entries :
        /\ entry[e].refreshing <=> (task[e].at # "none" \/ \E c \in Callers : Loader(c, e))
        /\ \A c, d \in Callers : Loader(c, e) /\ Loader(d, e) => c = d
        /\ \A c \in Callers : Loader(c, e) => task[e].at = "none"

\* The versions an entry has or is about to get from a load that has read.
Has(e, v) ==
    \/ v # Missing /\ entry[e].value = v
    \/ \E c \in Callers : call[c].entry = e /\ call[c].at = "loaded" /\ call[c].read = v
    \/ task[e].at = "read" /\ task[e].read = v

\* They are as new as the last invalidation of the key the entry is cached
\* for, and as the one each caller that uses the entry came after.
Recent(e, v) ==
    /\ \A k \in Keys : slot[k] = e => v >= floor[k]
    /\ \A c \in Callers : call[c].entry = e => v >= call[c].floor
Floors ==
    /\ \A k \in Keys : floor[k] <= source[k]
    /\ \A c \in Callers : call[c].at # "idle" => call[c].floor <= floor[call[c].key]
Stocked == \A e \in Entries, v \in Int : Has(e, v) => Recent(e, v)

IInv == Typed /\ Threads /\ OneKey /\ OneLoad /\ Floors /\ Stocked /\ InvalidationHolds

\* The fields of the records, from their types.
LEMMA Fields ==
    ASSUME Typed
    PROVE  /\ \A e \in Entries : /\ entry[e] \in EntryType /\ entry[e].value \in Value
                                 /\ entry[e].refreshing \in BOOLEAN
           /\ \A c \in Callers : /\ call[c] \in CallType
                                 /\ call[c].entry \in Entries \union {NoEntry}
                                 /\ call[c].key \in Keys \union {NoEntry}
                                 /\ call[c].floor \in Nat /\ call[c].read \in Value
           /\ \A e \in Entries : /\ task[e] \in TaskType /\ task[e].read \in Value
                                 /\ task[e].key \in Keys \union {NoEntry}
           /\ \A k \in Keys : /\ slot[k] \in Entries \union {NoEntry}
                              /\ source[k] \in Nat /\ floor[k] \in Nat
BY DEF Typed, EntryType, CallType, TaskType, Versions

(***************************************************************************)
(* Steps that take nothing but entries out of the cache.                   *)
(***************************************************************************)

Shrinks ==
    /\ slot' \in [Keys -> Entries \union {NoEntry}]
    /\ \A k \in Keys : slot'[k] \in {slot[k], NoEntry}

LEMMA DropShrinks ==
    ASSUME Typed, NEW gone, Drop(gone)
    PROVE  Shrinks
BY DEF Typed, Drop, Shrinks

LEMMA SettleShrinks ==
    ASSUME Typed, NEW k, NEW e, Settle(k, e)
    PROVE  Shrinks
<1> DEFINE gone == Victim(Cached, IF slot[k] = e THEN MovedToEnd(k) ELSE order,
                          Busy \ {j \in Keys : slot[j] = e})
<1>1. slot' = [j \in Keys |-> IF j \in gone THEN NoEntry ELSE slot[j]]
    BY DEF Settle
<1> HIDE DEF gone
<1> QED
    BY <1>1 DEF Typed, Shrinks

LEMMA KeysKept ==
    ASSUME OneKey, \A e \in Entries, k \in Keys : Uses(e, k)' => Uses(e, k)
    PROVE  OneKey'
BY DEF OneKey

\* Nobody has joined an entry, and no entry has a version it had not before.
LEMMA StockKept ==
    ASSUME Typed, Stocked, Shrinks, floor' = floor,
           \A e \in Entries, v \in Int : Has(e, v)' => Has(e, v),
           \A c \in Callers : \/ call'[c].entry = NoEntry
                              \/ call'[c].entry = call[c].entry /\ call'[c].floor = call[c].floor
    PROVE  Stocked'
<1> SUFFICES ASSUME NEW e \in Entries, NEW v \in Int, Has(e, v)'
             PROVE  Recent(e, v)'
    BY DEF Stocked
<1>1. Recent(e, v)
    BY DEF Stocked
<1> QED
    BY <1>1 DEF Recent, Shrinks

(***************************************************************************)
(* Loads and refreshes.                                                    *)
(***************************************************************************)

LEMMA InitCorrect == Init => IInv
<1> SUFFICES ASSUME Init PROVE IInv
    OBVIOUS
<1>1. Typed /\ Threads /\ Floors /\ InvalidationHolds
    BY DEF Init, Typed, Threads, Floors, InvalidationHolds, EntryType, CallType, ResultType, TaskType, Value, Versions, Times, Loads,
           Missing, Empty, AtRest, NoTask, NoResult
<1>2. \A e \in Entries, k \in Keys : ~Uses(e, k)
    BY DEF Init, Uses, AtRest, NoTask
<1>3. \A e \in Entries : /\ ~entry[e].refreshing /\ task[e].at = "none"
                         /\ \A c \in Callers : ~Loader(c, e)
    BY DEF Init, Loader, Loads, AtRest, NoTask, Empty
<1>4. \A e \in Entries, v \in Int : ~Has(e, v)
    BY DEF Init, Has, AtRest, NoTask, Empty, Missing
<1> QED
    BY <1>1, <1>2, <1>3, <1>4 DEF IInv, OneKey, OneLoad, Stocked

\* A load, by a caller or in the background, reads the source of its key: no
\* version anybody may ask for is newer.
LEMMA ReadIsRecent ==
    ASSUME IInv, NEW e \in Entries, NEW k \in Keys, Uses(e, k)
    PROVE  Recent(e, source[k])
<1> USE DEF IInv
<1>1. \A j \in Keys : slot[j] = e => j = k
    BY DEF OneKey, Uses
<1>2. \A d \in Callers : call[d].entry = e => call[d].key = k /\ call[d].at # "idle"
    BY DEF OneKey, Uses, Threads
<1>3. floor[k] <= source[k] /\ \A d \in Callers : call[d].entry = e => call[d].floor <= floor[k]
    BY <1>2 DEF Floors
<1>4. source[k] \in Nat /\ floor[k] \in Nat /\ \A d \in Callers : call[d].floor \in Nat
    BY Fields
<1> QED
    BY <1>1, <1>3, <1>4 DEF Recent

LEMMA LoadReadsCorrect ==
    ASSUME IInv, NEW c \in Callers, LoadReads(c)
    PROVE  IInv'
<1> USE DEF IInv
<1> DEFINE new == [call[c] EXCEPT !.at = "loaded", !.read = source[call[c].key]]
<1>1. /\ call' = [call EXCEPT ![c] = new]
      /\ call[c].at = "loading"
      /\ UNCHANGED <<now, source, floor, slot, entry, result, task>>
    BY DEF LoadReads, cacheVars
<1>2. call[c].key \in Keys /\ call[c].entry \in Entries /\ source[call[c].key] \in Nat
    BY <1>1, Fields DEF Threads
<1>3. /\ new \in CallType /\ new.at = "loaded" /\ new.read = source[call[c].key]
      /\ new.entry = call[c].entry /\ new.key = call[c].key /\ new.floor = call[c].floor
    <2>1. call[c] \in CallType
        BY Fields
    <2> QED
        BY <2>1, <1>2 DEF CallType, Value, Versions, Loads
<1> HIDE DEF new
<1>4. call'[c] = new /\ (\A d \in Callers : d # c => call'[d] = call[d]) /\ call' \in [Callers -> CallType]
    BY <1>1, <1>3 DEF Typed
<1>5. \A d \in Callers :
          /\ call'[d].entry = call[d].entry /\ call'[d].key = call[d].key
          /\ call'[d].floor = call[d].floor
          /\ call'[d].at \in Loads <=> call[d].at \in Loads
          /\ call'[d].at = "idle" <=> call[d].at = "idle"
    BY <1>1, <1>3, <1>4 DEF Loads
<1>6. UNCHANGED <<now, source, floor, slot, entry, result, task>>
    BY <1>1
<1>7. Typed'
    BY <1>4, <1>6 DEF Typed
<1>8. Threads'
    BY <1>2, <1>3, <1>4, <1>5, <1>6 DEF Threads
<1>9. Floors' /\ InvalidationHolds'
    BY <1>5, <1>6 DEF Floors, InvalidationHolds
<1>10. OneKey'
    BY <1>5, <1>6, KeysKept DEF Uses
<1>11. OneLoad'
    BY <1>5, <1>6 DEF OneLoad, Loader
<1>12. Stocked'
    <2> SUFFICES ASSUME NEW e \in Entries, NEW v \in Int, Has(e, v)'
                 PROVE  Recent(e, v)'
        BY DEF Stocked
    <2>1. Has(e, v) \/ (e = call[c].entry /\ v = source[call[c].key])
        BY <1>3, <1>4, <1>6 DEF Has
    <2>2. Recent(e, v)
        <3>1. CASE Has(e, v)
            BY <3>1 DEF Stocked
        <3>2. CASE e = call[c].entry /\ v = source[call[c].key]
            BY <3>2, <1>2, ReadIsRecent DEF Uses
        <3> QED
            BY <2>1, <3>1, <3>2
    <2> QED
        BY <2>2, <1>5, <1>6 DEF Recent
<1> QED
    BY <1>7, <1>8, <1>9, <1>10, <1>11, <1>12

LEMMA RefreshReadsCorrect ==
    ASSUME IInv, NEW e0 \in Entries, RefreshReads(e0)
    PROVE  IInv'
<1> USE DEF IInv
<1> DEFINE new == [task[e0] EXCEPT !.at = "read", !.read = source[task[e0].key]]
<1>1. /\ task' = [task EXCEPT ![e0] = new]
      /\ task[e0].at = "running"
      /\ UNCHANGED <<now, source, floor, slot, entry, call, result>>
    BY DEF RefreshReads, cacheVars
<1>2. task[e0].key \in Keys /\ source[task[e0].key] \in Nat
    BY <1>1, Fields DEF Threads
<1>3. /\ new \in TaskType /\ new.at = "read" /\ new.read = source[task[e0].key]
      /\ new.key = task[e0].key
    <2>1. task[e0] \in TaskType
        BY Fields
    <2> QED
        BY <2>1, <1>2 DEF TaskType, Value, Versions
<1> HIDE DEF new
<1>4. task'[e0] = new /\ (\A e \in Entries : e # e0 => task'[e] = task[e]) /\ task' \in [Entries -> TaskType]
    BY <1>1, <1>3 DEF Typed
<1>5. \A e \in Entries : task'[e].key = task[e].key /\ (task'[e].at = "none" <=> task[e].at = "none")
    BY <1>1, <1>3, <1>4
<1>6. UNCHANGED <<now, source, floor, slot, entry, call, result>>
    BY <1>1
<1>7. Typed'
    BY <1>4, <1>6 DEF Typed
<1>8. Threads' /\ Floors' /\ InvalidationHolds'
    BY <1>5, <1>6 DEF Threads, Floors, InvalidationHolds
<1>9. OneKey'
    BY <1>5, <1>6, KeysKept DEF Uses
<1>10. OneLoad'
    BY <1>5, <1>6 DEF OneLoad, Loader
<1>11. Stocked'
    <2> SUFFICES ASSUME NEW e \in Entries, NEW v \in Int, Has(e, v)'
                 PROVE  Recent(e, v)'
        BY DEF Stocked
    <2>1. Has(e, v) \/ (e = e0 /\ v = source[task[e0].key])
        BY <1>3, <1>4, <1>6 DEF Has
    <2>2. Recent(e, v)
        <3>1. CASE Has(e, v)
            BY <3>1 DEF Stocked
        <3>2. CASE e = e0 /\ v = source[task[e0].key]
            BY <3>2, <1>1, <1>2, ReadIsRecent DEF Uses
        <3> QED
            BY <2>1, <3>1, <3>2
    <2> QED
        BY <2>2, <1>6 DEF Recent
<1> QED
    BY <1>7, <1>8, <1>9, <1>10, <1>11

\* What ends a blocking load leaves its entry without one.
LEMMA CallerLoadOver ==
    ASSUME OneLoad, NEW c \in Callers, NEW e0 \in Entries, Loader(c, e0),
           task' = task, ~entry'[e0].refreshing,
           \A e \in Entries : e # e0 => entry'[e].refreshing = entry[e].refreshing,
           call'[c].entry = NoEntry, \A d \in Callers : d # c => call'[d] = call[d]
    PROVE  OneLoad'
<1>1. \A d \in Callers : ~Loader(d, e0)'
    BY DEF OneLoad, Loader
<1>2. task'[e0].at = "none"
    BY DEF OneLoad
<1>3. \A e \in Entries : e # e0 => \A d \in Callers : Loader(d, e)' <=> Loader(d, e)
    BY DEF Loader
<1>4. ASSUME NEW e \in Entries
      PROVE  /\ entry'[e].refreshing <=> (task'[e].at # "none" \/ \E d \in Callers : Loader(d, e)')
             /\ \A a, b \in Callers : Loader(a, e)' /\ Loader(b, e)' => a = b
             /\ \A a \in Callers : Loader(a, e)' => task'[e].at = "none"
    <2>1. CASE e = e0
        BY <2>1, <1>1, <1>2
    <2>2. CASE e # e0
        BY <2>2, <1>3 DEF OneLoad
    <2> QED
        BY <2>1, <2>2
<1> QED
    BY <1>4 DEF OneLoad

\* What ends a background load does the same.
LEMMA TaskLoadOver ==
    ASSUME OneLoad, NEW e0 \in Entries, task[e0].at # "none",
           call' = call, ~entry'[e0].refreshing, task'[e0].at = "none",
           \A e \in Entries : e # e0 => task'[e] = task[e] /\ entry'[e].refreshing = entry[e].refreshing
    PROVE  OneLoad'
<1>1. \A d \in Callers : ~Loader(d, e0)
    BY DEF OneLoad
<1>2. ASSUME NEW e \in Entries
      PROVE  /\ entry'[e].refreshing <=> (task'[e].at # "none" \/ \E d \in Callers : Loader(d, e)')
             /\ \A a, b \in Callers : Loader(a, e)' /\ Loader(b, e)' => a = b
             /\ \A a \in Callers : Loader(a, e)' => task'[e].at = "none"
    <2>1. CASE e = e0
        BY <2>1, <1>1 DEF Loader
    <2>2. CASE e # e0
        BY <2>2 DEF OneLoad, Loader
    <2> QED
        BY <2>1, <2>2
<1> QED
    BY <1>2 DEF OneLoad

\* A blocking load ends with its value: the caller is served what it read.
LEMMA LoadReturnsCorrect ==
    ASSUME IInv, NEW c \in Callers, LoadReturns(c)
    PROVE  IInv'
<1> USE DEF IInv
<1> DEFINE e0 == call[c].entry
           v0 == call[c].read
           new == [value |-> v0, loadedAt |-> now, refreshing |-> FALSE, retryAt |-> 0]
           got == [value |-> v0, floor |-> call[c].floor]
<1>1. call[c].at = "loaded" /\ UNCHANGED <<now, source, floor, task>>
    BY DEF LoadReturns
<1>2. e0 \in Entries /\ v0 \in Value /\ call[c].floor \in Nat /\ Loader(c, e0)
    BY <1>1, Fields DEF Threads, Loader, Loads
<1>3. new \in EntryType /\ got \in ResultType /\ AtRest \in CallType
    BY <1>2 DEF EntryType, ResultType, CallType, AtRest, Typed, Times, Value, Versions, Missing
<1> HIDE DEF e0, v0
<1>4. entry' = [entry EXCEPT ![e0] = new] /\ entry'[e0].value = v0
    BY <1>2 DEF LoadReturns, Succeeded, Typed, e0, v0
<1>5. call' = [call EXCEPT ![c] = AtRest] /\ result' = [result EXCEPT ![c] = got]
    BY <1>4 DEF LoadReturns, Serve, e0, v0
<1>6. Shrinks
    BY SettleShrinks DEF LoadReturns
<1>7. /\ entry'[e0] = new /\ \A e \in Entries : e # e0 => entry'[e] = entry[e]
      /\ entry' \in [Entries -> EntryType]
    BY <1>2, <1>3, <1>4 DEF Typed
<1>8. /\ call'[c] = AtRest /\ \A d \in Callers : d # c => call'[d] = call[d]
      /\ call' \in [Callers -> CallType]
    BY <1>3, <1>5 DEF Typed
<1>9. /\ result'[c] = got /\ \A d \in Callers : d # c => result'[d] = result[d]
      /\ result' \in [Callers -> ResultType]
    BY <1>3, <1>5 DEF Typed
<1>10. call'[c].at = "idle" /\ call'[c].entry = NoEntry
    BY <1>8 DEF AtRest
<1>11. Typed'
    BY <1>1, <1>6, <1>7, <1>8, <1>9 DEF Typed, Shrinks
<1>12. Threads' /\ Floors'
    BY <1>1, <1>8, <1>10 DEF Threads, Floors
<1>13. OneKey'
    BY <1>1, <1>6, <1>8, <1>10, KeysKept DEF Uses, Shrinks
<1>14. OneLoad'
    BY <1>1, <1>2, <1>7, <1>8, <1>10, CallerLoadOver
<1>15. Has(e0, v0)
    BY <1>1 DEF Has, e0, v0
<1>16. Stocked'
    <2>1. \A e \in Entries, v \in Int : Has(e, v)' => Has(e, v)
        BY <1>1, <1>4, <1>7, <1>8, <1>10, <1>15 DEF Has
    <2> QED
        BY <1>1, <1>6, <1>8, <1>10, <2>1, StockKept
<1>17. InvalidationHolds'
    <2>1. v0 >= call[c].floor
        BY <1>2, <1>15 DEF Stocked, Recent, Value, Versions, Missing, e0
    <2> QED
        BY <1>9, <2>1 DEF InvalidationHolds
<1> QED
    BY <1>11, <1>12, <1>13, <1>14, <1>16, <1>17

LEMMA RefreshReturnsCorrect ==
    ASSUME IInv, NEW e0 \in Entries, RefreshReturns(e0)
    PROVE  IInv'
<1> USE DEF IInv
<1> DEFINE v0 == task[e0].read
           new == [value |-> v0, loadedAt |-> now, refreshing |-> FALSE, retryAt |-> 0]
<1>1. task[e0].at = "read" /\ UNCHANGED <<now, source, floor, call, result>>
    BY DEF RefreshReturns
<1>2. v0 \in Value
    BY Fields
<1>3. new \in EntryType /\ NoTask \in TaskType
    BY <1>2 DEF EntryType, TaskType, NoTask, Typed, Times, Value, Missing
<1> HIDE DEF v0
<1>4. entry' = [entry EXCEPT ![e0] = new] /\ task' = [task EXCEPT ![e0] = NoTask]
    BY DEF RefreshReturns, Succeeded, v0
<1>5. Shrinks
    BY SettleShrinks DEF RefreshReturns
<1>6. /\ entry'[e0] = new /\ \A e \in Entries : e # e0 => entry'[e] = entry[e]
      /\ entry' \in [Entries -> EntryType]
    BY <1>3, <1>4 DEF Typed
<1>7. /\ task'[e0] = NoTask /\ \A e \in Entries : e # e0 => task'[e] = task[e]
      /\ task' \in [Entries -> TaskType]
    BY <1>3, <1>4 DEF Typed
<1>8. task'[e0].at = "none"
    BY <1>7 DEF NoTask
<1>9. Typed'
    BY <1>1, <1>5, <1>6, <1>7 DEF Typed, Shrinks
<1>10. Threads' /\ Floors' /\ InvalidationHolds'
    BY <1>1, <1>7, <1>8 DEF Threads, Floors, InvalidationHolds
<1>11. OneKey'
    BY <1>1, <1>5, <1>7, <1>8, KeysKept DEF Uses, Shrinks
<1>12. OneLoad'
    BY <1>1, <1>6, <1>7, <1>8, TaskLoadOver
<1>13. Stocked'
    <2>1. \A e \in Entries, v \in Int : Has(e, v)' => Has(e, v)
        BY <1>1, <1>6, <1>7, <1>8 DEF Has, v0
    <2> QED
        BY <1>1, <1>5, <2>1, StockKept
<1> QED
    BY <1>9, <1>10, <1>11, <1>12, <1>13

\* A load that raises leaves the last value and ends the flight.
LEMMA FailedFields ==
    ASSUME Typed, NEW e0 \in Entries, entry' = Failed(e0)
    PROVE  /\ entry' \in [Entries -> EntryType] /\ ~entry'[e0].refreshing
           /\ \A e \in Entries : entry'[e].value = entry[e].value
           /\ \A e \in Entries : e # e0 => entry'[e] = entry[e]
<1> DEFINE new == [entry[e0] EXCEPT !.refreshing = FALSE, !.retryAt = now + RetryAfter]
<1>1. entry' = [entry EXCEPT ![e0] = new]
    BY DEF Failed
<1>2. new \in EntryType /\ new.value = entry[e0].value /\ ~new.refreshing
    <2>1. entry[e0] \in EntryType /\ now + RetryAfter \in Nat
        BY Fields DEF Typed
    <2> QED
        BY <2>1 DEF EntryType, Times
<1> HIDE DEF new
<1> QED
    BY <1>1, <1>2 DEF Typed

LEMMA LoadRaisesCorrect ==
    ASSUME IInv, NEW c \in Callers, LoadRaises(c)
    PROVE  IInv'
<1> USE DEF IInv
<1> DEFINE e0 == call[c].entry
<1>1. /\ call[c].at \in Loads /\ entry' = Failed(e0) /\ call' = [call EXCEPT ![c] = AtRest]
      /\ UNCHANGED <<now, source, floor, slot, result, task>>
    BY DEF LoadRaises, Loads
<1>2. e0 \in Entries /\ Loader(c, e0)
    BY <1>1 DEF Threads, Loader, Loads
<1> HIDE DEF e0
<1>3. /\ entry' \in [Entries -> EntryType] /\ ~entry'[e0].refreshing
      /\ \A e \in Entries : entry'[e].value = entry[e].value
      /\ \A e \in Entries : e # e0 => entry'[e] = entry[e]
    BY <1>1, <1>2, FailedFields
<1>4. AtRest \in CallType
    BY DEF CallType, AtRest, Value, Versions, Missing
<1>5. /\ call'[c] = AtRest /\ \A d \in Callers : d # c => call'[d] = call[d]
      /\ call' \in [Callers -> CallType]
    BY <1>1, <1>4 DEF Typed
<1>6. call'[c].at = "idle" /\ call'[c].entry = NoEntry
    BY <1>5 DEF AtRest
<1>7. UNCHANGED <<now, source, floor, slot, result, task>>
    BY <1>1
<1>8. Typed'
    BY <1>3, <1>5, <1>7 DEF Typed
<1>9. Threads' /\ Floors' /\ InvalidationHolds'
    BY <1>5, <1>6, <1>7 DEF Threads, Floors, InvalidationHolds
<1>10. OneKey'
    BY <1>5, <1>6, <1>7, KeysKept DEF Uses
<1>11. OneLoad'
    BY <1>2, <1>3, <1>5, <1>6, <1>7, CallerLoadOver
<1>12. Stocked'
    <2>1. \A e \in Entries, v \in Int : Has(e, v)' => Has(e, v)
        BY <1>3, <1>5, <1>6, <1>7 DEF Has
    <2>2. Shrinks
        BY <1>7 DEF Shrinks, Typed
    <2> QED
        BY <1>5, <1>6, <1>7, <2>1, <2>2, StockKept
<1> QED
    BY <1>8, <1>9, <1>10, <1>11, <1>12

LEMMA RefreshRaisesCorrect ==
    ASSUME IInv, NEW e0 \in Entries, RefreshRaises(e0)
    PROVE  IInv'
<1> USE DEF IInv
<1>1. /\ task[e0].at # "none" /\ entry' = Failed(e0) /\ task' = [task EXCEPT ![e0] = NoTask]
      /\ UNCHANGED <<now, source, floor, slot, call, result>>
    BY DEF RefreshRaises
<1>2. /\ entry' \in [Entries -> EntryType] /\ ~entry'[e0].refreshing
      /\ \A e \in Entries : entry'[e].value = entry[e].value
      /\ \A e \in Entries : e # e0 => entry'[e] = entry[e]
    BY <1>1, FailedFields
<1>3. NoTask \in TaskType
    BY DEF TaskType, NoTask, Value, Missing
<1>4. /\ task'[e0] = NoTask /\ \A e \in Entries : e # e0 => task'[e] = task[e]
      /\ task' \in [Entries -> TaskType]
    BY <1>1, <1>3 DEF Typed
<1>5. task'[e0].at = "none"
    BY <1>4 DEF NoTask
<1>6. UNCHANGED <<now, source, floor, slot, call, result>> /\ task[e0].at # "none"
    BY <1>1
<1>7. Typed'
    BY <1>2, <1>4, <1>6 DEF Typed
<1>8. Threads' /\ Floors' /\ InvalidationHolds'
    BY <1>4, <1>5, <1>6 DEF Threads, Floors, InvalidationHolds
<1>9. OneKey'
    BY <1>4, <1>5, <1>6, KeysKept DEF Uses
<1>10. OneLoad'
    BY <1>2, <1>4, <1>5, <1>6, TaskLoadOver
<1>11. Stocked'
    <2>1. \A e \in Entries, v \in Int : Has(e, v)' => Has(e, v)
        BY <1>2, <1>4, <1>5, <1>6 DEF Has
    <2>2. Shrinks
        BY <1>6 DEF Shrinks, Typed
    <2> QED
        BY <1>6, <2>1, <2>2, StockKept
<1> QED
    BY <1>7, <1>8, <1>9, <1>10, <1>11

LEMMA RefreshStartsCorrect ==
    ASSUME IInv, NEW e0 \in Entries, RefreshStarts(e0)
    PROVE  IInv'
<1> USE DEF IInv
<1> DEFINE new == [task[e0] EXCEPT !.at = "running"]
<1>1. /\ task[e0].at = "queued" /\ task' = [task EXCEPT ![e0] = new]
      /\ UNCHANGED <<now, source, floor, slot, entry, call, result>>
    BY DEF RefreshStarts, cacheVars
<1>2. new \in TaskType /\ new.at = "running" /\ new.key = task[e0].key
    <2>1. task[e0] \in TaskType
        BY Fields
    <2> QED
        BY <2>1 DEF TaskType
<1> HIDE DEF new
<1>3. task'[e0] = new /\ (\A e \in Entries : e # e0 => task'[e] = task[e]) /\ task' \in [Entries -> TaskType]
    BY <1>1, <1>2 DEF Typed
<1>4. \A e \in Entries : /\ task'[e].key = task[e].key
                         /\ task'[e].at = "none" <=> task[e].at = "none"
                         /\ task'[e].at = "read" => task'[e] = task[e]
    BY <1>1, <1>2, <1>3
<1>5. UNCHANGED <<now, source, floor, slot, entry, call, result>>
    BY <1>1
<1>6. Typed'
    BY <1>3, <1>5 DEF Typed
<1>7. Threads' /\ Floors' /\ InvalidationHolds'
    BY <1>4, <1>5 DEF Threads, Floors, InvalidationHolds
<1>8. OneKey'
    BY <1>4, <1>5, KeysKept DEF Uses
<1>9. OneLoad'
    BY <1>4, <1>5 DEF OneLoad, Loader
<1>10. Stocked'
    BY <1>4, <1>5 DEF Stocked, Has, Recent
<1> QED
    BY <1>6, <1>7, <1>8, <1>9, <1>10

(***************************************************************************)
(* Maintenance and the world outside.                                      *)
(***************************************************************************)

\* Steps that only take entries out of the cache (`clear`, `close`).
LEMMA DropCorrect ==
    ASSUME IInv, Shrinks, UNCHANGED <<now, source, floor, entry, call, result, task>>
    PROVE  IInv'
<1> USE DEF IInv
<1>1. Typed' /\ Threads' /\ Floors' /\ InvalidationHolds'
    BY DEF Typed, Threads, Floors, InvalidationHolds, Shrinks
<1>2. OneKey'
    BY KeysKept DEF Uses, Shrinks
<1>3. OneLoad'
    BY DEF OneLoad, Loader
<1>4. Stocked'
    <2>1. \A e \in Entries, v \in Int : Has(e, v)' => Has(e, v)
        BY DEF Has
    <2> QED
        BY <2>1, StockKept
<1> QED
    BY <1>1, <1>2, <1>3, <1>4

\* An invalidation raises the floor of the keys it takes out, so no entry that
\* is left has to be any newer.
LEMMA InvalidateCorrect ==
    ASSUME IInv, NEW matching \in SUBSET Keys, Invalidate(matching)
    PROVE  IInv'
<1> USE DEF IInv
<1>1. UNCHANGED <<now, source, entry, call, result, task>>
    BY DEF Invalidate
<1>2. Shrinks
    BY DropShrinks DEF Invalidate
<1>3. /\ floor' \in [Keys -> Nat]
      /\ \A k \in Keys : /\ floor'[k] >= floor[k] /\ floor'[k] <= source[k]
                         /\ k \in matching => slot'[k] = NoEntry
                         /\ k \notin matching => floor'[k] = floor[k]
    <2>1. \A k \in Keys : source[k] \in Nat /\ floor[k] \in Nat /\ floor[k] <= source[k]
        BY Fields DEF Floors
    <2>2. /\ floor' = [k \in Keys |-> IF k \in matching THEN source[k] ELSE floor[k]]
          /\ slot' = [k \in Keys |-> IF k \in matching THEN NoEntry ELSE slot[k]]
        BY DEF Invalidate, Drop
    <2> QED
        BY <2>1, <2>2
<1>4. Typed' /\ Threads' /\ InvalidationHolds'
    BY <1>1, <1>2, <1>3 DEF Typed, Threads, InvalidationHolds, Shrinks
<1>5. OneKey'
    BY <1>1, <1>2, KeysKept DEF Uses, Shrinks
<1>6. OneLoad'
    BY <1>1 DEF OneLoad, Loader
<1>7. Floors'
    <2>1. \A c \in Callers : call[c].at # "idle" => call[c].floor <= floor'[call[c].key]
        <3> SUFFICES ASSUME NEW c \in Callers, call[c].at # "idle"
                     PROVE  call[c].floor <= floor'[call[c].key]
            OBVIOUS
        <3>1. call[c].key \in Keys /\ call[c].floor \in Nat /\ call[c].floor <= floor[call[c].key]
            BY Fields DEF Threads, Floors
        <3>2. /\ floor'[call[c].key] \in Nat /\ floor[call[c].key] \in Nat
              /\ floor'[call[c].key] >= floor[call[c].key]
            BY <3>1, <1>3, Fields
        <3> QED
            BY <3>1, <3>2
    <2> QED
        BY <2>1, <1>1, <1>3 DEF Floors
<1>8. Stocked'
    <2> SUFFICES ASSUME NEW e \in Entries, NEW v \in Int, Has(e, v)'
                 PROVE  Recent(e, v)'
        BY DEF Stocked
    <2>1. Recent(e, v)
        BY <1>1 DEF Stocked, Has
    <2>2. \A k \in Keys : slot'[k] = e => slot[k] = e /\ floor'[k] = floor[k]
        BY <1>2, <1>3 DEF Shrinks
    <2> QED
        BY <1>1, <2>1, <2>2 DEF Recent
<1> QED
    BY <1>4, <1>5, <1>6, <1>7, <1>8

LEMMA ChangeCorrect ==
    ASSUME IInv, NEW k0 \in Keys, Change(k0)
    PROVE  IInv'
<1> USE DEF IInv
<1>1. UNCHANGED <<now, floor, slot, entry, call, result, task>>
    BY DEF Change, cacheVars
<1>2. source' \in [Keys -> Nat] /\ \A k \in Keys : source'[k] >= source[k]
    <2>1. source' = [source EXCEPT ![k0] = source[k0] + 1]
        BY DEF Change
    <2>2. source \in [Keys -> Nat] /\ source[k0] + 1 \in Nat
        BY Fields DEF Typed
    <2> QED
        BY <2>1, <2>2
<1>3. Typed' /\ Threads' /\ InvalidationHolds'
    BY <1>1, <1>2 DEF Typed, Threads, InvalidationHolds
<1>4. Floors'
    <2>1. \A k \in Keys : floor[k] <= source'[k]
        <3> TAKE k \in Keys
        <3>1. floor[k] \in Nat /\ source[k] \in Nat /\ source'[k] \in Nat /\ floor[k] <= source[k]
            BY <1>2, Fields DEF Floors
        <3> QED
            BY <3>1, <1>2
    <2> QED
        BY <2>1, <1>1 DEF Floors
<1>5. OneKey' /\ OneLoad' /\ Stocked'
    BY <1>1 DEF OneKey, Uses, OneLoad, Loader, Stocked, Has, Recent
<1> QED
    BY <1>3, <1>4, <1>5

LEMMA ClockCorrect ==
    ASSUME IInv, now' \in Nat, UNCHANGED <<source, floor, slot, entry, call, result, task>>
    PROVE  IInv'
<1> USE DEF IInv
<1>1. Typed' /\ Threads' /\ Floors' /\ InvalidationHolds'
    BY DEF Typed, Threads, Floors, InvalidationHolds
<1>2. OneKey' /\ OneLoad' /\ Stocked'
    BY DEF OneKey, Uses, OneLoad, Loader, Stocked, Has, Recent
<1> QED
    BY <1>1, <1>2

(***************************************************************************)
(* Calls.                                                                  *)
(***************************************************************************)

\* A waiter whose load is over is served, or loads itself: nobody else does.
LEMMA WakeCorrect ==
    ASSUME IInv, NEW c \in Callers, Wake(c)
    PROVE  IInv'
<1> USE DEF IInv
<1> DEFINE e0 == call[c].entry
<1>1. /\ call[c].at = "waiting" /\ ~entry[e0].refreshing
      /\ UNCHANGED <<now, source, floor, slot, task>>
    BY DEF Wake
<1>2. e0 \in Entries /\ call[c].key \in Keys /\ call[c].floor \in Nat /\ entry[e0].value \in Value
    BY <1>1, Fields DEF Threads
<1> HIDE DEF e0
<1>3. CASE entry[e0].value # Missing /\ Serve(c, entry[e0], call[c].floor) /\ UNCHANGED entry
    <2> DEFINE got == [value |-> entry[e0].value, floor |-> call[c].floor]
    <2>1. call' = [call EXCEPT ![c] = AtRest] /\ result' = [result EXCEPT ![c] = got]
        BY <1>3 DEF Serve
    <2>2. AtRest \in CallType /\ got \in ResultType
        BY <1>2 DEF CallType, ResultType, AtRest, Value, Versions, Missing
    <2>3. /\ call'[c] = AtRest /\ \A d \in Callers : d # c => call'[d] = call[d]
          /\ call' \in [Callers -> CallType]
        BY <2>1, <2>2 DEF Typed
    <2>4. /\ result'[c] = got /\ \A d \in Callers : d # c => result'[d] = result[d]
          /\ result' \in [Callers -> ResultType]
        BY <2>1, <2>2 DEF Typed
    <2>5. call'[c].at = "idle" /\ call'[c].entry = NoEntry
        BY <2>3 DEF AtRest
    <2>6. UNCHANGED <<now, source, floor, slot, task, entry>>
        BY <1>1, <1>3
    <2>7. Typed'
        BY <2>3, <2>4, <2>6 DEF Typed
    <2>8. Threads' /\ Floors'
        BY <2>3, <2>5, <2>6 DEF Threads, Floors
    <2>9. OneKey'
        BY <2>3, <2>5, <2>6, KeysKept DEF Uses
    <2>10. OneLoad'
        <3>1. \A e \in Entries, d \in Callers : Loader(d, e)' <=> Loader(d, e)
            BY <1>1, <2>3, <2>5 DEF Loader, Loads
        <3> QED
            BY <3>1, <2>6 DEF OneLoad
    <2>11. Stocked'
        <3>1. \A e \in Entries, v \in Int : Has(e, v)' => Has(e, v)
            BY <2>3, <2>5, <2>6 DEF Has
        <3>2. Shrinks
            BY <2>6 DEF Shrinks, Typed
        <3> QED
            BY <2>3, <2>5, <2>6, <3>1, <3>2, StockKept
    <2>12. InvalidationHolds'
        <3>1. entry[e0].value >= call[c].floor
            BY <1>2, <1>3 DEF Stocked, Has, Recent, Value, Versions, Missing, e0
        <3> QED
            BY <2>4, <3>1 DEF InvalidationHolds
    <2> QED
        BY <2>7, <2>8, <2>9, <2>10, <2>11, <2>12
<1>4. CASE /\ entry[e0].value = Missing
           /\ entry' = [entry EXCEPT ![e0].refreshing = TRUE]
           /\ call' = [call EXCEPT ![c].at = "loading"]
           /\ UNCHANGED result
    <2> DEFINE new == [call[c] EXCEPT !.at = "loading"]
               fields == [entry[e0] EXCEPT !.refreshing = TRUE]
    <2>1. /\ new \in CallType /\ new.at = "loading" /\ new.entry = e0 /\ new.key = call[c].key
          /\ new.floor = call[c].floor
        BY Fields DEF CallType, Loads, e0
    <2>2. fields \in EntryType /\ fields.value = entry[e0].value /\ fields.refreshing
        BY <1>2, Fields DEF EntryType
    <2>3. call' = [call EXCEPT ![c] = new] /\ entry' = [entry EXCEPT ![e0] = fields]
        BY <1>4
    <2> HIDE DEF new, fields
    <2>4. /\ call'[c] = new /\ \A d \in Callers : d # c => call'[d] = call[d]
          /\ call' \in [Callers -> CallType]
        BY <2>1, <2>3 DEF Typed
    <2>5. /\ entry'[e0] = fields /\ \A e \in Entries : e # e0 => entry'[e] = entry[e]
          /\ entry' \in [Entries -> EntryType]
        BY <1>2, <2>2, <2>3 DEF Typed
    <2>6. UNCHANGED <<now, source, floor, slot, task, result>>
        BY <1>1, <1>4
    <2>7. Typed'
        BY <2>4, <2>5, <2>6 DEF Typed
    <2>8. Threads' /\ Floors' /\ InvalidationHolds'
        BY <1>1, <1>2, <2>1, <2>4, <2>6 DEF Threads, Floors, InvalidationHolds
    <2>9. OneKey'
        <3>1. \A d \in Callers : call'[d].entry = call[d].entry /\ call'[d].key = call[d].key
            BY <2>1, <2>4 DEF e0
        <3> QED
            BY <3>1, <2>6, KeysKept DEF Uses
    <2>10. OneLoad'
        <3>1. task[e0].at = "none" /\ \A d \in Callers : ~Loader(d, e0)
            BY <1>1, <1>2 DEF OneLoad
        <3>2. \A e \in Entries, d \in Callers : Loader(d, e)' <=> (Loader(d, e) \/ (e = e0 /\ d = c))
            BY <1>1, <2>1, <2>4 DEF Loader, Loads, e0
        <3> QED
            BY <3>1, <3>2, <2>2, <2>5, <2>6 DEF OneLoad
    <2>11. Stocked'
        <3>1. \A e \in Entries, v \in Int : Has(e, v)' => Has(e, v)
            BY <2>1, <2>2, <2>4, <2>5, <2>6 DEF Has
        <3>2. Shrinks
            BY <2>6 DEF Shrinks, Typed
        <3>3. \A d \in Callers : call'[d].entry = call[d].entry /\ call'[d].floor = call[d].floor
            BY <2>1, <2>4 DEF e0
        <3> QED
            BY <2>6, <3>1, <3>2, <3>3, StockKept
    <2> QED
        BY <2>7, <2>8, <2>9, <2>10, <2>11
<1> QED
    BY <1>1, <1>3, <1>4 DEF Wake, e0

\* The entry a caller meets is used for no other key; a new one by nobody.
LEMMA TouchFacts ==
    ASSUME IInv, NEW k \in Keys, Touch(k), slot[k] # NoEntry \/ Spare # {}
    PROVE  /\ EntryOf(k) \in Entries
           /\ slot' \in [Keys -> Entries \union {NoEntry}]
           /\ \A j \in Keys : slot'[j] \in {slot[j], NoEntry} \/ (j = k /\ slot'[j] = EntryOf(k))
           /\ \A j \in Keys : Uses(EntryOf(k), j) => j = k
           /\ slot[k] # NoEntry => EntryOf(k) = slot[k] /\ Shrinks
           /\ slot[k] = NoEntry =>
                /\ task[EntryOf(k)].at = "none"
                /\ \A c \in Callers : call[c].entry # EntryOf(k)
<1> USE DEF IInv
<1> DEFINE gone == IF slot[k] = NoEntry
                   THEN Victim(Cached \union {k}, MovedToEnd(k), Busy) ELSE {}
<1>1. slot' = [j \in Keys |-> IF j \in gone THEN NoEntry
                              ELSE IF j = k THEN EntryOf(k) ELSE slot[j]]
    BY DEF Touch
<1>2. slot[k] # NoEntry => gone = {}
    OBVIOUS
<1> HIDE DEF gone
<1>3. slot[k] # NoEntry => EntryOf(k) = slot[k] /\ slot[k] \in Entries
    BY Fields DEF EntryOf
<1>4. slot[k] = NoEntry => EntryOf(k) \in Spare
    BY DEF EntryOf
<1>5. EntryOf(k) \in Entries
    BY <1>3, <1>4 DEF Spare
<1>6. slot[k] = NoEntry =>
          /\ task[EntryOf(k)].at = "none" /\ \A j \in Keys : slot[j] # EntryOf(k)
          /\ \A c \in Callers : call[c].entry # EntryOf(k)
    BY <1>4 DEF Spare, Live
<1>7. \A j \in Keys : Uses(EntryOf(k), j) => j = k
    <2>1. CASE slot[k] = NoEntry
        BY <2>1, <1>6 DEF Uses
    <2>2. CASE slot[k] # NoEntry
        BY <2>2, <1>3, <1>5 DEF OneKey, Uses
    <2> QED
        BY <2>1, <2>2
<1>8. slot' \in [Keys -> Entries \union {NoEntry}]
    BY <1>1, <1>5, Fields
<1>9. \A j \in Keys : slot'[j] \in {slot[j], NoEntry} \/ (j = k /\ slot'[j] = EntryOf(k))
    BY <1>1
<1>10. slot[k] # NoEntry => Shrinks
    BY <1>1, <1>2, <1>3, <1>8 DEF Shrinks
<1> QED
    BY <1>3, <1>5, <1>6, <1>7, <1>8, <1>9, <1>10

\* An idle caller is served what its key's entry has, and nothing else moves.
LEMMA ServeCorrect ==
    ASSUME IInv, NEW c \in Callers, NEW k \in Keys, call[c].at = "idle",
           slot[k] \in Entries, entry[slot[k]].value # Missing,
           Serve(c, entry[slot[k]], floor[k]), Shrinks,
           UNCHANGED <<now, source, floor>>
    PROVE  call' = call /\ result' \in [Callers -> ResultType] /\ InvalidationHolds'
<1> USE DEF IInv
<1> DEFINE e0 == slot[k]
           got == [value |-> entry[e0].value, floor |-> floor[k]]
<1>1. entry[e0].value \in Value /\ floor[k] \in Nat /\ call[c] \in CallType
    BY Fields
<1>2. entry[e0].value >= floor[k]
    BY <1>1 DEF Stocked, Has, Recent, Value, Versions, Missing
<1> HIDE DEF e0
<1>3. got \in ResultType
    BY <1>1 DEF ResultType, Versions
<1>4. result' = [result EXCEPT ![c] = got]
    BY DEF Serve, e0
<1>5. /\ result'[c] = got /\ \A d \in Callers : d # c => result'[d] = result[d]
      /\ result' \in [Callers -> ResultType]
    BY <1>3, <1>4 DEF Typed
<1>6. InvalidationHolds'
    BY <1>2, <1>5 DEF InvalidationHolds
<1>7. call' = call
    <2>1. call' = [call EXCEPT ![c] = AtRest] /\ call[c] = AtRest
        BY DEF Serve, Threads
    <2> QED
        BY <2>1 DEF Typed
<1> QED
    BY <1>5, <1>6, <1>7

\* A caller joins a flight or becomes one: what its entry has or gets is as new
\* as the key's last invalidation.
Joins(c, k, e0, at, force) ==
    /\ call[c].at = "idle"
    /\ call' = [call EXCEPT ![c] = [AtRest EXCEPT !.at = at, !.key = k, !.entry = e0,
                                         !.force = force, !.floor = floor[k]]]
    /\ slot' \in [Keys -> Entries \union {NoEntry}]
    /\ \A j \in Keys : slot'[j] \in {slot[j], NoEntry} \/ (j = k /\ slot'[j] = e0)
    /\ \A j \in Keys : Uses(e0, j) => j = k
    /\ slot[k] # e0 => /\ entry'[e0].value = Missing /\ task[e0].at = "none"
                       /\ \A d \in Callers : call[d].entry # e0
    /\ entry' \in [Entries -> EntryType]
    /\ \A e \in Entries : entry'[e].value \in {entry[e].value, Missing}
    /\ UNCHANGED <<now, source, floor, result, task>>

LEMMA JoinCorrect ==
    ASSUME IInv, NEW c \in Callers, NEW k \in Keys, NEW e0 \in Entries,
           NEW at \in {"waiting", "loading"}, NEW force \in BOOLEAN,
           Joins(c, k, e0, at, force)
    PROVE  /\ Typed' /\ Threads' /\ OneKey' /\ Floors' /\ Stocked' /\ InvalidationHolds'
           /\ \A e \in Entries, d \in Callers :
                  Loader(d, e)' <=> (Loader(d, e) \/ (d = c /\ e = e0 /\ at = "loading"))
<1> USE DEF IInv, Joins
<1> DEFINE new == [AtRest EXCEPT !.at = at, !.key = k, !.entry = e0,
                                 !.force = force, !.floor = floor[k]]
<1>1. /\ new \in CallType /\ new.at = at /\ new.key = k /\ new.entry = e0 /\ new.floor = floor[k]
      /\ floor[k] \in Nat
    <2>1. floor[k] \in Nat
        BY Fields
    <2> QED
        BY <2>1 DEF CallType, AtRest, Value, Versions, Loads, Missing
<1> HIDE DEF new
<1>2. /\ call'[c] = new /\ \A d \in Callers : d # c => call'[d] = call[d]
      /\ call' \in [Callers -> CallType]
    <2>1. call' = [call EXCEPT ![c] = new]
        BY DEF new
    <2> QED
        BY <1>1, <2>1 DEF Typed
<1>3. UNCHANGED <<now, source, floor, result, task>>
    OBVIOUS
<1>4. call[c].entry = NoEntry
    BY DEF Threads
<1>5. Typed'
    BY <1>2, <1>3 DEF Typed
<1>6. Threads' /\ InvalidationHolds'
    BY <1>1, <1>2, <1>3 DEF Threads, InvalidationHolds
<1>7. Floors'
    BY <1>1, <1>2, <1>3 DEF Floors
<1>8. OneKey'
    <2>1. \A e \in Entries, j \in Keys : Uses(e, j)' => Uses(e, j) \/ (e = e0 /\ j = k)
        BY <1>1, <1>2, <1>3 DEF Uses
    <2> QED
        BY <2>1 DEF OneKey
<1>9. Stocked'
    <2> SUFFICES ASSUME NEW e \in Entries, NEW v \in Int, Has(e, v)'
                 PROVE  Recent(e, v)'
        BY DEF Stocked
    <2>1. Has(e, v)
        BY <1>1, <1>2, <1>3 DEF Has
    <2>2. Recent(e, v)
        BY <2>1 DEF Stocked
    <2>3. e = e0 => v >= floor[k]
        <3>1. e = e0 => slot[k] = e0
            BY <1>1, <1>2, <1>3 DEF Has
        <3> QED
            BY <2>2, <3>1 DEF Recent
    <2>4. \A j \in Keys : slot'[j] = e => v >= floor[j]
        BY <2>2, <2>3 DEF Recent
    <2>5. \A d \in Callers : call'[d].entry = e => v >= call'[d].floor
        BY <1>1, <1>2, <2>2, <2>3 DEF Recent
    <2> QED
        BY <1>3, <2>4, <2>5 DEF Recent
<1>10. \A e \in Entries, d \in Callers :
           Loader(d, e)' <=> (Loader(d, e) \/ (d = c /\ e = e0 /\ at = "loading"))
    BY <1>1, <1>2, <1>4 DEF Loader, Loads
<1> QED
    BY <1>5, <1>6, <1>7, <1>8, <1>9, <1>10

\* The first hold of the lock, whatever it finds.
LEMMA GetCorrect ==
    ASSUME IInv, NEW c \in Callers, NEW k \in Keys, NEW force \in BOOLEAN, Get(c, k, force)
    PROVE  IInv'
<1> USE DEF IInv
<1> DEFINE e0 == EntryOf(k)
           fields == Before(k, e0)
<1>1. /\ call[c].at = "idle" /\ Touch(k) /\ (slot[k] # NoEntry \/ Spare # {})
      /\ UNCHANGED <<now, source, floor>>
    BY DEF Get
<1>10. JoinFlight(c, k, e0, force) \/ (~fields.refreshing /\ Decide(c, k, e0, force, floor[k], fields))
    BY DEF Get
<1>2. /\ e0 \in Entries
      /\ slot' \in [Keys -> Entries \union {NoEntry}]
      /\ \A j \in Keys : slot'[j] \in {slot[j], NoEntry} \/ (j = k /\ slot'[j] = e0)
      /\ \A j \in Keys : Uses(e0, j) => j = k
      /\ slot[k] # NoEntry => e0 = slot[k] /\ Shrinks
      /\ slot[k] = NoEntry => /\ task[e0].at = "none"
                              /\ \A d \in Callers : call[d].entry # e0
    BY <1>1, TouchFacts
<1>3. /\ slot[k] = NoEntry => fields = Empty /\ fields.value = Missing /\ ~fields.refreshing
      /\ slot[k] # NoEntry => fields = entry[e0]
    BY DEF Before, Empty
<1>4. fields \in EntryType
    <2>1. Empty \in EntryType
        BY DEF EntryType, Empty, Value, Times, Missing
    <2> QED
        BY <1>2, <1>3, <2>1, Fields
<1> HIDE DEF e0, fields
<1>5. ~fields.refreshing => task[e0].at = "none" /\ \A d \in Callers : ~Loader(d, e0)
    BY <1>2, <1>3 DEF OneLoad, Loader
<1>6. ASSUME slot[k] = e0, fields = entry[e0], fields.value # Missing, Serve(c, fields, floor[k]),
             entry' \in [Entries -> EntryType], task' \in [Entries -> TaskType],
             \A e \in Entries : entry'[e].value = entry[e].value,
             \A e \in Entries : task'[e].at = "read" => task'[e] = task[e],
             \A e \in Entries : task'[e].at # "none" =>
                 (task[e].at # "none" /\ task'[e].key = task[e].key) \/ (e = e0 /\ task'[e].key = k),
             OneLoad'
      PROVE  IInv'
    <2>1. Shrinks
        BY <1>2, <1>6
    <2>2. call' = call /\ result' \in [Callers -> ResultType] /\ InvalidationHolds'
        BY <1>1, <1>2, <1>6, <2>1, ServeCorrect
    <2>3. UNCHANGED <<now, source, floor, call>>
        BY <1>1, <2>2
    <2>4. Typed'
        BY <1>6, <2>1, <2>2, <2>3 DEF Typed, Shrinks
    <2>5. Threads' /\ Floors'
        BY <1>6, <2>3 DEF Threads, Floors
    <2>6. OneKey'
        <3>1. \A e \in Entries, j \in Keys : Uses(e, j)' => Uses(e, j)
            BY <1>6, <2>1, <2>3 DEF Uses, Shrinks
        <3> QED
            BY <3>1, KeysKept
    <2>7. Stocked'
        <3>1. \A e \in Entries, v \in Int : Has(e, v)' => Has(e, v)
            BY <1>6, <2>3 DEF Has
        <3> QED
            BY <2>1, <2>3, <3>1, StockKept
    <2> QED
        BY <1>6, <2>2, <2>4, <2>5, <2>6, <2>7
<1>7. CASE JoinFlight(c, k, e0, force)
    <2>1. fields.refreshing /\ UNCHANGED <<entry, task>>
        BY <1>7 DEF JoinFlight, fields
    <2>2. slot[k] = e0 /\ fields = entry[e0]
        BY <1>2, <1>3, <2>1
    <2>3. CASE fields.value # Missing /\ ~force
        <3>1. Serve(c, fields, floor[k])
            BY <1>7, <2>3 DEF JoinFlight, fields
        <3>2. OneLoad'
            <4>1. call' = call
                BY <1>1, <1>2, <2>2, <2>3, <3>1, ServeCorrect
            <4> QED
                BY <2>1, <4>1 DEF OneLoad, Loader
        <3>3. entry' \in [Entries -> EntryType] /\ task' \in [Entries -> TaskType]
            BY <2>1 DEF Typed
        <3> QED
            BY <1>6, <2>1, <2>2, <2>3, <3>1, <3>2, <3>3
    <2>4. CASE ~(fields.value # Missing /\ ~force)
        <3>1. /\ call' = [call EXCEPT ![c] = [AtRest EXCEPT !.at = "waiting", !.key = k,
                              !.entry = e0, !.force = force, !.floor = floor[k]]]
              /\ UNCHANGED result
            BY <1>7, <2>4 DEF JoinFlight, fields
        <3>2. entry' \in [Entries -> EntryType]
            BY <2>1 DEF Typed
        <3>3. /\ Typed' /\ Threads' /\ OneKey' /\ Floors' /\ Stocked' /\ InvalidationHolds'
              /\ \A e \in Entries, d \in Callers :
                     Loader(d, e)' <=> (Loader(d, e) \/ (d = c /\ e = e0 /\ "waiting" = "loading"))
            <4>1. Joins(c, k, e0, "waiting", force)
                BY <1>1, <1>2, <2>1, <2>2, <3>1, <3>2 DEF Joins
            <4> QED
                BY <1>2, <4>1, JoinCorrect
        <3>4. OneLoad'
            BY <2>1, <3>3 DEF OneLoad
        <3> QED
            BY <3>3, <3>4
    <2> QED
        BY <2>3, <2>4
<1>8. CASE ~fields.refreshing /\ Decide(c, k, e0, force, floor[k], fields)
    <2>1. CASE /\ fields.value # Missing /\ Serve(c, fields, floor[k])
               /\ entry' = [entry EXCEPT ![e0] = fields] /\ UNCHANGED task
        <3>1. slot[k] = e0 /\ fields = entry[e0]
            BY <1>2, <1>3, <2>1
        <3>2. entry' = entry
            BY <1>2, <2>1, <3>1 DEF Typed
        <3>3. call' = call
            BY <1>1, <1>2, <2>1, <3>1, ServeCorrect
        <3>4. OneLoad'
            BY <2>1, <3>2, <3>3 DEF OneLoad, Loader
        <3>5. entry' \in [Entries -> EntryType] /\ task' \in [Entries -> TaskType]
            BY <2>1, <3>2 DEF Typed
        <3> QED
            BY <1>6, <2>1, <3>1, <3>2, <3>4, <3>5
    <2>2. CASE /\ fields.value # Missing /\ Serve(c, fields, floor[k])
               /\ entry' = [entry EXCEPT ![e0] = [fields EXCEPT !.refreshing = TRUE]]
               /\ task' = [task EXCEPT ![e0] = [NoTask EXCEPT !.at = "queued", !.key = k]]
        <3> DEFINE busy == [fields EXCEPT !.refreshing = TRUE]
                   queued == [NoTask EXCEPT !.at = "queued", !.key = k]
        <3>1. slot[k] = e0 /\ fields = entry[e0]
            BY <1>2, <1>3, <2>2
        <3>2. busy \in EntryType /\ busy.value = fields.value /\ busy.refreshing
            BY <1>4 DEF EntryType
        <3>3. queued \in TaskType /\ queued.at = "queued" /\ queued.key = k
            BY DEF TaskType, NoTask, Value, Missing
        <3> HIDE DEF busy, queued
        <3>4. entry' = [entry EXCEPT ![e0] = busy] /\ task' = [task EXCEPT ![e0] = queued]
            BY <2>2 DEF busy, queued
        <3>5. /\ entry'[e0] = busy /\ \A e \in Entries : e # e0 => entry'[e] = entry[e]
              /\ entry' \in [Entries -> EntryType]
            BY <1>2, <3>2, <3>4 DEF Typed
        <3>6. /\ task'[e0] = queued /\ \A e \in Entries : e # e0 => task'[e] = task[e]
              /\ task' \in [Entries -> TaskType]
            BY <1>2, <3>3, <3>4 DEF Typed
        <3>7. call' = call
            BY <1>1, <1>2, <2>2, <3>1, ServeCorrect
        <3>8. OneLoad'
            <4>1. \A d \in Callers : ~Loader(d, e0)
                BY <1>5, <1>8
            <4> QED
                BY <3>2, <3>3, <3>5, <3>6, <3>7, <4>1 DEF OneLoad, Loader
        <3>9. \A e \in Entries : entry'[e].value = entry[e].value
            BY <3>1, <3>2, <3>5
        <3>10. /\ \A e \in Entries : task'[e].at = "read" => task'[e] = task[e]
               /\ \A e \in Entries : task'[e].at # "none" =>
                      (task[e].at # "none" /\ task'[e].key = task[e].key) \/ (e = e0 /\ task'[e].key = k)
            BY <3>3, <3>6
        <3> QED
            BY <1>6, <2>2, <3>1, <3>5, <3>6, <3>8, <3>9, <3>10
    <2>3. CASE /\ entry' = [entry EXCEPT ![e0] = [fields EXCEPT !.refreshing = TRUE]]
               /\ call' = [call EXCEPT ![c] = [AtRest EXCEPT !.at = "loading", !.key = k,
                               !.entry = e0, !.force = force, !.floor = floor[k]]]
               /\ UNCHANGED <<result, task>>
        <3> DEFINE busy == [fields EXCEPT !.refreshing = TRUE]
        <3>1. busy \in EntryType /\ busy.value = fields.value /\ busy.refreshing
            BY <1>4 DEF EntryType
        <3> HIDE DEF busy
        <3>2. /\ entry'[e0] = busy /\ \A e \in Entries : e # e0 => entry'[e] = entry[e]
              /\ entry' \in [Entries -> EntryType]
            <4>1. entry' = [entry EXCEPT ![e0] = busy]
                BY <2>3 DEF busy
            <4> QED
                BY <1>2, <3>1, <4>1 DEF Typed
        <3>3. \A e \in Entries : entry'[e].value \in {entry[e].value, Missing}
            BY <1>3, <3>1, <3>2
        <3>4. slot[k] # e0 => /\ entry'[e0].value = Missing /\ task[e0].at = "none"
                              /\ \A d \in Callers : call[d].entry # e0
            BY <1>2, <1>3, <3>1, <3>2
        <3>5. UNCHANGED <<now, source, floor, result, task>>
            BY <1>1, <2>3
        <3>6. /\ Typed' /\ Threads' /\ OneKey' /\ Floors' /\ Stocked' /\ InvalidationHolds'
              /\ \A e \in Entries, d \in Callers :
                     Loader(d, e)' <=> (Loader(d, e) \/ (d = c /\ e = e0 /\ "loading" = "loading"))
            <4>1. Joins(c, k, e0, "loading", force)
                BY <1>1, <1>2, <2>3, <3>2, <3>3, <3>4, <3>5 DEF Joins
            <4> QED
                BY <1>2, <4>1, JoinCorrect
        <3>7. OneLoad'
            <4>1. task[e0].at = "none" /\ \A d \in Callers : ~Loader(d, e0)
                BY <1>5, <1>8
            <4>2. \A e \in Entries, d \in Callers : Loader(d, e)' <=> (Loader(d, e) \/ (d = c /\ e = e0))
                BY <3>6
            <4> QED
                BY <1>2, <3>1, <3>2, <3>5, <4>1, <4>2 DEF OneLoad
        <3> QED
            BY <3>6, <3>7
    <2> QED
        BY <1>8, <2>1, <2>2, <2>3 DEF Decide
<1> QED
    BY <1>10, <1>7, <1>8

(***************************************************************************)
(* The theorems.                                                           *)
(***************************************************************************)

LEMMA NextCorrect == IInv /\ [Next]_vars => IInv'
<1> SUFFICES ASSUME IInv, [Next]_vars PROVE IInv'
    OBVIOUS
<1>1. CASE UNCHANGED vars
    <2>1. now' \in Nat
        BY <1>1 DEF vars, IInv, Typed
    <2> QED
        BY <1>1, <2>1, ClockCorrect DEF vars, cacheVars
<1>2. ASSUME NEW c \in Callers, CallerStep(c)
      PROVE  IInv'
    BY <1>2, WakeCorrect, LoadReadsCorrect, LoadReturnsCorrect, LoadRaisesCorrect DEF CallerStep
<1>3. ASSUME NEW c \in Callers, NEW k \in Keys, NEW force \in BOOLEAN, Get(c, k, force)
      PROVE  IInv'
    BY <1>3, GetCorrect
<1>4. ASSUME NEW e \in Entries, TaskStep(e)
      PROVE  IInv'
    BY <1>4, RefreshStartsCorrect, RefreshReadsCorrect, RefreshReturnsCorrect, RefreshRaisesCorrect
       DEF TaskStep
<1>5. ASSUME NEW matching \in SUBSET Keys, Invalidate(matching)
      PROVE  IInv'
    BY <1>5, InvalidateCorrect
<1>6. CASE Clear
    <2>1. Shrinks
        BY <1>6, DropShrinks DEF Clear, IInv
    <2> QED
        BY <1>6, <2>1, DropCorrect DEF Clear
<1>7. CASE Close
    <2>1. now' \in Nat
        BY <1>7 DEF Close, IInv, Typed
    <2> QED
        BY <1>7, <2>1, ClockCorrect DEF Close, cacheVars
<1>8. CASE Closed
    <2>1. Shrinks
        BY <1>8, DropShrinks DEF Closed, IInv
    <2> QED
        BY <1>8, <2>1, DropCorrect DEF Closed
<1>9. CASE Tick
    <2>1. now' \in Nat
        BY <1>9 DEF Tick, IInv, Typed
    <2> QED
        BY <1>9, <2>1, ClockCorrect DEF Tick, cacheVars
<1>10. ASSUME NEW k \in Keys, Change(k)
       PROVE  IInv'
    BY <1>10, ChangeCorrect
<1> QED
    BY <1>1, <1>2, <1>3, <1>4, <1>5, <1>6, <1>7, <1>8, <1>9, <1>10 DEF Next

LEMMA LoadsCounted ==
    ASSUME IInv
    PROVE  OneLoadPerEntry
<1> SUFFICES ASSUME NEW e \in Entries
             PROVE  Cardinality(LoadersOf(e)) + (IF task[e].at = "none" THEN 0 ELSE 1)
                        = (IF entry[e].refreshing THEN 1 ELSE 0)
    BY DEF OneLoadPerEntry
<1>1. \A c \in Callers : c \in LoadersOf(e) <=> Loader(c, e)
    BY DEF LoadersOf, Loader
<1>2. LoadersOf(e) \subseteq Callers
    BY DEF LoadersOf
<1>3. CASE \E c \in Callers : Loader(c, e)
    <2>1. PICK c \in Callers : Loader(c, e)
        BY <1>3
    <2>2. LoadersOf(e) = {c}
        BY <1>1, <1>2, <2>1 DEF IInv, OneLoad
    <2>3. Cardinality(LoadersOf(e)) = 1
        BY <2>2, FS_Singleton
    <2> QED
        BY <2>1, <2>3 DEF IInv, OneLoad
<1>4. CASE ~\E c \in Callers : Loader(c, e)
    <2>1. LoadersOf(e) = {}
        BY <1>1, <1>2, <1>4
    <2>2. Cardinality(LoadersOf(e)) = 0
        BY <2>1, FS_EmptySet
    <2> QED
        BY <1>4, <2>2 DEF IInv, OneLoad
<1> QED
    BY <1>3, <1>4

\* An entry marked as refreshing has one load behind it and any other none,
\* for every policy: no caller waits for a load that ended, and no two loads
\* race to fill one entry.
THEOREM LoadedOnce == Spec => []OneLoadPerEntry
BY InitCorrect, NextCorrect, LoadsCounted, PTL DEF Spec

\* A call made after an invalidation is never answered with data loaded before
\* it, whichever flights, refreshes and evictions are under way.
THEOREM InvalidationIsFinal == Spec => []InvalidationHolds
<1>1. IInv => InvalidationHolds
    BY DEF IInv
<1> QED
    BY <1>1, InitCorrect, NextCorrect, PTL DEF Spec

(***************************************************************************)
(* What is cached for a key only gets newer.  A load that has read holds a *)
(* version no older than its entry's value, and no newer than the source;  *)
(* no other load is behind the entry meanwhile.                            *)
(***************************************************************************)

\* The entry is about to get a version from a load that has read it.
Read(e, v) ==
    \/ \E c \in Callers : call[c].entry = e /\ call[c].at = "loaded" /\ call[c].read = v
    \/ task[e].at = "read" /\ task[e].read = v
Newest ==
    \A e \in Entries, k \in Keys : Uses(e, k) =>
        /\ entry[e].value <= source[k]
        /\ \A v \in Int : Read(e, v) => entry[e].value <= v /\ v <= source[k]

\* What a step may do to an entry somebody uses afterwards: it is new; or its
\* value stays and a load may read; or it gets what its load had read.
Moves(e, k) ==
    \/ /\ entry'[e].value = Missing /\ \A v \in Int : ~Read(e, v)'
       /\ \A j \in Keys : slot[j] # e
    \/ /\ Uses(e, k) /\ entry'[e].value = entry[e].value
       /\ \A v \in Int : Read(e, v)' => Read(e, v) \/ v = source[k]
    \/ /\ Uses(e, k) /\ Read(e, entry'[e].value) /\ \A v \in Int : ~Read(e, v)'
AllMove == \A e \in Entries, k \in Keys : Uses(e, k)' => Moves(e, k)

LEMMA NewestKept ==
    ASSUME Typed, Typed', Newest, AllMove, \A k \in Keys : source'[k] >= source[k]
    PROVE  Newest'
<1> SUFFICES ASSUME NEW e \in Entries, NEW k \in Keys, Uses(e, k)'
             PROVE  /\ entry'[e].value <= source'[k]
                    /\ \A v \in Int : Read(e, v)' => entry'[e].value <= v /\ v <= source'[k]
    BY DEF Newest
<1>1. /\ source[k] \in Nat /\ source'[k] \in Nat /\ source'[k] >= source[k]
      /\ entry[e].value \in Int /\ entry'[e].value \in Int
    BY Fields DEF Typed, EntryType, Value, Versions, Missing
<1>2. Moves(e, k)
    BY DEF AllMove
<1>3. CASE entry'[e].value = Missing /\ \A v \in Int : ~Read(e, v)'
    BY <1>1, <1>3 DEF Missing
<1>4. CASE /\ Uses(e, k) /\ entry'[e].value = entry[e].value
           /\ \A v \in Int : Read(e, v)' => Read(e, v) \/ v = source[k]
    BY <1>1, <1>4 DEF Newest
<1>5. CASE Uses(e, k) /\ Read(e, entry'[e].value) /\ \A v \in Int : ~Read(e, v)'
    BY <1>1, <1>5 DEF Newest
<1> QED
    BY <1>2, <1>3, <1>4, <1>5 DEF Moves

\* A step that starts no load and finishes none, and lets nobody join.
LEMMA QuietMoves ==
    ASSUME Shrinks, UNCHANGED <<entry, task, call>>
    PROVE  AllMove
BY DEF AllMove, Moves, Uses, Read, Shrinks

LEMMA CallerMoves ==
    ASSUME IInv, IInv', NEW c \in Callers, CallerStep(c)
    PROVE  AllMove
<1> USE DEF IInv
<1>0. PICK e0 \in Entries, k0 \in Keys : e0 = call[c].entry /\ k0 = call[c].key
    BY DEF CallerStep, Wake, LoadReads, LoadReturns, LoadRaises, Threads
<1>1. \A d \in Callers : d # c => call'[d] = call[d]
    BY DEF CallerStep, Wake, LoadReads, LoadReturns, LoadRaises, Serve, Typed
<1>2. Shrinks
    BY SettleShrinks DEF CallerStep, Wake, LoadReads, LoadReturns, LoadRaises, Shrinks, Typed, cacheVars
<1>3. task' = task
    BY DEF CallerStep, Wake, LoadReads, LoadReturns, LoadRaises
<1>4. call'[c].entry = NoEntry \/ (call'[c].entry = e0 /\ call'[c].key = k0)
    <2>0. CASE LoadReads(c)
        <3>1. call' = [call EXCEPT ![c] = [call[c] EXCEPT !.at = "loaded", !.read = source[call[c].key]]]
            BY <2>0 DEF LoadReads
        <3>2. call[c] \in CallType /\ call \in [Callers -> CallType]
            BY Fields DEF Typed
        <3> QED
            BY <1>0, <3>1, <3>2 DEF CallType
    <2>1. call[c] \in CallType /\ call \in [Callers -> CallType] /\ AtRest.entry = NoEntry
        BY Fields DEF Typed, AtRest
    <2>2. CASE call' = [call EXCEPT ![c] = AtRest]
        BY <2>1, <2>2
    <2>3. CASE call' = [call EXCEPT ![c].at = "loading"]
        BY <1>0, <2>1, <2>3 DEF CallType
    <2> QED
        BY <2>0, <2>2, <2>3 DEF CallerStep, Wake, LoadReads, LoadReturns, LoadRaises, Serve
<1>5. \A e \in Entries, k \in Keys : Uses(e, k)' => Uses(e, k)
    BY <1>0, <1>1, <1>2, <1>3, <1>4 DEF Uses, Shrinks
<1>6. Uses(e0, k0) /\ \A k \in Keys : Uses(e0, k) => k = k0
    BY <1>0 DEF OneKey, Uses
<1>7. CASE LoadReads(c)
    <2>1. entry' = entry /\ call'[c].entry = e0 /\ call'[c].read = source[k0]
        BY <1>0, <1>7, Fields DEF LoadReads, cacheVars, Typed, CallType
    <2>2. ASSUME NEW e \in Entries, NEW v \in Int, Read(e, v)'
          PROVE  Read(e, v) \/ (e = e0 /\ v = source[k0])
        BY <1>1, <1>3, <2>1, <2>2 DEF Read
    <2> QED
        BY <1>5, <1>6, <2>1, <2>2 DEF AllMove, Moves
<1>8. CASE LoadReturns(c)
    <2>1. call[c].at = "loaded" /\ call'[c].entry = NoEntry
        BY <1>8 DEF LoadReturns, Serve, AtRest, Typed
    <2>2. entry'[e0].value = call[c].read /\ \A e \in Entries : e # e0 => entry'[e] = entry[e]
        BY <1>0, <1>8 DEF LoadReturns, Succeeded, Typed
    <2>3. Read(e0, entry'[e0].value)
        BY <1>0, <2>1, <2>2 DEF Read
    <2>4. \A v \in Int : ~Read(e0, v)'
        <3>1. Loader(c, e0)
            BY <1>0, <2>1 DEF Loader, Loads
        <3>2. task[e0].at = "none" /\ \A d \in Callers : d # c => ~Loader(d, e0)
            BY <1>0, <3>1 DEF OneLoad
        <3> QED
            <4>1. \A d \in Callers : ~(call'[d].entry = e0 /\ call'[d].at = "loaded")
                BY <1>0, <1>1, <2>1, <3>2 DEF Loader, Loads
            <4> QED
                BY <1>3, <3>2, <4>1 DEF Read
    <2>5. \A e \in Entries, v \in Int : e # e0 /\ Read(e, v)' => Read(e, v)
        BY <1>1, <1>3, <2>1 DEF Read
    <2>6. ASSUME NEW e \in Entries, NEW k \in Keys, Uses(e, k)'
          PROVE  Moves(e, k)
        <3>1. CASE e = e0
            BY <1>5, <2>3, <2>4, <2>6, <3>1 DEF Moves
        <3>2. CASE e # e0
            BY <1>5, <2>2, <2>5, <2>6, <3>2 DEF Moves
        <3> QED
            BY <3>1, <3>2
    <2> QED
        BY <2>6 DEF AllMove
<1>9. CASE LoadRaises(c) \/ Wake(c)
    <2>1. \A e \in Entries : entry'[e].value = entry[e].value
        <3>1. LoadRaises(c) => entry' = Failed(e0)
            BY <1>0 DEF LoadRaises
        <3>2. Wake(c) => entry' = entry \/ entry' = [entry EXCEPT ![e0].refreshing = TRUE]
            BY <1>0 DEF Wake
        <3>3. entry' = [entry EXCEPT ![e0].refreshing = TRUE] => \A e \in Entries : entry'[e].value = entry[e].value
            BY <1>0 DEF Typed, EntryType
        <3> QED
            BY <1>0, <1>9, <3>1, <3>2, <3>3, FailedFields
    <2>2. call'[c].entry = NoEntry \/ call'[c].at = "loading"
        BY <1>9 DEF LoadRaises, Wake, Serve, AtRest, Typed, CallType
    <2>3. \A e \in Entries, v \in Int : Read(e, v)' => Read(e, v)
        BY <1>1, <1>3, <2>2 DEF Read
    <2> QED
        BY <1>5, <2>1, <2>3 DEF AllMove, Moves
<1> QED
    BY <1>7, <1>8, <1>9 DEF CallerStep

LEMMA TaskMoves ==
    ASSUME IInv, IInv', NEW e0 \in Entries, TaskStep(e0)
    PROVE  AllMove
<1> USE DEF IInv
<1>0. PICK k0 \in Keys : k0 = task[e0].key /\ task[e0].at # "none"
    BY DEF TaskStep, RefreshStarts, RefreshReads, RefreshReturns, RefreshRaises, Threads
<1>1. \A e \in Entries : e # e0 => task'[e] = task[e]
    BY DEF TaskStep, RefreshStarts, RefreshReads, RefreshReturns, RefreshRaises, Typed
<1>2. Shrinks
    BY SettleShrinks DEF TaskStep, RefreshStarts, RefreshReads, RefreshReturns, RefreshRaises,
       Shrinks, Typed, cacheVars
<1>3. call' = call
    BY DEF TaskStep, RefreshStarts, RefreshReads, RefreshReturns, RefreshRaises
<1>4. task'[e0].at = "none" \/ task'[e0].key = k0
    <2>1. task[e0] \in TaskType /\ task \in [Entries -> TaskType] /\ NoTask.at = "none"
        BY Fields DEF Typed, NoTask
    <2>2. CASE task' = [task EXCEPT ![e0] = NoTask]
        BY <2>1, <2>2
    <2>3. CASE RefreshStarts(e0)
        <3>1. task' = [task EXCEPT ![e0] = [task[e0] EXCEPT !.at = "running"]]
            BY <2>3 DEF RefreshStarts
        <3> QED
            BY <1>0, <2>1, <3>1 DEF TaskType
    <2>4. CASE RefreshReads(e0)
        <3>1. task' = [task EXCEPT ![e0] = [task[e0] EXCEPT !.at = "read", !.read = source[task[e0].key]]]
            BY <2>4 DEF RefreshReads
        <3> QED
            BY <1>0, <2>1, <3>1 DEF TaskType
    <2> QED
        BY <2>2, <2>3, <2>4 DEF TaskStep, RefreshReturns, RefreshRaises
<1>5. \A e \in Entries, k \in Keys : Uses(e, k)' => Uses(e, k)
    BY <1>0, <1>1, <1>2, <1>3, <1>4 DEF Uses, Shrinks
<1>6. Uses(e0, k0) /\ \A k \in Keys : Uses(e0, k) => k = k0
    BY <1>0 DEF OneKey, Uses
<1>7. CASE RefreshReads(e0) \/ RefreshStarts(e0)
    <2>1. entry' = entry /\ (task'[e0].at = "read" => task'[e0].read = source[k0])
        <3>1. task[e0] \in TaskType /\ task \in [Entries -> TaskType]
            BY Fields DEF Typed
        <3> QED
            BY <1>0, <1>7, <3>1 DEF RefreshReads, RefreshStarts, cacheVars, TaskType
    <2>2. ASSUME NEW e \in Entries, NEW v \in Int, Read(e, v)'
          PROVE  Read(e, v) \/ (e = e0 /\ v = source[k0])
        BY <1>1, <1>3, <2>1, <2>2 DEF Read
    <2> QED
        BY <1>5, <1>6, <2>1, <2>2 DEF AllMove, Moves
<1>8. CASE RefreshReturns(e0)
    <2>1. task[e0].at = "read" /\ task'[e0].at = "none"
        BY <1>8 DEF RefreshReturns, NoTask, Typed
    <2>2. entry'[e0].value = task[e0].read /\ \A e \in Entries : e # e0 => entry'[e] = entry[e]
        BY <1>8 DEF RefreshReturns, Succeeded, Typed
    <2>3. Read(e0, entry'[e0].value)
        BY <2>1, <2>2 DEF Read
    <2>4. \A v \in Int : ~Read(e0, v)'
        <3>1. \A d \in Callers : ~Loader(d, e0)
            BY <2>1 DEF OneLoad
        <3> QED
            BY <1>3, <2>1, <3>1 DEF Read, Loader, Loads
    <2>5. \A e \in Entries, v \in Int : e # e0 /\ Read(e, v)' => Read(e, v)
        BY <1>1, <1>3 DEF Read
    <2> QED
        BY <1>5, <2>2, <2>3, <2>4, <2>5 DEF AllMove, Moves
<1>9. CASE RefreshRaises(e0)
    <2>1. \A e \in Entries : entry'[e].value = entry[e].value
        BY <1>9, FailedFields DEF RefreshRaises
    <2>2. task'[e0].at = "none"
        BY <1>9 DEF RefreshRaises, NoTask, Typed
    <2>3. \A e \in Entries, v \in Int : Read(e, v)' => Read(e, v)
        BY <1>1, <1>3, <2>2 DEF Read
    <2> QED
        BY <1>5, <2>1, <2>3 DEF AllMove, Moves
<1> QED
    BY <1>7, <1>8, <1>9 DEF TaskStep

LEMMA GetMoves ==
    ASSUME IInv, IInv', NEW c \in Callers, NEW k \in Keys, NEW force \in BOOLEAN, Get(c, k, force)
    PROVE  AllMove
<1> USE DEF IInv
<1>0. PICK e0 \in Entries, fields \in EntryType : e0 = EntryOf(k) /\ fields = Before(k, e0)
    <2>1. Empty \in EntryType
        BY DEF EntryType, Empty, Value, Times, Missing
    <2>2. EntryOf(k) \in Entries
        BY TouchFacts DEF Get
    <2> QED
        BY <2>1, <2>2, Fields DEF Before
<1>1. call[c].at = "idle" /\ Touch(k) /\ (slot[k] # NoEntry \/ Spare # {})
    BY DEF Get
<1>2. JoinFlight(c, k, e0, force) \/ (~fields.refreshing /\ Decide(c, k, e0, force, floor[k], fields))
    BY <1>0 DEF Get
<1>3. /\ \A j \in Keys : slot'[j] \in {slot[j], NoEntry} \/ (j = k /\ slot'[j] = e0)
      /\ \A j \in Keys : Uses(e0, j) => j = k
      /\ slot[k] # NoEntry => e0 = slot[k]
      /\ slot[k] = NoEntry => /\ task[e0].at = "none"
                              /\ \A d \in Callers : call[d].entry # e0
    BY <1>0, <1>1, TouchFacts
<1>4. /\ slot[k] = NoEntry => fields.value = Missing /\ ~fields.refreshing
      /\ slot[k] # NoEntry => fields = entry[e0]
    BY <1>0 DEF Before, Empty
<1>6. call[c].entry = NoEntry /\ call[c] = AtRest
    BY <1>1 DEF Threads
<1>7. \A e \in Entries, j \in Keys : e # e0 => (slot'[j] = e => slot[j] = e)
    BY <1>3
\* What holds whatever the call decides suffices.
<1>8. ASSUME entry'[e0].value = fields.value, \A e \in Entries : e # e0 => entry'[e] = entry[e],
             \A e \in Entries : e # e0 => task'[e] = task[e],
             task'[e0] = task[e0] \/ (task'[e0].at = "queued" /\ task'[e0].key = k),
             \A d \in Callers : d # c => call'[d] = call[d],
             call'[c] = call[c] \/ (call'[c].entry = e0 /\ call'[c].key = k /\ call'[c].at # "loaded")
      PROVE  AllMove
    <2>1. \A e \in Entries, v \in Int : Read(e, v)' => Read(e, v)
        BY <1>8 DEF Read
    <2>2. ASSUME NEW e \in Entries, NEW j \in Keys, Uses(e, j)', e # e0
          PROVE  Moves(e, j)
        <3>1. Uses(e, j)
            BY <1>7, <1>8, <2>2 DEF Uses
        <3> QED
            BY <1>8, <2>1, <2>2, <3>1 DEF Moves
    <2>3. ASSUME NEW j \in Keys, Uses(e0, j)'
          PROVE  Moves(e0, j)
        <3>1. CASE slot[k] = NoEntry
            <4>1. \A v \in Int : ~Read(e0, v)
                BY <1>3, <3>1 DEF Read
            <4>2. \A i \in Keys : slot[i] # e0
                BY <1>3, <3>1, NoEntryAssumption DEF Uses
            <4> QED
                BY <1>4, <1>8, <2>1, <3>1, <4>1, <4>2 DEF Moves
        <3>2. CASE slot[k] # NoEntry
            <4>1. Uses(e0, k) /\ entry'[e0].value = entry[e0].value
                BY <1>3, <1>4, <1>8, <3>2 DEF Uses
            <4>2. j = k
                <5>1. slot'[j] = e0 => slot[j] = e0 \/ j = k
                    BY <1>3
                <5>2. \A d \in Callers : call'[d].entry = e0 /\ call'[d].key = j =>
                            (call[d].entry = e0 /\ call[d].key = j) \/ j = k
                    BY <1>8
                <5>3. task'[e0].at # "none" /\ task'[e0].key = j =>
                            (task[e0].at # "none" /\ task[e0].key = j) \/ j = k
                    BY <1>8
                <5>4. Uses(e0, j) \/ j = k
                    BY <2>3, <5>1, <5>2, <5>3 DEF Uses
                <5> QED
                    BY <1>3, <5>4
            <4> QED
                BY <2>1, <4>1, <4>2 DEF Moves
        <3> QED
            BY <3>1, <3>2
    <2> QED
        BY <2>2, <2>3 DEF AllMove
<1>9. CASE JoinFlight(c, k, e0, force)
    <2>1. slot[k] # NoEntry /\ UNCHANGED <<entry, task>>
        BY <1>0, <1>4, <1>9 DEF JoinFlight
    <2> DEFINE waiting == [AtRest EXCEPT !.at = "waiting", !.key = k, !.entry = e0,
                                         !.force = force, !.floor = floor[k]]
    <2>2. call' = [call EXCEPT ![c] = AtRest] \/ call' = [call EXCEPT ![c] = waiting]
        BY <1>9 DEF JoinFlight, Serve
    <2>3. waiting.at = "waiting" /\ waiting.key = k /\ waiting.entry = e0
        BY DEF AtRest
    <2> HIDE DEF waiting
    <2>4. /\ \A d \in Callers : d # c => call'[d] = call[d]
          /\ call'[c] = call[c] \/ call'[c] = waiting
        BY <1>6, <2>2 DEF Typed
    <2>5. entry'[e0].value = fields.value
        BY <1>3, <1>4, <2>1
    <2> QED
        BY <1>8, <2>1, <2>3, <2>4, <2>5
<1>10. CASE Decide(c, k, e0, force, floor[k], fields)
    <2> DEFINE busy == [fields EXCEPT !.refreshing = TRUE]
    <2>1. busy.value = fields.value
        BY DEF EntryType
    <2>2. entry' = [entry EXCEPT ![e0] = fields] \/ entry' = [entry EXCEPT ![e0] = busy]
        BY <1>10 DEF Decide
    <2> HIDE DEF busy
    <2>3. entry'[e0].value = fields.value /\ \A e \in Entries : e # e0 => entry'[e] = entry[e]
        BY <1>3, <2>1, <2>2 DEF Typed
    <2> DEFINE queued == [NoTask EXCEPT !.at = "queued", !.key = k]
               loading == [AtRest EXCEPT !.at = "loading", !.key = k, !.entry = e0,
                                         !.force = force, !.floor = floor[k]]
    <2>4. task' = task \/ task' = [task EXCEPT ![e0] = queued]
        BY <1>10 DEF Decide
    <2>5. call' = [call EXCEPT ![c] = AtRest] \/ call' = [call EXCEPT ![c] = loading]
        BY <1>10 DEF Decide, Serve
    <2>6. /\ queued.at = "queued" /\ queued.key = k
          /\ loading.at = "loading" /\ loading.key = k /\ loading.entry = e0
        BY DEF NoTask, AtRest
    <2> HIDE DEF queued, loading
    <2>7. /\ \A e \in Entries : e # e0 => task'[e] = task[e]
          /\ task'[e0] = task[e0] \/ task'[e0] = queued
        BY <2>4 DEF Typed
    <2>8. /\ \A d \in Callers : d # c => call'[d] = call[d]
          /\ call'[c] = call[c] \/ call'[c] = loading
        BY <1>6, <2>5 DEF Typed
    <2> QED
        BY <1>8, <2>3, <2>6, <2>7, <2>8
<1> QED
    BY <1>2, <1>9, <1>10

LEMMA NextMoves ==
    ASSUME IInv, IInv', [Next]_vars
    PROVE  AllMove /\ \A k \in Keys : source'[k] >= source[k]
<1> USE DEF IInv
<1>1. ASSUME UNCHANGED vars \/ Close \/ Tick \/ \E k \in Keys : Change(k)
      PROVE  AllMove
    <2>1. UNCHANGED <<slot, entry, task, call>>
        BY <1>1 DEF vars, cacheVars, Close, Tick, Change
    <2> QED
        BY <2>1, QuietMoves DEF Shrinks, Typed
<1>2. ASSUME Clear \/ Closed \/ \E matching \in SUBSET Keys : Invalidate(matching)
      PROVE  AllMove
    <2>1. Shrinks /\ UNCHANGED <<entry, task, call>>
        BY <1>2, DropShrinks DEF Clear, Closed, Invalidate
    <2> QED
        BY <2>1, QuietMoves
<1>3. AllMove
    BY <1>1, <1>2, CallerMoves, TaskMoves, GetMoves DEF Next
<1>4. \A k \in Keys : source[k] \in Nat /\ (source' = source \/ \E j \in Keys : source' = [source EXCEPT ![j] = @ + 1])
    BY Fields DEF Next, vars, CallerStep, Wake, LoadReads, LoadReturns, LoadRaises, Get, TaskStep,
       RefreshStarts, RefreshReads, RefreshReturns, RefreshRaises, Invalidate, Clear, Close, Closed,
       Tick, Change
<1> QED
    BY <1>3, <1>4 DEF Typed

LEMMA NewestInit == Init => Newest
BY DEF Init, Newest, Uses, AtRest, NoTask

LEMMA NewestHolds == Spec => [](IInv /\ Newest)
<1>1. IInv /\ Newest /\ [Next]_vars => Newest'
    BY NextCorrect, NextMoves, NewestKept DEF IInv
<1> QED
    BY <1>1, InitCorrect, NewestInit, NextCorrect, PTL DEF Spec

\* What is cached for a key is only ever replaced by something newer: no load
\* that read the source earlier settles after one that read it later.
THEOREM OnlyNewer == Spec => NeverOlder
<1>1. ASSUME IInv, Newest, [Next]_vars, IInv', NEW k \in Keys, slot[k] # NoEntry, slot'[k] = slot[k]
      PROVE  entry'[slot[k]].value >= entry[slot[k]].value
    <2>1. slot[k] \in Entries /\ Uses(slot[k], k) /\ Uses(slot[k], k)'
        BY <1>1, Fields DEF IInv, Uses
    <2>2. Moves(slot[k], k)
        BY <1>1, <2>1, NextMoves DEF AllMove
    <2>3. entry[slot[k]].value \in Int /\ entry'[slot[k]].value \in Int
        BY <1>1, <2>1 DEF IInv, Typed, EntryType, Value, Versions, Missing
    <2> QED
        BY <1>1, <2>1, <2>2, <2>3 DEF Moves, Newest
<1>2. IInv /\ Newest /\ [Next]_vars /\ IInv' =>
        [\A k \in Keys : (slot[k] # NoEntry /\ slot'[k] = slot[k])
          => entry'[slot[k]].value >= entry[slot[k]].value]_vars
    BY <1>1
<1> QED
    BY <1>2, NewestHolds, PTL DEF Spec, NeverOlder

(***************************************************************************)
(* Eviction.  The cache is within its capacity whenever the lock is free:  *)
(* a key that is inserted has no load yet, so there is a victim.  What a   *)
(* settled load would evict is therefore nothing, and no key whose load is *)
(* in flight is ever a victim.                                             *)
(***************************************************************************)

Capacity == IsFiniteSet(Cached) /\ Cardinality(Cached) <= MaxEntries
Orders(older, S) ==
    /\ older \in SUBSET (S \X S)
    /\ \A k \in S : <<k, k>> \notin older
    /\ \A i, j, k \in S : <<i, j>> \in older /\ <<j, k>> \in older => <<i, k>> \in older
UsedBefore == Orders(order, Cached)

LEMMA LeastNat ==
    ASSUME NEW N \in SUBSET Nat, N # {}
    PROVE  \E n \in N : \A m \in N : n <= m
<1>1. PICK n \in N : \A m \in N : ~(<<m, n>> \in OpToRel(<, Nat))
    BY NatLessThanWellFounded, WFMin
<1>2. ASSUME NEW m \in N, m < n
      PROVE  FALSE
    <2>1. m \in Nat /\ n \in Nat
        OBVIOUS
    <2>2. <<m, n>> \in OpToRel(<, Nat)
        BY <1>2, <2>1 DEF OpToRel
    <2> QED
        BY <1>1, <2>2
<1> QED
    BY <1>2

\* Of finitely many keys one was used before all others.
LEMMA LeastRecent ==
    ASSUME NEW T, NEW older, Orders(older, T),
           NEW S \in SUBSET T, IsFiniteSet(S), S # {}
    PROVE  \E k \in S : \A j \in S : <<j, k>> \notin older
<1> DEFINE earlier(k) == {j \in S : <<j, k>> \in older}
           sizes == {Cardinality(earlier(k)) : k \in S}
<1>1. ASSUME NEW k \in S
      PROVE  IsFiniteSet(earlier(k)) /\ Cardinality(earlier(k)) \in Nat
    <2>1. earlier(k) \in SUBSET S
        OBVIOUS
    <2> HIDE DEF earlier
    <2> QED
        BY <2>1, FS_Subset, FS_CardinalityType
<1>2. sizes \subseteq Nat /\ sizes # {}
    <2> HIDE DEF earlier
    <2> QED
        BY <1>1
<1>3. PICK n \in sizes : \A m \in sizes : n <= m
    <2> HIDE DEF sizes
    <2> QED
        BY <1>2, LeastNat
<1>4. PICK k \in S : n = Cardinality(earlier(k))
    OBVIOUS
<1>5. ASSUME NEW j \in S, <<j, k>> \in older
      PROVE  FALSE
    <2>1. earlier(j) \in SUBSET earlier(k) /\ j \in earlier(k) /\ j \notin earlier(j)
        BY <1>5 DEF Orders
    <2> HIDE DEF earlier
    <2>2. Cardinality(earlier(j)) < Cardinality(earlier(k))
        BY <1>1, <2>1, FS_Subset
    <2>3. Cardinality(earlier(j)) \in sizes
        OBVIOUS
    <2> QED
        BY <1>1, <1>2, <1>3, <1>4, <2>2, <2>3
<1> QED
    BY <1>5

\* The order is one whatever is moved to its end and whatever is taken out.
LEMMA StillUsedBefore ==
    ASSUME UsedBefore, NEW k
    PROVE  Orders(MovedToEnd(k), Cached \union {k})
<1> DEFINE S == Cached \union {k}
<1>1. \A i, j \in S : <<i, j>> \in MovedToEnd(k) <=>
          \/ i # k /\ j # k /\ <<i, j>> \in order
          \/ i # k /\ j = k
    BY DEF MovedToEnd
<1>2. MovedToEnd(k) \in SUBSET (S \X S)
    BY DEF MovedToEnd, UsedBefore, Orders
<1>3. \A i, j, m \in S : <<i, j>> \in order /\ <<j, m>> \in order => <<i, m>> \in order
    BY DEF UsedBefore, Orders
<1>4. \A i \in S : i # k => <<i, i>> \notin order
    BY DEF UsedBefore, Orders
<1> HIDE DEF S
<1> QED
    BY <1>1, <1>2, <1>3, <1>4 DEF Orders, S

LEMMA StillAmong ==
    ASSUME NEW older, NEW S, NEW gone, Orders(older, S),
           order' = Among(older, gone), Cached' = S \ gone
    PROVE  UsedBefore'
BY DEF UsedBefore, Orders, Among

LEMMA TouchEvicts ==
    ASSUME Typed, Capacity, UsedBefore, NEW k \in Keys, EntryOf(k) \in Entries, Touch(k)
    PROVE  Capacity' /\ UsedBefore' /\ \A j \in Busy : slot'[j] = slot[j]
<1> DEFINE gone == IF slot[k] = NoEntry
                   THEN Victim(Cached \union {k}, MovedToEnd(k), Busy) ELSE {}
<1>1. /\ order' = Among(MovedToEnd(k), gone)
      /\ slot' = [j \in Keys |-> IF j \in gone THEN NoEntry
                                 ELSE IF j = k THEN EntryOf(k) ELSE slot[j]]
    BY DEF Touch
<1>2. gone \subseteq Keys \ Busy
    BY DEF Victim, Cached
<1>3. slot[k] # NoEntry => gone = {} /\ EntryOf(k) = slot[k]
    BY DEF EntryOf
<1>4. slot[k] = NoEntry => k \notin Busy /\ gone = Victim(Cached \union {k}, MovedToEnd(k), Busy)
    BY DEF Busy
<1> HIDE DEF gone
<1>6. \A j \in Busy : slot'[j] = slot[j]
    BY <1>1, <1>2, <1>3, <1>4 DEF Busy
<1>7. Cached' = (Cached \union {k}) \ gone
    BY <1>1 DEF Cached
<1>5. UsedBefore'
    BY <1>1, <1>7, StillUsedBefore, StillAmong
<1>8. Capacity'
    <2>1. CASE slot[k] # NoEntry
        <3>1. Cached' = Cached
            BY <1>3, <1>7, <2>1 DEF Cached
        <3> QED
            BY <3>1 DEF Capacity
    <2>2. CASE slot[k] = NoEntry
        <3> DEFINE keys == Cached \union {k}
        <3>1. IsFiniteSet(keys) /\ Cardinality(keys) = Cardinality(Cached) + 1
            BY <2>2, FS_AddElement DEF Capacity, Cached
        <3>2. CASE Cardinality(keys) <= MaxEntries
            <4>1. gone = {}
                BY <1>4, <2>2, <3>1, <3>2, FS_CardinalityType DEF Victim, Capacity
            <4> QED
                BY <1>7, <3>1, <3>2, <4>1 DEF Capacity
        <3>3. CASE Cardinality(keys) > MaxEntries
            <4>1. IsFiniteSet(keys \ Busy) /\ keys \ Busy # {} /\ keys \ Busy \in SUBSET keys
                BY <1>4, <2>2, <3>1, FS_Subset
            <4>6. Orders(MovedToEnd(k), keys)
                BY StillUsedBefore
            <4>2. PICK v \in keys \ Busy : \A j \in keys \ Busy : <<j, v>> \notin MovedToEnd(k)
                BY <4>1, <4>6, LeastRecent
            <4>3. v \in gone
                BY <1>4, <2>2, <3>3, <4>2 DEF Victim
            <4>4. IsFiniteSet(keys \ {v}) /\ Cardinality(keys \ {v}) = Cardinality(Cached)
                <5>1. IsFiniteSet(keys \ {v}) /\ Cardinality(keys \ {v}) = Cardinality(keys) - 1
                    <6> HIDE DEF keys
                    <6> QED
                        BY <3>1, <4>2, FS_RemoveElement
                <5>2. Cardinality(Cached) \in Nat
                    BY FS_CardinalityType DEF Capacity
                <5> HIDE DEF keys
                <5> QED
                    BY <3>1, <5>1, <5>2
            <4>5. Cached' \in SUBSET (keys \ {v})
                BY <1>7, <4>3
            <4> QED
                BY <4>4, <4>5, FS_Subset, FS_CardinalityType DEF Capacity
        <3> QED
            BY <3>1, <3>2, <3>3, FS_CardinalityType DEF Capacity
    <2> QED
        BY <2>1, <2>2
<1> QED
    BY <1>5, <1>6, <1>8

LEMMA SettleEvicts ==
    ASSUME Typed, Capacity, UsedBefore, NEW k \in Keys, NEW e \in Entries, Settle(k, e)
    PROVE  UsedBefore' /\ slot' = slot
<1> DEFINE older == IF slot[k] = e THEN MovedToEnd(k) ELSE order
           gone == Victim(Cached, older, Busy \ {j \in Keys : slot[j] = e})
<1>1. order' = Among(older, gone) /\ slot' = [j \in Keys |-> IF j \in gone THEN NoEntry ELSE slot[j]]
    BY DEF Settle
<1>2. gone = {}
    BY FS_CardinalityType DEF Victim, Capacity
<1>3. Orders(older, Cached)
    <2>1. CASE slot[k] = e
        <3>1. Cached \union {k} = Cached
            BY <2>1, NoEntryAssumption DEF Cached
        <3> QED
            BY <2>1, <3>1, StillUsedBefore
    <2> QED
        BY <2>1 DEF UsedBefore
<1> HIDE DEF older, gone
<1>4. slot' = slot
    BY <1>1, <1>2 DEF Typed
<1> QED
    BY <1>1, <1>2, <1>3, <1>4, StillAmong DEF Cached

LEMMA DropEvicts ==
    ASSUME Typed, Capacity, UsedBefore, NEW gone, Drop(gone)
    PROVE  Capacity' /\ UsedBefore' /\ \A j \in Keys : j \notin gone => slot'[j] = slot[j]
<1>1. UsedBefore'
    <2>1. order' = Among(order, gone) /\ Cached' = Cached \ gone
        BY DEF Drop, Cached
    <2> QED
        BY <2>1, StillAmong DEF UsedBefore
<1>2. Cached' \in SUBSET Cached /\ \A j \in Keys : j \notin gone => slot'[j] = slot[j]
    BY DEF Drop, Cached
<1> QED
    BY <1>1, <1>2, FS_Subset, FS_CardinalityType DEF Capacity

LEMMA EvictStep ==
    ASSUME IInv, Capacity, UsedBefore, [Next]_vars
    PROVE  /\ Capacity' /\ UsedBefore'
           /\ \A k \in Busy : slot'[k] = slot[k] \/ floor'[k] # floor[k]
<1> USE DEF IInv
<1> DEFINE Goal == /\ Capacity' /\ UsedBefore'
                   /\ \A k \in Busy : slot'[k] = slot[k] \/ floor'[k] # floor[k]
<1>1. CASE UNCHANGED <<slot, order>>
    BY <1>1 DEF Capacity, Cached, UsedBefore, Orders
<1>2. ASSUME NEW c \in Callers, CallerStep(c)
      PROVE  Goal
    <2>1. CASE LoadReturns(c)
        <3>1. call[c].key \in Keys /\ call[c].entry \in Entries /\ Settle(call[c].key, call[c].entry)
            BY <2>1 DEF LoadReturns, Threads
        <3>2. UsedBefore' /\ slot' = slot
            BY <3>1, SettleEvicts
        <3> QED
            BY <3>2 DEF Capacity, Cached
    <2> QED
        BY <1>1, <1>2, <2>1 DEF CallerStep, Wake, LoadReads, LoadRaises, cacheVars
<1>3. ASSUME NEW e \in Entries, TaskStep(e)
      PROVE  Goal
    <2>1. CASE RefreshReturns(e)
        <3>1. task[e].key \in Keys /\ Settle(task[e].key, e)
            BY <2>1 DEF RefreshReturns, Threads
        <3>2. UsedBefore' /\ slot' = slot
            BY <3>1, SettleEvicts
        <3> QED
            BY <3>2 DEF Capacity, Cached
    <2> QED
        BY <1>1, <1>3, <2>1 DEF TaskStep, RefreshStarts, RefreshReads, RefreshRaises, cacheVars
<1>4. ASSUME NEW c \in Callers, NEW k \in Keys, NEW force \in BOOLEAN, Get(c, k, force)
      PROVE  Goal
    <2>1. Touch(k) /\ EntryOf(k) \in Entries
        BY <1>4, TouchFacts DEF Get
    <2> QED
        BY <2>1, TouchEvicts
<1>5. ASSUME NEW matching \in SUBSET Keys, Invalidate(matching)
      PROVE  Goal
    <2>1. Drop(matching) /\ \A k \in matching : floor'[k] # floor[k]
        <3>1. \A k \in matching : floor[k] < source[k] /\ floor'[k] = source[k]
            BY <1>5 DEF Invalidate
        <3> QED
            BY <1>5, <3>1, Fields DEF Invalidate
    <2> QED
        BY <2>1, DropEvicts DEF Busy
<1>6. CASE Clear \/ Closed
    <2>1. Drop(Keys \ Busy)
        BY <1>6 DEF Clear, Closed
    <2> QED
        BY <2>1, DropEvicts DEF Busy
<1>7. CASE UNCHANGED vars \/ Close \/ Tick \/ \E k \in Keys : Change(k)
    BY <1>1, <1>7 DEF vars, Close, Tick, Change, cacheVars
<1> QED
    BY <1>2, <1>3, <1>4, <1>5, <1>6, <1>7 DEF Next

LEMMA EvictInit == Init => Capacity /\ UsedBefore
<1>1. Init => Cached = {}
    BY DEF Init, Cached
<1> QED
    BY <1>1, FS_EmptySet DEF Init, Capacity, UsedBefore, Orders

LEMMA EvictHolds == Spec => [](IInv /\ Capacity /\ UsedBefore)
BY InitCorrect, EvictInit, NextCorrect, EvictStep, PTL DEF Spec

\* The cache never holds more than `max_entries`, the entries whose loads are
\* in flight included (`_evict_completed`).
THEOREM WithinCapacity == Spec => [](Cardinality(Cached) <= MaxEntries)
<1>1. Capacity => Cardinality(Cached) <= MaxEntries
    BY DEF Capacity
<1> QED
    BY <1>1, EvictHolds, PTL

\* Nothing but an invalidation takes a key out of the cache while its load is
\* in flight: neither eviction, `clear` nor `close` does.
THEOREM FlightsAreKept == Spec => InFlightIsKept
<1>1. IInv /\ Capacity /\ UsedBefore /\ [Next]_vars =>
        [\A k \in Keys : (k \in Busy /\ slot'[k] # slot[k]) => floor'[k] # floor[k]]_vars
    BY EvictStep
<1> QED
    BY <1>1, EvictHolds, PTL DEF Spec, InFlightIsKept

(***************************************************************************)
(* Type correctness.                                                       *)
(***************************************************************************)

Closing == calls \in Nat /\ closer \in BOOLEAN /\ closing \in SUBSET Entries

LEMMA ClosingStep == Closing /\ [Next]_vars => Closing'
<1> SUFFICES ASSUME Closing, [Next]_vars PROVE Closing'
    OBVIOUS
<1> USE DEF Closing
<1>1. CASE UNCHANGED <<calls, closer, closing>>
    BY <1>1
<1>2. ASSUME NEW c \in Callers, CallerStep(c)
      PROVE  Closing'
    BY <1>2 DEF CallerStep, Wake, LoadReads, LoadReturns, LoadRaises, closeVars
<1>3. ASSUME NEW e \in Entries, TaskStep(e)
      PROVE  Closing'
    BY <1>3 DEF TaskStep, RefreshStarts, RefreshReads, RefreshReturns, RefreshRaises, closeVars
<1>4. ASSUME NEW c \in Callers, NEW k \in Keys, NEW force \in BOOLEAN, Get(c, k, force)
      PROVE  Closing'
    <2>1. calls' = calls + 1 /\ closer' = closer /\ closing' = closing
        BY <1>4 DEF Get, closeVars
    <2> QED
        BY <2>1
<1>5. ASSUME NEW matching \in SUBSET Keys, Invalidate(matching)
      PROVE  Closing'
    BY <1>5 DEF Invalidate, closeVars
<1>6. CASE Clear \/ Close \/ Closed \/ Tick \/ UNCHANGED vars \/ \E k \in Keys : Change(k)
    BY <1>6 DEF Clear, Close, Closed, Tick, Change, vars, closeVars
<1> QED
    BY <1>2, <1>3, <1>4, <1>5, <1>6 DEF Next

\* The cache is type-correct for every policy, capacity and set of callers.
THEOREM TypeCorrect == Spec => []TypeOK
<1>1. Init => Closing
    <2> SUFFICES ASSUME calls = 0, closer = FALSE, closing = {} PROVE Closing
        BY DEF Init
    <2> QED
        BY DEF Closing
<1>2. IInv /\ UsedBefore /\ Closing => TypeOK
    <2> SUFFICES ASSUME Typed, UsedBefore, Closing PROVE TypeOK
        BY DEF IInv
    <2>1. now \in Times
        BY DEF Typed, Times
    <2>2. order \in SUBSET (Keys \X Keys)
        BY DEF UsedBefore, Orders, Cached
    <2>3. source \in [Keys -> Versions] /\ floor \in [Keys -> Versions]
        BY DEF Typed, Versions
    <2> QED
        BY <2>1, <2>2, <2>3 DEF Typed, Closing, TypeOK
<1> QED
    BY <1>1, <1>2, ClosingStep, EvictHolds, PTL DEF Spec
============================================================================
