--------------------------- MODULE ResourceCache ---------------------------
(***************************************************************************)
(* `ResourceCache` (app/cache/resources.py): the process-wide cache of     *)
(* provider clients.  One future per key; factories and closes run outside *)
(* the lock, so between two holds of it any other thread may act.          *)
(***************************************************************************)
EXTENDS Integers, Sequences, FiniteSets

CONSTANTS
    Keys, Callers,
    Futures,          \* identities; a future's resource has the same one
    MaxEntries,       \* max_entries
    MaxInvalidations, \* bound: calls of `invalidate` and `close_all`
    MayFail           \* whether factories, and closes of clients, raise

ASSUME CapacityAssumption == MaxEntries \in Nat \ {0} /\ MaxInvalidations \in Nat
ASSUME FailAssumption == MayFail \in BOOLEAN

None == "none"
ASSUME NoneAssumption == None \notin Keys \union Callers \union Futures

VARIABLES
    slot,      \* the cache: key to future
    order,     \* its keys, least recently used first
    future,    \* "unused", "pending", "done" or "failed"
    keyOf,     \* the key a future was created for
    onDone,    \* futures with a close callback, detached while pending
    closes,    \* how often each resource has been closed
    call,      \* where each caller is
    have,      \* the future it created, waits for or uses
    doomed,    \* futures each thread has detached and still has to close
    stranded,  \* futures a thread had detached and gave up on when a close raised
    invalidations

vars == <<slot, order, future, keyOf, onDone, closes, call, have, doomed, stranded,
          invalidations>>
tableVars == <<slot, order>>

Init ==
    /\ slot = [k \in Keys |-> None]
    /\ order = <<>>
    /\ future = [f \in Futures |-> "unused"]
    /\ keyOf = [f \in Futures |-> None]
    /\ onDone = {}
    /\ closes = [f \in Futures |-> 0]
    /\ call = [c \in Callers |-> "idle"]
    /\ have = [c \in Callers |-> None]
    /\ doomed = [c \in Callers |-> {}]
    /\ stranded = {}
    /\ invalidations = 0

Without(k, keys) == SelectSeq(keys, LAMBDA j : j # k)
Done(f) == future[f] \in {"done", "failed"}

\* Keys with a finished future, and those of them less recently used than k.
Finished == {k \in Keys : slot[k] # None /\ Done(slot[k])}
Position(k, keys) == CHOOSE i \in DOMAIN keys : keys[i] = k
Older(k, keys) == {j \in Finished : Position(j, keys) < Position(k, keys)}

\* The keys `_detach_excess_locked` removes: the oldest with a finished
\* future, one at a time, until the cache fits or none is finished.
Excess(keys) == {k \in Finished : Cardinality(Older(k, keys)) < Len(keys) - MaxEntries}

\* A future has no identity a caller could see: which unused one is taken does
\* not matter.
Unused == {f \in Futures : future[f] = "unused"}
NewFuture == CHOOSE f \in Unused : TRUE

Goto(c, label) == call' = [call EXCEPT ![c] = label]

-----------------------------------------------------------------------------
(* `get_or_create`.                                                        *)

\* The first hold of the lock: the key's future, or a new pending one.
Lookup(c, k) ==
    /\ call[c] = "idle"
    /\ order' = Append(Without(k, order), k)
    /\ \/ /\ slot[k] # None
          /\ have' = [have EXCEPT ![c] = slot[k]]
          /\ Goto(c, "waiting")
          /\ UNCHANGED <<slot, future, keyOf>>
       \/ /\ slot[k] = None
          /\ Unused # {}
          /\ slot' = [slot EXCEPT ![k] = NewFuture]
          /\ future' = [future EXCEPT ![NewFuture] = "pending"]
          /\ keyOf' = [keyOf EXCEPT ![NewFuture] = k]
          /\ have' = [have EXCEPT ![c] = NewFuture]
          /\ Goto(c, "creating")
    /\ UNCHANGED <<onDone, closes, doomed, invalidations, stranded>>

\* `future.result()`: the resource, or the creator's exception.
Receive(c) ==
    /\ call[c] = "waiting" /\ Done(have[c])
    /\ \/ future[have[c]] = "done" /\ Goto(c, "using") /\ UNCHANGED have
       \/ future[have[c]] = "failed" /\ Goto(c, "idle") /\ have' = [have EXCEPT ![c] = None]
    /\ UNCHANGED <<tableVars, future, keyOf, onDone, closes, doomed, invalidations, stranded>>

\* Mutant: nobody closes a client detached while it was being created.
CreateWithoutCallback(c) ==
    LET f == have[c] IN
    /\ call[c] = "creating"
    /\ future' = [future EXCEPT ![f] = "done"]
    /\ onDone' = onDone \ {f}
    /\ Goto(c, "settling")
    /\ UNCHANGED <<tableVars, keyOf, closes, have, doomed, invalidations, stranded>>

\* `set_result`: others see the resource from here on, and a callback left
\* by an invalidation closes it at once.
Create(c) ==
    LET f == have[c] IN
    /\ call[c] = "creating"
    /\ future' = [future EXCEPT ![f] = "done"]
    /\ closes' = [closes EXCEPT ![f] = IF f \in onDone THEN @ + 1 ELSE @]
    /\ onDone' = onDone \ {f}
    /\ Goto(c, "settling")
    /\ UNCHANGED <<tableVars, keyOf, have, doomed, invalidations, stranded>>

\* Mutant: the exception does not reach the future.
CreateFailsSilently(c) ==
    /\ call[c] = "creating" /\ MayFail
    /\ Goto(c, "removing")
    /\ UNCHANGED <<tableVars, future, keyOf, onDone, closes, have, doomed, invalidations, stranded>>

\* `set_exception`, and the second hold of the lock on that path.
CreateFails(c) ==
    /\ call[c] = "creating" /\ MayFail
    /\ future' = [future EXCEPT ![have[c]] = "failed"]
    /\ onDone' = onDone \ {have[c]}
    /\ Goto(c, "removing")
    /\ UNCHANGED <<tableVars, keyOf, closes, have, doomed, invalidations, stranded>>

Remove(c) ==
    LET k == keyOf[have[c]] IN
    /\ call[c] = "removing"
    /\ IF slot[k] = have[c]
       THEN slot' = [slot EXCEPT ![k] = None] /\ order' = Without(k, order)
       ELSE UNCHANGED tableVars
    /\ have' = [have EXCEPT ![c] = None]
    /\ Goto(c, "idle")
    /\ UNCHANGED <<future, keyOf, onDone, closes, doomed, invalidations, stranded>>

\* Mutant: excess clients are closed and left in the cache.
SettleWithoutDetaching(c) ==
    LET f == have[c]
        k == keyOf[f]
        keys == IF slot[k] = f THEN Append(Without(k, order), k) ELSE order
        gone == Excess(keys) IN
    /\ call[c] = "settling"
    /\ order' = keys
    /\ doomed' = [doomed EXCEPT ![c] = {slot[j] : j \in gone}]
    /\ Goto(c, "closing")
    /\ UNCHANGED <<slot, future, keyOf, onDone, closes, have, invalidations, stranded>>

\* The second hold of the lock after a success: the key becomes the most
\* recent if still cached, and the cache is cut back to its capacity.
SettleIn(c) ==
    LET f == have[c]
        k == keyOf[f]
        keys == IF slot[k] = f THEN Append(Without(k, order), k) ELSE order
        gone == Excess(keys) IN
    /\ call[c] = "settling"
    /\ order' = SelectSeq(keys, LAMBDA j : j \notin gone)
    /\ slot' = [j \in Keys |-> IF j \in gone THEN None ELSE slot[j]]
    /\ doomed' = [doomed EXCEPT ![c] = {slot[j] : j \in gone}]
    /\ Goto(c, "closing")
    /\ UNCHANGED <<future, keyOf, onDone, closes, have, invalidations, stranded>>

\* `_close_futures` outside the lock, one future at a time.
CloseOne(c, f) ==
    /\ f \in doomed[c]
    /\ doomed' = [doomed EXCEPT ![c] = @ \ {f}]
    /\ closes' = [closes EXCEPT ![f] = IF future[f] = "done" THEN @ + 1 ELSE @]
    /\ onDone' = IF future[f] = "pending" THEN onDone \union {f} ELSE onDone
    /\ UNCHANGED <<tableVars, future, keyOf, call, have, invalidations, stranded>>

\* The client's `close` raises: the loop stops there, and the exception takes
\* the place of the creator's client, or of the invalidation's answer.  (One
\* that a callback calls, in `Create`, raises to nobody.)
CloseRaises(c, f) ==
    /\ MayFail /\ f \in doomed[c] /\ future[f] = "done"
    /\ closes' = [closes EXCEPT ![f] = @ + 1]
    /\ stranded' = stranded \union (doomed[c] \ {f})
    /\ doomed' = [doomed EXCEPT ![c] = {}]
    /\ have' = [have EXCEPT ![c] = None]
    /\ Goto(c, "idle")
    /\ UNCHANGED <<tableVars, future, keyOf, onDone, invalidations>>

Closed(c) ==
    /\ call[c] \in {"closing", "dropping"} /\ doomed[c] = {}
    /\ Goto(c, IF call[c] = "closing" THEN "using" ELSE "idle")
    /\ UNCHANGED <<tableVars, future, keyOf, onDone, closes, have, doomed, invalidations, stranded>>

\* The request is done with the client.
Release(c) ==
    /\ call[c] = "using"
    /\ have' = [have EXCEPT ![c] = None]
    /\ Goto(c, "idle")
    /\ UNCHANGED <<tableVars, future, keyOf, onDone, closes, doomed, invalidations, stranded>>

-----------------------------------------------------------------------------
(* `invalidate` (one key) and `close_all` (every key).                     *)

\* Mutant: the client is closed but stays in the cache.
DetachNothing(c, gone) ==
    /\ call[c] = "idle" /\ gone # {}
    /\ invalidations < MaxInvalidations /\ invalidations' = invalidations + 1
    /\ doomed' = [doomed EXCEPT ![c] = {slot[k] : k \in gone}]
    /\ Goto(c, "dropping")
    /\ UNCHANGED <<tableVars, future, keyOf, onDone, closes, have, stranded>>

Detach(c, gone) ==
    /\ call[c] = "idle" /\ gone # {}
    /\ invalidations < MaxInvalidations /\ invalidations' = invalidations + 1
    /\ slot' = [k \in Keys |-> IF k \in gone THEN None ELSE slot[k]]
    /\ order' = SelectSeq(order, LAMBDA k : k \notin gone)
    /\ doomed' = [doomed EXCEPT ![c] = {slot[k] : k \in gone}]
    /\ Goto(c, "dropping")
    /\ UNCHANGED <<future, keyOf, onDone, closes, have, stranded>>

Cached == {k \in Keys : slot[k] # None}

Invalidate(c) == \E k \in Cached : Detach(c, {k})
CloseAll(c) == Detach(c, Cached)

Step(c) ==
    \/ Receive(c) \/ Create(c) \/ CreateFails(c) \/ Remove(c) \/ SettleIn(c)
    \/ \E f \in Futures : CloseOne(c, f) \/ CloseRaises(c, f)
    \/ Closed(c) \/ Release(c)

Next ==
    \E c \in Callers :
        \/ Step(c) \/ Invalidate(c) \/ CloseAll(c)
        \/ \E k \in Keys : Lookup(c, k)

Spec == Init /\ [][Next]_vars

\* Threads run, and factories and closes return or raise.
FairSpec == Spec /\ \A c \in Callers : WF_vars(Step(c))

-----------------------------------------------------------------------------
TypeOK ==
    /\ slot \in [Keys -> Futures \union {None}]
    /\ order \in Seq(Keys)
    /\ future \in [Futures -> {"unused", "pending", "done", "failed"}]
    /\ keyOf \in [Futures -> Keys \union {None}]
    /\ onDone \in SUBSET Futures
    /\ closes \in [Futures -> Nat]
    /\ call \in [Callers -> {"idle", "waiting", "creating", "settling", "removing",
                             "closing", "dropping", "using"}]
    /\ have \in [Callers -> Futures \union {None}]
    /\ doomed \in [Callers -> SUBSET Futures]
    /\ stranded \in SUBSET Futures
    /\ invalidations \in Nat

\* A client is closed at most once, by whichever thread detached it or by its
\* creator, however detaching, finishing and closing interleave.
ClosedOnce == \A f \in Futures : closes[f] <= 1

\* No client that was created is lost with its connections open: it is in the
\* cache, or closed, or a thread is about to close it.  The one exception is a
\* client detached together with another whose `close` raised first.
NoneLeaks ==
    \A f \in Futures :
        future[f] = "done" /\ closes[f] = 0 =>
            \/ slot[keyOf[f]] = f
            \/ \E c \in Callers : f \in doomed[c]
            \/ f \in stranded

\* What the cache hands out from now on is open.
CachedIsOpen == \A k \in Keys : slot[k] # None => closes[slot[k]] = 0

\* Every thread that looks a client up gets one or an exception.
LookupsEnd == \A c \in Callers : call[c] = "waiting" ~> call[c] # "waiting"
=============================================================================
