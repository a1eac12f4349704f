------------------------- MODULE ResourceCache_proofs -------------------------
(* Theorems about ResourceCache, for every value of its constants: however    *)
(* many threads, keys and clients, each client is closed at most once, and    *)
(* none is lost with its connections open but those of a list whose closing   *)
(* raised.                                                                    *)
EXTENDS ResourceCache, TLAPS

USE NoneAssumption

(***************************************************************************)
(* The inductive invariant.                                                *)
(***************************************************************************)

Labels == {"idle", "waiting", "creating", "settling", "removing", "closing",
           "dropping", "using"}

\* What is typed regardless of the recency order.
Typed ==
    /\ slot \in [Keys -> Futures \union {None}]
    /\ future \in [Futures -> {"unused", "pending", "done", "failed"}]
    /\ keyOf \in [Futures -> Keys \union {None}]
    /\ onDone \in SUBSET Futures
    /\ closes \in [Futures -> Nat]
    /\ call \in [Callers -> Labels]
    /\ have \in [Callers -> Futures \union {None}]
    /\ doomed \in [Callers -> SUBSET Futures]
    /\ stranded \in SUBSET Futures

\* A future that is cached is cached under its own key.
Keyed == \A k \in Keys : slot[k] # None => keyOf[slot[k]] = k /\ future[slot[k]] # "unused"

InCache(f) == \E k \in Keys : slot[k] = f
InHand(f)  == \E c \in Callers : f \in doomed[c]

\* A client not yet closed has at most one place that will see to it: the
\* cache, one thread about to close it, or the callback its creator runs.
OnePlace ==
    \A f \in Futures :
        /\ InCache(f) => ~InHand(f) /\ f \notin onDone
        /\ InHand(f) => f \notin onDone
        /\ \A b, c \in Callers : f \in doomed[b] /\ f \in doomed[c] => b = c

\* Whatever still has such a place is open, as is everything unfinished; a
\* callback is only left with an unfinished future.
OpenUntilClosed ==
    \A f \in Futures :
        /\ InCache(f) \/ InHand(f) \/ f \in onDone => closes[f] = 0
        /\ future[f] \in {"unused", "pending"} => closes[f] = 0
        /\ future[f] = "unused" => ~InCache(f) /\ ~InHand(f)
        /\ f \in onDone => future[f] = "pending"

\* A client that was or is being created has such a place until it is closed,
\* or until a close that raised left it open.
Placed ==
    \A f \in Futures :
        future[f] \in {"pending", "done"} /\ closes[f] = 0
            => InCache(f) \/ InHand(f) \/ f \in onDone \/ f \in stranded

\* A pending future has one creator; a thread has something to close only
\* while it closes; what is removed from the cache after a failure has failed.
Threads ==
    \A c \in Callers :
        /\ call[c] = "creating" => have[c] \in Futures /\ future[have[c]] = "pending"
        /\ \A b \in Callers :
              call[b] = "creating" /\ call[c] = "creating" /\ have[b] = have[c] => b = c
        /\ call[c] = "removing" => have[c] \in Futures /\ future[have[c]] = "failed"
        /\ call[c] \notin {"closing", "dropping"} => doomed[c] = {}
        /\ call[c] = "settling" => have[c] \in Futures

IInv ==
    /\ Typed /\ Keyed /\ OnePlace /\ OpenUntilClosed /\ Placed /\ Threads
    /\ ClosedOnce

LEMMA InitInv == Init => IInv
<1> SUFFICES ASSUME Init PROVE IInv
  OBVIOUS
<1>1. Typed
  BY DEF Init, Typed, Labels
<1>2. Keyed /\ OnePlace /\ Placed /\ Threads
  BY DEF Init, Keyed, OnePlace, Placed, Threads, InCache, InHand
<1>3. OpenUntilClosed /\ ClosedOnce
  BY DEF Init, OpenUntilClosed, ClosedOnce, InCache, InHand
<1> QED BY <1>1, <1>2, <1>3 DEF IInv

(***************************************************************************)
(* `get_or_create`.                                                        *)
(***************************************************************************)

LEMMA LookupKeeps ==
    ASSUME IInv, NEW c \in Callers, NEW k \in Keys, Lookup(c, k)
    PROVE  IInv'
<1>1. CASE slot[k] # None
  <2>1. /\ UNCHANGED <<slot, future, keyOf, onDone, closes, doomed, stranded>>
        /\ have' = [have EXCEPT ![c] = slot[k]]
        /\ call' = [call EXCEPT ![c] = "waiting"]
    BY <1>1 DEF Lookup, Goto
  <2>2. Typed'
    BY <2>1 DEF IInv, Typed, Labels
  <2>3. Keyed' /\ OnePlace' /\ OpenUntilClosed' /\ Placed' /\ ClosedOnce'
    BY <2>1 DEF IInv, Keyed, OnePlace, OpenUntilClosed, Placed, ClosedOnce, InCache, InHand
  <2>4. Threads'
    BY <2>1 DEF IInv, Typed, Threads, Lookup
  <2> QED BY <2>2, <2>3, <2>4 DEF IInv
<1>2. CASE slot[k] = None
  <2> DEFINE f == NewFuture
  <2>1. f \in Futures /\ future[f] = "unused"
    BY <1>2 DEF Lookup, NewFuture, Unused
  <2>2. /\ slot' = [slot EXCEPT ![k] = f]
        /\ future' = [future EXCEPT ![f] = "pending"]
        /\ keyOf' = [keyOf EXCEPT ![f] = k]
        /\ have' = [have EXCEPT ![c] = f]
        /\ call' = [call EXCEPT ![c] = "creating"]
        /\ UNCHANGED <<onDone, closes, doomed, stranded>>
    BY <1>2 DEF Lookup, Goto
  <2> HIDE DEF f
  <2>3. Typed'
    BY <2>1, <2>2 DEF IInv, Typed, Labels
  <2>4. ~InCache(f) /\ ~InHand(f) /\ f \notin onDone /\ closes[f] = 0
    BY <2>1 DEF IInv, OpenUntilClosed
  <2>5. \A g \in Futures : /\ InCache(g)' <=> InCache(g) \/ g = f
                           /\ InHand(g)' <=> InHand(g)
    BY <1>2, <2>1, <2>2 DEF IInv, Typed, InCache, InHand
  <2>6. Keyed'
    BY <2>1, <2>2, <2>4 DEF IInv, Typed, Keyed, InCache
  <2>7. OnePlace'
    BY <2>2, <2>4, <2>5 DEF IInv, Typed, OnePlace
  <2>8. OpenUntilClosed' /\ Placed' /\ ClosedOnce'
    BY <2>1, <2>2, <2>4, <2>5 DEF IInv, Typed, OpenUntilClosed, Placed, ClosedOnce
  <2>9. Threads'
    BY <2>1, <2>2 DEF IInv, Typed, Threads, Lookup
  <2> QED BY <2>3, <2>6, <2>7, <2>8, <2>9 DEF IInv
<1> QED BY <1>1, <1>2

\* Steps that move one thread on and leave the cache and its futures alone.
LEMMA MovesKeep ==
    ASSUME IInv, NEW c \in Callers, Receive(c) \/ Closed(c) \/ Release(c)
    PROVE  IInv'
<1>1. /\ UNCHANGED <<slot, future, keyOf, onDone, closes, doomed, stranded>>
      /\ \E label \in {"using", "idle"} : call' = [call EXCEPT ![c] = label]
      /\ have' \in [Callers -> Futures \union {None}]
      /\ \A b \in Callers \ {c} : have'[b] = have[b]
      /\ call[c] \in {"waiting", "using"} \/ doomed[c] = {}
  BY DEF IInv, Typed, Receive, Closed, Release, Goto, tableVars
<1>2. Typed'
  <2>1. PICK label \in Labels : call' = [call EXCEPT ![c] = label]
    BY <1>1 DEF Labels
  <2>2. call' \in [Callers -> Labels]
    BY <2>1 DEF IInv, Typed
  <2> QED BY <1>1, <2>2 DEF IInv, Typed
<1>3. Keyed' /\ OnePlace' /\ OpenUntilClosed' /\ Placed' /\ ClosedOnce'
  BY <1>1 DEF IInv, Keyed, OnePlace, OpenUntilClosed, Placed, ClosedOnce, InCache, InHand
<1>4. Threads'
  BY <1>1 DEF IInv, Typed, Threads
<1> QED BY <1>2, <1>3, <1>4 DEF IInv

LEMMA CreateKeeps ==
    ASSUME IInv, NEW c \in Callers, Create(c)
    PROVE  IInv'
<1> DEFINE f == have[c]
<1>1. /\ call[c] = "creating" /\ UNCHANGED <<slot, keyOf, have, doomed, stranded>>
      /\ future' = [future EXCEPT ![f] = "done"]
      /\ closes' = [closes EXCEPT ![f] = IF f \in onDone THEN @ + 1 ELSE @]
      /\ onDone' = onDone \ {f}
      /\ call' = [call EXCEPT ![c] = "settling"]
  BY DEF Create, Goto, tableVars
<1>2. f \in Futures /\ future[f] = "pending" /\ closes[f] = 0
  BY <1>1 DEF IInv, Threads, OpenUntilClosed
<1>3. Typed'
  BY <1>1, <1>2 DEF IInv, Typed, Labels
<1>4. \A g \in Futures : (InCache(g)' <=> InCache(g)) /\ (InHand(g)' <=> InHand(g))
  BY <1>1 DEF InCache, InHand
<1>5. Keyed'
  BY <1>1, <1>2 DEF IInv, Typed, Keyed
<1>6. OnePlace'
  BY <1>1, <1>4 DEF IInv, OnePlace
<1>7. OpenUntilClosed' /\ Placed' /\ ClosedOnce'
  BY <1>1, <1>2, <1>4 DEF IInv, Typed, OnePlace, OpenUntilClosed, Placed, ClosedOnce
<1>8. Threads'
  BY <1>1, <1>2 DEF IInv, Typed, Threads
<1> QED BY <1>3, <1>5, <1>6, <1>7, <1>8 DEF IInv

LEMMA CreateFailsKeeps ==
    ASSUME IInv, NEW c \in Callers, CreateFails(c)
    PROVE  IInv'
<1> DEFINE f == have[c]
<1>1. /\ call[c] = "creating" /\ UNCHANGED <<slot, keyOf, closes, have, doomed, stranded>>
      /\ future' = [future EXCEPT ![f] = "failed"]
      /\ onDone' = onDone \ {f}
      /\ call' = [call EXCEPT ![c] = "removing"]
  BY DEF CreateFails, Goto, tableVars
<1>2. f \in Futures /\ future[f] = "pending" /\ closes[f] = 0
  BY <1>1 DEF IInv, Threads, OpenUntilClosed
<1>3. Typed'
  BY <1>1, <1>2 DEF IInv, Typed, Labels
<1>4. \A g \in Futures : (InCache(g)' <=> InCache(g)) /\ (InHand(g)' <=> InHand(g))
  BY <1>1 DEF InCache, InHand
<1>5. Keyed' /\ OnePlace'
  BY <1>1, <1>2, <1>4 DEF IInv, Typed, Keyed, OnePlace
<1>6. OpenUntilClosed' /\ Placed' /\ ClosedOnce'
  BY <1>1, <1>2, <1>4 DEF IInv, Typed, OpenUntilClosed, Placed, ClosedOnce
<1>7. Threads'
  BY <1>1, <1>2 DEF IInv, Typed, Threads
<1> QED BY <1>3, <1>5, <1>6, <1>7 DEF IInv

LEMMA RemoveKeeps ==
    ASSUME IInv, NEW c \in Callers, Remove(c)
    PROVE  IInv'
<1> DEFINE f == have[c]
<1>1. /\ call[c] = "removing" /\ UNCHANGED <<future, keyOf, onDone, closes, doomed, stranded>>
      /\ slot' = [k \in Keys |-> IF slot[k] = f THEN None ELSE slot[k]]
      /\ have' = [have EXCEPT ![c] = None]
      /\ call' = [call EXCEPT ![c] = "idle"]
  <2>1. call[c] = "removing" /\ f \in Futures
    BY DEF Remove, IInv, Threads
  <2>2. \A k \in Keys : slot[k] = f => k = keyOf[f]
    BY <2>1 DEF IInv, Keyed
  <2>3. slot' = [k \in Keys |-> IF slot[k] = f THEN None ELSE slot[k]]
    BY <2>1, <2>2 DEF Remove, tableVars, IInv, Typed
  <2> QED BY <2>1, <2>3 DEF Remove, Goto
<1>2. f \in Futures /\ future[f] = "failed"
  BY <1>1 DEF IInv, Threads
<1> HIDE DEF f
<1>3. Typed'
  BY <1>1 DEF IInv, Typed, Labels
<1>4. \A g \in Futures : /\ InCache(g)' <=> InCache(g) /\ g # f
                         /\ InHand(g)' <=> InHand(g)
  BY <1>1 DEF IInv, Typed, InCache, InHand
<1>5. Keyed' /\ OnePlace' /\ OpenUntilClosed' /\ Placed' /\ ClosedOnce'
  BY <1>1, <1>2, <1>4 DEF IInv, Keyed, OnePlace, OpenUntilClosed, Placed, ClosedOnce
<1>6. Threads'
  BY <1>1 DEF IInv, Typed, Threads
<1> QED BY <1>3, <1>5, <1>6 DEF IInv

(***************************************************************************)
(* Detaching and closing.                                                  *)
(***************************************************************************)

\* A thread with nothing in hand takes the clients of some cached keys out of
\* the cache and into its hand: what `invalidate`, `close_all` and the creator
\* cutting the cache back to its capacity have in common.
LEMMA TakingOutKeeps ==
    ASSUME IInv, NEW c \in Callers, doomed[c] = {}, call[c] # "creating",
           NEW label \in {"closing", "dropping"},
           NEW gone \in SUBSET Keys, \A k \in gone : slot[k] # None,
           slot' = [k \in Keys |-> IF k \in gone THEN None ELSE slot[k]],
           doomed' = [doomed EXCEPT ![c] = {slot[k] : k \in gone}],
           call' = [call EXCEPT ![c] = label],
           UNCHANGED <<future, keyOf, onDone, closes, have, stranded>>
    PROVE  IInv'
<1> DEFINE taken == {slot[k] : k \in gone}
<1>1. taken \in SUBSET Futures /\ doomed' = [doomed EXCEPT ![c] = taken]
  BY DEF IInv, Typed
<1>2. \A f \in taken : InCache(f)
  BY DEF InCache
<1>3. \A k \in Keys : slot[k] \in taken => k \in gone
  BY DEF IInv, Keyed
<1>4. \A f \in Futures : InCache(f)' <=> InCache(f) /\ f \notin taken
  BY <1>3 DEF InCache, IInv, Typed
<1> HIDE DEF taken
<1>5. \A f \in Futures : InHand(f)' <=> InHand(f) \/ f \in taken
  BY <1>1 DEF IInv, Typed, InHand
<1>6. Typed'
  BY <1>1 DEF IInv, Typed, Labels
<1>7. Keyed'
  BY DEF IInv, Keyed, Typed
<1>8. OnePlace'
  <2>1. \A f \in taken : ~InHand(f) /\ f \notin onDone
    BY <1>1, <1>2 DEF IInv, OnePlace
  <2>2. ASSUME NEW f \in Futures, NEW a \in Callers, NEW b \in Callers,
               f \in doomed'[a], f \in doomed'[b]
        PROVE  a = b
    BY <1>1, <2>1, <2>2 DEF IInv, Typed, OnePlace, InHand
  <2> QED BY <1>4, <1>5, <2>1, <2>2 DEF IInv, OnePlace
<1>9. OpenUntilClosed' /\ Placed' /\ ClosedOnce'
  BY <1>1, <1>2, <1>4, <1>5 DEF IInv, OpenUntilClosed, Placed, ClosedOnce
<1>10. Threads'
  BY <1>1 DEF IInv, Typed, Threads
<1> QED BY <1>6, <1>7, <1>8, <1>9, <1>10 DEF IInv

LEMMA SettleInKeeps ==
    ASSUME IInv, NEW c \in Callers, SettleIn(c)
    PROVE  IInv'
<1>1. PICK keys : LET gone == Excess(keys) IN
        /\ slot' = [j \in Keys |-> IF j \in gone THEN None ELSE slot[j]]
        /\ doomed' = [doomed EXCEPT ![c] = {slot[j] : j \in gone}]
        /\ call' = [call EXCEPT ![c] = "closing"]
        /\ UNCHANGED <<future, keyOf, onDone, closes, have, stranded>>
  BY DEF SettleIn, Goto
<1>2. Excess(keys) \in SUBSET Keys /\ \A k \in Excess(keys) : slot[k] # None
  BY DEF Excess, Finished
<1>3. doomed[c] = {} /\ call[c] # "creating"
  BY DEF SettleIn, IInv, Threads
<1> QED BY <1>1, <1>2, <1>3, TakingOutKeeps

LEMMA DetachKeeps ==
    ASSUME IInv, NEW c \in Callers, Invalidate(c) \/ CloseAll(c)
    PROVE  IInv'
<1>1. PICK gone \in SUBSET Cached : Detach(c, gone)
  BY DEF Invalidate, CloseAll
<1>2. gone \in SUBSET Keys /\ \A k \in gone : slot[k] # None
  BY DEF Cached
<1>3. doomed[c] = {} /\ call[c] # "creating"
  BY <1>1 DEF Detach, IInv, Threads
<1> QED BY <1>1, <1>2, <1>3, TakingOutKeeps DEF Detach, Goto

LEMMA CloseOneKeeps ==
    ASSUME IInv, NEW c \in Callers, NEW f \in Futures, CloseOne(c, f)
    PROVE  IInv'
<1>1. /\ f \in doomed[c] /\ UNCHANGED <<slot, future, keyOf, call, have, stranded>>
      /\ doomed' = [doomed EXCEPT ![c] = @ \ {f}]
      /\ closes' = [closes EXCEPT ![f] = IF future[f] = "done" THEN @ + 1 ELSE @]
      /\ onDone' = IF future[f] = "pending" THEN onDone \union {f} ELSE onDone
  BY DEF CloseOne, tableVars
<1>2. InHand(f) /\ ~InCache(f) /\ f \notin onDone /\ closes[f] = 0 /\ future[f] # "unused"
  BY <1>1 DEF IInv, OnePlace, OpenUntilClosed, InHand
<1>3. Typed'
  BY <1>1 DEF IInv, Typed
<1>4. \A g \in Futures : /\ InCache(g)' <=> InCache(g)
                         /\ InHand(g)' <=> InHand(g) /\ g # f
  <2>1. \A b \in Callers \ {c} : f \notin doomed[b]
    BY <1>1 DEF IInv, OnePlace
  <2> QED BY <1>1, <2>1 DEF IInv, Typed, InCache, InHand
<1>5. Keyed'
  BY <1>1 DEF IInv, Keyed
<1>6. OnePlace'
  BY <1>1, <1>2, <1>4 DEF IInv, Typed, OnePlace
<1>7. OpenUntilClosed' /\ Placed' /\ ClosedOnce'
  BY <1>1, <1>2, <1>4 DEF IInv, Typed, OpenUntilClosed, Placed, ClosedOnce
<1>8. Threads'
  BY <1>1 DEF IInv, Typed, Threads
<1> QED BY <1>3, <1>5, <1>6, <1>7, <1>8 DEF IInv

\* What the thread had not closed yet is stranded, and still open.
LEMMA CloseRaisesKeeps ==
    ASSUME IInv, NEW c \in Callers, NEW f \in Futures, CloseRaises(c, f)
    PROVE  IInv'
<1>1. /\ f \in doomed[c] /\ UNCHANGED <<slot, future, keyOf, onDone>>
      /\ future[f] = "done"
      /\ doomed' = [doomed EXCEPT ![c] = {}]
      /\ closes' = [closes EXCEPT ![f] = @ + 1]
      /\ stranded' = stranded \union (doomed[c] \ {f})
      /\ have' = [have EXCEPT ![c] = None]
      /\ call' = [call EXCEPT ![c] = "idle"]
  BY DEF CloseRaises, Goto, tableVars
<1>2. InHand(f) /\ ~InCache(f) /\ f \notin onDone /\ closes[f] = 0
  BY <1>1 DEF IInv, OnePlace, OpenUntilClosed, InHand
<1>3. Typed'
  BY <1>1 DEF IInv, Typed, Labels
<1>4. \A g \in Futures : /\ InCache(g)' <=> InCache(g)
                         /\ InHand(g)' <=> InHand(g) /\ g \notin doomed[c]
  <2>1. \A g \in doomed[c], b \in Callers \ {c} : g \notin doomed[b]
    BY <1>3 DEF IInv, Typed, OnePlace
  <2> QED BY <1>1, <2>1 DEF IInv, Typed, InCache, InHand
<1>5. Keyed'
  BY <1>1 DEF IInv, Keyed
<1>6. OnePlace'
  BY <1>1, <1>4 DEF IInv, Typed, OnePlace
<1>7. OpenUntilClosed' /\ ClosedOnce'
  BY <1>1, <1>2, <1>4 DEF IInv, Typed, OpenUntilClosed, ClosedOnce
<1>8. Placed'
  BY <1>1, <1>2, <1>4 DEF IInv, Typed, Placed
<1>9. Threads'
  BY <1>1 DEF IInv, Typed, Threads
<1> QED BY <1>3, <1>5, <1>6, <1>7, <1>8, <1>9 DEF IInv

(***************************************************************************)
(* The theorems.                                                           *)
(***************************************************************************)

THEOREM Inductive == Spec => []IInv
<1>1. IInv /\ [Next]_vars => IInv'
  <2> SUFFICES ASSUME IInv, [Next]_vars PROVE IInv'
    OBVIOUS
  <2>1. ASSUME NEW c \in Callers, Step(c) PROVE IInv'
    BY <2>1, MovesKeep, CreateKeeps, CreateFailsKeeps, RemoveKeeps, SettleInKeeps,
       CloseOneKeeps, CloseRaisesKeeps DEF Step
  <2>2. CASE UNCHANGED vars
    BY <2>2 DEF vars, IInv, Typed, Keyed, OnePlace, OpenUntilClosed, Placed, Threads,
       ClosedOnce, InCache, InHand
  <2> QED BY <2>1, <2>2, DetachKeeps, LookupKeeps DEF Next
<1> QED BY InitInv, <1>1, PTL DEF Spec

\* However detaching, finishing and closing interleave, whichever thread ends
\* up with a client closes it and no other does (`_close_futures`).
THEOREM ClosedAtMostOnce == Spec => []ClosedOnce
<1>1. IInv => ClosedOnce
  BY DEF IInv
<1> QED BY <1>1, Inductive, PTL

\* A client that was created and not closed is cached or about to be closed:
\* no interleaving of creation and invalidation loses its connections, and only
\* a close that raises does, those of the clients detached with it.
THEOREM NothingLeaks == Spec => []NoneLeaks
<1>1. IInv => NoneLeaks
  <2> SUFFICES ASSUME IInv, NEW f \in Futures, future[f] = "done", closes[f] = 0
               PROVE  slot[keyOf[f]] = f \/ InHand(f) \/ f \in stranded
    BY DEF NoneLeaks, InHand
  <2>1. InCache(f) \/ InHand(f) \/ f \in stranded
    BY DEF IInv, Placed, OpenUntilClosed
  <2> QED BY <2>1 DEF IInv, Keyed, InCache
<1> QED BY <1>1, Inductive, PTL

\* What a lookup finds in the cache has not been closed.
THEOREM CacheIsOpen == Spec => []CachedIsOpen
<1>1. IInv => CachedIsOpen
  BY DEF IInv, Typed, OpenUntilClosed, CachedIsOpen, InCache
<1> QED BY <1>1, Inductive, PTL
===============================================================================
