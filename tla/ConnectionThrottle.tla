------------------------- MODULE ConnectionThrottle -------------------------
(***************************************************************************)
(* One provider connection's request budget (app/providers/throttle.py)    *)
(* and the proxies that draw on it (throttled.py, pipelines/llm/engine.py) *)
(* while a user edits the connection.                                      *)
(*                                                                         *)
(* A proxy captures the limit when it is built and keeps it for the whole  *)
(* run; the process-wide registry holds one semaphore for the limit of the *)
(* last call.  Time is counted in ticks.                                   *)
(***************************************************************************)
EXTENDS Integers, Sequences, FiniteSets

CONSTANTS
    Callers,     \* threads of runs calling models through the connection
    Limits,      \* values of max_concurrent_requests
    First,       \* its value at the start
    Rpm,         \* requests per window; 0: not paced
    Window,      \* the sliding window, in ticks
    Attempts,    \* RetryPolicy.attempts
    MaxDelay,    \* RetryPolicy.max_delay, in ticks
    MaxEdits,    \* bound: edits of the connection
    MaxCalls,    \* bound: model calls made
    Horizon      \* bound: the last tick, unless somebody sleeps past it

ASSUME LimitAssumption == Limits \subseteq Nat \ {0} /\ First \in Limits
ASSUME RateAssumption == Rpm \in Nat /\ Window \in Nat \ {0} /\ Attempts \in Nat \ {0}
ASSUME ThrottleBounds == {MaxDelay, MaxEdits, MaxCalls, Horizon} \subseteq Nat

VARIABLES
    limit,   \* the connection's configured limit
    built,   \* the limit each caller's proxy captured, 0 without a proxy
    sems,    \* the limits of the semaphores built so far, the registry's last
    gate,    \* the semaphore a caller acquires or holds, 0 for none
    stage,   \* where each caller is
    wake,    \* when its sleep ends
    attempt, \* attempts the current call has made
    window,  \* the recorded start times, oldest first
    starts,  \* history: every start time recorded
    now, edits, calls

vars == <<limit, built, sems, gate, stage, wake, attempt, window, starts, now, edits, calls>>

Holding == {"pacing", "parked", "calling", "waiting", "backoff"}
Held(g) == {c \in Callers : gate[c] = g /\ stage[c] \in Holding}

Init ==
    /\ limit = First
    /\ built = [c \in Callers |-> 0]
    /\ sems = <<>>
    /\ gate = [c \in Callers |-> 0]
    /\ stage = [c \in Callers |-> "idle"]
    /\ wake = [c \in Callers |-> 0]
    /\ attempt = [c \in Callers |-> 0]
    /\ window = <<>>
    /\ starts = <<>>
    /\ now = 0 /\ edits = 0 /\ calls = 0

Goto(c, label) == stage' = [stage EXCEPT ![c] = label]

-----------------------------------------------------------------------------
\* A run resolves the connection and builds its proxy, or is done with it.
Build(c) ==
    /\ stage[c] = "idle" /\ built[c] # limit
    /\ built' = [built EXCEPT ![c] = limit]
    /\ UNCHANGED <<limit, sems, gate, stage, wake, attempt, window, starts, now, edits, calls>>

\* The user edits the connection.
Edit ==
    /\ edits < MaxEdits /\ edits' = edits + 1
    /\ limit' \in Limits \ {limit}
    /\ UNCHANGED <<built, sems, gate, stage, wake, attempt, window, starts, now, calls>>

\* `connection_slot` under the registry lock: a limit other than the
\* registry's rebuilds the semaphore.
Enter(c) ==
    /\ stage[c] = "idle" /\ built[c] # 0
    /\ calls < MaxCalls /\ calls' = calls + 1
    /\ sems' = IF sems = <<>> \/ sems[Len(sems)] # built[c] THEN Append(sems, built[c]) ELSE sems
    /\ gate' = [gate EXCEPT ![c] = Len(sems')]
    /\ Goto(c, "queued")
    /\ UNCHANGED <<limit, built, wake, attempt, window, starts, now, edits>>

\* Mutant: the last slot is never given away.
AcquireBelow(c) ==
    /\ stage[c] = "queued" /\ Cardinality(Held(gate[c])) < sems[gate[c]] - 1
    /\ Goto(c, IF Rpm >= 1 THEN "pacing" ELSE "calling")
    /\ UNCHANGED <<limit, built, sems, gate, wake, attempt, window, starts, now, edits, calls>>

\* `semaphore.acquire()`; without a pace the slot is enough.
Acquire(c) ==
    /\ stage[c] = "queued" /\ Cardinality(Held(gate[c])) < sems[gate[c]]
    /\ Goto(c, IF Rpm >= 1 THEN "pacing" ELSE "calling")
    /\ UNCHANGED <<limit, built, sems, gate, wake, attempt, window, starts, now, edits, calls>>

\* Mutant: start times age out one tick early.
AgedShort(t) == now - t >= Window - 1

Aged(t) == now - t >= Window

\* Start times that have aged out are popped from the front of the window.
Recent ==
    LET popped == CHOOSE k \in 0 .. Len(window) :
            /\ \A j \in 1 .. k : Aged(window[j])
            /\ k = Len(window) \/ ~Aged(window[k + 1]) IN
    SubSeq(window, popped + 1, Len(window))

\* One turn of `_pace_request` under the window's lock: a start time is
\* recorded, or the caller sleeps until the oldest one ages out.
Pace(c) ==
    /\ stage[c] = "pacing"
    /\ \/ /\ Len(Recent) < Rpm
          /\ window' = Append(Recent, now)
          /\ starts' = Append(starts, now)
          /\ Goto(c, "calling")
          /\ UNCHANGED wake
       \/ /\ Len(Recent) >= Rpm
          /\ window' = Recent
          /\ wake' = [wake EXCEPT ![c] = Head(Recent) + Window]
          /\ Goto(c, "parked")
          /\ UNCHANGED starts
    /\ UNCHANGED <<limit, built, sems, gate, attempt, now, edits, calls>>

Wake(c) ==
    /\ stage[c] \in {"parked", "backoff"} /\ now >= wake[c]
    /\ Goto(c, IF stage[c] = "parked" THEN "pacing" ELSE "calling")
    /\ UNCHANGED <<limit, built, sems, gate, wake, attempt, window, starts, now, edits, calls>>

\* One attempt of `call_with_retries`: the request goes out.
Send(c) ==
    /\ stage[c] = "calling"
    /\ attempt' = [attempt EXCEPT ![c] = @ + 1]
    /\ Goto(c, "waiting")
    /\ UNCHANGED <<limit, built, sems, gate, wake, window, starts, now, edits, calls>>

\* The slot is released on every way out: a result, a failure that is not
\* retryable, or the last attempt's.
Leave(c) ==
    /\ stage[c] = "waiting"
    /\ gate' = [gate EXCEPT ![c] = 0]
    /\ attempt' = [attempt EXCEPT ![c] = 0]
    /\ Goto(c, "idle")
    /\ UNCHANGED <<limit, built, sems, wake, window, starts, now, edits, calls>>

\* A retryable failure sleeps out its backoff (`delay_for`: jittered, or the
\* provider's Retry-After, up to max_delay) and tries again.
Retry(c) ==
    /\ stage[c] = "waiting" /\ attempt[c] < Attempts
    /\ \E delay \in 0 .. MaxDelay : wake' = [wake EXCEPT ![c] = now + delay]
    /\ Goto(c, "backoff")
    /\ UNCHANGED <<limit, built, sems, gate, attempt, window, starts, now, edits, calls>>

Asleep == {c \in Callers : stage[c] \in {"parked", "backoff"} /\ wake[c] > now}

Tick ==
    /\ now < Horizon \/ Asleep # {}
    /\ now' = now + 1
    /\ UNCHANGED <<limit, built, sems, gate, stage, wake, attempt, window, starts, edits, calls>>

\* The steps of a call that has been made.
Step(c) == Acquire(c) \/ Pace(c) \/ Wake(c) \/ Send(c) \/ Leave(c) \/ Retry(c)

Next ==
    \/ Edit \/ Tick
    \/ \E c \in Callers : Build(c) \/ Enter(c) \/ Step(c)

Spec == Init /\ [][Next]_vars

\* Threads run, providers answer or time out, and time passes.
FairSpec == Spec /\ WF_vars(Tick) /\ \A c \in Callers : WF_vars(Step(c))
-----------------------------------------------------------------------------
Stages == {"idle", "queued", "pacing", "parked", "calling", "waiting", "backoff"}

TypeOK ==
    /\ limit \in Limits
    /\ built \in [Callers -> Limits \union {0}]
    /\ sems \in Seq(Limits)
    /\ gate \in [Callers -> 0 .. Len(sems)]
    /\ stage \in [Callers -> Stages]
    /\ wake \in [Callers -> Nat]
    /\ attempt \in [Callers -> 0 .. Attempts]
    /\ window \in Seq(Nat) /\ starts \in Seq(Nat)
    /\ now \in Nat /\ edits \in Nat /\ calls \in Nat
    /\ \A c \in Callers : stage[c] # "idle" => gate[c] # 0

\* The sliding window admits at most rpm calls in any window of time,
\* whatever the callers that share it do meanwhile.
StartsPaced ==
    Rpm >= 1 => \A i \in DOMAIN starts :
        i + Rpm \in DOMAIN starts => starts[i + Rpm] - starts[i] >= Window

\* Every call ends: the semaphore, the window and the backoffs never wait for
\* one another.
CallsEnd == \A c \in Callers : stage[c] = "queued" ~> stage[c] = "idle"
=============================================================================
