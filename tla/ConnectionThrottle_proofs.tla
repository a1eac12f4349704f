---------------------- MODULE ConnectionThrottle_proofs ----------------------
(* Theorems about ConnectionThrottle, for any callers, limits, rate, window   *)
(* and retry policy.                                                          *)
EXTENDS ConnectionThrottle, SequenceTheorems, FiniteSetTheorems, WellFoundedInduction, TLAPS

USE LimitAssumption, RateAssumption, ThrottleBounds

(***************************************************************************)
(* The inductive invariant.                                                *)
(***************************************************************************)

\* Only paced connections have callers in the window's loop, and a caller
\* that has still to send has an attempt left.
Stepping ==
    \A c \in Callers :
        /\ stage[c] \in {"pacing", "parked"} => Rpm >= 1
        /\ stage[c] # "waiting" => attempt[c] < Attempts

\* The window is the tail of the history: the starts older than it have aged
\* out.
Older == Len(starts) - Len(window)
WindowIsRecent ==
    /\ Older \in Nat
    /\ \A i \in DOMAIN window : window[i] = starts[Older + i]
    /\ \A i \in 1 .. Older : Aged(starts[i])

IInv == TypeOK /\ Stepping /\ WindowIsRecent /\ StartsPaced

(***************************************************************************)
(* What the loop over the window's front leaves.                           *)
(***************************************************************************)

LEMMA RecentFacts ==
    ASSUME window \in Seq(Nat), now \in Nat
    PROVE  \E k \in 0 .. Len(window) :
               /\ Recent \in Seq(Nat)
               /\ Len(Recent) = Len(window) - k
               /\ \A i \in DOMAIN Recent : Recent[i] = window[k + i]
               /\ \A j \in 1 .. k : Aged(window[j])
<1> DEFINE Stops(k) == k = Len(window) \/ ~Aged(window[k + 1])
           Stop == {k \in 0 .. Len(window) : Stops(k)}
           Popped(k) == (\A j \in 1 .. k : Aged(window[j])) /\ Stops(k)
           popped == CHOOSE k \in 0 .. Len(window) : Popped(k)
<1>1. Len(window) \in Stop
    BY DEF Stop, Stops
<1>2. PICK k \in Stop : \A j \in Stop : ~(<<j, k>> \in OpToRel(<, Nat))
    <2>1. Stop \subseteq Nat
        OBVIOUS
    <2> QED
        BY <1>1, <2>1, NatLessThanWellFounded, WFMin
<1>3. \A j \in Stop : ~(j < k)
    <2> SUFFICES ASSUME NEW j \in Stop, j < k PROVE FALSE
        OBVIOUS
    <2>1. j \in Nat /\ k \in Nat
        OBVIOUS
    <2>2. <<j, k>> \in OpToRel(<, Nat)
        <3> HIDE DEF Stop
        <3> QED
            BY <2>1 DEF OpToRel
    <2> QED
        BY <1>2, <2>2
<1>4. ASSUME NEW j \in 1 .. k
      PROVE  Aged(window[j])
    <2>1. j - 1 \in 0 .. Len(window) /\ j - 1 < k /\ j - 1 # Len(window)
        BY SMTT(30)
    <2>2. ~Stops(j - 1)
        BY <2>1, <1>3
    <2> QED
        BY <2>1, <2>2
<1>5. Popped(k) /\ k \in 0 .. Len(window)
    BY <1>4
<1>6. popped \in 0 .. Len(window) /\ Popped(popped)
    BY <1>5
<1>7. Recent = SubSeq(window, popped + 1, Len(window))
    BY DEF Recent
<1>8. \A i \in popped + 1 .. Len(window) : window[i] \in Nat
    BY <1>6, SMTT(30)
<1>9. /\ Recent \in Seq(Nat)
      /\ Len(Recent) = IF popped + 1 <= Len(window) THEN Len(window) - (popped + 1) + 1 ELSE 0
      /\ \A i \in 1 .. Len(window) - (popped + 1) + 1 : Recent[i] = window[popped + 1 + i - 1]
    <2> HIDE DEF popped
    <2> QED
        BY <1>6, <1>7, <1>8, SubSeqProperties, SMTT(30)
<1>10. Len(Recent) = Len(window) - popped /\ DOMAIN Recent = 1 .. Len(window) - popped
    <2> HIDE DEF popped
    <2>1. popped \in Nat /\ popped <= Len(window) /\ Len(window) \in Nat
        BY <1>6
    <2>2. Len(Recent) = Len(window) - popped
        BY <2>1, <1>9
    <2> QED
        BY <2>2, <1>9, LenProperties
<1>11. \A i \in DOMAIN Recent : Recent[i] = window[popped + i]
    <2> HIDE DEF popped
    <2>1. popped \in Nat /\ Len(window) \in Nat
        BY <1>6
    <2> TAKE i \in DOMAIN Recent
    <2>2. i \in 1 .. Len(window) - (popped + 1) + 1 /\ popped + 1 + i - 1 = popped + i
        BY <2>1, <1>10, SMTT(30)
    <2> QED
        BY <2>2, <1>9
<1> QED
    <2> HIDE DEF popped
    <2> QED
        BY <1>6, <1>9, <1>10, <1>11

(***************************************************************************)
(* The steps.                                                              *)
(***************************************************************************)

LEMMA InitCorrect == Init => IInv
<1> SUFFICES ASSUME Init PROVE IInv
    OBVIOUS
<1>1. TypeOK
    BY DEF Init, TypeOK, Stages
<1>2. Stepping
    BY DEF Init, Stepping
<1>3. WindowIsRecent /\ StartsPaced
    BY DEF Init, WindowIsRecent, Older, StartsPaced
<1> QED
    BY <1>1, <1>2, <1>3 DEF IInv

\* Steps that leave the window, its history and the clock alone.
LEMMA PaceKept ==
    ASSUME IInv, UNCHANGED <<window, starts, now>>
    PROVE  WindowIsRecent' /\ StartsPaced'
BY DEF IInv, WindowIsRecent, Older, Aged, StartsPaced

\* One turn of the pacing loop. A start that is recorded finds fewer than Rpm
\* left in the window, so the one Rpm before it is among those popped by now.
LEMMA PaceCorrect ==
    ASSUME IInv, NEW c \in Callers, Pace(c)
    PROVE  IInv'
<1> USE DEF IInv
<1>1. PICK k \in 0 .. Len(window) :
          /\ Recent \in Seq(Nat)
          /\ Len(Recent) = Len(window) - k
          /\ \A i \in DOMAIN Recent : Recent[i] = window[k + i]
          /\ \A j \in 1 .. k : Aged(window[j])
    BY RecentFacts DEF TypeOK
<1>2. /\ now \in Nat /\ window \in Seq(Nat) /\ starts \in Seq(Nat) /\ now' = now
      /\ Rpm >= 1 /\ Len(Recent) \in Nat /\ DOMAIN Recent = 1 .. Len(Recent)
      /\ Len(window) \in Nat /\ Len(starts) \in Nat
    <2>1. now \in Nat /\ window \in Seq(Nat) /\ starts \in Seq(Nat)
        BY DEF TypeOK
    <2>2. now' = now /\ Rpm >= 1
        BY DEF Pace, Stepping
    <2> QED
        BY <1>1, <2>1, <2>2, LenProperties
<1> DEFINE gap == Len(starts) - Len(Recent)
<1>3. gap \in Nat /\ gap = Older + k
    BY <1>1, <1>2 DEF WindowIsRecent, Older
<1> HIDE DEF gap
<1>4. \A i \in DOMAIN Recent : Recent[i] = starts[gap + i]
    <2> TAKE i \in DOMAIN Recent
    <2>1. k + i \in DOMAIN window
        <3>1. DOMAIN window = 1 .. Len(window) /\ i \in 1 .. Len(window) - k
            BY <1>1, <1>2, LenProperties
        <3> QED
            BY <3>1, <1>2, SMTT(30)
    <2>2. Recent[i] = window[k + i] /\ window[k + i] = starts[Older + (k + i)]
        BY <1>1, <2>1 DEF WindowIsRecent
    <2>3. Older + (k + i) = gap + i
        <3>1. Older \in Nat /\ k \in Nat /\ i \in Nat
            BY <1>2 DEF WindowIsRecent
        <3> HIDE DEF Older
        <3> QED
            BY <3>1, <1>3
    <2> QED
        BY <2>2, <2>3
<1>5. \A i \in 1 .. gap : Aged(starts[i])
    <2> TAKE i \in 1 .. gap
    <2>1. CASE i <= Older
        BY <2>1, <1>2, <1>3 DEF WindowIsRecent
    <2>2. CASE i > Older
        <3>1. i - Older \in 1 .. k /\ i - Older \in DOMAIN window /\ Older + (i - Older) = i
            BY <2>2, <1>2, <1>3 DEF WindowIsRecent
        <3> QED
            BY <3>1, <1>1 DEF WindowIsRecent
    <2> QED
        BY <2>1, <2>2, <1>3 DEF WindowIsRecent
<1>6. CASE Len(Recent) < Rpm /\ window' = Append(Recent, now) /\ starts' = Append(starts, now)
                /\ stage' = [stage EXCEPT ![c] = "calling"] /\ UNCHANGED wake
    <2>1. /\ window' \in Seq(Nat) /\ Len(window') = Len(Recent) + 1
          /\ \A i \in 1 .. Len(Recent) : window'[i] = Recent[i]
          /\ window'[Len(Recent) + 1] = now
        <3>1. Recent \in Seq(Nat) /\ now \in Nat /\ window' = Append(Recent, now)
            BY <1>1, <1>2, <1>6
        <3> HIDE DEF Recent
        <3> QED
            BY <3>1, AppendProperties
    <2>2. /\ starts' \in Seq(Nat) /\ Len(starts') = Len(starts) + 1
          /\ \A i \in 1 .. Len(starts) : starts'[i] = starts[i]
          /\ starts'[Len(starts) + 1] = now
        BY <1>2, <1>6, AppendProperties
    <2>3. TypeOK'
        BY <1>2, <1>6, <2>1, <2>2 DEF TypeOK, Pace, Stages
    <2>4. Stepping'
        BY <1>6 DEF TypeOK, Stepping, Pace
    <2>5. Older' = gap /\ Len(starts) = gap + Len(Recent)
        BY <1>2, <1>3, <2>1, <2>2 DEF Older, gap
    <2>6. \A i \in DOMAIN window' : window'[i] = starts'[gap + i]
        <3> TAKE i \in DOMAIN window'
        <3>1. i \in 1 .. Len(Recent) + 1
            BY <1>2, <2>1
        <3>2. CASE i = Len(Recent) + 1
            <4>1. gap + i = Len(starts) + 1
                BY <3>2, <2>5, <1>2, <1>3
            <4> QED
                BY <4>1, <3>2, <2>1, <2>2
        <3>3. CASE i \in 1 .. Len(Recent)
            <4>1. gap + i \in 1 .. Len(starts)
                BY <3>3, <2>5, <1>2, <1>3, SMTT(30)
            <4> QED
                BY <4>1, <3>3, <2>1, <2>2, <1>2, <1>4
        <3> QED
            BY <3>1, <3>2, <3>3, <1>2
    <2>7. \A i \in 1 .. gap : now - starts'[i] >= Window
        <3> TAKE i \in 1 .. gap
        <3>1. i \in 1 .. Len(starts)
            BY <2>5, <1>2, <1>3
        <3> QED
            BY <3>1, <2>2, <1>5 DEF Aged
    <2>8. WindowIsRecent'
        BY <2>5, <2>6, <2>7, <1>2, <1>3 DEF WindowIsRecent, Aged
    <2>9. StartsPaced'
        <3> SUFFICES ASSUME NEW i \in DOMAIN starts', i + Rpm \in DOMAIN starts'
                     PROVE  starts'[i + Rpm] - starts'[i] >= Window
            BY DEF StartsPaced
        <3>1. i \in 1 .. Len(starts) + 1 /\ i + Rpm \in 1 .. Len(starts) + 1 /\ i \in 1 .. Len(starts)
            <4>1. DOMAIN starts' = 1 .. Len(starts) + 1
                BY <2>2, LenProperties
            <4>2. Rpm \in Nat /\ Rpm >= 1 /\ Len(starts) \in Nat
                BY <1>2
            <4> QED
                BY <4>1, <4>2
        <3>2. CASE i + Rpm = Len(starts) + 1
            <4>1. i \in 1 .. gap
                <5>1. Len(Recent) \in Nat /\ Len(Recent) < Rpm /\ gap \in Nat
                    BY <1>2, <1>3, <1>6
                <5> QED
                    BY <5>1, <3>1, <3>2, <2>5, SMTT(30)
            <4> QED
                BY <4>1, <3>2, <2>2, <2>7
        <3>3. CASE i + Rpm \in 1 .. Len(starts)
            <4>1. starts[i + Rpm] - starts[i] >= Window
                BY <3>1, <3>3, <1>2, LenProperties DEF StartsPaced
            <4> QED
                BY <4>1, <3>1, <3>3, <2>2
        <3> QED
            BY <3>1, <3>2, <3>3, <1>2, SMTT(30)
    <2> QED
        BY <2>3, <2>4, <2>8, <2>9
<1>7. CASE Len(Recent) >= Rpm /\ window' = Recent
                /\ wake' = [wake EXCEPT ![c] = Head(Recent) + Window]
                /\ stage' = [stage EXCEPT ![c] = "parked"] /\ UNCHANGED starts
    <2>1. Head(Recent) \in Nat
        <3>1. Recent # <<>>
            BY <1>2, <1>7, EmptySeq
        <3> QED
            BY <3>1, <1>1, HeadTailProperties
    <2>2. TypeOK'
        <3>1. Head(Recent) + Window \in Nat
            BY <2>1
        <3> QED
            BY <3>1, <1>1, <1>7 DEF TypeOK, Pace, Stages
    <2>3. Stepping'
        BY <1>2, <1>7 DEF TypeOK, Stepping, Pace
    <2>4. Older' = gap
        BY <1>7 DEF Older, gap
    <2>5. WindowIsRecent'
        BY <1>2, <1>3, <1>4, <1>5, <1>7, <2>4 DEF WindowIsRecent, Aged
    <2>6. StartsPaced'
        BY <1>7 DEF StartsPaced
    <2> QED
        BY <2>2, <2>3, <2>5, <2>6
<1> QED
    BY <1>6, <1>7 DEF Pace, Goto

LEMMA TickCorrect ==
    ASSUME IInv, Tick
    PROVE  IInv'
<1> USE DEF IInv
<1>1. TypeOK' /\ Stepping'
    BY DEF TypeOK, Stepping, Tick
<1>2. StartsPaced'
    BY DEF StartsPaced, Tick
<1>3. Older \in Nat /\ Older' = Older /\ now \in Nat /\ starts \in Seq(Nat)
    BY DEF WindowIsRecent, Older, Tick, TypeOK
<1>4. \A i \in 1 .. Older : starts[i] \in Nat
    BY <1>3, SMTT(30) DEF WindowIsRecent, Older, TypeOK
<1>5. WindowIsRecent'
    BY <1>3, <1>4 DEF WindowIsRecent, Aged, Tick
<1> QED
    BY <1>1, <1>2, <1>5

LEMMA NextCorrect == IInv /\ [Next]_vars => IInv'
<1> SUFFICES ASSUME IInv, [Next]_vars PROVE IInv'
    OBVIOUS
<1> USE DEF IInv
<1>1. CASE UNCHANGED vars
    <2>1. TypeOK' /\ Stepping'
        BY <1>1 DEF vars, TypeOK, Stepping
    <2> QED
        BY <1>1, <2>1, PaceKept DEF vars
<1>2. CASE Edit
    <2>1. TypeOK' /\ Stepping'
        BY <1>2 DEF Edit, TypeOK, Stepping
    <2> QED
        BY <1>2, <2>1, PaceKept DEF Edit
<1>3. CASE Tick
    BY <1>3, TickCorrect
<1>4. ASSUME NEW c \in Callers, Build(c)
      PROVE  IInv'
    <2>1. TypeOK' /\ Stepping'
        BY <1>4 DEF Build, TypeOK, Stepping
    <2> QED
        BY <1>4, <2>1, PaceKept DEF Build
<1>5. ASSUME NEW c \in Callers, Enter(c)
      PROVE  IInv'
    <2>1. built[c] \in Limits /\ sems \in Seq(Limits)
        BY <1>5 DEF Enter, TypeOK
    <2>2. sems' \in Seq(Limits) /\ Len(sems') >= Len(sems) /\ Len(sems') > 0
        <3>1. CASE sems = <<>> \/ sems[Len(sems)] # built[c]
            BY <3>1, <2>1, <1>5, AppendProperties DEF Enter
        <3>2. CASE ~(sems = <<>> \/ sems[Len(sems)] # built[c])
            BY <3>2, <2>1, <1>5, EmptySeq DEF Enter
        <3> QED
            BY <3>1, <3>2
    <2>3. gate' \in [Callers -> 0 .. Len(sems')] /\ gate'[c] # 0
        <3>1. gate \in [Callers -> 0 .. Len(sems)] /\ gate' = [gate EXCEPT ![c] = Len(sems')]
            BY <1>5 DEF Enter, TypeOK
        <3>2. Len(sems) \in Nat /\ Len(sems') \in Nat
            BY <2>1, <2>2, LenProperties
        <3>3. \A d \in Callers : gate[d] \in 0 .. Len(sems')
            BY <3>1, <3>2, <2>2
        <3> QED
            BY <3>1, <3>2, <3>3, <2>2
    <2>4. TypeOK'
        <3>1. stage' \in [Callers -> Stages]
            BY <1>5 DEF Enter, Goto, TypeOK, Stages
        <3>2. \A d \in Callers : stage'[d] # "idle" => gate'[d] # 0
            BY <1>5, <2>3 DEF Enter, Goto, TypeOK
        <3>3. calls' \in Nat
            <4>1. calls' = calls + 1 /\ calls \in Nat
                BY <1>5 DEF Enter, TypeOK
            <4> QED
                BY <4>1
        <3> QED
            BY <1>5, <2>2, <2>3, <3>1, <3>2, <3>3 DEF Enter, TypeOK
    <2>5. Stepping'
        BY <1>5 DEF Enter, Goto, TypeOK, Stepping
    <2> QED
        BY <1>5, <2>4, <2>5, PaceKept DEF Enter
<1>6. ASSUME NEW c \in Callers, Acquire(c)
      PROVE  IInv'
    <2>1. TypeOK' /\ Stepping'
        BY <1>6 DEF Acquire, Goto, TypeOK, Stepping, Stages
    <2> QED
        BY <1>6, <2>1, PaceKept DEF Acquire
<1>7. ASSUME NEW c \in Callers, Pace(c)
      PROVE  IInv'
    BY <1>7, PaceCorrect
<1>8. ASSUME NEW c \in Callers, Wake(c)
      PROVE  IInv'
    <2>1. TypeOK' /\ Stepping'
        BY <1>8 DEF Wake, Goto, TypeOK, Stepping, Stages
    <2> QED
        BY <1>8, <2>1, PaceKept DEF Wake
<1>9. ASSUME NEW c \in Callers, Send(c)
      PROVE  IInv'
    <2>1. attempt[c] \in 0 .. Attempts /\ attempt[c] < Attempts
        BY <1>9 DEF Send, TypeOK, Stepping
    <2>2. attempt[c] + 1 \in 0 .. Attempts
        BY <2>1
    <2>3. TypeOK' /\ Stepping'
        BY <1>9, <2>2 DEF Send, Goto, TypeOK, Stepping, Stages
    <2> QED
        BY <1>9, <2>3, PaceKept DEF Send
<1>10. ASSUME NEW c \in Callers, Leave(c)
       PROVE  IInv'
    <2>1. TypeOK' /\ Stepping'
        BY <1>10 DEF Leave, Goto, TypeOK, Stepping, Stages
    <2> QED
        BY <1>10, <2>1, PaceKept DEF Leave
<1>11. ASSUME NEW c \in Callers, Retry(c)
       PROVE  IInv'
    <2>1. PICK delay \in 0 .. MaxDelay : wake' = [wake EXCEPT ![c] = now + delay]
        BY <1>11 DEF Retry
    <2>2. now + delay \in Nat
        BY DEF TypeOK
    <2>3. TypeOK' /\ Stepping'
        BY <1>11, <2>1, <2>2 DEF Retry, Goto, TypeOK, Stepping, Stages
    <2> QED
        BY <1>11, <2>3, PaceKept DEF Retry
<1> QED
    BY <1>1, <1>2, <1>3, <1>4, <1>5, <1>6, <1>7, <1>8, <1>9, <1>10, <1>11 DEF Next, Step

\* Every state is of its type.
THEOREM TypeCorrect == Spec => []TypeOK
<1>1. IInv => TypeOK
    BY DEF IInv
<1> QED
    BY <1>1, InitCorrect, NextCorrect, PTL DEF Spec

\* `_pace_request` keeps its promise for every rate and window, with any
\* number of callers, whatever limits they enter with and however often they
\* retry: a start and the Rpm-th one after it are a window apart.
THEOREM PacedAlways == Spec => []StartsPaced
<1>1. IInv => StartsPaced
    BY DEF IInv
<1> QED
    BY <1>1, InitCorrect, NextCorrect, PTL DEF Spec
============================================================================
