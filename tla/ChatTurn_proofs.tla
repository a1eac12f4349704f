-------------------------- MODULE ChatTurn_proofs --------------------------
(* Theorems about ChatTurn, for any turns, sessions, limits and bounds.         *)
EXTENDS ChatTurn, SequenceTheorems, WellFoundedInduction, TLAPS

(***************************************************************************)
(* Sequences and the first of a set of numbers.                            *)
(***************************************************************************)

\* A set of natural numbers that is not empty has a least one.
LEMMA LeastNat ==
    ASSUME NEW N \in SUBSET Nat, N # {}
    PROVE  \E n \in N : \A m \in N : n <= m
<1>1. PICK n \in N : \A m \in N : ~(<<m, n>> \in OpToRel(<, Nat))
    BY NatLessThanWellFounded, WFMin
<1>2. ASSUME NEW m \in N, m < n
      PROVE  FALSE
    <2>1. m \in Nat /\ n \in Nat
        OBVIOUS
    <2>2. <<m, n>> \in OpToRel(<, Nat)
        BY <1>2, <2>1 DEF OpToRel
    <2> QED
        BY <1>1, <2>2
<1> QED
    BY <1>2

\* A part of 1 .. l is left out: where the places behind it come to be.
LEMMA LeftOut ==
    ASSUME NEW l \in Nat, NEW k \in Nat, NEW u \in Nat, k <= u, u <= l
    PROVE  /\ l - (u - k) \in Nat /\ l - (u - k) + 1 \in Nat /\ l - (u - k) + 1 >= 1
           /\ \A i \in u + 1 .. l : i - (u - k) \in 1 .. l - (u - k)
OBVIOUS

\* The place i among those behind the c-th last, j.
LEMMA Distance ==
    ASSUME NEW l \in Nat, NEW c \in Nat, NEW i \in Nat, NEW j \in Nat,
           j < i, i <= l, j = l - c + 1
    PROVE  i - j \in 1 .. c - 1 /\ j + (i - j) = i
OBVIOUS

\* The first k of a sequence.
LEMMA Prefix ==
    ASSUME NEW S, NEW seq \in Seq(S), NEW k \in 0 .. Len(seq)
    PROVE  /\ SubSeq(seq, 1, k) \in Seq(S) /\ Len(SubSeq(seq, 1, k)) = k
           /\ \A i \in 1 .. k : SubSeq(seq, 1, k)[i] = seq[i]
<1> DEFINE head == SubSeq(seq, 1, k)
<1>1. \A i \in 1 .. k : seq[i] \in S
    OBVIOUS
<1>2. /\ head \in Seq(S) /\ Len(head) = IF 1 <= k THEN k - 1 + 1 ELSE 0
      /\ \A i \in 1 .. k - 1 + 1 : head[i] = seq[1 + i - 1]
    BY <1>1, SubSeqProperties
<1> HIDE DEF head
<1>3. Len(head) = k
    BY <1>2
<1>4. ASSUME NEW i \in 1 .. k
      PROVE  head[i] = seq[i]
    <2>1. i \in 1 .. k - 1 + 1 /\ 1 + i - 1 = i
        OBVIOUS
    <2> QED
        BY <1>2, <2>1
<1> QED
    BY <1>2, <1>3, <1>4 DEF head

\* A sequence without the part after its first k, up to the one at u.
LEMMA WithoutSpan ==
    ASSUME NEW S, NEW seq \in Seq(S), NEW k \in Nat, NEW u \in Nat, k <= u, u <= Len(seq),
           NEW span, span.keep = k, span.upto = u
    PROVE  /\ Without(seq, span) \in Seq(S) /\ Len(Without(seq, span)) = Len(seq) - (u - k)
           /\ \A i \in 1 .. k : Without(seq, span)[i] = seq[i]
           /\ \A i \in u + 1 .. Len(seq) : Without(seq, span)[i - (u - k)] = seq[i]
<1> DEFINE head == SubSeq(seq, 1, k)
           tail == SubSeq(seq, u + 1, Len(seq))
           res == head \o tail
<1>0. Len(seq) \in Nat
    OBVIOUS
<1>1. head \in Seq(S) /\ Len(head) = k /\ \A i \in 1 .. k : head[i] = seq[i]
    <2>1. k \in 0 .. Len(seq)
        OBVIOUS
    <2> QED
        BY <2>1, Prefix
<1>2. /\ tail \in Seq(S) /\ Len(tail) = Len(seq) - u
      /\ \A i \in 1 .. Len(seq) - u : tail[i] = seq[u + i]
    <2>1. u + 1 \in Int /\ \A i \in u + 1 .. Len(seq) : seq[i] \in S
        OBVIOUS
    <2>2. /\ tail \in Seq(S)
          /\ Len(tail) = IF u + 1 <= Len(seq) THEN Len(seq) - (u + 1) + 1 ELSE 0
          /\ \A i \in 1 .. Len(seq) - (u + 1) + 1 : tail[i] = seq[(u + 1) + i - 1]
        BY <1>0, <2>1, SubSeqProperties
    <2> HIDE DEF tail
    <2>3. Len(tail) = Len(seq) - u
        BY <1>0, <2>2
    <2>4. ASSUME NEW i \in 1 .. Len(seq) - u
          PROVE  tail[i] = seq[u + i]
        <3>1. i \in 1 .. Len(seq) - (u + 1) + 1 /\ (u + 1) + i - 1 = u + i
            BY <1>0
        <3> QED
            BY <2>2, <3>1
    <2> QED
        BY <2>2, <2>3, <2>4
<1> HIDE DEF head, tail
<1>3. res = head \o tail
    OBVIOUS
<1>4. /\ head \o tail \in Seq(S) /\ Len(head \o tail) = Len(head) + Len(tail)
      /\ \A i \in 1 .. Len(head) + Len(tail) :
            (head \o tail)[i] = IF i <= Len(head) THEN head[i] ELSE tail[i - Len(head)]
    <2>1. head \in Seq(S) /\ tail \in Seq(S)
        BY <1>1, <1>2
    <2> QED
        BY <2>1, ConcatProperties
<1> HIDE DEF res
<1>5. Len(res) = k + (Len(seq) - u)
    BY <1>1, <1>2, <1>3, <1>4
<1>6. ASSUME NEW i \in Nat, 1 <= i, i <= k + (Len(seq) - u)
      PROVE  res[i] = IF i <= k THEN seq[i] ELSE seq[i + (u - k)]
    <2>1. i \in 1 .. Len(head) + Len(tail)
        BY <1>0, <1>1, <1>2, <1>6
    <2>2. res[i] = IF i <= k THEN head[i] ELSE tail[i - k]
        BY <1>1, <1>3, <1>4, <2>1
    <2>3. CASE i <= k
        BY <1>1, <1>6, <2>2, <2>3
    <2>4. CASE i > k
        <3>1. i - k \in 1 .. Len(seq) - u /\ u + (i - k) = i + (u - k)
            BY <1>0, <1>6, <2>4
        <3>2. tail[i - k] = seq[u + (i - k)]
            BY <1>2, <3>1
        <3> QED
            BY <2>2, <2>4, <3>1, <3>2
    <2> QED
        BY <2>3, <2>4
<1>7. k + (Len(seq) - u) = Len(seq) - (u - k)
    BY <1>0
<1>8. res \in Seq(S) /\ Len(res) = Len(seq) - (u - k)
    BY <1>3, <1>4, <1>5, <1>7
<1>9. ASSUME NEW i \in 1 .. k
      PROVE  res[i] = seq[i]
    <2>1. i \in Nat /\ 1 <= i /\ i <= k + (Len(seq) - u) /\ i <= k
        BY <1>0
    <2> QED
        BY <1>6, <2>1
<1>10. ASSUME NEW i \in u + 1 .. Len(seq)
       PROVE  res[i - (u - k)] = seq[i]
    <2>1. PICK j \in Nat : j = i - (u - k)
        OBVIOUS
    <2>2. 1 <= j /\ j <= k + (Len(seq) - u) /\ ~(j <= k) /\ j + (u - k) = i
        BY <1>0, <2>1
    <2> QED
        BY <1>6, <2>1, <2>2
<1>11. res = Without(seq, span)
    BY DEF res, head, tail, Without
<1> QED
    BY <1>8, <1>9, <1>10, <1>11

USE ChatAssumption, NoneAssumption

(***************************************************************************)
(* The inductive invariant of transcripts and of the turns that write them.*)
(***************************************************************************)

\* A turn that has begun has a session, and a session that is not there has an
\* empty transcript.
Entered ==
    /\ \A t \in Turns : IF pc[t] = "new" THEN at[t] = None /\ target[t] = <<>>
                        ELSE at[t] \in Sessions /\ exists[at[t]] # "no"
    /\ \A s \in Sessions : exists[s] # "yes" => rows[s] = <<>>

\* An open transaction that has pruned holds the session's row, until it is
\* closed; what it has pruned is a part of the transcript.
BeforeLoop == {"setup", "reading", "preferring", "settling", "model"}
Spans ==
    \A t \in Turns : prune[t] # NothingPruned =>
        /\ pc[t] \in BeforeLoop \union {"closing"}
        /\ sessionLock[at[t]] = t /\ exists[at[t]] = "yes"
        /\ prune[t].keep <= prune[t].upto /\ prune[t].upto <= Len(rows[at[t]])

\* The row a turn is going to write is in no transcript: its rows are those of
\* earlier iterations, and of the calls it has answered in this one.
AtTools == {"touching", "called", "resulted"}
Behind(row, t) ==
    /\ pc[t] \notin {"new", "saying", "editing"} /\ prune[t] = NothingPruned
    /\ row.step <= step[t]
    /\ pc[t] \in BeforeLoop => row.step < step[t]
    /\ pc[t] \in AtTools /\ row.step = step[t] =>
          /\ row.role = "tool" => row.n < call[t]
          /\ row.role = "calls" => row.n = asked[t]
Written == \A s \in Sessions : \A i \in DOMAIN rows[s] : Behind(rows[s][i], rows[s][i].by)

\* A message stands in a transcript once.
NoRepeats == \A s \in Sessions : \A i, j \in DOMAIN rows[s] : rows[s][i] = rows[s][j] => i = j

\* A turn at its tools is at one of the calls of its iteration.
Among == \A t \in Turns :
    /\ pc[t] \in {"called", "resulted"} => 1 <= call[t] /\ call[t] <= asked[t]
    /\ pc[t] = "touching" /\ asked[t] > 0 => call[t] = 1

\* The invariant that all the others are proved with.
TInv == TypeOK /\ Entered /\ Spans /\ Written /\ NoRepeats /\ Among

\* The fields of what the turns remember.
LEMMA Fields ==
    ASSUME TypeOK
    PROVE  /\ \A t \in Turns :
                /\ step[t] \in 1 .. MaxIterations /\ asked[t] \in 0 .. MaxCalls
                /\ call[t] \in 0 .. MaxCalls + 1 /\ content[t] \in BOOLEAN
                /\ at[t] \in Sessions \union {None} /\ target[t] \in {<<>>} \union Row
                /\ prune[t] \in [keep : Nat, upto : Nat]
                /\ prune[t].keep \in Nat /\ prune[t].upto \in Nat
           /\ \A s \in Sessions : rows[s] \in Seq(Row) /\ Len(rows[s]) \in Nat
BY DEF TypeOK

\* A message has its four fields.
LEMMA RowType ==
    ASSUME NEW t \in Turns, NEW role \in Roles, NEW s \in 0 .. MaxIterations, NEW n \in 0 .. MaxCalls
    PROVE  [by |-> t, role |-> role, step |-> s, n |-> n] \in Row
BY DEF Row

\* The transcript as a turn sees it: the committed one up to what the turn
\* kept, then what others have added since.
LEMMA VisibleFacts ==
    ASSUME NEW t \in Turns, rows[at[t]] \in Seq(Row), prune[t].keep \in Nat, prune[t].upto \in Nat,
           prune[t].keep <= prune[t].upto, prune[t].upto <= Len(rows[at[t]])
    PROVE  /\ Visible(t) \in Seq(Row)
           /\ Len(Visible(t)) = Len(rows[at[t]]) - (prune[t].upto - prune[t].keep)
           /\ \A i \in 1 .. prune[t].keep : Visible(t)[i] = rows[at[t]][i]
           /\ \A i \in prune[t].upto + 1 .. Len(rows[at[t]]) :
                 Visible(t)[i - (prune[t].upto - prune[t].keep)] = rows[at[t]][i]
<1>1. PICK seq, span, k, u : seq = rows[at[t]] /\ span = prune[t] /\ k = span.keep /\ u = span.upto
    OBVIOUS
<1>2. seq \in Seq(Row) /\ k \in Nat /\ u \in Nat /\ k <= u /\ u <= Len(seq)
    BY <1>1
<1>3. span.keep = k /\ span.upto = u
    BY <1>1
<1>4. /\ Without(seq, span) \in Seq(Row) /\ Len(Without(seq, span)) = Len(seq) - (u - k)
      /\ \A i \in 1 .. k : Without(seq, span)[i] = seq[i]
      /\ \A i \in u + 1 .. Len(seq) : Without(seq, span)[i - (u - k)] = seq[i]
    BY <1>2, <1>3, WithoutSpan
<1>5. Visible(t) = Without(seq, span)
    BY <1>1 DEF Visible
<1> QED
    BY <1>1, <1>4, <1>5

\* Where an edit begins to prune.
LEMMA KeptIsBefore ==
    ASSUME NEW seq \in Seq(Row), NEW i \in 1 .. Len(seq)
    PROVE  /\ KeptUpTo(seq, i) \in 0 .. i
           /\ Questions(seq, i) # {} => KeptUpTo(seq, i) \in Questions(seq, i)
<1>1. CASE Questions(seq, i) = {}
    BY <1>1 DEF KeptUpTo
<1>2. CASE Questions(seq, i) # {}
    <2> DEFINE N == {i - j : j \in Questions(seq, i)}
    <2>1. N \in SUBSET Nat /\ N # {}
        BY <1>2 DEF Questions
    <2>2. PICK n \in N : \A m \in N : n <= m
        <3> HIDE DEF N
        <3> QED
            BY <2>1, LeastNat
    <2>3. PICK j \in Questions(seq, i) : n = i - j
        OBVIOUS
    <2>4. ASSUME NEW k \in Questions(seq, i)
          PROVE  k <= j
        <3>1. i - k \in N /\ k \in 1 .. i /\ j \in 1 .. i
            BY DEF Questions
        <3>2. i - j <= i - k
            <4> HIDE DEF N
            <4> QED
                BY <2>2, <2>3, <3>1
        <3> QED
            BY <3>1, <3>2
    <2>5. KeptUpTo(seq, i) \in Questions(seq, i)
        BY <1>2, <2>4 DEF KeptUpTo
    <2> QED
        BY <2>5 DEF Questions
<1> QED
    BY <1>1, <1>2

(***************************************************************************)
(* Type correctness.                                                       *)
(***************************************************************************)

\* The types of the two locks.
LockTypes == sessionLock \in [Sessions -> Turns \union {None}] /\ userLock \in Turns \union {None}

\* A turn that unlocks leaves the locks to turns or to nobody.
LEMMA UnlockType ==
    ASSUME TypeOK, NEW t \in Turns, Unlock(t)
    PROVE  LockTypes'
BY DEF TypeOK, Unlock, LockTypes

\* So does one that locks the row of its session.
LEMMA LockType ==
    ASSUME TypeOK, NEW t \in Turns, LockSession(t)
    PROVE  sessionLock' \in [Sessions -> Turns \union {None}]
BY DEF TypeOK, LockSession

\* What `Record` does to the transcript.
LEMMA Recorded ==
    ASSUME TypeOK, Entered, Spans, NEW t \in Turns, pc[t] # "new",
           NEW role \in Roles, NEW s \in 0 .. MaxIterations, NEW n \in 0 .. MaxCalls,
           Record(t, role, s, n)
    PROVE  /\ rows' \in [Sessions -> Seq(Row)] /\ images' \in [Sessions -> SUBSET Turns]
           /\ prune' = [prune EXCEPT ![t] = NothingPruned] /\ LockTypes'
           /\ rows' = [rows EXCEPT ![at[t]] =
                          Append(Visible(t), [by |-> t, role |-> role, step |-> s, n |-> n])]
           /\ Visible(t) \in Seq(Row)
<1>1. at[t] \in Sessions /\ rows[at[t]] \in Seq(Row) /\ prune[t].keep \in Nat /\ prune[t].upto \in Nat
    BY Fields DEF Entered
<1>2. prune[t].keep <= prune[t].upto /\ prune[t].upto <= Len(rows[at[t]])
    BY <1>1 DEF Spans, NothingPruned
<1>3. Visible(t) \in Seq(Row)
    BY <1>1, <1>2, VisibleFacts
<1>4. Append(Visible(t), [by |-> t, role |-> role, step |-> s, n |-> n]) \in Seq(Row)
    BY <1>3, RowType, AppendProperties
<1>5. rows' = [rows EXCEPT ![at[t]] =
                   Append(Visible(t), [by |-> t, role |-> role, step |-> s, n |-> n])]
    BY DEF Record
<1>6. rows' \in [Sessions -> Seq(Row)]
    BY <1>1, <1>4, <1>5 DEF TypeOK
<1>7. images' \in [Sessions -> SUBSET Turns]
    BY <1>1 DEF Record, TypeOK
<1> QED
    BY <1>3, <1>5, <1>6, <1>7, UnlockType DEF Record

\* The initial state is of its type.
LEMMA TypeInit == Init => TypeOK
<1> SUFFICES ASSUME Init PROVE TypeOK
    OBVIOUS
<1>1. \A t \in Turns : NothingPruned \in [keep : Nat, upto : Nat]
    BY DEF NothingPruned
<1>2. rows \in [Sessions -> Seq(Row)] /\ prune \in [Turns -> [keep : Nat, upto : Nat]]
    BY <1>1 DEF Init
<1>3. /\ at \in [Turns -> Sessions \union {None}] /\ userLock \in Turns \union {None}
      /\ sessionLock \in [Sessions -> Turns \union {None}]
      /\ origin \in [Sessions -> {<<>>} \union [session : Sessions, row : Row]]
      /\ target \in [Turns -> {<<>>} \union Row] /\ change \in [Turns -> SUBSET {"model", "user", "settings"}]
    BY DEF Init
<1>4. /\ step \in [Turns -> 1 .. MaxIterations] /\ asked \in [Turns -> 0 .. MaxCalls]
      /\ call \in [Turns -> 0 .. MaxCalls + 1] /\ content \in [Turns -> BOOLEAN]
      /\ branches \in 0 .. MaxBranches /\ deletions \in 0 .. MaxDeletions
    BY DEF Init
<1>5. /\ exists \in [Sessions -> {"no", "yes", "deleted"}] /\ pc \in [Turns -> Places]
      /\ images \in [Sessions -> SUBSET Turns] /\ bytes \in [Sessions -> SUBSET Turns]
      /\ branchedAt \in [Sessions -> SUBSET Row] /\ met \in SUBSET Turns /\ cut \in SUBSET Turns
      /\ undone \in SUBSET Turns /\ informed \in SUBSET Turns
    BY DEF Init, Places
<1> QED
    BY <1>2, <1>3, <1>4, <1>5 DEF TypeOK

\* The end of a turn.
LEMMA EndType ==
    ASSUME TypeOK, NEW t \in Turns, End(t)
    PROVE  /\ pc' \in [Turns -> Places] /\ LockTypes' /\ undone' \in SUBSET Turns
           /\ prune' \in [Turns -> [keep : Nat, upto : Nat]]
<1>1. NothingPruned \in [keep : Nat, upto : Nat]
    BY DEF NothingPruned
<1> QED
    <2>1. pc' = [pc EXCEPT ![t] = "done"] /\ prune' = [prune EXCEPT ![t] = NothingPruned]
        BY DEF End, Goto
    <2>2. pc' \in [Turns -> Places] /\ prune' \in [Turns -> [keep : Nat, upto : Nat]]
        BY <1>1, <2>1 DEF TypeOK, Places
    <2>3. undone' = undone \/ undone' = undone \union {t}
        BY DEF End
    <2>4. undone' \in SUBSET Turns
        BY <2>3 DEF TypeOK
    <2>5. LockTypes'
        BY UnlockType DEF End
    <2> QED
        BY <2>2, <2>4, <2>5

\* What a turn's step leaves alone.
LEMMA TypeEnding ==
    ASSUME TypeOK, NEW t \in Turns,
           DeadlockVictim(t) \/ ResultRefused(t) \/ Finish(t) \/ Close(t)
    PROVE  TypeOK'
<1>1. End(t) /\ (cut' = cut \/ cut' = cut \union {t})
    BY DEF DeadlockVictim, ResultRefused, Finish, Close
<1>2. UNCHANGED <<committed, at, step, asked, call, content, change, target, env, met, informed>>
    BY DEF DeadlockVictim, ResultRefused, Finish, Close
<1> QED
    BY <1>1, <1>2, EndType DEF TypeOK, LockTypes, committed, env

\* A turn that leaves its transaction open.
LEMMA TypeLeaving ==
    ASSUME TypeOK, NEW t \in Turns, SetupFails(t) \/ LeaveTools(t)
    PROVE  TypeOK'
<1>1. Leave(t) /\ (cut' = cut \/ cut' = cut \union {t})
    BY DEF SetupFails, LeaveTools
<1>2. UNCHANGED <<committed, at, step, asked, call, content, change, target, env, met, informed>>
    BY DEF SetupFails, LeaveTools
<1> QED
    BY <1>1, <1>2 DEF TypeOK, Leave, Goto, Places, locks, committed, env

\* The steps before the loop, and those that only move a turn on.
LEMMA TypeSetup ==
    ASSUME TypeOK, NEW t \in Turns,
           \/ EditRefused(t) \/ SetModel(t) \/ ReadHistory(t) \/ PreferUser(t) \/ PreferSession(t)
           \/ Token(t) \/ RunTool(t)
    PROVE  TypeOK'
<1>1. /\ UNCHANGED <<committed, at, step, asked, call, change, target, prune, env, met, cut, undone>>
      /\ (informed' = informed \/ informed' = informed \union {t})
      /\ (content' = content \/ content' = [content EXCEPT ![t] = TRUE])
    BY DEF EditRefused, SetModel, ReadHistory, PreferUser, PreferSession, Token, RunTool,
           turn, history
<1>2. pc' = pc \/ \E p \in Places : pc' = [pc EXCEPT ![t] = p]
    BY DEF EditRefused, SetModel, ReadHistory, PreferUser, PreferSession, Token, RunTool,
           turn, history, Goto, Places
<1>3. sessionLock' = sessionLock \/ LockSession(t)
    BY DEF EditRefused, SetModel, ReadHistory, PreferUser, PreferSession, Token, RunTool, locks
<1>4. userLock' = userLock \/ userLock' = t
    BY DEF EditRefused, SetModel, ReadHistory, PreferUser, PreferSession, Token, RunTool, locks
<1>5. LockTypes'
    <2>1. sessionLock' \in [Sessions -> Turns \union {None}]
        BY <1>3, LockType DEF TypeOK
    <2>2. userLock' \in Turns \union {None}
        BY <1>4 DEF TypeOK
    <2> QED
        BY <2>1, <2>2 DEF LockTypes
<1>6. pc' \in [Turns -> Places]
    <2>1. ASSUME NEW p \in Places, pc' = [pc EXCEPT ![t] = p]
          PROVE  pc' \in [Turns -> Places]
        BY <2>1 DEF TypeOK
    <2> QED
        BY <1>2, <2>1 DEF TypeOK
<1>7. content' \in [Turns -> BOOLEAN] /\ informed' \in SUBSET Turns
    <2>1. content' \in [Turns -> BOOLEAN]
        BY <1>1 DEF TypeOK
    <2>2. informed' \in SUBSET Turns
        BY <1>1 DEF TypeOK
    <2> QED
        BY <2>1, <2>2
<1>8. UNCHANGED <<exists, rows, origin, images, bytes, at, step, asked, call, change, target, prune,
                  branches, deletions, branchedAt, met, cut, undone>>
    BY <1>1 DEF committed, env
<1> QED
    BY <1>5, <1>6, <1>7, <1>8 DEF TypeOK, LockTypes

\* A commit, and what an interrupted turn does.
LEMMA TypeCommit ==
    ASSUME TypeOK, Entered, Spans, NEW t \in Turns, NEW role \in Roles, NEW n \in 0 .. MaxCalls,
           NEW label \in {"touching", "finishing"}, Commit(t, role, n, label)
    PROVE  TypeOK'
<1>1. /\ UNCHANGED <<exists, origin, bytes, at, step, change, target, env, met, cut, informed>>
      /\ content' = [content EXCEPT ![t] = FALSE] /\ pc[t] = "model"
    BY DEF Commit
<1>2. CASE Recordable(t)
    <2>1. /\ Record(t, role, step[t], n) /\ Goto(t, label) /\ undone' = undone
          /\ asked' = [asked EXCEPT ![t] = n] /\ call' = [call EXCEPT ![t] = 1]
        BY <1>2 DEF Commit
    <2>2. step[t] \in 0 .. MaxIterations /\ NothingPruned \in [keep : Nat, upto : Nat]
        BY Fields DEF NothingPruned
    <2>3. /\ rows' \in [Sessions -> Seq(Row)] /\ images' \in [Sessions -> SUBSET Turns]
          /\ prune' = [prune EXCEPT ![t] = NothingPruned] /\ LockTypes'
        BY <1>1, <2>1, <2>2, Recorded
    <2>4. call' \in [Turns -> 0 .. MaxCalls + 1] /\ asked' \in [Turns -> 0 .. MaxCalls]
        BY <2>1 DEF TypeOK
    <2> QED
        BY <1>1, <2>1, <2>2, <2>3, <2>4 DEF TypeOK, LockTypes, Goto, Places, env
<1>3. CASE ~Recordable(t)
    <2>1. End(t) /\ UNCHANGED <<rows, images, asked, call>>
        BY <1>3 DEF Commit
    <2> QED
        BY <1>1, <2>1, EndType DEF TypeOK, LockTypes, env
<1> QED
    BY <1>2, <1>3

\* A reply that breaks off.
LEMMA TypeInterrupted ==
    ASSUME TypeOK, Entered, Spans, NEW t \in Turns, ProviderFails(t) \/ Disconnect(t)
    PROVE  TypeOK'
<1>1. /\ UNCHANGED <<exists, origin, bytes, at, step, content, change, target, env, met, cut, informed>>
      /\ Interrupted(t) /\ pc[t] = "model"
    BY DEF ProviderFails, Disconnect
<1>2. CASE content[t] /\ Recordable(t)
    <2>1. /\ Record(t, "partial", step[t], 0) /\ Goto(t, "touching") /\ UNCHANGED <<undone, call>>
          /\ asked' = [asked EXCEPT ![t] = 0]
        BY <1>1, <1>2 DEF Interrupted
    <2>2. /\ step[t] \in 0 .. MaxIterations /\ NothingPruned \in [keep : Nat, upto : Nat]
          /\ 0 \in 0 .. MaxCalls /\ "partial" \in Roles
        BY Fields DEF NothingPruned, Roles
    <2>3. /\ rows' \in [Sessions -> Seq(Row)] /\ images' \in [Sessions -> SUBSET Turns]
          /\ prune' = [prune EXCEPT ![t] = NothingPruned] /\ LockTypes'
        BY <1>1, <2>1, <2>2, Recorded
    <2>4. asked' \in [Turns -> 0 .. MaxCalls]
        BY <2>1 DEF TypeOK
    <2> QED
        BY <1>1, <2>1, <2>2, <2>3, <2>4 DEF TypeOK, LockTypes, Goto, Places, env
<1>3. CASE content[t] /\ ~Recordable(t)
    <2>1. End(t) /\ UNCHANGED <<rows, images, asked, call>>
        BY <1>1, <1>3 DEF Interrupted
    <2> QED
        BY <1>1, <2>1, EndType DEF TypeOK, LockTypes, env
<1>4. CASE ~content[t]
    <2>1. Leave(t) /\ UNCHANGED <<rows, images, asked, call>>
        BY <1>1, <1>4 DEF Interrupted
    <2> QED
        BY <1>1, <2>1 DEF TypeOK, Leave, Goto, Places, locks, env
<1> QED
    BY <1>2, <1>3, <1>4

\* A result that is stored.
LEMMA TypeResult ==
    ASSUME TypeOK, Entered, Spans, Among, NEW t \in Turns, RecordResult(t)
    PROVE  TypeOK'
<1>1. /\ UNCHANGED <<exists, origin, bytes, at, asked, content, change, target, env, history>>
      /\ Record(t, "tool", step[t], call[t]) /\ pc[t] = "resulted"
      /\ call' = [call EXCEPT ![t] = @ + 1]
      /\ step' = IF Again(t) THEN [step EXCEPT ![t] = @ + 1] ELSE step
      /\ pc' = [pc EXCEPT ![t] = IF ~LastCall(t) THEN "called" ELSE IF Again(t) THEN "model" ELSE "done"]
    BY DEF RecordResult, Goto
<1>2. /\ step[t] \in 0 .. MaxIterations /\ NothingPruned \in [keep : Nat, upto : Nat]
      /\ call[t] \in 0 .. MaxCalls /\ call[t] + 1 \in 0 .. MaxCalls + 1 /\ "tool" \in Roles
    BY <1>1, Fields DEF NothingPruned, Roles, Among
<1>3. /\ rows' \in [Sessions -> Seq(Row)] /\ images' \in [Sessions -> SUBSET Turns]
      /\ prune' = [prune EXCEPT ![t] = NothingPruned] /\ LockTypes'
    BY <1>1, <1>2, Recorded
<1>4. call' \in [Turns -> 0 .. MaxCalls + 1]
    BY <1>1, <1>2 DEF TypeOK
<1>5. step' \in [Turns -> 1 .. MaxIterations]
    <2>1. Again(t) => step[t] + 1 \in 1 .. MaxIterations
        BY Fields DEF Again
    <2> QED
        BY <1>1, <2>1 DEF TypeOK
<1>6. pc' \in [Turns -> Places]
    BY <1>1 DEF TypeOK, Places
<1> QED
    BY <1>1, <1>2, <1>3, <1>4, <1>5, <1>6 DEF TypeOK, LockTypes, env, history

\* What precedes the tools of an iteration.
LEMMA TypeTouch ==
    ASSUME TypeOK, NEW t \in Turns, Touch(t)
    PROVE  TypeOK'
<1>1. UNCHANGED <<committed, at, step, asked, call, content, change, target, env, met, informed>>
    BY DEF Touch
<1>2. CASE exists[at[t]] = "yes"
    <2>1. /\ LockSession(t) /\ Goto(t, IF asked[t] > 0 THEN "called" ELSE "closing")
          /\ UNCHANGED <<userLock, prune, undone, cut>>
        BY <1>2 DEF Touch
    <2> QED
        BY <1>1, <2>1, LockType DEF TypeOK, Goto, Places, committed, env
<1>3. CASE exists[at[t]] # "yes"
    <2>1. End(t) /\ (cut' = cut \/ cut' = cut \union {t})
        BY <1>3 DEF Touch
    <2> QED
        BY <1>1, <2>1, EndType DEF TypeOK, LockTypes, committed, env
<1> QED
    BY <1>2, <1>3

\* A question.
LEMMA TypeAsk ==
    ASSUME TypeOK, Entered, NEW t \in Turns, Ask(t)
    PROVE  TypeOK'
<1> DEFINE row == [by |-> t, role |-> "user", step |-> 0, n |-> 0]
<1>1. /\ UNCHANGED <<exists, origin, locks, at, step, asked, call, content, change, prune, env, history>>
      /\ target' = [target EXCEPT ![t] = row] /\ pc[t] = "saying"
      /\ bytes' = [bytes EXCEPT ![at[t]] = @ \union {t}]
    BY DEF Ask
<1>2. row \in Row /\ at[t] \in Sessions
    BY <1>1 DEF Row, Roles, Entered
<1> HIDE DEF row
<1>3. target' \in [Turns -> {<<>>} \union Row] /\ bytes' \in [Sessions -> SUBSET Turns]
    BY <1>1, <1>2 DEF TypeOK
<1>4. CASE Recordable(t)
    <2>1. /\ rows' = [rows EXCEPT ![at[t]] = Append(@, row)] /\ Goto(t, "setup")
          /\ images' = [images EXCEPT ![at[t]] = @ \union {t}]
        BY <1>4 DEF Ask, row
    <2>2. rows[at[t]] \in Seq(Row) /\ Append(rows[at[t]], row) \in Seq(Row)
        BY <1>2, Fields, AppendProperties
    <2>3. rows' \in [Sessions -> Seq(Row)]
        BY <1>2, <2>1, <2>2 DEF TypeOK
    <2>4. pc' \in [Turns -> Places] /\ images' \in [Sessions -> SUBSET Turns]
        BY <1>2, <2>1 DEF TypeOK, Goto, Places
    <2>5. UNCHANGED <<exists, origin, sessionLock, userLock, at, step, asked, call, content, change, prune,
                      branches, deletions, branchedAt, met, cut, undone, informed>>
        BY <1>1 DEF locks, env, history
    <2> QED
        BY <1>3, <2>3, <2>4, <2>5 DEF TypeOK
<1>5. CASE ~Recordable(t)
    <2>1. Goto(t, "done") /\ UNCHANGED <<rows, images>>
        BY <1>5 DEF Ask
    <2> QED
        BY <1>1, <1>3, <2>1 DEF TypeOK, Goto, Places, locks, env, history
<1> QED
    BY <1>4, <1>5

\* The message a turn edits stands in its transcript.
LEMMA EditPlace ==
    ASSUME TypeOK, Entered, NEW t \in Turns, Edit(t)
    PROVE  /\ at[t] \in Sessions /\ Place(t) \in 1 .. Len(rows[at[t]])
           /\ KeptUpTo(rows[at[t]], Place(t)) \in 0 .. Place(t)
<1>1. pc[t] = "editing" /\ Editable(t)
    BY DEF Edit
<1>2. at[t] \in Sessions /\ rows[at[t]] \in Seq(Row)
    BY <1>1, Fields DEF Entered
<1>3. \E i \in DOMAIN rows[at[t]] : rows[at[t]][i] = target[t]
    BY <1>1 DEF Editable, Elements
<1>4. Place(t) \in DOMAIN rows[at[t]]
    BY <1>3 DEF Place
<1>5. DOMAIN rows[at[t]] = 1 .. Len(rows[at[t]])
    BY <1>2
<1> QED
    BY <1>2, <1>4, <1>5, KeptIsBefore

\* An edit.
LEMMA TypeEdit ==
    ASSUME TypeOK, Entered, NEW t \in Turns, Edit(t)
    PROVE  TypeOK'
<1> DEFINE k == KeptUpTo(rows[at[t]], Place(t))
<1>1. /\ UNCHANGED <<exists, rows, origin, images, at, step, asked, call, content, change, env, history>>
      /\ prune' = [prune EXCEPT ![t] = Span(rows[at[t]], Place(t))]
      /\ bytes' = [bytes EXCEPT ![at[t]] = @ \ GoneImages(t)]
      /\ target' = [target EXCEPT ![t] = IF k = 0 THEN <<>> ELSE rows[at[t]][k]]
      /\ LockSession(t) /\ userLock' = userLock /\ Goto(t, "setup")
    BY DEF Edit
<1>2. at[t] \in Sessions /\ k \in 0 .. Len(rows[at[t]]) /\ rows[at[t]] \in Seq(Row)
    BY EditPlace, Fields
<1>3. Span(rows[at[t]], Place(t)) \in [keep : Nat, upto : Nat]
    BY <1>2 DEF Span
<1>4. (IF k = 0 THEN <<>> ELSE rows[at[t]][k]) \in {<<>>} \union Row
    <2>1. CASE k = 0
        BY <2>1
    <2>2. CASE k # 0
        <3>1. rows[at[t]][k] \in Row
            BY <1>2, <2>2
        <3> QED
            BY <2>2, <3>1
    <2> QED
        BY <2>1, <2>2
<1> HIDE DEF k
<1>5. /\ target' \in [Turns -> {<<>>} \union Row] /\ bytes' \in [Sessions -> SUBSET Turns]
      /\ prune' \in [Turns -> [keep : Nat, upto : Nat]]
    BY <1>1, <1>2, <1>3, <1>4 DEF TypeOK
<1> QED
    BY <1>1, <1>5, LockType DEF TypeOK, Goto, Places, env, history

\* The start of a turn.
LEMMA TypeEnter ==
    ASSUME TypeOK, NEW t \in Turns, NEW s \in Sessions,
           Say(t, s) \/ \E row \in Elements(rows[s]) : StartEdit(t, s, row)
    PROVE  TypeOK'
<1>1. /\ at' = [at EXCEPT ![t] = s] /\ met' \in SUBSET Turns
      /\ change' \in [Turns -> SUBSET {"model", "user", "settings"}]
    <2>1. Enter(t, s)
        BY DEF Say, StartEdit
    <2>2. met' = met \/ met' = met \union {u \in Active : at[u] = s} \union {t}
        BY <2>1 DEF Enter
    <2>3. PICK c \in Preferences : change' = [change EXCEPT ![t] = c]
        BY <2>1 DEF Enter
    <2>4. c \in SUBSET {"model", "user", "settings"}
        OBVIOUS
    <2> QED
        BY <2>1, <2>2, <2>3, <2>4 DEF Enter, TypeOK, Active
<1>2. UNCHANGED <<rows, origin, images, bytes, locks, step, asked, call, content, prune, env, cut,
                  undone, informed>>
    BY DEF Say, StartEdit, committed
<1>3. exists' \in [Sessions -> {"no", "yes", "deleted"}] /\ pc' \in [Turns -> Places]
    <2>1. exists' = exists \/ exists' = [exists EXCEPT ![s] = "yes"]
        BY DEF Say, StartEdit, committed
    <2>2. pc' = [pc EXCEPT ![t] = "saying"] \/ pc' = [pc EXCEPT ![t] = "editing"]
        BY DEF Say, StartEdit, Goto
    <2>3. exists' \in [Sessions -> {"no", "yes", "deleted"}]
        <3>1. exists \in [Sessions -> {"no", "yes", "deleted"}]
            BY DEF TypeOK
        <3> QED
            BY <2>1, <3>1
    <2>4. "saying" \in Places /\ "editing" \in Places
        BY DEF Places
    <2>5. pc' \in [Turns -> Places]
        <3>1. pc \in [Turns -> Places]
            BY DEF TypeOK
        <3> QED
            BY <2>2, <2>4, <3>1
    <2> QED
        BY <2>3, <2>5
<1>4. target' \in [Turns -> {<<>>} \union Row]
    <2>1. CASE Say(t, s)
        BY <2>1 DEF Say, TypeOK
    <2>2. ASSUME NEW row \in Elements(rows[s]), StartEdit(t, s, row)
          PROVE  target' \in [Turns -> {<<>>} \union Row]
        <3>1. rows[s] \in Seq(Row)
            BY Fields
        <3>2. row \in Row
            BY <3>1 DEF Elements
        <3> QED
            BY <2>2, <3>2 DEF StartEdit, TypeOK
    <2> QED
        BY <2>1, <2>2
<1> QED
    BY <1>1, <1>2, <1>3, <1>4 DEF TypeOK, locks, env

\* A branch.
LEMMA TypeBranch ==
    ASSUME TypeOK, NEW s \in Sessions, NEW b \in Sessions, NEW i \in DOMAIN rows[s], Branch(s, b, i)
    PROVE  TypeOK'
<1> DEFINE copied == SubSeq(rows[s], 1, i)
           imaged == {row.by : row \in Elements(copied)} \intersect images[s] \intersect bytes[s]
<1>1. /\ branches < MaxBranches /\ branches' = branches + 1
      /\ exists' = [exists EXCEPT ![b] = "yes"] /\ rows' = [rows EXCEPT ![b] = copied]
      /\ origin' = [origin EXCEPT ![b] = [session |-> s, row |-> rows[s][i]]]
      /\ images' = [images EXCEPT ![b] = imaged] /\ bytes' = [bytes EXCEPT ![b] = imaged]
      /\ branchedAt' = [branchedAt EXCEPT ![b] = branchedAt[s] \union {rows[s][i]}]
      /\ UNCHANGED <<locks, turn, deletions, history>>
    BY DEF Branch
<1>2. rows[s] \in Seq(Row) /\ i \in 1 .. Len(rows[s]) /\ rows[s][i] \in Row
    BY Fields
<1>3. copied \in Seq(Row)
    BY <1>2, Prefix
<1>4. imaged \in SUBSET Turns
    BY DEF TypeOK
<1> HIDE DEF copied, imaged
<1>5. [session |-> s, row |-> rows[s][i]] \in [session : Sessions, row : Row]
    BY <1>2
<1>6. /\ rows' \in [Sessions -> Seq(Row)] /\ images' \in [Sessions -> SUBSET Turns]
      /\ bytes' \in [Sessions -> SUBSET Turns] /\ branchedAt' \in [Sessions -> SUBSET Row]
      /\ exists' \in [Sessions -> {"no", "yes", "deleted"}]
    BY <1>1, <1>2, <1>3, <1>4 DEF TypeOK
<1>7. origin' \in [Sessions -> {<<>>} \union [session : Sessions, row : Row]]
    BY <1>1, <1>5 DEF TypeOK
<1>8. branches' \in 0 .. MaxBranches
    BY <1>1 DEF TypeOK
<1> QED
    BY <1>1, <1>6, <1>7, <1>8 DEF TypeOK, locks, turn, history

\* The deletion of a session.
LEMMA TypeDelete ==
    ASSUME TypeOK, NEW s \in Sessions, DeleteSession(s)
    PROVE  TypeOK'
<1>1. /\ deletions < MaxDeletions /\ deletions' = deletions + 1
      /\ UNCHANGED <<locks, turn, branches, history>>
      /\ rows' = [rows EXCEPT ![s] = <<>>] /\ origin' = [origin EXCEPT ![s] = <<>>]
    BY DEF DeleteSession
<1>2. /\ images' \in [Sessions -> SUBSET Turns]
      /\ bytes' \in [Sessions -> SUBSET Turns] /\ branchedAt' \in [Sessions -> SUBSET Row]
      /\ exists' \in [Sessions -> {"no", "yes", "deleted"}]
    BY DEF DeleteSession, TypeOK
<1>3. <<>> \in Seq(Row)
    OBVIOUS
<1>4. rows' \in [Sessions -> Seq(Row)]
    BY <1>1, <1>3 DEF TypeOK
<1>5. origin' \in [Sessions -> {<<>>} \union [session : Sessions, row : Row]]
    BY <1>1 DEF TypeOK
<1>6. deletions' \in 0 .. MaxDeletions
    BY <1>1 DEF TypeOK
<1> QED
    BY <1>1, <1>2, <1>4, <1>5, <1>6 DEF TypeOK, locks, turn, history

\* What the model asks for at once is within the bound.
LEMMA CallsCommit ==
    ASSUME TypeOK, NEW t \in Turns,
           \/ \E n \in 1 .. MaxCalls + 1 - step[t] : Calls(t, n)
           \/ Unavailable(t) \/ Reply(t)
    PROVE  \E role \in {"calls", "error", "reply"}, n \in 0 .. MaxCalls,
              label \in {"touching", "finishing"} :
               /\ Commit(t, role, n, label)
               /\ role # "calls" => n = 0
               /\ role = "calls" => label = "touching"
<1>1. ASSUME NEW n \in 1 .. MaxCalls + 1 - step[t], Calls(t, n)
      PROVE  n \in 0 .. MaxCalls /\ Commit(t, "calls", n, "touching")
    BY <1>1, Fields DEF Calls
<1>2. 0 \in 0 .. MaxCalls
    OBVIOUS
<1> QED
    BY <1>1, <1>2 DEF Unavailable, Reply

\* Every step keeps the types.
LEMMA TypeStep ==
    ASSUME TypeOK, Entered, Spans, Among, [Next]_vars
    PROVE  TypeOK'
<1>1. ASSUME NEW t \in Turns, Step(t)
      PROVE  TypeOK'
    <2>1. CASE \/ \E n \in 1 .. MaxCalls + 1 - step[t] : Calls(t, n)
               \/ Unavailable(t) \/ Reply(t)
        <3>1. PICK role \in {"calls", "error", "reply"}, n \in 0 .. MaxCalls,
                   label \in {"touching", "finishing"} : Commit(t, role, n, label)
            BY <2>1, CallsCommit
        <3> QED
            BY <3>1, TypeCommit DEF Roles
    <2> QED
        BY <1>1, <2>1, TypeAsk, TypeEdit, TypeSetup, TypeEnding, TypeLeaving, TypeInterrupted,
           TypeTouch, TypeResult DEF Step
<1>2. CASE UNCHANGED vars
    BY <1>2 DEF vars, committed, locks, turn, env, history, TypeOK
<1> QED
    BY <1>1, <1>2, TypeEnter, TypeBranch, TypeDelete DEF Next, Request

(***************************************************************************)
(* What a step of a turn does to the turn itself, to other turns and to    *)
(* the transcript of its session.                                          *)
(***************************************************************************)

\* Nothing another turn remembers changes.
OthersKept(t) ==
    \A v \in Turns \ {t} :
        /\ pc'[v] = pc[v] /\ at'[v] = at[v] /\ step'[v] = step[v] /\ asked'[v] = asked[v]
        /\ call'[v] = call[v] /\ target'[v] = target[v] /\ prune'[v] = prune[v]

\* Nobody's lock on a session's row is taken away.
LocksKept(t) ==
    \A s \in Sessions : sessionLock[s] \notin {None, t} => sessionLock'[s] = sessionLock[s]

\* The turn's session gets one more row, and loses what the turn had pruned.
Adds(t, r) ==
    LET s == at[t]
        gone == prune[t].upto - prune[t].keep
    IN  /\ \A o \in Sessions \ {s} : rows'[o] = rows[o]
        /\ Len(rows'[s]) = Len(rows[s]) - gone + 1
        /\ \A i \in 1 .. prune[t].keep : rows'[s][i] = rows[s][i]
        /\ \A i \in prune[t].upto + 1 .. Len(rows[s]) : rows'[s][i - gone] = rows[s][i]
        /\ rows'[s][Len(rows[s]) - gone + 1] = r
        /\ r \in Row /\ r.by = t /\ prune'[t] = NothingPruned /\ exists[s] = "yes"

\* The row is the question of a turn,
AsksRow(t, r) ==
    /\ pc[t] = "saying" /\ pc'[t] = "setup" /\ r.role = "user" /\ r.step = 0
    /\ prune[t] = NothingPruned /\ target'[t] = r
    /\ step'[t] = step[t] /\ asked'[t] = asked[t] /\ call'[t] = call[t]
\* what the model answered, or said in its place,
LoopRow(t, r) ==
    /\ pc[t] = "model" /\ pc'[t] \in {"touching", "finishing"}
    /\ step'[t] = step[t] /\ target'[t] = target[t]
    /\ r.role \in {"calls", "error", "reply", "partial"} /\ r.step = step[t] /\ r.n = asked'[t]
    /\ r.role = "calls" => call'[t] = 1 /\ pc'[t] = "touching"
    /\ r.role # "calls" => r.n = 0
\* or the result of the next call of the iteration.
ToolRow(t, r) ==
    /\ pc[t] = "resulted" /\ r.role = "tool" /\ r.step = step[t] /\ r.n = call[t]
    /\ prune[t] = NothingPruned /\ target'[t] = target[t]
    /\ asked'[t] = asked[t] /\ call'[t] = call[t] + 1
    /\ IF call[t] < asked[t] THEN pc'[t] = "called" /\ step'[t] = step[t]
       ELSE \/ pc'[t] = "model" /\ step'[t] = step[t] + 1
            \/ pc'[t] = "done" /\ step'[t] = step[t]
\* A step that adds a row.
AddsRow(t, r) == Adds(t, r) /\ (AsksRow(t, r) \/ LoopRow(t, r) \/ ToolRow(t, r))

\* A step that leaves the transcript alone.
Ends(t) ==
    /\ pc'[t] = "done" /\ prune'[t] = NothingPruned
    /\ step'[t] = step[t] /\ asked'[t] = asked[t] /\ call'[t] = call[t]
    /\ pc[t] \in AtTools /\ asked[t] > 0 => t \in cut'
    /\ pc[t] = "saying" => exists[at[t]] # "yes"
Edits(t) ==
    /\ pc[t] = "editing" /\ pc'[t] = "setup" /\ prune[t] = NothingPruned /\ exists[at[t]] = "yes"
    /\ prune'[t].keep = KeptUpTo(rows[at[t]], Place(t)) /\ prune'[t].upto = Len(rows[at[t]])
    /\ Place(t) \in 1 .. Len(rows[at[t]])
    /\ prune'[t].keep \in 0 .. Place(t)
    /\ target'[t] = IF prune'[t].keep = 0 THEN <<>> ELSE rows[at[t]][prune'[t].keep]
    /\ sessionLock'[at[t]] = t
    /\ step'[t] = step[t] /\ asked'[t] = asked[t] /\ call'[t] = call[t]
Abandons(t) ==
    /\ pc[t] \in BeforeLoop \union AtTools /\ pc'[t] = "closing"
    /\ pc[t] \in AtTools /\ asked[t] > 0 => t \in cut'
Proceeds(t) ==
    /\ \/ pc[t] \in BeforeLoop /\ pc'[t] \in BeforeLoop
       \/ pc[t] = "touching" /\ pc'[t] = "called" /\ asked[t] > 0
       \/ pc[t] = "called" /\ pc'[t] = "resulted"
       \/ Abandons(t)
    /\ prune'[t] = prune[t] /\ target'[t] = target[t]
    /\ step'[t] = step[t] /\ asked'[t] = asked[t] /\ call'[t] = call[t]
    /\ sessionLock[at[t]] = t => sessionLock'[at[t]] = t
Quiet(t) == rows' = rows /\ (Ends(t) \/ Edits(t) \/ Proceeds(t))

\* A step of a turn.
TurnStep(t) ==
    /\ pc[t] # "new" /\ OthersKept(t) /\ LocksKept(t)
    /\ UNCHANGED <<exists, at, branchedAt, met>> /\ cut \subseteq cut'
    /\ undone \subseteq undone' /\ informed \subseteq informed'
    /\ Quiet(t) \/ \E r \in Row : AddsRow(t, r)

\* Of the place of a turn before its step.
LEMMA Sites ==
    ASSUME TypeOK, Entered, Spans, NEW t \in Turns, pc[t] # "new"
    PROVE  /\ at[t] \in Sessions /\ rows[at[t]] \in Seq(Row) /\ Len(rows[at[t]]) \in Nat
           /\ prune[t].keep \in Nat /\ prune[t].upto \in Nat
           /\ prune[t].keep <= prune[t].upto /\ prune[t].upto <= Len(rows[at[t]])
           /\ pc[t] \notin BeforeLoop \union {"closing"} => prune[t] = NothingPruned
<1>1. at[t] \in Sessions /\ rows[at[t]] \in Seq(Row) /\ prune[t].keep \in Nat /\ prune[t].upto \in Nat
    BY Fields DEF Entered
<1>2. Len(rows[at[t]]) \in Nat
    BY <1>1
<1> QED
    BY <1>1, <1>2 DEF Spans, NothingPruned

\* A turn that appends to what it sees adds that row and loses what it pruned.
LEMMA AppendAdds ==
    ASSUME TypeOK, Entered, Spans, NEW t \in Turns, pc[t] # "new", NEW r \in Row, r.by = t,
           rows' = [rows EXCEPT ![at[t]] = Append(Visible(t), r)],
           prune'[t] = NothingPruned, exists[at[t]] = "yes"
    PROVE  Adds(t, r)
<1> DEFINE s == at[t]
           gone == prune[t].upto - prune[t].keep
<1>1. /\ s \in Sessions /\ rows[s] \in Seq(Row) /\ Len(rows[s]) \in Nat
      /\ prune[t].keep \in Nat /\ prune[t].upto \in Nat
      /\ prune[t].keep <= prune[t].upto /\ prune[t].upto <= Len(rows[s])
    BY Sites
<1>2. /\ Visible(t) \in Seq(Row) /\ Len(Visible(t)) = Len(rows[s]) - gone
      /\ \A i \in 1 .. prune[t].keep : Visible(t)[i] = rows[s][i]
      /\ \A i \in prune[t].upto + 1 .. Len(rows[s]) : Visible(t)[i - gone] = rows[s][i]
    BY <1>1, VisibleFacts
<1>3. PICK new : new = Append(Visible(t), r)
    OBVIOUS
<1>4. /\ Len(new) = Len(Visible(t)) + 1 /\ new[Len(Visible(t)) + 1] = r
      /\ \A i \in 1 .. Len(Visible(t)) : new[i] = Visible(t)[i]
    BY <1>2, <1>3, AppendProperties
<1>5. rows'[s] = new /\ \A o \in Sessions \ {s} : rows'[o] = rows[o]
    BY <1>1, <1>3 DEF TypeOK
<1>6. ASSUME NEW i \in 1 .. prune[t].keep
      PROVE  new[i] = rows[s][i]
    <2>1. i \in 1 .. Len(Visible(t))
        BY <1>1, <1>2
    <2> QED
        BY <1>2, <1>4, <2>1
<1>7. ASSUME NEW i \in prune[t].upto + 1 .. Len(rows[s])
      PROVE  new[i - gone] = rows[s][i]
    <2>1. i - gone \in 1 .. Len(Visible(t))
        <3>1. Len(Visible(t)) = Len(rows[s]) - gone
            BY <1>2
        <3>2. i - gone \in 1 .. Len(rows[s]) - gone
            BY <1>1, LeftOut
        <3> QED
            BY <3>1, <3>2
    <2> QED
        BY <1>2, <1>4, <2>1
<1>8. Len(new) = Len(rows[s]) - gone + 1 /\ new[Len(rows[s]) - gone + 1] = r
    BY <1>2, <1>4
<1> QED
    BY <1>5, <1>6, <1>7, <1>8 DEF Adds

\* Where nothing is pruned, everything is seen.
LEMMA NothingWithout ==
    ASSUME NEW seq \in Seq(Row)
    PROVE  Without(seq, NothingPruned) = seq
<1>1. PICK span, res : span = NothingPruned /\ res = Without(seq, span)
    OBVIOUS
<1>2. span.keep = 0 /\ span.upto = 0 /\ Len(seq) \in Nat
    BY <1>1 DEF NothingPruned
<1>3. /\ Without(seq, span) \in Seq(Row) /\ Len(Without(seq, span)) = Len(seq) - (0 - 0)
      /\ \A i \in 0 + 1 .. Len(seq) : Without(seq, span)[i - (0 - 0)] = seq[i]
    BY <1>2, WithoutSpan
<1>4. res \in Seq(Row) /\ Len(res) = Len(seq)
    BY <1>1, <1>2, <1>3
<1>5. ASSUME NEW i \in 1 .. Len(res)
      PROVE  res[i] = seq[i]
    <2>1. i \in 0 + 1 .. Len(seq) /\ i - (0 - 0) = i
        BY <1>2, <1>4
    <2> QED
        BY <1>1, <1>3, <2>1
<1>6. res = seq
    BY <1>4, <1>5, SeqEqual
<1> QED
    BY <1>1, <1>6

\* A turn that has pruned nothing sees the whole transcript.
LEMMA Unpruned ==
    ASSUME NEW t \in Turns, rows[at[t]] \in Seq(Row), prune[t] = NothingPruned
    PROVE  Visible(t) = rows[at[t]]
BY NothingWithout DEF Visible

\* The same after a step.
LEMMA UnprunedNext ==
    ASSUME NEW t \in Turns, rows'[at'[t]] \in Seq(Row), prune'[t] = NothingPruned
    PROVE  Visible(t)' = rows'[at'[t]]
BY NothingWithout DEF Visible

\* Taking a free lock and releasing one's own takes nobody's away.
LEMMA UnlockKeeps ==
    ASSUME TypeOK, NEW t \in Turns, Unlock(t) \/ (LockSession(t) /\ SessionFree(t)) \/ sessionLock' = sessionLock
    PROVE  LocksKept(t)
BY DEF TypeOK, Unlock, LockSession, SessionFree, LocksKept

\* Whatever ends a turn is a step of the abstract turn.
LEMMA EndStep ==
    ASSUME TypeOK, NEW t \in Turns, End(t), pc[t] \notin {"new", "saying"},
           UNCHANGED <<rows, exists, env, met, informed>>,
           UNCHANGED <<at, step, asked, call, target>>, cut \subseteq cut',
           pc[t] \in AtTools /\ asked[t] > 0 => t \in cut'
    PROVE  TurnStep(t)
<1>1. OthersKept(t) /\ Ends(t)
    BY DEF OthersKept, Ends, End, Goto, TypeOK
<1>2. LocksKept(t)
    BY UnlockKeeps DEF End
<1>3. undone \subseteq undone' /\ UNCHANGED branchedAt
    BY DEF End, env
<1> QED
    BY <1>1, <1>2, <1>3 DEF TurnStep, Quiet

\* A turn that leaves its transaction open goes on to its end.
LEMMA LeaveStep ==
    ASSUME TypeOK, NEW t \in Turns, Leave(t), pc[t] \in BeforeLoop \union AtTools,
           UNCHANGED <<rows, exists, env, met, informed>>,
           UNCHANGED <<at, step, asked, call, target>>, cut \subseteq cut',
           pc[t] \in AtTools /\ asked[t] > 0 => t \in cut'
    PROVE  TurnStep(t)
<1>1. UNCHANGED <<prune, undone, sessionLock>>
    BY DEF Leave, locks
<1>2. pc'[t] = "closing" /\ \A v \in Turns \ {t} : pc'[v] = pc[v]
    BY DEF Leave, Goto, TypeOK
<1>3. OthersKept(t) /\ Proceeds(t) /\ LocksKept(t)
    BY <1>1, <1>2, UnlockKeeps DEF OthersKept, Proceeds, Abandons
<1>4. pc[t] # "new" /\ undone \subseteq undone' /\ UNCHANGED branchedAt
    BY <1>1 DEF BeforeLoop, AtTools, env
<1> QED
    BY <1>3, <1>4 DEF TurnStep, Quiet

\* So are the failures that end it,
LEMMA EndingStep ==
    ASSUME TypeOK, NEW t \in Turns,
           DeadlockVictim(t) \/ ResultRefused(t) \/ Finish(t) \/ Close(t)
    PROVE  TurnStep(t)
<1>1. /\ End(t) /\ UNCHANGED <<rows, exists, env, met, informed>> /\ UNCHANGED <<at, step, asked, call, target>>
    BY DEF DeadlockVictim, ResultRefused, Finish, Close, committed
<1>2. cut \subseteq cut' /\ (pc[t] \in AtTools => t \in cut') /\ pc[t] \notin {"new", "saying"}
    BY DEF DeadlockVictim, ResultRefused, Finish, Close, AtTools
<1> QED
    BY <1>1, <1>2, EndStep

\* and those that leave its session to be closed,
LEMMA LeavingStep ==
    ASSUME TypeOK, NEW t \in Turns, SetupFails(t) \/ LeaveTools(t)
    PROVE  TurnStep(t)
<1>1. /\ Leave(t) /\ UNCHANGED <<rows, exists, env, met, informed>> /\ UNCHANGED <<at, step, asked, call, target>>
    BY DEF SetupFails, LeaveTools, committed
<1>2. cut \subseteq cut' /\ (pc[t] \in AtTools => t \in cut') /\ pc[t] \in BeforeLoop \union AtTools
    BY DEF SetupFails, LeaveTools, AtTools, BeforeLoop
<1> QED
    BY <1>1, <1>2, LeaveStep

\* the steps that only move it on,
LEMMA SetupStep ==
    ASSUME TypeOK, NEW t \in Turns,
           \/ SetModel(t) \/ ReadHistory(t) \/ PreferUser(t) \/ PreferSession(t)
           \/ Token(t) \/ RunTool(t)
    PROVE  TurnStep(t)
<1>1. /\ UNCHANGED <<committed, at, step, asked, call, change, target, prune, env, met, cut, undone>>
      /\ informed \subseteq informed'
    BY DEF SetModel, ReadHistory, PreferUser, PreferSession, Token, RunTool, turn, history
<1>2. \/ pc[t] \in BeforeLoop /\ pc'[t] \in BeforeLoop
      \/ pc[t] = "called" /\ pc'[t] = "resulted"
    BY DEF SetModel, ReadHistory, PreferUser, PreferSession, Token, RunTool, BeforeLoop, Goto, TypeOK
<1>3. \A v \in Turns \ {t} : pc'[v] = pc[v]
    BY DEF SetModel, ReadHistory, PreferUser, PreferSession, Token, RunTool, Goto, TypeOK
<1>4. sessionLock' = sessionLock \/ (LockSession(t) /\ SessionFree(t))
    BY DEF SetModel, ReadHistory, PreferUser, PreferSession, Token, RunTool, locks
<1>5. sessionLock[at[t]] = t => sessionLock'[at[t]] = t
    <2>1. CASE at[t] \in Sessions
        BY <1>4, <2>1 DEF LockSession, TypeOK
    <2>2. CASE at[t] \notin Sessions
        BY <1>4, <2>2 DEF LockSession, TypeOK
    <2> QED
        BY <2>1, <2>2
<1>6. LocksKept(t)
    BY <1>4, UnlockKeeps
<1>7. OthersKept(t) /\ Proceeds(t)
    BY <1>1, <1>2, <1>3, <1>5 DEF OthersKept, Proceeds
<1> QED
    BY <1>1, <1>2, <1>6, <1>7 DEF TurnStep, Quiet, committed, env, BeforeLoop

\* an edit that is refused,
LEMMA RefusedStep ==
    ASSUME TypeOK, Entered, Spans, NEW t \in Turns, EditRefused(t)
    PROVE  TurnStep(t)
<1>1. prune[t] = NothingPruned /\ pc[t] # "new"
    BY Sites DEF EditRefused, BeforeLoop
<1>2. OthersKept(t) /\ Ends(t)
    BY <1>1 DEF EditRefused, OthersKept, Ends, Goto, TypeOK, AtTools
<1>3. LocksKept(t) /\ UNCHANGED <<rows, exists, at, branchedAt, met, cut, undone, informed>>
    BY UnlockKeeps DEF EditRefused, locks, committed, env, history
<1> QED
    BY <1>1, <1>2, <1>3 DEF TurnStep, Quiet

\* what precedes the tools,
LEMMA TouchStep ==
    ASSUME TypeOK, NEW t \in Turns, Touch(t)
    PROVE  TurnStep(t)
<1>1. /\ UNCHANGED <<committed, at, step, asked, call, content, change, target, env, met, informed>>
      /\ pc[t] = "touching"
    BY DEF Touch
<1>2. CASE exists[at[t]] = "yes"
    <2>1. /\ SessionFree(t) /\ LockSession(t)
          /\ Goto(t, IF asked[t] > 0 THEN "called" ELSE "closing")
          /\ UNCHANGED <<userLock, prune, undone, cut>>
        BY <1>2 DEF Touch
    <2>2. LocksKept(t)
        BY <2>1, UnlockKeeps
    <2>3. sessionLock[at[t]] = t => sessionLock'[at[t]] = t
        BY <2>1 DEF LockSession, TypeOK
    <2>4. OthersKept(t) /\ Proceeds(t)
        BY <1>1, <1>2, <2>1, <2>3 DEF OthersKept, Proceeds, Abandons, AtTools, Goto, TypeOK
    <2> QED
        BY <1>1, <2>1, <2>2, <2>4 DEF TurnStep, Quiet, committed, env
<1>3. CASE exists[at[t]] # "yes"
    <2>1. End(t) /\ cut' = IF asked[t] > 0 THEN cut \union {t} ELSE cut
        BY <1>3 DEF Touch
    <2>2. cut \subseteq cut' /\ (asked[t] > 0 => t \in cut')
        BY <2>1
    <2>3. UNCHANGED <<rows, exists, env, met, informed>> /\ UNCHANGED <<at, step, asked, call, target>>
        BY <1>1 DEF committed
    <2> QED
        BY <1>1, <2>1, <2>2, <2>3, EndStep
<1> QED
    BY <1>2, <1>3

\* an edit,
LEMMA EditStep ==
    ASSUME TypeOK, Entered, Spans, NEW t \in Turns, Edit(t)
    PROVE  TurnStep(t)
<1> DEFINE k == KeptUpTo(rows[at[t]], Place(t))
<1>1. /\ UNCHANGED <<exists, rows, origin, images, at, step, asked, call, content, change, env, history>>
      /\ prune' = [prune EXCEPT ![t] = Span(rows[at[t]], Place(t))]
      /\ target' = [target EXCEPT ![t] = IF k = 0 THEN <<>> ELSE rows[at[t]][k]]
      /\ LockSession(t) /\ SessionFree(t) /\ Goto(t, "setup") /\ pc[t] = "editing"
      /\ target[t] \in Elements(rows[at[t]])
    BY DEF Edit, Editable
<1>2. /\ at[t] \in Sessions /\ Place(t) \in 1 .. Len(rows[at[t]]) /\ k \in 0 .. Place(t)
    BY EditPlace
<1>3. exists[at[t]] = "yes" /\ prune[t] = NothingPruned
    <2>1. rows[at[t]] # <<>>
        BY <1>1 DEF Elements
    <2> QED
        BY <1>1, <1>2, <2>1, Sites DEF Entered, BeforeLoop
<1>4. LocksKept(t) /\ sessionLock'[at[t]] = t
    <2>1. LocksKept(t)
        BY <1>1, UnlockKeeps
    <2>2. sessionLock'[at[t]] = t
        BY <1>1, <1>2 DEF LockSession, TypeOK
    <2> QED
        BY <2>1, <2>2
<1>5. prune'[t].keep = k /\ prune'[t].upto = Len(rows[at[t]])
    BY <1>1 DEF TypeOK, Span
<1>6. target'[t] = IF k = 0 THEN <<>> ELSE rows[at[t]][k]
    BY <1>1 DEF TypeOK
<1>7. pc'[t] = "setup" /\ step'[t] = step[t] /\ asked'[t] = asked[t] /\ call'[t] = call[t]
    BY <1>1 DEF Goto, TypeOK
<1>8. Edits(t)
    BY <1>1, <1>2, <1>3, <1>4, <1>5, <1>6, <1>7 DEF Edits
<1>9. OthersKept(t)
    BY <1>1 DEF OthersKept, Goto, TypeOK
<1> QED
    BY <1>1, <1>4, <1>8, <1>9 DEF TurnStep, Quiet, env, history

\* a question,
LEMMA AskStep ==
    ASSUME TypeOK, Entered, Spans, NEW t \in Turns, Ask(t)
    PROVE  TurnStep(t)
<1>1. PICK r : r = [by |-> t, role |-> "user", step |-> 0, n |-> 0]
    OBVIOUS
<1>2. /\ UNCHANGED <<exists, origin, locks, at, step, asked, call, content, change, prune, env, history>>
      /\ target' = [target EXCEPT ![t] = r] /\ pc[t] = "saying"
    BY <1>1 DEF Ask
<1>3. /\ at[t] \in Sessions /\ rows[at[t]] \in Seq(Row) /\ prune[t] = NothingPruned
      /\ Len(rows[at[t]]) \in Nat
    BY <1>2, Sites DEF BeforeLoop
<1>4. r \in Row /\ r.by = t /\ r.role = "user" /\ r.step = 0
    BY <1>1 DEF Row, Roles
<1>5. LocksKept(t) /\ UNCHANGED <<exists, at, branchedAt, met, cut, undone, informed>>
    BY <1>2, UnlockKeeps DEF locks, env, history
<1>6. OthersKept(t)
    BY <1>2 DEF Ask, OthersKept, Goto, TypeOK
<1>7. CASE Recordable(t)
    <2>1. rows' = [rows EXCEPT ![at[t]] = Append(@, r)] /\ Goto(t, "setup")
        BY <1>1, <1>7 DEF Ask
    <2>2. Visible(t) = rows[at[t]]
        BY <1>3, Unpruned
    <2>3. Adds(t, r)
        BY <1>2, <1>3, <1>4, <1>7, <2>1, <2>2, AppendAdds DEF Recordable
    <2>4. AsksRow(t, r)
        BY <1>2, <1>3, <1>4, <2>1 DEF AsksRow, Goto, TypeOK
    <2> QED
        BY <1>2, <1>4, <1>5, <1>6, <2>3, <2>4 DEF TurnStep, AddsRow
<1>8. CASE ~Recordable(t)
    <2>1. Goto(t, "done") /\ rows' = rows
        BY <1>8 DEF Ask
    <2> QED
        BY <1>2, <1>3, <1>5, <1>6, <1>8, <2>1 DEF TurnStep, Quiet, Ends, Goto, TypeOK, AtTools, Recordable
<1> QED
    BY <1>7, <1>8

\* an answer of the model,
LEMMA CommitStep ==
    ASSUME TypeOK, Entered, Spans, NEW t \in Turns, NEW role \in {"calls", "error", "reply"},
           NEW n \in 0 .. MaxCalls, NEW label \in {"touching", "finishing"}, Commit(t, role, n, label),
           role # "calls" => n = 0, role = "calls" => label = "touching"
    PROVE  TurnStep(t)
<1>1. PICK r : r = [by |-> t, role |-> role, step |-> step[t], n |-> n]
    OBVIOUS
<1>2. /\ UNCHANGED <<exists, origin, bytes, at, step, change, target, env, met, cut, informed>>
      /\ pc[t] = "model"
    BY DEF Commit
<1>3. CASE Recordable(t)
    <2>1. /\ Record(t, role, step[t], n) /\ Goto(t, label) /\ undone' = undone
          /\ asked' = [asked EXCEPT ![t] = n] /\ call' = [call EXCEPT ![t] = 1]
        BY <1>3 DEF Commit
    <2>2. role \in Roles /\ step[t] \in 0 .. MaxIterations
        BY Fields DEF Roles
    <2>3. r \in Row /\ r.by = t /\ r.role = role /\ r.step = step[t] /\ r.n = n
        BY <1>1, <2>2 DEF Row
    <2>4. /\ prune' = [prune EXCEPT ![t] = NothingPruned]
          /\ rows' = [rows EXCEPT ![at[t]] = Append(Visible(t), r)]
        BY <1>1, <2>1 DEF Record
    <2>5. prune'[t] = NothingPruned /\ exists[at[t]] = "yes"
        BY <1>3, <2>4 DEF TypeOK, Recordable
    <2>6. Adds(t, r)
        BY <1>2, <2>3, <2>4, <2>5, AppendAdds
    <2>7. LoopRow(t, r)
        BY <1>2, <2>1, <2>3 DEF LoopRow, Goto, TypeOK
    <2>8. OthersKept(t)
        BY <1>2, <2>1, <2>4 DEF OthersKept, Goto, TypeOK
    <2>9. LocksKept(t)
        BY <2>1, UnlockKeeps DEF Record
    <2> QED
        BY <1>2, <2>1, <2>3, <2>6, <2>7, <2>8, <2>9 DEF TurnStep, AddsRow, env
<1>4. CASE ~Recordable(t)
    <2>1. End(t) /\ UNCHANGED <<rows, images, asked, call>>
        BY <1>4 DEF Commit
    <2> QED
        BY <1>2, <2>1, EndStep DEF AtTools
<1> QED
    BY <1>3, <1>4

\* an answer that breaks off,
LEMMA InterruptedStep ==
    ASSUME TypeOK, Entered, Spans, NEW t \in Turns, ProviderFails(t) \/ Disconnect(t)
    PROVE  TurnStep(t)
<1>1. PICK r : r = [by |-> t, role |-> "partial", step |-> step[t], n |-> 0]
    OBVIOUS
<1>2. /\ UNCHANGED <<exists, origin, bytes, at, step, change, target, env, met, cut, informed>>
      /\ pc[t] = "model" /\ Interrupted(t)
    BY DEF ProviderFails, Disconnect
<1>3. CASE content[t] /\ Recordable(t)
    <2>1. /\ Record(t, "partial", step[t], 0) /\ Goto(t, "touching") /\ undone' = undone
          /\ asked' = [asked EXCEPT ![t] = 0] /\ call' = call
        BY <1>2, <1>3 DEF Interrupted
    <2>2. step[t] \in 0 .. MaxIterations /\ 0 \in 0 .. MaxCalls
        BY Fields
    <2>3. r \in Row /\ r.by = t /\ r.role = "partial" /\ r.step = step[t] /\ r.n = 0
        BY <1>1, <2>2 DEF Row, Roles
    <2>4. /\ prune' = [prune EXCEPT ![t] = NothingPruned]
          /\ rows' = [rows EXCEPT ![at[t]] = Append(Visible(t), r)]
        BY <1>1, <2>1 DEF Record
    <2>5. prune'[t] = NothingPruned /\ exists[at[t]] = "yes"
        BY <1>3, <2>4 DEF TypeOK, Recordable
    <2>6. Adds(t, r)
        BY <1>2, <2>3, <2>4, <2>5, AppendAdds
    <2>7. LoopRow(t, r)
        BY <1>2, <2>1, <2>3 DEF LoopRow, Goto, TypeOK
    <2>8. OthersKept(t)
        BY <1>2, <2>1, <2>4 DEF OthersKept, Goto, TypeOK
    <2>9. LocksKept(t)
        BY <2>1, UnlockKeeps DEF Record
    <2> QED
        BY <1>2, <2>1, <2>3, <2>6, <2>7, <2>8, <2>9 DEF TurnStep, AddsRow, env
<1>4. CASE content[t] /\ ~Recordable(t)
    <2>1. End(t) /\ UNCHANGED <<rows, images, asked, call>>
        BY <1>2, <1>4 DEF Interrupted
    <2> QED
        BY <1>2, <2>1, EndStep DEF AtTools
<1>5. CASE ~content[t]
    <2>1. Leave(t) /\ UNCHANGED <<rows, images, asked, call>>
        BY <1>2, <1>5 DEF Interrupted
    <2> QED
        BY <1>2, <2>1, LeaveStep DEF AtTools, BeforeLoop
<1> QED
    BY <1>3, <1>4, <1>5

\* and a result that is stored.
LEMMA ResultStep ==
    ASSUME TypeOK, Entered, Spans, Among, NEW t \in Turns, RecordResult(t)
    PROVE  TurnStep(t)
<1>1. PICK r : r = [by |-> t, role |-> "tool", step |-> step[t], n |-> call[t]]
    OBVIOUS
<1>2. /\ UNCHANGED <<exists, origin, bytes, at, asked, content, change, target, env, history>>
      /\ pc[t] = "resulted" /\ Recordable(t) /\ Record(t, "tool", step[t], call[t])
      /\ call' = [call EXCEPT ![t] = @ + 1]
      /\ step' = IF Again(t) THEN [step EXCEPT ![t] = @ + 1] ELSE step
      /\ pc' = [pc EXCEPT ![t] = IF ~LastCall(t) THEN "called" ELSE IF Again(t) THEN "model" ELSE "done"]
    BY DEF RecordResult, Goto
<1>3. /\ step[t] \in 0 .. MaxIterations /\ call[t] \in 0 .. MaxCalls
      /\ 1 <= call[t] /\ call[t] <= asked[t] /\ asked[t] \in Nat
    BY <1>2, Fields DEF Among
<1>4. r \in Row /\ r.by = t /\ r.role = "tool" /\ r.step = step[t] /\ r.n = call[t]
    BY <1>1, <1>3 DEF Row, Roles
<1>5. /\ prune' = [prune EXCEPT ![t] = NothingPruned] /\ Unlock(t)
      /\ rows' = [rows EXCEPT ![at[t]] = Append(Visible(t), r)]
    BY <1>1, <1>2 DEF Record
<1>6. prune'[t] = NothingPruned /\ exists[at[t]] = "yes"
    BY <1>2, <1>5 DEF TypeOK, Recordable
<1>7. Adds(t, r)
    BY <1>2, <1>4, <1>5, <1>6, AppendAdds
<1>8. prune[t] = NothingPruned
    BY <1>2, Sites DEF BeforeLoop
<1>9. call'[t] = call[t] + 1 /\ asked'[t] = asked[t] /\ target'[t] = target[t]
    BY <1>2 DEF TypeOK
<1>10. IF call[t] < asked[t] THEN pc'[t] = "called" /\ step'[t] = step[t]
       ELSE \/ pc'[t] = "model" /\ step'[t] = step[t] + 1
            \/ pc'[t] = "done" /\ step'[t] = step[t]
    <2>1. CASE call[t] < asked[t]
        <3>1. pc'[t] = "called" /\ step'[t] = step[t]
            BY <1>2, <1>3, <2>1 DEF LastCall, Again, TypeOK
        <3> QED
            BY <2>1, <3>1
    <2>2. CASE ~(call[t] < asked[t])
        <3>1. call[t] = asked[t]
            BY <1>3, <2>2
        <3>2. \/ pc'[t] = "model" /\ step'[t] = step[t] + 1
              \/ pc'[t] = "done" /\ step'[t] = step[t]
            BY <1>2, <3>1 DEF LastCall, Again, TypeOK
        <3> QED
            BY <2>2, <3>2
    <2> QED
        BY <2>1, <2>2
<1>11. ToolRow(t, r)
    BY <1>2, <1>4, <1>8, <1>9, <1>10 DEF ToolRow
<1>12. OthersKept(t)
    BY <1>2, <1>5 DEF OthersKept, TypeOK
<1>13. LocksKept(t)
    BY <1>5, UnlockKeeps
<1> QED
    BY <1>2, <1>4, <1>7, <1>11, <1>12, <1>13 DEF TurnStep, AddsRow, env, history

\* Every step of a turn is one of the abstract turn: what follows argues from
\* that alone.
LEMMA StepIsTurnStep ==
    ASSUME TypeOK, Entered, Spans, Among, NEW t \in Turns, Step(t)
    PROVE  TurnStep(t)
<1>1. CASE \/ \E n \in 1 .. MaxCalls + 1 - step[t] : Calls(t, n)
           \/ Unavailable(t) \/ Reply(t)
    <2>1. PICK role \in {"calls", "error", "reply"}, n \in 0 .. MaxCalls,
               label \in {"touching", "finishing"} :
              /\ Commit(t, role, n, label)
              /\ role # "calls" => n = 0
              /\ role = "calls" => label = "touching"
        BY <1>1, CallsCommit
    <2> QED
        BY <2>1, CommitStep
<1> QED
    BY <1>1, AskStep, EditStep, RefusedStep, SetupStep, EndingStep, LeavingStep, InterruptedStep,
       TouchStep, ResultStep DEF Step

(***************************************************************************)
(* The invariant of transcripts is kept by a step of a turn.               *)
(***************************************************************************)

\* Where the rows of a transcript come from when a turn adds one.
LEMMA AddedRows ==
    ASSUME TypeOK, Entered, Spans, NEW t \in Turns, pc[t] # "new", NEW r \in Row, Adds(t, r)
    PROVE  LET gone == prune[t].upto - prune[t].keep
               s == at[t]
           IN  /\ Len(rows'[s]) \in Nat /\ gone \in Nat
               /\ \A i \in 1 .. Len(rows'[s]) :
                     \/ i = Len(rows'[s]) /\ rows'[s][i] = r
                     \/ i <= prune[t].keep /\ i \in 1 .. Len(rows[s]) /\ rows'[s][i] = rows[s][i]
                     \/ /\ i > prune[t].keep /\ i + gone \in 1 .. Len(rows[s])
                        /\ rows'[s][i] = rows[s][i + gone]
<1> DEFINE s == at[t]
           gone == prune[t].upto - prune[t].keep
<1>1. /\ s \in Sessions /\ Len(rows[s]) \in Nat
      /\ prune[t].keep \in Nat /\ prune[t].upto \in Nat
      /\ prune[t].keep <= prune[t].upto /\ prune[t].upto <= Len(rows[s])
    BY Sites
<1>2. /\ Len(rows'[s]) = Len(rows[s]) - gone + 1
      /\ \A i \in 1 .. prune[t].keep : rows'[s][i] = rows[s][i]
      /\ \A i \in prune[t].upto + 1 .. Len(rows[s]) : rows'[s][i - gone] = rows[s][i]
      /\ rows'[s][Len(rows[s]) - gone + 1] = r
    BY DEF Adds
<1>3. Len(rows'[s]) \in Nat /\ gone \in Nat
    BY <1>1, <1>2
<1>4. ASSUME NEW i \in 1 .. Len(rows'[s]), i # Len(rows'[s])
      PROVE  \/ i <= prune[t].keep /\ i \in 1 .. Len(rows[s]) /\ rows'[s][i] = rows[s][i]
             \/ /\ i > prune[t].keep /\ i + gone \in 1 .. Len(rows[s])
                /\ rows'[s][i] = rows[s][i + gone]
    <2>1. CASE i <= prune[t].keep
        BY <1>1, <1>2, <2>1
    <2>2. CASE i > prune[t].keep
        <3>1. /\ i + gone \in prune[t].upto + 1 .. Len(rows[s]) /\ (i + gone) - gone = i
              /\ i + gone \in 1 .. Len(rows[s])
            <4>1. PICK k, u, l : k = prune[t].keep /\ u = prune[t].upto /\ l = Len(rows[s])
                OBVIOUS
            <4>2. k \in Nat /\ u \in Nat /\ l \in Nat /\ k <= u /\ u <= l /\ i > k
                BY <1>1, <2>2, <4>1
            <4>3. i \in 1 .. l - (u - k) + 1 /\ i # l - (u - k) + 1
                BY <1>2, <1>4, <4>1
            <4>4. /\ i + (u - k) \in u + 1 .. l /\ (i + (u - k)) - (u - k) = i
                  /\ i + (u - k) \in 1 .. l
                BY <4>2, <4>3
            <4> QED
                BY <4>1, <4>4
        <3>2. rows'[s][(i + gone) - gone] = rows[s][i + gone]
            BY <1>2, <3>1
        <3> QED
            BY <2>2, <3>1, <3>2
    <2> QED
        BY <1>1, <2>1, <2>2
<1> QED
    BY <1>2, <1>3, <1>4

\* Transcripts are sequences of messages.
LEMMA Domains ==
    ASSUME NEW s \in Sessions
    PROVE  /\ TypeOK => rows[s] \in Seq(Row) /\ DOMAIN rows[s] = 1 .. Len(rows[s])
           /\ TypeOK' => rows'[s] \in Seq(Row) /\ DOMAIN rows'[s] = 1 .. Len(rows'[s])
<1>1. TypeOK => rows[s] \in Seq(Row)
    BY DEF TypeOK
<1>2. TypeOK' => rows'[s] \in Seq(Row)
    BY DEF TypeOK
<1> QED
    BY <1>1, <1>2

\* Each row of a transcript was there, or is the one the turn adds.
LEMMA OldOrNew ==
    ASSUME TypeOK, Entered, Spans, NEW t \in Turns, TurnStep(t),
           NEW s \in Sessions, NEW i \in DOMAIN rows'[s], TypeOK'
    PROVE  \/ \E j \in DOMAIN rows[s] : rows'[s][i] = rows[s][j]
           \/ s = at[t] /\ AddsRow(t, rows'[s][i])
<1>1. CASE rows'[s] = rows[s]
    BY <1>1
<1>2. CASE rows'[s] # rows[s]
    <2>1. PICK r \in Row : AddsRow(t, r)
        BY <1>2 DEF TurnStep, Quiet
    <2>2. s = at[t] /\ Adds(t, r)
        BY <1>2, <2>1 DEF AddsRow, Adds
    <2>3. i \in 1 .. Len(rows'[s]) /\ DOMAIN rows[s] = 1 .. Len(rows[s])
        BY Domains
    <2>4. PICK gone, k : gone = prune[t].upto - prune[t].keep /\ k = prune[t].keep
        OBVIOUS
    <2>5. /\ Len(rows'[s]) \in Nat /\ gone \in Nat
          /\ \A m \in 1 .. Len(rows'[s]) :
                \/ m = Len(rows'[s]) /\ rows'[s][m] = r
                \/ m <= k /\ m \in 1 .. Len(rows[s]) /\ rows'[s][m] = rows[s][m]
                \/ /\ m > k /\ m + gone \in 1 .. Len(rows[s])
                   /\ rows'[s][m] = rows[s][m + gone]
        BY <2>2, <2>4, AddedRows DEF TurnStep
    <2>6. rows'[s][i] = r \/ \E j \in 1 .. Len(rows[s]) : rows'[s][i] = rows[s][j]
        BY <2>3, <2>5
    <2> QED
        BY <2>1, <2>2, <2>3, <2>6
<1> QED
    BY <1>1, <1>2

\* The row a turn adds is new.
LEMMA NewRow ==
    ASSUME TypeOK, Written, NEW t \in Turns, NEW r \in Row, AddsRow(t, r),
           NEW s \in Sessions, NEW i \in DOMAIN rows[s]
    PROVE  rows[s][i] # r
<1> SUFFICES ASSUME rows[s][i] = r PROVE FALSE
    OBVIOUS
<1>1. r.by = t
    BY DEF AddsRow, Adds
<1>2. Behind(r, t)
    BY <1>1 DEF Written
<1>3. step[t] \in Nat /\ r.step \in Nat /\ call[t] \in Nat /\ r.n \in Nat
    BY Fields DEF Row
<1> QED
    BY <1>2, <1>3 DEF Behind, AddsRow, AsksRow, LoopRow, ToolRow, BeforeLoop, AtTools

\* Each conjunct of the invariant, for a step of a turn.
LEMMA EnteredTurn ==
    ASSUME TypeOK, Entered, Spans, NEW t \in Turns, TurnStep(t)
    PROVE  Entered'
<1>1. ASSUME NEW v \in Turns
      PROVE  (IF pc[v] = "new" THEN at[v] = None /\ target[v] = <<>>
                        ELSE at[v] \in Sessions /\ exists[at[v]] # "no")'
    <2>1. CASE v = t
        <3>1. pc'[t] # "new"
            BY DEF TurnStep, Quiet, Ends, Edits, Proceeds, Abandons, AddsRow, AsksRow, LoopRow, ToolRow, BeforeLoop
        <3> QED
            BY <2>1, <3>1 DEF TurnStep, Entered
    <2>2. CASE v # t
        BY <2>2 DEF TurnStep, OthersKept, Entered
    <2> QED
        BY <2>1, <2>2
<1>2. ASSUME NEW s \in Sessions, exists'[s] # "yes"
      PROVE  rows'[s] = <<>>
    BY <1>2 DEF TurnStep, Quiet, AddsRow, Adds, Entered
<1> QED
    BY <1>1, <1>2 DEF Entered

\* What is pruned stays a part of the transcript: nobody else prunes under the lock.
LEMMA SpansTurn ==
    ASSUME TypeOK, Entered, Spans, NEW t \in Turns, TurnStep(t)
    PROVE  Spans'
<1> SUFFICES ASSUME NEW v \in Turns, prune'[v] # NothingPruned
             PROVE  /\ pc'[v] \in BeforeLoop \union {"closing"}
                    /\ sessionLock'[at'[v]] = v /\ exists'[at'[v]] = "yes"
                    /\ prune'[v].keep <= prune'[v].upto /\ prune'[v].upto <= Len(rows'[at'[v]])
    BY DEF Spans, BeforeLoop
<1>1. CASE v = t
    <2>1. rows' = rows /\ (Edits(t) \/ Proceeds(t)) /\ UNCHANGED <<exists, at>>
        BY <1>1 DEF TurnStep, Quiet, Ends, AddsRow, Adds
    <2>2. /\ at[t] \in Sessions /\ Len(rows[at[t]]) \in Nat
        BY Sites DEF TurnStep
    <2>3. CASE Edits(t)
        BY <1>1, <2>1, <2>2, <2>3 DEF Edits, BeforeLoop
    <2>4. CASE Proceeds(t)
        BY <1>1, <2>1, <2>4 DEF Proceeds, Abandons, Spans, BeforeLoop
    <2> QED
        BY <2>1, <2>3, <2>4
<1>2. CASE v # t
    <2>1. /\ prune'[v] = prune[v] /\ pc'[v] = pc[v] /\ UNCHANGED <<exists, at>>
        BY <1>2 DEF TurnStep, OthersKept
    <2>2. /\ pc[v] \in BeforeLoop \union {"closing"} /\ sessionLock[at[v]] = v
          /\ exists[at[v]] = "yes"
          /\ prune[v].keep <= prune[v].upto /\ prune[v].upto <= Len(rows[at[v]])
        BY <2>1 DEF Spans, BeforeLoop
    <2>3. at[v] \in Sessions /\ Len(rows[at[v]]) \in Nat /\ prune[v].upto \in Nat
        BY <2>2, Sites DEF BeforeLoop
    <2>4. sessionLock'[at[v]] = v
        BY <1>2, <2>2, <2>3 DEF TurnStep, LocksKept
    <2>5. prune[v].upto <= Len(rows'[at[v]])
        <3>1. CASE rows'[at[v]] = rows[at[v]]
            BY <2>2, <3>1
        <3>2. CASE rows'[at[v]] # rows[at[v]]
            <4>1. PICK r \in Row : Adds(t, r)
                BY <3>2 DEF TurnStep, Quiet, AddsRow
            <4>2. at[v] = at[t]
                BY <2>3, <3>2, <4>1 DEF Adds
            <4>3. prune[t] = NothingPruned
                BY <1>2, <2>2, <4>2 DEF Spans
            <4> QED
                BY <2>2, <2>3, <4>1, <4>2, <4>3 DEF Adds, NothingPruned
        <3> QED
            BY <3>1, <3>2
    <2> QED
        BY <2>1, <2>2, <2>4, <2>5
<1> QED
    BY <1>1, <1>2

\* The row that was added is behind the turn; the others stay so.
LEMMA WrittenTurn ==
    ASSUME TypeOK, Entered, Spans, Written, NEW t \in Turns, TurnStep(t), TypeOK'
    PROVE  Written'
<1>0. /\ step[t] \in Nat /\ call[t] \in Nat /\ asked[t] \in Nat /\ step[t] >= 1
    BY Fields
<1>1. ASSUME NEW x \in Row, x.by = t, Behind(x, t)
      PROVE  Behind(x, t)'
    <2>1. x.step \in Nat /\ x.n \in Nat
        BY DEF Row
    <2>2. CASE Ends(t)
        BY <1>1, <2>2 DEF Behind, Ends, BeforeLoop, AtTools
    <2>3. CASE Edits(t)
        BY <1>1, <2>3 DEF Behind, Edits
    <2>4. CASE Proceeds(t)
        BY <1>1, <2>4 DEF Behind, Proceeds, BeforeLoop, AtTools, Abandons
    <2>5. ASSUME NEW r \in Row, AddsRow(t, r)
          PROVE  Behind(x, t)'
        <3>1. prune'[t] = NothingPruned
            BY <2>5 DEF AddsRow, Adds
        <3>2. CASE AsksRow(t, r)
            BY <1>1, <3>2 DEF Behind, AsksRow
        <3>3. CASE LoopRow(t, r)
            BY <1>0, <1>1, <2>1, <3>1, <3>3 DEF Behind, LoopRow, BeforeLoop, AtTools
        <3>4. CASE ToolRow(t, r)
            BY <1>0, <1>1, <2>1, <3>1, <3>4 DEF Behind, ToolRow, BeforeLoop, AtTools
        <3> QED
            BY <2>5, <3>2, <3>3, <3>4 DEF AddsRow
    <2> QED
        BY <2>2, <2>3, <2>4, <2>5 DEF TurnStep, Quiet
<1>2. ASSUME NEW r \in Row, AddsRow(t, r)
      PROVE  Behind(r, t)'
    <2>1. prune'[t] = NothingPruned /\ r.step \in Nat /\ r.n \in Nat
        BY <1>2 DEF AddsRow, Adds, Row
    <2> QED
        BY <1>0, <1>2, <2>1 DEF Behind, AddsRow, AsksRow, LoopRow, ToolRow, BeforeLoop, AtTools
<1>3. ASSUME NEW x \in Row, NEW v \in Turns \ {t}, Behind(x, v)
      PROVE  Behind(x, v)'
    BY <1>3 DEF Behind, TurnStep, OthersKept
<1>4. ASSUME NEW s \in Sessions, NEW i \in DOMAIN rows'[s]
      PROVE  (Behind(rows[s][i], rows[s][i].by))'
    <2>1. PICK x : x = rows'[s][i]
        OBVIOUS
    <2>2. x \in Row /\ x.by \in Turns
        <3>1. x \in Row
            BY <2>1, Domains
        <3> QED
            BY <3>1 DEF Row
    <2>3. CASE \E j \in DOMAIN rows[s] : x = rows[s][j]
        <3>1. Behind(x, x.by)
            BY <2>3 DEF Written
        <3>2. Behind(x, x.by)'
            BY <1>1, <1>3, <2>2, <3>1
        <3> QED
            BY <2>1, <3>2 DEF Behind
    <2>4. CASE AddsRow(t, x)
        <3>1. x.by = t
            BY <2>4 DEF AddsRow, Adds
        <3> QED
            BY <1>2, <2>1, <2>2, <2>4, <3>1 DEF Behind
    <2> QED
        BY <2>1, <2>3, <2>4, OldOrNew
<1> QED
    BY <1>4 DEF Written

\* The row that is added was in no transcript, since every row of its turn was behind.
LEMMA NoRepeatsTurn ==
    ASSUME TypeOK, Entered, Spans, Written, NoRepeats, NEW t \in Turns, TurnStep(t), TypeOK'
    PROVE  NoRepeats'
<1> SUFFICES ASSUME NEW s \in Sessions, NEW i \in DOMAIN rows'[s], NEW j \in DOMAIN rows'[s],
                    rows'[s][i] = rows'[s][j]
             PROVE  i = j
    BY DEF NoRepeats
<1>1. CASE rows'[s] = rows[s]
    BY <1>1 DEF NoRepeats
<1>2. CASE rows'[s] # rows[s]
    <2>1. PICK r \in Row : AddsRow(t, r)
        BY <1>2 DEF TurnStep, Quiet
    <2>2. s = at[t] /\ Adds(t, r)
        BY <1>2, <2>1 DEF AddsRow, Adds
    <2>3. PICK gone, k : gone = prune[t].upto - prune[t].keep /\ k = prune[t].keep
        OBVIOUS
    <2>4. /\ Len(rows'[s]) \in Nat /\ gone \in Nat
          /\ \A m \in 1 .. Len(rows'[s]) :
                \/ m = Len(rows'[s]) /\ rows'[s][m] = r
                \/ m <= k /\ m \in 1 .. Len(rows[s]) /\ rows'[s][m] = rows[s][m]
                \/ /\ m > k /\ m + gone \in 1 .. Len(rows[s])
                   /\ rows'[s][m] = rows[s][m + gone]
        BY <2>2, <2>3, AddedRows DEF TurnStep
    <2>5. i \in 1 .. Len(rows'[s]) /\ j \in 1 .. Len(rows'[s]) /\ DOMAIN rows[s] = 1 .. Len(rows[s])
        BY Domains
    <2>6. \A m \in 1 .. Len(rows[s]) : rows[s][m] # r
        BY <2>1, <2>5, NewRow
    <2>7. \A m, n \in 1 .. Len(rows[s]) : rows[s][m] = rows[s][n] => m = n
        BY <2>5 DEF NoRepeats
    <2>8. k \in Nat
        BY <2>3, Fields
    <2>9. ASSUME NEW m \in 1 .. Len(rows'[s]), NEW n \in 1 .. Len(rows'[s]), m < n
          PROVE  rows'[s][m] # rows'[s][n]
        <3>1. \E a \in 1 .. Len(rows[s]) :
                 /\ rows'[s][m] = rows[s][a]
                 /\ (m <= k /\ a = m) \/ (m > k /\ a = m + gone)
            <4>1. m # Len(rows'[s])
                BY <2>4, <2>9
            <4> QED
                BY <2>4, <4>1
        <3>2. \/ rows'[s][n] = r
              \/ \E a \in 1 .. Len(rows[s]) :
                    /\ rows'[s][n] = rows[s][a]
                    /\ (n <= k /\ a = n) \/ (n > k /\ a = n + gone)
            BY <2>4
        <3>3. PICK a \in 1 .. Len(rows[s]) :
                 /\ rows'[s][m] = rows[s][a]
                 /\ (m <= k /\ a = m) \/ (m > k /\ a = m + gone)
            BY <3>1
        <3>4. CASE rows'[s][n] = r
            BY <2>6, <3>3, <3>4
        <3>5. ASSUME NEW c \in 1 .. Len(rows[s]), rows'[s][n] = rows[s][c],
                     (n <= k /\ c = n) \/ (n > k /\ c = n + gone)
              PROVE  rows'[s][m] # rows'[s][n]
            <4>1. a < c
                BY <2>4, <2>8, <2>9, <3>3, <3>5
            <4> QED
                BY <2>7, <3>3, <3>5, <4>1
        <3> QED
            BY <3>2, <3>4, <3>5
    <2>10. ~(i < j) /\ ~(j < i)
        BY <2>5, <2>9
    <2> QED
        BY <2>5, <2>10
<1> QED
    BY <1>1, <1>2

\* The calls are counted.
LEMMA AmongTurn ==
    ASSUME TypeOK, Among, NEW t \in Turns, TurnStep(t)
    PROVE  Among'
<1> SUFFICES ASSUME NEW v \in Turns
             PROVE  (/\ pc[v] \in {"called", "resulted"} => 1 <= call[v] /\ call[v] <= asked[v]
                     /\ pc[v] = "touching" /\ asked[v] > 0 => call[v] = 1)'
    BY DEF Among
<1>0. call[t] \in Nat /\ asked[t] \in Nat
    BY Fields
<1>1. CASE v = t
    <2>1. CASE Quiet(t)
        BY <1>0, <1>1, <2>1 DEF Quiet, Ends, Edits, Proceeds, BeforeLoop, Among, Abandons
    <2>2. ASSUME NEW r \in Row, AddsRow(t, r)
          PROVE  (/\ pc[t] \in {"called", "resulted"} => 1 <= call[t] /\ call[t] <= asked[t]
                  /\ pc[t] = "touching" /\ asked[t] > 0 => call[t] = 1)'
        BY <1>0, <2>2 DEF AddsRow, AsksRow, LoopRow, ToolRow, Among
    <2> QED
        BY <1>1, <2>1, <2>2 DEF TurnStep
<1>2. CASE v # t
    BY <1>2 DEF TurnStep, OthersKept, Among
<1> QED
    BY <1>1, <1>2

(***************************************************************************)
(* The invariant of transcripts is kept by the requests.                   *)
(***************************************************************************)

\* What the start of a turn does.
LEMMA Begins ==
    ASSUME TypeOK, NEW t \in Turns, NEW s \in Sessions,
           Say(t, s) \/ \E row \in Elements(rows[s]) : StartEdit(t, s, row)
    PROVE  /\ pc[t] = "new" /\ pc'[t] \in {"saying", "editing"} /\ at'[t] = s
           /\ OthersKept(t) /\ exists'[s] = "yes" /\ exists[s] # "deleted"
           /\ \A o \in Sessions \ {s} : exists'[o] = exists[o]
           /\ UNCHANGED <<rows, images, bytes, sessionLock, step, asked, call, prune, branchedAt, cut,
                          undone, informed>>
           /\ met' = LET others == {u \in Active : at[u] = s}
                     IN  IF others = {} THEN met ELSE met \union others \union {t}
<1>1. CASE Say(t, s)
    BY <1>1 DEF Say, Enter, Goto, OthersKept, TypeOK, locks, env
<1>2. ASSUME NEW row \in Elements(rows[s]), StartEdit(t, s, row)
      PROVE  /\ pc[t] = "new" /\ pc'[t] \in {"saying", "editing"} /\ at'[t] = s
             /\ OthersKept(t) /\ exists'[s] = "yes" /\ exists[s] # "deleted"
             /\ \A o \in Sessions \ {s} : exists'[o] = exists[o]
             /\ UNCHANGED <<rows, images, bytes, sessionLock, step, asked, call, prune, branchedAt, cut,
                            undone, informed>>
             /\ met' = LET others == {u \in Active : at[u] = s}
                       IN  IF others = {} THEN met ELSE met \union others \union {t}
    BY <1>2 DEF StartEdit, Enter, Goto, OthersKept, TypeOK, committed, locks, env
<1> QED
    BY <1>1, <1>2

\* The start of a turn keeps the invariant,
LEMMA EnterInv ==
    ASSUME TInv, TypeOK', NEW t \in Turns, NEW s \in Sessions,
           Say(t, s) \/ \E row \in Elements(rows[s]) : StartEdit(t, s, row)
    PROVE  TInv'
<1>0. TypeOK /\ Entered /\ Spans /\ Written /\ NoRepeats /\ Among
    BY DEF TInv
<1>1. /\ pc[t] = "new" /\ pc'[t] \in {"saying", "editing"} /\ at'[t] = s
      /\ OthersKept(t) /\ exists'[s] = "yes"
      /\ \A o \in Sessions \ {s} : exists'[o] = exists[o]
      /\ UNCHANGED <<rows, sessionLock, step, asked, call, prune>>
    BY <1>0, Begins
<1>2. prune[t] = NothingPruned
    BY <1>0, <1>1 DEF Spans, BeforeLoop
<1>3. Entered'
    BY <1>0, <1>1 DEF Entered, OthersKept
<1>4. Spans'
    <2> SUFFICES ASSUME NEW v \in Turns, prune[v] # NothingPruned
                 PROVE  /\ pc'[v] \in BeforeLoop \union {"closing"}
                        /\ sessionLock[at'[v]] = v /\ exists'[at'[v]] = "yes"
                        /\ prune[v].keep <= prune[v].upto /\ prune[v].upto <= Len(rows[at'[v]])
        BY <1>1 DEF Spans, BeforeLoop
    <2>1. v # t
        BY <1>2
    <2>2. /\ pc[v] \in BeforeLoop \union {"closing"} /\ sessionLock[at[v]] = v
          /\ exists[at[v]] = "yes" /\ prune[v].keep <= prune[v].upto /\ prune[v].upto <= Len(rows[at[v]])
        BY <1>0 DEF Spans, BeforeLoop
    <2>3. at[v] \in Sessions /\ pc'[v] = pc[v] /\ at'[v] = at[v]
        BY <1>0, <1>1, <2>1, <2>2 DEF Entered, OthersKept, BeforeLoop
    <2> QED
        BY <1>1, <2>2, <2>3
<1>5. Written'
    <2> SUFFICES ASSUME NEW o \in Sessions, NEW i \in DOMAIN rows[o]
                 PROVE  (Behind(rows[o][i], rows[o][i].by))'
        BY <1>1 DEF Written
    <2>1. PICK x : x = rows[o][i]
        OBVIOUS
    <2>2. x \in Row
        BY <1>0, <2>1, Domains
    <2>3. Behind(x, x.by) /\ x.by \in Turns
        BY <1>0, <2>1, <2>2 DEF Written, Row
    <2>4. x.by # t
        BY <1>1, <2>3 DEF Behind
    <2>5. Behind(x, x.by)'
        BY <1>1, <2>3, <2>4 DEF Behind, OthersKept
    <2> QED
        BY <1>1, <2>1, <2>5 DEF Behind
<1>6. NoRepeats'
    BY <1>0, <1>1 DEF NoRepeats
<1>7. Among'
    BY <1>0, <1>1 DEF Among, OthersKept
<1> QED
    BY <1>3, <1>4, <1>5, <1>6, <1>7 DEF TInv

\* a branch does, which begins with rows of the other transcript,
LEMMA BranchInv ==
    ASSUME TInv, TypeOK', NEW s \in Sessions, NEW b \in Sessions, NEW i \in DOMAIN rows[s],
           Branch(s, b, i)
    PROVE  TInv'
<1>0. TypeOK /\ Entered /\ Spans /\ Written /\ NoRepeats /\ Among
    BY DEF TInv
<1>1. /\ exists[s] = "yes" /\ exists[b] = "no"
      /\ exists' = [exists EXCEPT ![b] = "yes"] /\ rows' = [rows EXCEPT ![b] = SubSeq(rows[s], 1, i)]
      /\ UNCHANGED <<sessionLock, pc, at, step, asked, call, target, prune>>
    BY DEF Branch, locks, turn
<1>2. PICK copied : copied = SubSeq(rows[s], 1, i)
    OBVIOUS
<1>3. /\ rows[s] \in Seq(Row) /\ i \in 1 .. Len(rows[s]) /\ copied \in Seq(Row) /\ Len(copied) = i
      /\ \A j \in 1 .. i : copied[j] = rows[s][j]
    <2>1. rows[s] \in Seq(Row) /\ i \in 1 .. Len(rows[s])
        BY <1>0, Domains
    <2>2. i \in 0 .. Len(rows[s])
        BY <2>1
    <2> QED
        BY <1>2, <2>1, <2>2, Prefix
<1>4. /\ rows'[b] = copied /\ exists'[b] = "yes"
      /\ \A o \in Sessions \ {b} : rows'[o] = rows[o] /\ exists'[o] = exists[o]
    <2>1. DOMAIN rows = Sessions /\ DOMAIN exists = Sessions
        BY <1>0 DEF TypeOK
    <2>2. rows' = [rows EXCEPT ![b] = copied]
        BY <1>1, <1>2
    <2> QED
        BY <1>1, <2>1, <2>2
<1>5. Entered'
    <2>1. \A v \in Turns : pc[v] # "new" => exists'[at[v]] # "no"
        BY <1>0, <1>4 DEF Entered
    <2> QED
        BY <1>0, <1>1, <1>4, <2>1 DEF Entered
<1>6. Spans'
    <2>1. ASSUME NEW v \in Turns, prune[v] # NothingPruned
          PROVE  at[v] \in Sessions \ {b}
        BY <1>0, <1>1, <2>1 DEF Entered, Spans, BeforeLoop
    <2> QED
        BY <1>0, <1>1, <1>4, <2>1 DEF Spans
<1>7. ASSUME NEW x \in Row, Behind(x, x.by)
      PROVE  Behind(x, x.by)'
    BY <1>1, <1>7 DEF Behind
<1>8. Written'
    <2> SUFFICES ASSUME NEW o \in Sessions, NEW j \in DOMAIN rows'[o]
                 PROVE  (Behind(rows[o][j], rows[o][j].by))'
        BY DEF Written
    <2>1. PICK x : x = rows'[o][j]
        OBVIOUS
    <2>2. \E p \in Sessions : \E k \in DOMAIN rows[p] : x = rows[p][k]
        <3>1. CASE o = b
            BY <1>3, <1>4, <2>1, <3>1
        <3>2. CASE o # b
            BY <1>4, <2>1, <3>2
        <3> QED
            BY <3>1, <3>2
    <2>3. x \in Row
        BY <1>0, <2>2, Domains
    <2>4. Behind(x, x.by)
        BY <1>0, <2>2 DEF Written
    <2>5. Behind(x, x.by)'
        BY <1>7, <2>3, <2>4
    <2> QED
        BY <2>1, <2>5 DEF Behind
<1>9. NoRepeats'
    <2> SUFFICES ASSUME NEW o \in Sessions, NEW j \in DOMAIN rows'[o], NEW k \in DOMAIN rows'[o],
                        rows'[o][j] = rows'[o][k]
                 PROVE  j = k
        BY DEF NoRepeats
    <2>1. CASE o = b
        <3>1. j \in 1 .. i /\ k \in 1 .. i
            BY <1>3, <1>4, <2>1
        <3>2. rows[s][j] = rows[s][k] /\ j \in DOMAIN rows[s] /\ k \in DOMAIN rows[s]
            BY <1>3, <1>4, <2>1, <3>1
        <3> QED
            BY <1>0, <3>2 DEF NoRepeats
    <2>2. CASE o # b
        BY <1>0, <1>4, <2>2 DEF NoRepeats
    <2> QED
        BY <2>1, <2>2
<1>10. Among'
    BY <1>0, <1>1 DEF Among
<1> QED
    BY <1>5, <1>6, <1>8, <1>9, <1>10 DEF TInv

\* the deletion of a session does,
LEMMA DeleteInv ==
    ASSUME TInv, TypeOK', NEW s \in Sessions, DeleteSession(s)
    PROVE  TInv'
<1>0. TypeOK /\ Entered /\ Spans /\ Written /\ NoRepeats /\ Among
    BY DEF TInv
<1>1. /\ exists[s] = "yes" /\ sessionLock[s] = None
      /\ exists' = [exists EXCEPT ![s] = "deleted"] /\ rows' = [rows EXCEPT ![s] = <<>>]
      /\ UNCHANGED <<sessionLock, pc, at, step, asked, call, target, prune>>
    BY DEF DeleteSession, locks, turn
<1>2. /\ rows'[s] = <<>> /\ exists'[s] = "deleted"
      /\ \A o \in Sessions \ {s} : rows'[o] = rows[o] /\ exists'[o] = exists[o]
    BY <1>0, <1>1 DEF TypeOK
<1>3. Entered'
    BY <1>0, <1>1, <1>2 DEF Entered
<1>4. Spans'
    <2>1. ASSUME NEW v \in Turns, prune[v] # NothingPruned
          PROVE  at[v] \in Sessions \ {s}
        BY <1>0, <1>1, <2>1 DEF Entered, Spans, BeforeLoop
    <2> QED
        BY <1>0, <1>1, <1>2, <2>1 DEF Spans
<1>5. \A o \in Sessions : \A j \in DOMAIN rows'[o] : o # s /\ rows'[o] = rows[o]
    BY <1>2
<1>6. Written'
    <2> SUFFICES ASSUME NEW o \in Sessions, NEW j \in DOMAIN rows'[o]
                 PROVE  (Behind(rows[o][j], rows[o][j].by))'
        BY DEF Written
    <2>1. rows'[o] = rows[o] /\ Behind(rows[o][j], rows[o][j].by)
        BY <1>0, <1>5 DEF Written
    <2> QED
        BY <1>1, <2>1 DEF Behind
<1>7. NoRepeats'
    BY <1>0, <1>5 DEF NoRepeats
<1>8. Among'
    BY <1>0, <1>1 DEF Among
<1> QED
    BY <1>3, <1>4, <1>6, <1>7, <1>8 DEF TInv

\* and so does every step of a turn.
LEMMA TurnInv ==
    ASSUME TInv, TypeOK', NEW t \in Turns, Step(t)
    PROVE  TInv' /\ TurnStep(t)
<1>1. TurnStep(t)
    BY StepIsTurnStep DEF TInv
<1> QED
    BY <1>1, EnteredTurn, SpansTurn, WrittenTurn, NoRepeatsTurn, AmongTurn DEF TInv

\* The invariant is inductive.
LEMMA TInvStep == TInv /\ [Next]_vars => TInv'
<1> SUFFICES ASSUME TInv, [Next]_vars PROVE TInv'
    OBVIOUS
<1>1. TypeOK'
    BY TypeStep DEF TInv
<1>2. CASE UNCHANGED vars
    BY <1>1, <1>2 DEF vars, committed, locks, turn, env, history, TInv, Entered, Spans, Written,
                      Behind, NoRepeats, Among
<1> QED
    BY <1>1, <1>2, EnterInv, BranchInv, DeleteInv, TurnInv DEF Next, Request

\* It holds at the start.
LEMMA TInvInit == Init => TInv
<1> SUFFICES ASSUME Init PROVE TInv
    OBVIOUS
<1>1. \A s \in Sessions : rows[s] = <<>>
    BY DEF Init
<1>2. Entered /\ Spans /\ Among
    BY DEF Init, Entered, Spans, Among
<1>3. Written /\ NoRepeats
    BY <1>1 DEF Written, NoRepeats
<1> QED
    BY <1>2, <1>3, TypeInit DEF TInv

\* The values of the variables are of their types.
THEOREM TypeCorrect == Spec => []TypeOK
<1>1. TInv => TypeOK
    BY DEF TInv
<1> QED
    BY <1>1, TInvInit, TInvStep, PTL DEF Spec

(***************************************************************************)
(* Messages leave a transcript only with what replaces them.               *)
(***************************************************************************)

\* Rows that leave a transcript in a step of a turn are those it had pruned, and
\* its own message is in their place.
LEMMA AddReplaces ==
    ASSUME TInv, TypeOK', NEW t \in Turns, TurnStep(t), NEW s \in Sessions,
           Elements(rows[s]) \ Elements(rows'[s]) # {}
    PROVE  \E row \in Elements(rows'[s]) \ Elements(rows[s]) :
              PrunedRows(row.by) = Elements(rows[s]) \ Elements(rows'[s])
<1>0. TypeOK /\ Entered /\ Spans /\ Written /\ NoRepeats
    BY DEF TInv
<1>1. PICK r \in Row : AddsRow(t, r)
    BY DEF TurnStep, Quiet
<1>2. s = at[t] /\ Adds(t, r) /\ r.by = t
    BY <1>1 DEF AddsRow, Adds
<1>3. PICK gone, k, u, l, new : /\ gone = prune[t].upto - prune[t].keep /\ k = prune[t].keep
                                /\ u = prune[t].upto /\ l = Len(rows[s]) /\ new = rows'[s]
    OBVIOUS
<1>4. /\ k \in Nat /\ u \in Nat /\ l \in Nat /\ k <= u /\ u <= l /\ gone = u - k
      /\ DOMAIN rows[s] = 1 .. l /\ DOMAIN new = 1 .. l - gone + 1 /\ Len(new) = l - gone + 1
    <2>1. k \in Nat /\ u \in Nat /\ l \in Nat /\ k <= u /\ u <= l
        BY <1>0, <1>2, <1>3, Sites DEF TurnStep
    <2>2. DOMAIN rows[s] = 1 .. l /\ DOMAIN new = 1 .. Len(new)
        BY <1>0, <1>3, Domains
    <2>3. Len(new) = l - gone + 1
        BY <1>2, <1>3 DEF Adds
    <2> QED
        BY <1>3, <2>1, <2>2, <2>3
<1>5. /\ \A i \in 1 .. k : new[i] = rows[s][i]
      /\ \A i \in u + 1 .. l : new[i - gone] = rows[s][i]
      /\ new[l - gone + 1] = r
    BY <1>2, <1>3 DEF Adds
<1>6. \A i \in 1 .. l : rows[s][i] # r
    BY <1>0, <1>1, <1>4, NewRow
<1>7. r \in Elements(new) \ Elements(rows[s])
    <2>1. l - gone + 1 \in DOMAIN new
        BY <1>4
    <2> QED
        BY <1>4, <1>5, <1>6, <2>1 DEF Elements
<1>8. \A i \in 1 .. l : i <= k \/ u < i => rows[s][i] \in Elements(new)
    <2> SUFFICES ASSUME NEW i \in 1 .. l, i <= k \/ u < i
                 PROVE  rows[s][i] \in Elements(new)
        OBVIOUS
    <2>1. CASE i <= k
        BY <1>4, <1>5, <2>1 DEF Elements
    <2>2. CASE u < i
        <3>1. i \in u + 1 .. l /\ i - gone \in DOMAIN new
            BY <1>4, <2>2
        <3> QED
            BY <1>5, <3>1 DEF Elements
    <2> QED
        BY <2>1, <2>2
<1>9. \A i \in k + 1 .. u : rows[s][i] \notin Elements(new)
    <2> SUFFICES ASSUME NEW i \in k + 1 .. u, NEW j \in DOMAIN new, new[j] = rows[s][i]
                 PROVE  FALSE
        BY DEF Elements
    <2>1. i \in 1 .. l /\ j \in 1 .. l - gone + 1
        BY <1>4
    <2>2. \A m, n \in 1 .. l : rows[s][m] = rows[s][n] => m = n
        BY <1>0, <1>4 DEF NoRepeats
    <2>3. CASE j <= k
        <3>1. j \in 1 .. k /\ j \in 1 .. l
            BY <1>4, <2>1, <2>3
        <3>2. j = i
            BY <1>5, <2>1, <2>2, <3>1
        <3> QED
            BY <1>4, <2>3, <3>2
    <2>4. CASE j > k /\ j # l - gone + 1
        <3>1. j + gone \in u + 1 .. l /\ (j + gone) - gone = j /\ j + gone \in 1 .. l
            BY <1>4, <2>1, <2>4
        <3>2. rows[s][j + gone] = rows[s][i]
            BY <1>5, <3>1
        <3>3. j + gone = i
            BY <2>1, <2>2, <3>1, <3>2
        <3> QED
            BY <1>4, <3>1, <3>3
    <2>5. CASE j = l - gone + 1
        BY <1>5, <1>6, <2>1, <2>5
    <2> QED
        BY <1>4, <2>1, <2>3, <2>4, <2>5
<1>10. PrunedRows(t) = Elements(rows[s]) \ Elements(new)
    <2>1. PrunedRows(t) = {rows[s][i] : i \in k + 1 .. u}
        BY <1>2, <1>3 DEF PrunedRows
    <2>2. Elements(rows[s]) = {rows[s][i] : i \in 1 .. l}
        BY <1>4 DEF Elements
    <2>3. \A i \in k + 1 .. u : i \in 1 .. l
        BY <1>4
    <2>4. \A i \in 1 .. l : i \in k + 1 .. u \/ i <= k \/ u < i
        BY <1>4
    <2> QED
        BY <1>8, <1>9, <2>1, <2>2, <2>3, <2>4
<1> QED
    BY <1>2, <1>3, <1>7, <1>10

\* Messages leave a transcript only in the step that commits the message of the
\* turn that replaces them, or with their session.
THEOREM ReplacedOnly == Spec => PruneIsReplaced
<1> DEFINE Replaced ==
        \A s \in Sessions :
          Elements(rows[s]) \ Elements(rows'[s]) # {} =>
             \/ exists'[s] = "deleted"
             \/ \E row \in Elements(rows'[s]) \ Elements(rows[s]) :
                   PrunedRows(row.by) = Elements(rows[s]) \ Elements(rows'[s])
<1>1. TInv /\ [Next]_vars => [Replaced]_vars
    <2> SUFFICES ASSUME TInv, [Next]_vars, NEW s \in Sessions,
                        Elements(rows[s]) \ Elements(rows'[s]) # {}
                 PROVE  \/ exists'[s] = "deleted"
                        \/ \E row \in Elements(rows'[s]) \ Elements(rows[s]) :
                              PrunedRows(row.by) = Elements(rows[s]) \ Elements(rows'[s])
        OBVIOUS
    <2>0. TypeOK /\ Entered /\ TypeOK'
        BY TypeStep DEF TInv
    <2>1. rows'[s] # rows[s]
        OBVIOUS
    <2>2. ASSUME NEW t \in Turns, Step(t)
          PROVE  \E row \in Elements(rows'[s]) \ Elements(rows[s]) :
                    PrunedRows(row.by) = Elements(rows[s]) \ Elements(rows'[s])
        BY <2>0, <2>2, TurnInv, AddReplaces
    <2>3. ASSUME NEW o \in Sessions, NEW b \in Sessions, NEW i \in DOMAIN rows[o], Branch(o, b, i)
          PROVE  FALSE
        <3>1. exists[b] = "no" /\ rows' = [rows EXCEPT ![b] = SubSeq(rows[o], 1, i)]
            BY <2>3 DEF Branch
        <3>2. s = b /\ rows[b] = <<>>
            BY <2>0, <2>1, <3>1 DEF Entered, TypeOK
        <3> QED
            BY <3>2 DEF Elements
    <2>4. ASSUME NEW o \in Sessions, DeleteSession(o)
          PROVE  exists'[s] = "deleted"
        BY <2>0, <2>1, <2>4 DEF DeleteSession, TypeOK
    <2>5. ASSUME NEW t \in Turns, NEW o \in Sessions,
                 Say(t, o) \/ \E row \in Elements(rows[o]) : StartEdit(t, o, row)
          PROVE  FALSE
        BY <2>0, <2>1, <2>5, Begins
    <2>6. CASE UNCHANGED vars
        BY <2>1, <2>6 DEF vars, committed
    <2> QED
        BY <2>2, <2>3, <2>4, <2>5, <2>6 DEF Next, Request
<1>2. PruneIsReplaced <=> [][Replaced]_vars
    BY DEF PruneIsReplaced
<1> QED
    BY <1>1, <1>2, TInvInit, TInvStep, PTL DEF Spec

(***************************************************************************)
(* An image that a message records is stored, unless an edit that would    *)
(* have pruned the message is under way or was undone.                     *)
(***************************************************************************)

\* The images that come to be missing are those an edit of the turn deletes;
\* those that stay missing are not of messages the turn has just pruned.
ImageStep(t) ==
    \A s \in Sessions : \A x \in images'[s] \ bytes'[s] :
        \/ s = at[t] /\ Questioned(PrunedRows(t))' = GoneImages(t) /\ x \in GoneImages(t)
        \/ /\ x \in images[s] \ bytes[s]
           /\ s = at[t] /\ x \in Questioned(PrunedRows(t)) =>
                t \in undone' \/ (rows' = rows /\ prune'[t] = prune[t])

\* A step without effect on the images.
LEMMA SameImages ==
    ASSUME TypeOK, NEW t \in Turns, UNCHANGED <<images, bytes>>,
           \/ HasPruned(t) => t \in undone'
           \/ rows' = rows /\ prune'[t] = prune[t]
    PROVE  ImageStep(t)
<1>1. ~HasPruned(t) => Questioned(PrunedRows(t)) = {}
    <2> SUFFICES ASSUME ~HasPruned(t) PROVE PrunedRows(t) = {}
        BY DEF Questioned
    <2>1. prune[t].keep \in Nat /\ prune[t].upto \in Nat /\ ~(prune[t].keep < prune[t].upto)
        BY Fields DEF HasPruned
    <2>2. ~\E i : i \in prune[t].keep + 1 .. prune[t].upto
        BY <2>1
    <2> QED
        BY <2>2 DEF PrunedRows
<1> QED
    BY <1>1 DEF ImageStep

\* Recording a message drops the images of what it replaces.
LEMMA RecordImages ==
    ASSUME TypeOK, NEW t \in Turns, NEW role, NEW s, NEW n, Record(t, role, s, n), bytes' = bytes
    PROVE  ImageStep(t)
<1>1. images' = [images EXCEPT ![at[t]] = @ \ Questioned(PrunedRows(t))]
    BY DEF Record
<1> QED
    BY <1>1 DEF ImageStep, TypeOK

\* An edit deletes images of messages it prunes only.
LEMMA EditImages ==
    ASSUME TypeOK, Entered, Spans, NEW t \in Turns, Edit(t)
    PROVE  ImageStep(t)
<1>0. Questioned(PrunedRows(t)) = {}
    <2>1. prune[t] = NothingPruned
        BY Sites DEF Edit, BeforeLoop
    <2>2. PrunedRows(t) = {}
        BY <2>1 DEF PrunedRows, NothingPruned
    <2> QED
        BY <2>2 DEF Questioned
<1>1. /\ UNCHANGED <<rows, images, at>> /\ bytes' = [bytes EXCEPT ![at[t]] = @ \ GoneImages(t)]
      /\ prune' = [prune EXCEPT ![t] = Span(rows[at[t]], Place(t))]
    BY DEF Edit
<1>2. Questioned(PrunedRows(t))' = GoneImages(t)
    <2>1. prune'[t] = Span(rows[at[t]], Place(t)) /\ rows'[at'[t]] = rows[at[t]]
        BY <1>1 DEF TypeOK
    <2>2. prune'[t].upto = Len(rows[at[t]])
        BY <2>1 DEF Span
    <2>3. PrunedRows(t)' = Gone(t)
        BY <2>1, <2>2 DEF PrunedRows, Gone, Pruned
    <2> QED
        BY <2>3 DEF Questioned, GoneImages
<1> HIDE DEF GoneImages
<1>3. ASSUME NEW s \in Sessions, NEW x \in images'[s] \ bytes'[s], x \notin GoneImages(t) \/ s # at[t]
      PROVE  x \in images[s] \ bytes[s]
    BY <1>1, <1>3 DEF TypeOK
<1> QED
    BY <1>0, <1>2, <1>3 DEF ImageStep

\* A question stores its image and records it.
LEMMA AskImages ==
    ASSUME TypeOK, Entered, Spans, NEW t \in Turns, Ask(t)
    PROVE  ImageStep(t)
<1>1. bytes' = [bytes EXCEPT ![at[t]] = @ \union {t}] /\ pc[t] = "saying"
    BY DEF Ask
<1>2. images' = images \/ images' = [images EXCEPT ![at[t]] = @ \union {t}]
    BY DEF Ask
<1>3. \A s \in Sessions : images'[s] \ bytes'[s] \subseteq images[s] \ bytes[s]
    BY <1>1, <1>2 DEF TypeOK
<1>4. Questioned(PrunedRows(t)) = {}
    <2>1. prune[t] = NothingPruned
        BY <1>1, Sites DEF BeforeLoop
    <2>2. PrunedRows(t) = {}
        BY <2>1 DEF PrunedRows, NothingPruned
    <2> QED
        BY <2>2 DEF Questioned
<1> QED
    BY <1>3, <1>4 DEF ImageStep

\* Every step of a turn treats images so.
LEMMA TurnImages ==
    ASSUME TInv, NEW t \in Turns, Step(t)
    PROVE  ImageStep(t)
<1>0. TypeOK /\ Entered /\ Spans
    BY DEF TInv
<1>1. ASSUME End(t), UNCHANGED <<images, bytes>>
      PROVE  ImageStep(t)
    BY <1>0, <1>1, SameImages DEF End
<1>2. CASE \/ SetModel(t) \/ ReadHistory(t) \/ PreferUser(t) \/ PreferSession(t)
           \/ Token(t) \/ RunTool(t) \/ EditRefused(t)
    <2>1. UNCHANGED <<images, bytes, rows, prune>>
        BY <1>2 DEF SetModel, ReadHistory, PreferUser, PreferSession, Token, RunTool, EditRefused,
                    committed, turn
    <2> QED
        BY <1>0, <2>1, SameImages
<1>3. CASE \/ DeadlockVictim(t) \/ ResultRefused(t) \/ Finish(t) \/ Close(t)
           \/ SetupFails(t) \/ LeaveTools(t)
    <2>1. UNCHANGED <<images, bytes>> /\ (End(t) \/ UNCHANGED <<rows, prune>>)
        BY <1>3 DEF DeadlockVictim, ResultRefused, Finish, Close, SetupFails, LeaveTools, Leave,
                    committed
    <2> QED
        BY <1>0, <1>1, <2>1, SameImages
<1>4. CASE \/ \E n \in 1 .. MaxCalls + 1 - step[t] : Calls(t, n)
           \/ Unavailable(t) \/ Reply(t)
    <2>1. PICK role \in {"calls", "error", "reply"}, n \in 0 .. MaxCalls,
               label \in {"touching", "finishing"} : Commit(t, role, n, label)
        BY <1>0, <1>4, CallsCommit
    <2>2. /\ bytes' = bytes
          /\ Record(t, role, step[t], n) \/ (End(t) /\ images' = images)
        BY <2>1 DEF Commit
    <2> QED
        BY <1>0, <1>1, <2>2, RecordImages
<1>5. CASE ProviderFails(t) \/ Disconnect(t)
    <2>1. /\ bytes' = bytes
          /\ \/ Record(t, "partial", step[t], 0)
             \/ End(t) /\ images' = images
             \/ UNCHANGED <<images, rows, prune>>
        BY <1>5 DEF ProviderFails, Disconnect, Interrupted, Leave
    <2> QED
        BY <1>0, <1>1, <2>1, RecordImages, SameImages
<1>6. CASE Touch(t)
    <2>1. UNCHANGED <<images, bytes, rows>> /\ (End(t) \/ prune' = prune)
        BY <1>6 DEF Touch, committed
    <2> QED
        BY <1>0, <1>1, <2>1, SameImages
<1>7. CASE RecordResult(t)
    BY <1>0, <1>7, RecordImages DEF RecordResult
<1> QED
    BY <1>0, <1>2, <1>3, <1>4, <1>5, <1>6, <1>7, AskImages, EditImages DEF Step

\* What another turn has pruned stays where it is.
LEMMA PrunedStays ==
    ASSUME TypeOK, Entered, Spans, NEW t \in Turns, TurnStep(t), NEW u \in Turns \ {t},
           at[u] \in Sessions
    PROVE  PrunedRows(u)' = PrunedRows(u)
<1>1. prune'[u] = prune[u] /\ at'[u] = at[u]
    BY DEF TurnStep, OthersKept
<1>2. ASSUME NEW i \in prune[u].keep + 1 .. prune[u].upto
      PROVE  rows'[at[u]][i] = rows[at[u]][i]
    <2>1. CASE rows'[at[u]] = rows[at[u]]
        BY <2>1
    <2>2. CASE rows'[at[u]] # rows[at[u]]
        <3>1. PICK r \in Row : Adds(t, r)
            BY <2>2 DEF TurnStep, Quiet, AddsRow
        <3>2. at[u] = at[t]
            BY <2>2, <3>1 DEF Adds
        <3>3. /\ prune[u].keep \in Nat /\ prune[u].upto \in Nat
            BY Fields
        <3>4. prune[u] # NothingPruned
            BY <3>3 DEF NothingPruned
        <3>5. sessionLock[at[u]] = u /\ prune[u].upto <= Len(rows[at[u]])
            BY <3>4 DEF Spans
        <3>6. prune[t] = NothingPruned
            BY <3>2, <3>5 DEF Spans
        <3>7. prune[t].keep = 0 /\ prune[t].upto = 0
            BY <3>6 DEF NothingPruned
        <3>8. \A j \in 0 + 1 .. Len(rows[at[t]]) : rows'[at[t]][j - (0 - 0)] = rows[at[t]][j]
            BY <3>1, <3>7 DEF Adds
        <3>9. Len(rows[at[t]]) \in Nat
            BY <3>2, Fields
        <3>10. i \in 0 + 1 .. Len(rows[at[t]]) /\ i - (0 - 0) = i
            BY <3>2, <3>3, <3>5, <3>9
        <3> QED
            BY <3>2, <3>8, <3>10
    <2> QED
        BY <2>1, <2>2
<1> QED
    BY <1>1, <1>2 DEF PrunedRows

\* The steps of turns keep the images,
LEMMA ImagesTurn ==
    ASSUME TInv, ImagesAreStored, NEW t \in Turns, Step(t), TypeOK'
    PROVE  ImagesAreStored'
<1>0. TypeOK /\ Entered /\ Spans
    BY DEF TInv
<1>1. TurnStep(t) /\ ImageStep(t)
    BY TurnInv, TurnImages
<1>2. at' = at /\ undone \subseteq undone'
    BY <1>1 DEF TurnStep
<1> SUFFICES ASSUME NEW s \in Sessions, NEW x \in images'[s] \ bytes'[s]
             PROVE  \E u \in Turns : at[u] = s /\ (u \in undone' \/ x \in Questioned(PrunedRows(u))')
    BY <1>2 DEF ImagesAreStored
<1>3. CASE s = at[t] /\ Questioned(PrunedRows(t))' = GoneImages(t) /\ x \in GoneImages(t)
    BY <1>3
<1>4. CASE /\ x \in images[s] \ bytes[s]
           /\ s = at[t] /\ x \in Questioned(PrunedRows(t)) =>
                t \in undone' \/ (rows' = rows /\ prune'[t] = prune[t])
    <2>1. PICK u \in Turns : at[u] = s /\ (u \in undone \/ x \in Questioned(PrunedRows(u)))
        BY <1>4 DEF ImagesAreStored
    <2>2. CASE u \in undone
        BY <1>2, <2>1, <2>2
    <2>3. CASE x \in Questioned(PrunedRows(u)) /\ u # t
        <3>1. PrunedRows(u)' = PrunedRows(u)
            BY <1>0, <1>1, <2>1, <2>3, PrunedStays
        <3>2. Questioned(PrunedRows(u))' = Questioned(PrunedRows(u))
            BY <3>1 DEF Questioned
        <3> QED
            BY <2>1, <2>3, <3>2
    <2>4. CASE x \in Questioned(PrunedRows(u)) /\ u = t
        <3>1. t \in undone' \/ (rows' = rows /\ prune'[t] = prune[t])
            BY <1>4, <2>1, <2>4
        <3>2. CASE rows' = rows /\ prune'[t] = prune[t]
            <4>1. PrunedRows(t)' = PrunedRows(t)
                BY <1>2, <3>2 DEF PrunedRows
            <4>2. Questioned(PrunedRows(t))' = Questioned(PrunedRows(t))
                BY <4>1 DEF Questioned
            <4> QED
                BY <2>1, <2>4, <4>2
        <3> QED
            BY <2>1, <2>4, <3>1, <3>2
    <2> QED
        BY <2>1, <2>2, <2>3, <2>4
<1> QED
    BY <1>1, <1>3, <1>4 DEF ImageStep

\* A request of another session does not touch what a turn has pruned.
LEMMA PrunedElsewhere ==
    ASSUME TypeOK, Entered, Spans, NEW b \in Sessions, UNCHANGED <<at, prune>>,
           \A o \in Sessions \ {b} : rows'[o] = rows[o],
           NEW u \in Turns, at[u] \in Sessions, at[u] # b
    PROVE  PrunedRows(u)' = PrunedRows(u)
BY DEF PrunedRows

\* and so do requests.
LEMMA ImagesRequest ==
    ASSUME TInv, ImagesAreStored, TypeOK', Request
    PROVE  ImagesAreStored'
<1>0. TypeOK /\ Entered /\ Spans
    BY DEF TInv
<1> USE DEF ImagesAreStored
<1>1. ASSUME NEW b \in Sessions, UNCHANGED <<at, prune, undone>>,
             images'[b] \ bytes'[b] = {},
             \A o \in Sessions \ {b} : /\ rows'[o] = rows[o] /\ images'[o] = images[o]
                                       /\ bytes'[o] = bytes[o]
      PROVE  ImagesAreStored'
    <2> SUFFICES ASSUME NEW s \in Sessions, NEW x \in images'[s] \ bytes'[s]
                 PROVE  \E u \in Turns : at[u] = s /\ (u \in undone \/ x \in Questioned(PrunedRows(u))')
        BY <1>1
    <2>1. s # b
        BY <1>1
    <2>2. PICK u \in Turns : at[u] = s /\ (u \in undone \/ x \in Questioned(PrunedRows(u)))
        BY <1>1, <2>1
    <2>3. PrunedRows(u)' = PrunedRows(u)
        BY <1>0, <1>1, <2>1, <2>2, PrunedElsewhere
    <2>4. Questioned(PrunedRows(u))' = Questioned(PrunedRows(u))
        BY <2>3 DEF Questioned
    <2> QED
        BY <2>2, <2>4
<1>2. ASSUME NEW s \in Sessions, NEW b \in Sessions, NEW i \in DOMAIN rows[s], Branch(s, b, i)
      PROVE  ImagesAreStored'
    <2>1. /\ UNCHANGED <<at, prune, undone>> /\ images'[b] \ bytes'[b] = {}
          /\ \A o \in Sessions \ {b} : /\ rows'[o] = rows[o] /\ images'[o] = images[o]
                                       /\ bytes'[o] = bytes[o]
        <3>1. UNCHANGED <<at, prune, undone>> /\ rows' = [rows EXCEPT ![b] = SubSeq(rows[s], 1, i)]
            BY <1>2 DEF Branch, turn, history
        <3>2. \E imaged : /\ images' = [images EXCEPT ![b] = imaged]
                          /\ bytes' = [bytes EXCEPT ![b] = imaged]
            BY <1>2 DEF Branch
        <3>3. images'[b] \ bytes'[b] = {}
            BY <1>0, <3>2 DEF TypeOK
        <3>4. \A o \in Sessions \ {b} : /\ rows'[o] = rows[o] /\ images'[o] = images[o]
                                          /\ bytes'[o] = bytes[o]
            BY <1>0, <3>1, <3>2 DEF TypeOK
        <3> QED
            BY <3>1, <3>3, <3>4
    <2> QED
        BY <1>1, <2>1
<1>3. ASSUME NEW s \in Sessions, DeleteSession(s)
      PROVE  ImagesAreStored'
    <2>1. /\ UNCHANGED <<at, prune, undone>> /\ images'[s] \ bytes'[s] = {}
          /\ \A o \in Sessions \ {s} : /\ rows'[o] = rows[o] /\ images'[o] = images[o]
                                       /\ bytes'[o] = bytes[o]
        BY <1>0, <1>3 DEF DeleteSession, turn, history, TypeOK
    <2> QED
        BY <1>1, <2>1
<1>4. ASSUME NEW t \in Turns, NEW s \in Sessions,
             Say(t, s) \/ \E row \in Elements(rows[s]) : StartEdit(t, s, row)
      PROVE  ImagesAreStored'
    <2>1. pc[t] = "new" /\ OthersKept(t) /\ UNCHANGED <<rows, images, bytes, prune, undone>>
        BY <1>0, <1>4, Begins
    <2> SUFFICES ASSUME NEW o \in Sessions, NEW x \in images[o] \ bytes[o]
                 PROVE  \E u \in Turns : at'[u] = o /\ (u \in undone \/ x \in Questioned(PrunedRows(u))')
        BY <2>1
    <2>2. PICK u \in Turns : at[u] = o /\ (u \in undone \/ x \in Questioned(PrunedRows(u)))
        OBVIOUS
    <2>3. u # t
        BY <1>0, <2>1, <2>2 DEF Entered
    <2>4. at'[u] = at[u]
        BY <2>1, <2>3 DEF OthersKept
    <2>5. PrunedRows(u)' = PrunedRows(u)
        BY <2>1, <2>4 DEF PrunedRows
    <2>6. Questioned(PrunedRows(u))' = Questioned(PrunedRows(u))
        BY <2>5 DEF Questioned
    <2> QED
        BY <2>2, <2>4, <2>6
<1> QED
    BY <1>2, <1>3, <1>4 DEF Request

\* An image that a message records is stored, unless an edit that would have
\* pruned the message is under way or was undone.
THEOREM ImagesOfMessages == Spec => []ImagesAreStored
<1>1. Init => ImagesAreStored
    BY DEF Init, ImagesAreStored
<1>2. TInv /\ ImagesAreStored /\ [Next]_vars => ImagesAreStored'
    <2> SUFFICES ASSUME TInv, ImagesAreStored, [Next]_vars PROVE ImagesAreStored'
        OBVIOUS
    <2>1. TypeOK'
        BY TypeStep DEF TInv
    <2>2. CASE UNCHANGED vars
        BY <2>2 DEF vars, committed, turn, history, ImagesAreStored, Questioned, PrunedRows
    <2> QED
        BY <2>1, <2>2, ImagesTurn, ImagesRequest DEF Next
<1> QED
    BY <1>1, <1>2, TInvInit, TInvStep, PTL DEF Spec

(***************************************************************************)
(* Turns that are active in one session have met.                          *)
(***************************************************************************)

\* A turn that shares its session with an active turn has met it.
Apart == \A t, u \in Active : t # u /\ at[t] = at[u] => t \in met /\ u \in met

\* No step of a turn makes another one active.
LEMMA ActiveTurn ==
    ASSUME TypeOK, NEW t \in Turns, TurnStep(t)
    PROVE  Active' \subseteq Active
<1> SUFFICES ASSUME NEW v \in Turns, pc'[v] \notin {"new", "done"}
             PROVE  pc[v] \notin {"new", "done"}
    BY DEF Active
<1>1. CASE v = t
    BY <1>1 DEF TurnStep, Quiet, Ends, Edits, Proceeds, Abandons, AddsRow, AsksRow, LoopRow, ToolRow,
                BeforeLoop, AtTools
<1>2. CASE v # t
    BY <1>2 DEF TurnStep, OthersKept
<1> QED
    BY <1>1, <1>2

\* A turn that begins beside an active one meets it.
LEMMA ApartStep ==
    ASSUME TInv, Apart, [Next]_vars
    PROVE  Apart'
<1>0. TypeOK /\ Entered
    BY DEF TInv
<1>1. ASSUME NEW t \in Turns, Step(t)
      PROVE  Apart'
    <2>1. TypeOK' /\ TurnStep(t)
        BY <1>0, <1>1, TypeStep, TurnInv DEF TInv, Next
    <2>2. Active' \subseteq Active /\ at' = at /\ met' = met
        BY <1>0, <2>1, ActiveTurn DEF TurnStep
    <2> QED
        BY <2>2 DEF Apart
<1>2. ASSUME NEW t \in Turns, NEW s \in Sessions,
             Say(t, s) \/ \E row \in Elements(rows[s]) : StartEdit(t, s, row)
      PROVE  Apart'
    <2>1. /\ pc[t] = "new" /\ at'[t] = s /\ OthersKept(t)
          /\ met' = LET others == {u \in Active : at[u] = s}
                    IN  IF others = {} THEN met ELSE met \union others \union {t}
        BY <1>0, <1>2, Begins
    <2>2. \A v \in Turns \ {t} : at'[v] = at[v] /\ (v \in Active' <=> v \in Active)
        BY <2>1 DEF OthersKept, Active
    <2>3. ASSUME NEW v \in Active, at[v] = s
          PROVE  v \in met' /\ t \in met'
        BY <2>1, <2>3
    <2>4. met \subseteq met'
        BY <2>1
    <2> SUFFICES ASSUME NEW v \in Active', NEW u \in Active', v # u, at'[v] = at'[u]
                 PROVE  v \in met' /\ u \in met'
        BY DEF Apart
    <2>5. v \in Turns /\ u \in Turns
        BY DEF Active
    <2>6. CASE v = t
        BY <2>1, <2>2, <2>3, <2>5, <2>6
    <2>7. CASE u = t
        BY <2>1, <2>2, <2>3, <2>5, <2>7
    <2>8. CASE v # t /\ u # t
        BY <2>2, <2>4, <2>5, <2>8 DEF Apart
    <2> QED
        BY <2>6, <2>7, <2>8
<1>3. ASSUME UNCHANGED turn, UNCHANGED history
      PROVE  Apart'
    BY <1>3 DEF turn, history, Apart, Active
<1> QED
    BY <1>1, <1>2, <1>3 DEF Next, Request, Branch, DeleteSession, vars

\* What is seen by a turn that has met nobody changes only by its own steps.
LEMMA OwnRows ==
    ASSUME TInv, Apart, NEW t \in Turns, TurnStep(t), NEW v \in Turns \ {t},
           v \in Active, v \notin met
    PROVE  /\ rows'[at[v]] = rows[at[v]] /\ at'[v] = at[v] /\ prune'[v] = prune[v]
           /\ Visible(v)' = Visible(v)
<1>0. TypeOK /\ Entered
    BY DEF TInv
<1>1. at[v] \in Sessions
    BY <1>0 DEF Entered, Active
<1>2. rows'[at[v]] = rows[at[v]]
    <2> SUFFICES ASSUME rows'[at[v]] # rows[at[v]] PROVE FALSE
        OBVIOUS
    <2>1. PICK r \in Row : AddsRow(t, r)
        BY DEF TurnStep, Quiet
    <2>2. at[v] = at[t] /\ t \in Active
        BY <1>1, <2>1 DEF AddsRow, Adds, AsksRow, LoopRow, ToolRow, Active
    <2> QED
        BY <2>2 DEF Apart
<1>3. at'[v] = at[v] /\ prune'[v] = prune[v]
    BY DEF TurnStep, OthersKept
<1> QED
    BY <1>2, <1>3 DEF Visible

(***************************************************************************)
(* A transcript begins with a question, and what an edit keeps ends in one.*)
(***************************************************************************)

\* A transcript is empty or begins with a question; that of a turn that has asked
\* is not empty; what an edit keeps ends in a question.
Headed ==
    /\ \A s \in Sessions : rows[s] # <<>> => rows[s][1].role = "user"
    /\ \A t \in Turns : (pc[t] \notin {"new", "saying"} /\ exists[at[t]] = "yes") => rows[at[t]] # <<>>
    /\ \A t \in Turns : prune[t] # NothingPruned =>
          prune[t].keep \in 1 .. Len(rows[at[t]]) /\ rows[at[t]][prune[t].keep].role = "user"

\* The first rows of a transcript, and those another turn keeps, stay.
LEMMA KeepsRows ==
    ASSUME TypeOK, Entered, Spans, NEW t \in Turns, NEW r \in Row, AddsRow(t, r), pc[t] # "new"
    PROVE  /\ Len(rows'[at[t]]) \in Nat /\ Len(rows'[at[t]]) >= 1
           /\ prune[t] = NothingPruned =>
                 \A i \in 1 .. Len(rows[at[t]]) : rows'[at[t]][i] = rows[at[t]][i]
           /\ \A i \in 1 .. prune[t].keep : rows'[at[t]][i] = rows[at[t]][i]
           /\ prune[t] = NothingPruned => Len(rows'[at[t]]) = Len(rows[at[t]]) + 1
<1>1. Adds(t, r)
    BY DEF AddsRow
<1>2. /\ Len(rows[at[t]]) \in Nat
      /\ prune[t].keep \in Nat /\ prune[t].upto \in Nat
      /\ prune[t].keep <= prune[t].upto /\ prune[t].upto <= Len(rows[at[t]])
    BY Sites
<1>3. Len(rows'[at[t]]) = Len(rows[at[t]]) - (prune[t].upto - prune[t].keep) + 1
    BY <1>1 DEF Adds
<1>4. ASSUME prune[t] = NothingPruned, NEW i \in 1 .. Len(rows[at[t]])
      PROVE  rows'[at[t]][i] = rows[at[t]][i]
    <2>1. prune[t].keep = 0 /\ prune[t].upto = 0
        BY <1>4 DEF NothingPruned
    <2>2. \A j \in 0 + 1 .. Len(rows[at[t]]) : rows'[at[t]][j - (0 - 0)] = rows[at[t]][j]
        BY <1>1, <2>1 DEF Adds
    <2>3. i \in 0 + 1 .. Len(rows[at[t]]) /\ i - (0 - 0) = i
        BY <1>2
    <2> QED
        BY <2>2, <2>3
<1>5. \A i \in 1 .. prune[t].keep : rows'[at[t]][i] = rows[at[t]][i]
    BY <1>1 DEF Adds
<1>6. prune[t] = NothingPruned => Len(rows'[at[t]]) = Len(rows[at[t]]) + 1
    BY <1>2, <1>3 DEF NothingPruned
<1>7. Len(rows'[at[t]]) \in Nat /\ Len(rows'[at[t]]) >= 1
    <2>1. PICK l, k, u : l = Len(rows[at[t]]) /\ k = prune[t].keep /\ u = prune[t].upto
        OBVIOUS
    <2>2. l - (u - k) + 1 \in Nat /\ l - (u - k) + 1 >= 1
        BY <1>2, <2>1, LeftOut
    <2> QED
        BY <1>3, <2>1, <2>2
<1> QED
    BY <1>4, <1>5, <1>6, <1>7

\* A step of a turn keeps the first message, or makes the first.
LEMMA HeadedTurn ==
    ASSUME TInv, Headed, NEW t \in Turns, TurnStep(t), TypeOK'
    PROVE  Headed'
<1>0. TypeOK /\ Entered /\ Spans
    BY DEF TInv
<1>1. at' = at /\ exists' = exists /\ OthersKept(t) /\ pc[t] # "new"
    BY DEF TurnStep
<1>2. ASSUME NEW s \in Sessions, rows'[s] # <<>>
      PROVE  rows'[s][1].role = "user"
    <2>1. CASE rows'[s] = rows[s]
        BY <1>2, <2>1 DEF Headed
    <2>2. CASE rows'[s] # rows[s]
        <3>1. PICK r \in Row : AddsRow(t, r)
            BY <2>2 DEF TurnStep, Quiet
        <3>2. s = at[t] /\ Adds(t, r) /\ exists[s] = "yes" /\ rows[s] \in Seq(Row)
            BY <1>0, <2>2, <3>1, Domains DEF AddsRow, Adds
        <3>3. CASE prune[t] # NothingPruned
            <4>1. 1 \in 1 .. prune[t].keep /\ rows[s] # <<>>
                BY <1>0, <3>2, <3>3, Sites, <1>1 DEF Headed
            <4> QED
                BY <1>0, <1>1, <3>1, <3>2, <4>1, KeepsRows DEF Headed
        <3>4. CASE prune[t] = NothingPruned /\ rows[s] # <<>>
            <4>1. 1 \in 1 .. Len(rows[s])
                BY <3>2, <3>4
            <4> QED
                BY <1>0, <1>1, <3>1, <3>2, <3>4, <4>1, KeepsRows DEF Headed
        <3>5. CASE prune[t] = NothingPruned /\ rows[s] = <<>>
            <4>1. pc[t] = "saying"
                BY <1>1, <3>2, <3>5 DEF Headed
            <4>2. r.role = "user"
                BY <3>1, <4>1 DEF AddsRow, AsksRow, LoopRow, ToolRow
            <4>3. Len(rows[s]) = 0
                BY <3>5
            <4>4. rows'[s][Len(rows[s]) - (0 - 0) + 1] = r
                BY <3>2, <3>5 DEF Adds, NothingPruned
            <4>5. rows'[s][1] = r
                BY <4>3, <4>4
            <4> QED
                BY <4>2, <4>5
        <3> QED
            BY <3>3, <3>4, <3>5
    <2> QED
        BY <2>1, <2>2
<1>3. ASSUME NEW v \in Turns, pc'[v] \notin {"new", "saying"}, exists[at[v]] = "yes"
      PROVE  rows'[at[v]] # <<>>
    <2>0. at[v] \in Sessions
        BY <1>0, <1>1, <1>3 DEF Entered, OthersKept
    <2>1. ASSUME NEW r \in Row, AddsRow(t, r), at[v] = at[t]
          PROVE  rows'[at[v]] # <<>>
        <3>1. Len(rows'[at[v]]) >= 1
            BY <1>0, <1>1, <2>1, KeepsRows
        <3>2. Len(<<>>) = 0
            OBVIOUS
        <3> QED
            BY <3>1, <3>2
    <2>2. ASSUME NEW r \in Row, AddsRow(t, r), at[v] # at[t]
          PROVE  rows'[at[v]] # <<>>
        BY <1>1, <1>3, <2>0, <2>2 DEF AddsRow, Adds, OthersKept, Headed
    <2>3. CASE Quiet(t)
        <3>1. pc[v] \notin {"new", "saying"}
            BY <1>1, <1>3, <2>3 DEF OthersKept, Quiet, Ends, Edits, Proceeds, BeforeLoop, Abandons, AtTools
        <3> QED
            BY <1>3, <2>3, <3>1 DEF Quiet, Headed
    <2> QED
        BY <2>1, <2>2, <2>3 DEF TurnStep
<1>4. ASSUME NEW v \in Turns, prune'[v] # NothingPruned
      PROVE  /\ prune'[v].keep \in 1 .. Len(rows'[at[v]])
             /\ rows'[at[v]][prune'[v].keep].role = "user"
    <2>1. CASE v = t
        <3>1. Quiet(t) /\ rows' = rows /\ (Edits(t) \/ Proceeds(t))
            BY <1>4, <2>1 DEF TurnStep, Quiet, Ends, AddsRow, Adds
        <3>2. CASE Proceeds(t)
            BY <1>4, <2>1, <3>1, <3>2 DEF Proceeds, Headed
        <3>3. CASE Edits(t)
            <4>1. PICK seq, i : seq = rows[at[t]] /\ i = Place(t)
                OBVIOUS
            <4>2. seq \in Seq(Row) /\ i \in 1 .. Len(seq) /\ prune'[t].keep = KeptUpTo(seq, i)
                BY <1>0, <1>1, <3>3, <4>1, Sites DEF Edits
            <4>3. seq[1].role = "user" /\ 1 \in 1 .. i
                BY <1>0, <1>1, <4>1, <4>2, Sites DEF Headed
            <4>4. 1 \in Questions(seq, i)
                BY <4>3 DEF Questions
            <4>5. KeptUpTo(seq, i) \in Questions(seq, i)
                BY <4>2, <4>4, KeptIsBefore
            <4>6. KeptUpTo(seq, i) \in 1 .. i /\ seq[KeptUpTo(seq, i)].role = "user"
                BY <4>5 DEF Questions
            <4>7. KeptUpTo(seq, i) \in 1 .. Len(seq)
                BY <4>2, <4>6
            <4> QED
                BY <2>1, <3>1, <4>1, <4>2, <4>6, <4>7
        <3> QED
            BY <3>1, <3>2, <3>3
    <2>2. CASE v # t
        <3>1. prune'[v] = prune[v] /\ prune[v] # NothingPruned
            BY <1>1, <1>4, <2>2 DEF OthersKept
        <3>2. prune[v].keep \in 1 .. Len(rows[at[v]]) /\ rows[at[v]][prune[v].keep].role = "user"
            BY <3>1 DEF Headed
        <3>3. CASE rows'[at[v]] = rows[at[v]]
            BY <3>1, <3>2, <3>3
        <3>4. CASE rows'[at[v]] # rows[at[v]]
            <4>1. PICK r \in Row : AddsRow(t, r)
                BY <3>4 DEF TurnStep, Quiet
            <4>2. at[v] \in Sessions /\ sessionLock[at[v]] = v
                BY <1>0, <3>1 DEF Spans, Entered, BeforeLoop
            <4>3. at[v] = at[t]
                BY <3>4, <4>1, <4>2 DEF AddsRow, Adds
            <4>4. prune[t] = NothingPruned
                BY <1>0, <2>2, <4>2, <4>3 DEF Spans
            <4>5. /\ \A i \in 1 .. Len(rows[at[v]]) : rows'[at[v]][i] = rows[at[v]][i]
                  /\ Len(rows'[at[v]]) = Len(rows[at[v]]) + 1
                BY <1>0, <1>1, <4>1, <4>3, <4>4, KeepsRows
            <4>6. Len(rows[at[v]]) \in Nat
                BY <1>0, <4>2, Fields
            <4> QED
                BY <3>1, <3>2, <4>5, <4>6
        <3> QED
            BY <3>3, <3>4
    <2> QED
        BY <2>1, <2>2
<1> QED
    BY <1>1, <1>2, <1>3, <1>4 DEF Headed

\* So does every step: a branch has at least the first message.
LEMMA HeadedStep ==
    ASSUME TInv, Headed, [Next]_vars
    PROVE  Headed'
<1>0. TypeOK /\ Entered /\ Spans /\ TypeOK'
    BY TypeStep DEF TInv
<1>1. ASSUME NEW t \in Turns, Step(t)
      PROVE  Headed'
    BY <1>0, <1>1, TurnInv, HeadedTurn
<1>2. ASSUME NEW t \in Turns, NEW s \in Sessions,
             Say(t, s) \/ \E row \in Elements(rows[s]) : StartEdit(t, s, row)
      PROVE  Headed'
    <2>1. /\ pc[t] = "new" /\ at'[t] = s /\ OthersKept(t) /\ UNCHANGED <<rows, prune>>
          /\ exists[s] # "deleted" /\ \A o \in Sessions \ {s} : exists'[o] = exists[o]
        BY <1>0, <1>2, Begins
    <2>2. prune[t] = NothingPruned
        BY <1>0, <2>1 DEF Spans, BeforeLoop
    <2>3. pc'[t] = "saying" \/ rows[s] # <<>>
        <3>1. CASE Say(t, s)
            BY <1>0, <3>1 DEF Say, Goto, TypeOK
        <3>2. ASSUME NEW row \in Elements(rows[s])
              PROVE  rows[s] # <<>>
            BY <3>2 DEF Elements
        <3> QED
            BY <1>2, <3>1, <3>2
    <2>4. ASSUME NEW v \in Turns \ {t}, pc[v] \notin {"new", "saying"}, exists'[at[v]] = "yes"
          PROVE  rows[at[v]] # <<>>
        <3>1. at[v] \in Sessions /\ exists[at[v]] # "no"
            BY <1>0, <2>4 DEF Entered
        <3>2. exists[at[v]] = "yes"
            BY <1>0, <2>1, <2>4, <3>1 DEF TypeOK
        <3> QED
            BY <2>4, <3>2 DEF Headed
    <2>5. ASSUME NEW v \in Turns, pc'[v] \notin {"new", "saying"}, exists'[at'[v]] = "yes"
          PROVE  rows'[at'[v]] # <<>>
        BY <2>1, <2>3, <2>4, <2>5 DEF OthersKept
    <2>6. ASSUME NEW v \in Turns, prune'[v] # NothingPruned
          PROVE  /\ prune'[v].keep \in 1 .. Len(rows'[at'[v]])
                 /\ rows'[at'[v]][prune'[v].keep].role = "user"
        <3>1. v # t /\ at'[v] = at[v]
            BY <2>1, <2>2, <2>6 DEF OthersKept
        <3> QED
            BY <2>1, <2>6, <3>1 DEF Headed
    <2> QED
        BY <2>1, <2>5, <2>6 DEF Headed
<1>3. ASSUME NEW s \in Sessions, NEW b \in Sessions, NEW i \in DOMAIN rows[s], Branch(s, b, i)
      PROVE  Headed'
    <2>1. /\ exists[b] = "no" /\ exists' = [exists EXCEPT ![b] = "yes"]
          /\ rows' = [rows EXCEPT ![b] = SubSeq(rows[s], 1, i)] /\ UNCHANGED <<pc, at, prune>>
        BY <1>3 DEF Branch, turn
    <2>2. /\ rows[s] \in Seq(Row) /\ i \in 1 .. Len(rows[s]) /\ rows[s] # <<>>
        BY <1>0, Domains
    <2>3. /\ \A j \in 1 .. i : SubSeq(rows[s], 1, i)[j] = rows[s][j]
        <3>1. i \in 0 .. Len(rows[s])
            BY <2>2
        <3> QED
            BY <2>2, <3>1, Prefix
    <2>4. rows'[b][1] = rows[s][1] /\ \A o \in Sessions \ {b} : rows'[o] = rows[o] /\ exists'[o] = exists[o]
        BY <1>0, <2>1, <2>2, <2>3 DEF TypeOK
    <2>5. \A o \in Sessions : rows'[o] # <<>> => rows'[o][1].role = "user"
        BY <2>2, <2>4 DEF Headed
    <2>6. \A v \in Turns : pc[v] # "new" => at[v] \in Sessions \ {b}
        BY <1>0, <2>1 DEF Entered
    <2>7. \A v \in Turns : prune[v] # NothingPruned => pc[v] # "new"
        BY <1>0 DEF Spans, BeforeLoop
    <2>8. \A v \in Turns : (pc'[v] \notin {"new", "saying"} /\ exists'[at'[v]] = "yes") => rows'[at'[v]] # <<>>
        BY <2>1, <2>4, <2>6 DEF Headed
    <2>9. ASSUME NEW v \in Turns, prune'[v] # NothingPruned
          PROVE  /\ prune'[v].keep \in 1 .. Len(rows'[at'[v]])
                 /\ rows'[at'[v]][prune'[v].keep].role = "user"
        <3>1. rows'[at'[v]] = rows[at[v]]
            BY <2>1, <2>4, <2>6, <2>7, <2>9
        <3> QED
            BY <2>1, <2>9, <3>1 DEF Headed
    <2> QED
        BY <2>5, <2>8, <2>9 DEF Headed
<1>4. ASSUME NEW s \in Sessions, DeleteSession(s)
      PROVE  Headed'
    <2>1. /\ sessionLock[s] = None /\ exists' = [exists EXCEPT ![s] = "deleted"]
          /\ rows' = [rows EXCEPT ![s] = <<>>] /\ UNCHANGED <<pc, at, prune>>
        BY <1>4 DEF DeleteSession, turn
    <2>2. /\ rows'[s] = <<>> /\ exists'[s] = "deleted"
          /\ \A o \in Sessions \ {s} : rows'[o] = rows[o] /\ exists'[o] = exists[o]
        BY <1>0, <2>1 DEF TypeOK
    <2>3. \A v \in Turns : prune[v] # NothingPruned => at[v] \in Sessions \ {s}
        BY <1>0, <2>1 DEF Spans, Entered, BeforeLoop
    <2>4. \A v \in Turns : pc[v] # "new" => at[v] \in Sessions
        BY <1>0 DEF Entered
    <2> QED
        BY <2>1, <2>2, <2>3, <2>4 DEF Headed
<1>5. CASE UNCHANGED vars
    BY <1>5 DEF vars, committed, turn, Headed
<1> QED
    BY <1>1, <1>2, <1>3, <1>4, <1>5 DEF Next, Request

(***************************************************************************)
(* The first request of a turn has the question it is to answer.           *)
(***************************************************************************)

\* What a turn that is alone in its session aims at, it sees; what it has read,
\* unless the transcript is too long, has that message.
Alone(t) == t \notin met /\ exists[at[t]] = "yes" /\ target[t] # <<>>
Aimed ==
    \A t \in Turns :
        /\ pc[t] \in {"setup", "reading"} /\ Alone(t) =>
              target[t] \in Elements(Visible(t)) /\ target[t].role = "user"
        /\ pc[t] \in {"preferring", "settling"} /\ Alone(t) =>
              t \in informed \/ Len(Visible(t)) > HistoryLimit

\* A history that is not cut has every message without an error.
LEMMA WholeHistory ==
    ASSUME NEW seq \in Seq(Row), Len(seq) <= HistoryLimit, NEW row \in Elements(seq), row.role = "user"
    PROVE  row \in HistoryOf(seq)
<1>1. Len(seq) \in 0 .. Len(seq)
    OBVIOUS
<1>2. PICK oldest : oldest = SubSeq(seq, 1, Len(seq))
    OBVIOUS
<1>3. oldest \in Seq(Row) /\ Len(oldest) = Len(seq) /\ \A i \in 1 .. Len(seq) : oldest[i] = seq[i]
    BY <1>1, <1>2, Prefix
<1>4. PICK i \in DOMAIN seq : row = seq[i]
    BY DEF Elements
<1>5. row \in Elements(oldest)
    BY <1>3, <1>4 DEF Elements
<1>6. HistoryOf(seq) = {x \in Elements(oldest) : x.role # "error"}
    BY <1>2 DEF HistoryOf
<1> QED
    BY <1>5, <1>6

\* What an edit that prunes nothing of others sees: it ends in what it keeps.
LEMMA SeesKept ==
    ASSUME NEW seq \in Seq(Row), NEW k \in 1 .. Len(seq), NEW span,
           span.keep = k, span.upto = Len(seq)
    PROVE  seq[k] \in Elements(Without(seq, span))
<1>1. k \in Nat /\ Len(seq) \in Nat /\ k <= Len(seq)
    OBVIOUS
<1>2. /\ Without(seq, span) \in Seq(Row) /\ Len(Without(seq, span)) = Len(seq) - (Len(seq) - k)
      /\ \A i \in 1 .. k : Without(seq, span)[i] = seq[i]
    BY <1>1, WithoutSpan
<1>3. k \in DOMAIN Without(seq, span)
    BY <1>1, <1>2
<1> QED
    BY <1>2, <1>3 DEF Elements

\* A turn that asks for something sees what it asks for.
LEMMA AimedOwn ==
    ASSUME TInv, Headed, Headed', Aimed, NEW t \in Turns, Step(t), TypeOK'
    PROVE  /\ pc'[t] \in {"setup", "reading"} /\ Alone(t)' =>
                 target'[t] \in Elements(Visible(t)') /\ target'[t].role = "user"
           /\ pc'[t] \in {"preferring", "settling"} /\ Alone(t)' =>
                 t \in informed' \/ Len(Visible(t)') > HistoryLimit
<1>0. TypeOK /\ Entered /\ Spans /\ TurnStep(t) /\ OthersKept(t) /\ Spans' /\ Entered'
    BY TurnInv DEF TInv, TurnStep
<1> DEFINE Goal ==
           /\ pc'[t] \in {"setup", "reading"} /\ Alone(t)' =>
                 target'[t] \in Elements(Visible(t)') /\ target'[t].role = "user"
           /\ pc'[t] \in {"preferring", "settling"} /\ Alone(t)' =>
                 t \in informed' \/ Len(Visible(t)') > HistoryLimit
<1>1. CASE Ask(t)
    <2>1. pc'[t] \in {"setup", "done"}
        BY <1>0, <1>1 DEF Ask, Goto, TypeOK
    <2>2. CASE pc'[t] = "setup"
        <3>1. /\ Recordable(t) /\ pc[t] = "saying"
              /\ UNCHANGED <<at, prune>>
              /\ \E r : /\ r.role = "user" /\ target' = [target EXCEPT ![t] = r]
                        /\ rows' = [rows EXCEPT ![at[t]] = Append(@, r)]
            <4>1. pc[t] = "saying" /\ UNCHANGED <<at, prune>>
                BY <1>1 DEF Ask
            <4>2. Recordable(t)
                <5>1. ~Recordable(t) => pc'[t] = "done"
                    BY <1>0, <1>1 DEF Ask, Goto, TypeOK
                <5> QED
                    BY <2>2, <5>1
            <4>3. PICK r : r = [by |-> t, role |-> "user", step |-> 0, n |-> 0]
                OBVIOUS
            <4>4. target' = [target EXCEPT ![t] = r] /\ rows' = [rows EXCEPT ![at[t]] = Append(@, r)]
                BY <1>1, <4>2, <4>3 DEF Ask
            <4> QED
                BY <4>1, <4>2, <4>3, <4>4
        <3>2. /\ at[t] \in Sessions /\ rows[at[t]] \in Seq(Row) /\ prune[t] = NothingPruned
              /\ Len(rows[at[t]]) \in Nat
            BY <1>0, <3>1, Sites DEF BeforeLoop
        <3>3. PICK r : /\ r.role = "user" /\ target' = [target EXCEPT ![t] = r]
                       /\ rows' = [rows EXCEPT ![at[t]] = Append(@, r)]
            BY <3>1
        <3>4. target'[t] = r /\ rows'[at[t]] = Append(rows[at[t]], r)
            BY <1>0, <3>2, <3>3 DEF TypeOK
        <3>5. /\ Append(rows[at[t]], r)[Len(rows[at[t]]) + 1] = r
              /\ Len(Append(rows[at[t]], r)) = Len(rows[at[t]]) + 1
            BY <3>2
        <3>6. rows'[at'[t]] \in Seq(Row) /\ DOMAIN rows'[at'[t]] = 1 .. Len(rows'[at'[t]])
            BY <3>1, <3>2, Domains
        <3>7. (Visible(t) = rows[at[t]])'
            BY <3>1, <3>2, <3>6, UnprunedNext
        <3>8. r \in Elements(rows'[at[t]])
            BY <3>1, <3>2, <3>4, <3>5, <3>6 DEF Elements
        <3> QED
            BY <2>2, <3>1, <3>3, <3>4, <3>7, <3>8
    <2> QED
        BY <2>1, <2>2
<1>2. CASE Edit(t)
    <2>1. pc'[t] = "setup" /\ Edits(t) /\ rows' = rows /\ at' = at
        <3>1. pc[t] = "editing" /\ pc'[t] = "setup" /\ rows' = rows /\ at' = at
            BY <1>0, <1>2 DEF Edit, Goto, TypeOK
        <3> QED
            BY <1>0, <3>1 DEF TurnStep, Quiet, Ends, Proceeds, BeforeLoop, AddsRow, AsksRow, LoopRow, ToolRow, Abandons
    <2>2. PICK seq, k, span : seq = rows[at[t]] /\ k = prune'[t].keep /\ span = prune'[t]
        OBVIOUS
    <2>3. /\ seq \in Seq(Row) /\ k \in Nat /\ span.keep = k /\ span.upto = Len(seq) /\ k <= Len(seq)
          /\ target'[t] = IF k = 0 THEN <<>> ELSE seq[k]
        <3>1. seq \in Seq(Row)
            BY <1>0, <2>1, <2>2, Sites DEF TurnStep
        <3>2. Place(t) \in 1 .. Len(seq) /\ k \in 0 .. Place(t)
            BY <2>1, <2>2 DEF Edits
        <3>3. k \in Nat /\ k <= Len(seq)
            BY <3>1, <3>2
        <3> QED
            BY <2>1, <2>2, <3>1, <3>3 DEF Edits
    <2>4. ASSUME Alone(t)'
          PROVE  target'[t] \in Elements(Visible(t)') /\ target'[t].role = "user"
        <3>1. k # 0
            BY <2>3, <2>4 DEF Alone
        <3>2. k \in 1 .. Len(seq) /\ target'[t] = seq[k]
            BY <2>3, <3>1
        <3>3. seq[k] \in Elements(Without(seq, span))
            BY <2>3, <3>2, SeesKept
        <3>4. Visible(t)' = Without(seq, span)
            BY <2>1, <2>2 DEF Visible
        <3>5. seq[k].role = "user"
            <4>1. CASE prune'[t] # NothingPruned
                BY <2>1, <2>2, <4>1 DEF Headed
            <4>2. CASE prune'[t] = NothingPruned
                BY <2>2, <2>3, <3>1, <4>2 DEF NothingPruned
            <4> QED
                BY <4>1, <4>2
        <3> QED
            BY <3>2, <3>3, <3>4, <3>5
    <2> QED
        BY <2>1, <2>4
<1>3. ASSUME SetModel(t) \/ ReadHistory(t) \/ PreferUser(t)
      PROVE  /\ UNCHANGED <<rows, at, prune, target, exists, met>> /\ Visible(t)' = Visible(t)
             /\ (Alone(t)' <=> Alone(t))
    <2>1. UNCHANGED <<rows, at, prune, target, exists, met>>
        BY <1>3 DEF SetModel, ReadHistory, PreferUser, committed, turn, history
    <2> QED
        BY <2>1 DEF Visible, Alone
<1>4. CASE SetModel(t)
    <2>1. pc[t] = "setup" /\ pc'[t] = "reading"
        BY <1>0, <1>4 DEF SetModel, Goto, TypeOK
    <2> QED
        BY <1>3, <1>4, <2>1 DEF Aimed
<1>5. CASE ReadHistory(t)
    <2>1. pc[t] = "reading" /\ pc'[t] = "preferring"
          /\ (target[t] \in HistoryOf(Visible(t)) => t \in informed')
        BY <1>0, <1>5 DEF ReadHistory, Goto, TypeOK
    <2>2. ASSUME Alone(t)', ~(Len(Visible(t)) > HistoryLimit)
          PROVE  t \in informed'
        <3>1. target[t] \in Elements(Visible(t)) /\ target[t].role = "user"
            BY <1>3, <1>5, <2>1, <2>2 DEF Aimed
        <3>2. Visible(t) \in Seq(Row)
            BY <1>0, <2>1, Sites, VisibleFacts
        <3>3. Len(Visible(t)) <= HistoryLimit
            <4>1. Len(Visible(t)) \in Nat /\ HistoryLimit \in Nat
                BY <3>2
            <4> QED
                BY <2>2, <4>1
        <3> QED
            BY <2>1, <3>1, <3>2, <3>3, WholeHistory
    <2> QED
        BY <1>3, <1>5, <2>1, <2>2
<1>6. CASE PreferUser(t)
    <2>1. pc[t] = "preferring" /\ pc'[t] = "settling" /\ informed' = informed
        BY <1>0, <1>6 DEF PreferUser, Goto, TypeOK, history
    <2> QED
        BY <1>3, <1>6, <2>1 DEF Aimed
<1>7. CASE ~(Ask(t) \/ Edit(t) \/ SetModel(t) \/ ReadHistory(t) \/ PreferUser(t))
    <2>1. pc'[t] \in {"model", "touching", "finishing", "called", "resulted", "closing", "done"}
        <3>1. ASSUME NEW role, NEW n, NEW label \in {"touching", "finishing"}, Commit(t, role, n, label)
              PROVE  pc'[t] \in {"touching", "finishing", "done"}
            <4>1. \E l \in {label, "done"} : pc' = [pc EXCEPT ![t] = l]
                BY <3>1 DEF Commit, End, Goto
            <4> QED
                BY <1>0, <3>1, <4>1 DEF TypeOK
        <3>2. CASE ProviderFails(t) \/ Disconnect(t)
            BY <1>0, <3>2 DEF ProviderFails, Disconnect, Interrupted, End, Leave, Goto, TypeOK
        <3>3. CASE RecordResult(t)
            BY <1>0, <3>3 DEF RecordResult, Goto, TypeOK
        <3>4. CASE EditRefused(t) \/ PreferSession(t) \/ Token(t) \/ RunTool(t)
            BY <1>0, <3>4 DEF EditRefused, PreferSession, Token, RunTool, Goto, TypeOK
        <3>5. CASE DeadlockVictim(t) \/ ResultRefused(t) \/ Finish(t) \/ Close(t)
            BY <1>0, <3>5 DEF DeadlockVictim, ResultRefused, Finish, Close, End, Goto, TypeOK
        <3>6. CASE SetupFails(t) \/ LeaveTools(t) \/ Touch(t)
            BY <1>0, <3>6 DEF SetupFails, LeaveTools, Touch, End, Leave, Goto, TypeOK
        <3> QED
            BY <1>7, <3>1, <3>2, <3>3, <3>4, <3>5, <3>6 DEF Step, Calls, Unavailable, Reply
    <2> QED
        BY <2>1
<1> QED
    BY <1>1, <1>2, <1>4, <1>5, <1>6, <1>7

\* The message aimed at stays visible: nobody else writes before the turn it is for.
LEMMA AimedStep ==
    ASSUME TInv, Apart, Headed, Headed', Aimed, [Next]_vars
    PROVE  Aimed'
<1>0. TypeOK /\ Entered /\ Spans /\ TypeOK'
    BY TypeStep DEF TInv
<1>1. ASSUME NEW t \in Turns, Step(t)
      PROVE  Aimed'
    <2>0. TurnStep(t) /\ OthersKept(t)
        BY <1>0, <1>1, TurnInv DEF TurnStep
    <2>1. ASSUME NEW v \in Turns \ {t}, Alone(v)', pc'[v] \in {"setup", "reading", "preferring", "settling"}
          PROVE  Alone(v) /\ Visible(v)' = Visible(v) /\ target'[v] = target[v] /\ pc'[v] = pc[v]
        <3>1. pc'[v] = pc[v] /\ target'[v] = target[v] /\ at'[v] = at[v] /\ exists' = exists /\ met' = met
            BY <2>0 DEF TurnStep, OthersKept
        <3>2. Alone(v)
            BY <2>1, <3>1 DEF Alone
        <3>3. v \in Active /\ v \notin met
            BY <2>1, <3>1 DEF Alone, Active
        <3> QED
            BY <2>0, <3>1, <3>2, <3>3, OwnRows
    <2>2. informed \subseteq informed'
        BY <2>0 DEF TurnStep
    <2> SUFFICES ASSUME NEW v \in Turns
                 PROVE  /\ pc'[v] \in {"setup", "reading"} /\ Alone(v)' =>
                             target'[v] \in Elements(Visible(v)') /\ target'[v].role = "user"
                        /\ pc'[v] \in {"preferring", "settling"} /\ Alone(v)' =>
                             v \in informed' \/ Len(Visible(v)') > HistoryLimit
        BY DEF Aimed, Elements
    <2>3. CASE v = t
        BY <1>0, <1>1, <2>3, AimedOwn
    <2>4. CASE v # t
        BY <2>1, <2>2, <2>4 DEF Aimed
    <2> QED
        BY <2>3, <2>4
<1>2. ASSUME NEW t \in Turns, NEW s \in Sessions,
             Say(t, s) \/ \E row \in Elements(rows[s]) : StartEdit(t, s, row)
      PROVE  Aimed'
    <2>1. /\ pc'[t] \in {"saying", "editing"} /\ at'[t] = s /\ OthersKept(t)
          /\ UNCHANGED <<rows, prune, informed>> /\ exists[s] # "deleted"
          /\ \A o \in Sessions \ {s} : exists'[o] = exists[o]
          /\ met \subseteq met'
        BY <1>0, <1>2, Begins
    <2>2. ASSUME NEW v \in Turns \ {t}, Alone(v)', pc[v] # "new"
          PROVE  Alone(v)
        <3>1. at[v] \in Sessions /\ exists[at[v]] # "no" /\ at'[v] = at[v] /\ target'[v] = target[v]
            BY <1>0, <2>1, <2>2 DEF Entered, OthersKept
        <3>2. exists[at[v]] = "yes"
            BY <1>0, <2>1, <2>2, <3>1 DEF TypeOK, Alone
        <3> QED
            BY <2>1, <2>2, <3>1, <3>2 DEF Alone
    <2>3. \A v \in Turns \ {t} : Visible(v)' = Visible(v) /\ pc'[v] = pc[v] /\ target'[v] = target[v]
        BY <2>1 DEF Visible, OthersKept
    <2> QED
        BY <2>1, <2>2, <2>3 DEF Aimed, Elements
<1>3. ASSUME NEW b \in Sessions, UNCHANGED <<pc, at, target, prune, met, informed>>,
             exists'[b] # "yes" \/ exists[b] = "no",
             \A o \in Sessions \ {b} : rows'[o] = rows[o] /\ exists'[o] = exists[o]
      PROVE  Aimed'
    <2>1. ASSUME NEW v \in Turns, Alone(v)', pc[v] # "new"
          PROVE  Alone(v) /\ Visible(v)' = Visible(v)
        <3>1. at[v] \in Sessions \ {b}
            BY <1>0, <1>3, <2>1 DEF Entered, Alone
        <3> QED
            BY <1>3, <2>1, <3>1 DEF Alone, Visible
    <2> QED
        BY <1>3, <2>1 DEF Aimed, Elements
<1>4. ASSUME NEW s \in Sessions, NEW b \in Sessions, NEW i \in DOMAIN rows[s], Branch(s, b, i)
      PROVE  Aimed'
    <2>1. /\ UNCHANGED <<pc, at, target, prune, met, informed>> /\ exists[b] = "no"
          /\ exists' = [exists EXCEPT ![b] = "yes"] /\ rows' = [rows EXCEPT ![b] = SubSeq(rows[s], 1, i)]
        BY <1>4 DEF Branch, turn, history
    <2>2. \A o \in Sessions \ {b} : rows'[o] = rows[o] /\ exists'[o] = exists[o]
        BY <1>0, <2>1 DEF TypeOK
    <2> QED
        BY <1>3, <2>1, <2>2
<1>5. ASSUME NEW s \in Sessions, DeleteSession(s)
      PROVE  Aimed'
    <2>1. /\ UNCHANGED <<pc, at, target, prune, met, informed>>
          /\ exists' = [exists EXCEPT ![s] = "deleted"] /\ rows' = [rows EXCEPT ![s] = <<>>]
        BY <1>5 DEF DeleteSession, turn, history
    <2>2. exists'[s] # "yes" /\ \A o \in Sessions \ {s} : rows'[o] = rows[o] /\ exists'[o] = exists[o]
        BY <1>0, <2>1 DEF TypeOK
    <2> QED
        BY <1>3, <2>1, <2>2
<1>6. CASE UNCHANGED vars
    BY <1>6 DEF vars, committed, turn, history, Aimed, Alone, Visible, Elements
<1> QED
    BY <1>1, <1>2, <1>4, <1>5, <1>6 DEF Next, Request

\* The first request of a turn has the question it is to answer.
THEOREM QuestionIsAsked == Spec => []AsksTheQuestion
<1> DEFINE QInv == TInv /\ Apart /\ Headed /\ Aimed
<1>1. Init => QInv
    <2> SUFFICES ASSUME Init PROVE Apart /\ Headed /\ Aimed
        BY TInvInit
    <2>1. \A t \in Turns : pc[t] = "new" /\ prune[t] = NothingPruned
        BY DEF Init
    <2>2. \A s \in Sessions : rows[s] = <<>>
        BY DEF Init
    <2> QED
        BY <2>1, <2>2 DEF Apart, Active, Headed, Aimed
<1>2. QInv /\ [Next]_vars => QInv'
    BY TInvStep, ApartStep, HeadedStep, AimedStep
<1>3. QInv => AsksTheQuestion
    <2> SUFFICES ASSUME QInv, NEW t \in Turns, pc[t] \in {"preferring", "settling"}, target[t] # <<>>,
                        t \notin met, Len(Visible(t)) <= HistoryLimit, exists[at[t]] = "yes"
                 PROVE  t \in informed
        BY DEF AsksTheQuestion
    <2>1. Visible(t) \in Seq(Row)
        BY Sites, VisibleFacts DEF TInv
    <2>2. ~(Len(Visible(t)) > HistoryLimit)
        <3>1. Len(Visible(t)) \in Nat /\ HistoryLimit \in Nat
            BY <2>1
        <3> QED
            BY <3>1
    <2> QED
        BY <2>2 DEF Aimed, Alone
<1> QED
    BY <1>1, <1>2, <1>3, PTL DEF Spec

(***************************************************************************)
(* No calls stand without their results.                                   *)
(***************************************************************************)

\* Calls and results of an iteration that goes on end the transcript.
LastCalls(t) ==
    LET seq == rows[at[t]]
        c == Len(seq) - call[t] + 1
    IN  /\ call[t] >= 1 /\ c >= 1
        /\ seq[c] = [by |-> t, role |-> "calls", step |-> step[t], n |-> asked[t]]
        /\ \A k \in 1 .. call[t] - 1 :
              seq[c + k] = [by |-> t, role |-> "tool", step |-> step[t], n |-> k]
\* A turn that met no other finds its calls at the end of the transcript.
AtItsTools ==
    \A t \in Turns \ met :
        pc[t] \in AtTools /\ asked[t] > 0 /\ exists[at[t]] = "yes" => LastCalls(t)
\* The calls may want results: their turn is among them or was cut, or a branch was.
Excused(s, row) ==
    \/ pc[row.by] \in AtTools /\ step[row.by] = row.step /\ at[row.by] = s
    \/ row.by \in cut
    \/ CutByBranch(s, row)
\* The message at place i is no call without results and no result without a call.
Whole(s, i) ==
    LET row == rows[s][i] IN
    row.by \notin met =>
        /\ row.role = "calls" => Excused(s, row) \/ Answered(rows[s], i)
        /\ row.role = "tool" => Called(rows[s], i)
\* The property, of every place.
AllWhole == \A s \in Sessions : \A i \in DOMAIN rows[s] : Whole(s, i)
\* What stands after a part that an open transaction has pruned is of other turns
\* that it met.
Later == \A t \in Turns : prune[t] # NothingPruned =>
    \A i \in prune[t].upto + 1 .. Len(rows[at[t]]) : rows[at[t]][i].by \in met

\* Calls whose results are among the first rows are answered in any transcript
\* with the same first rows.
LEMMA AnsweredIn ==
    ASSUME NEW seq \in Seq(Row), NEW new \in Seq(Row), NEW m \in Nat, m <= Len(new), m <= Len(seq),
           \A j \in 1 .. m : new[j] = seq[j],
           NEW i \in 1 .. m, i + seq[i].n <= m, Answered(seq, i)
    PROVE  Answered(new, i)
<1>1. new[i] = seq[i] /\ seq[i] \in Row
    OBVIOUS
<1>2. PICK n \in Nat : n = seq[i].n
    <2>1. seq[i].n \in 0 .. MaxCalls
        BY <1>1 DEF Row
    <2>2. seq[i].n \in Nat
        BY <2>1
    <2> QED
        BY <2>2
<1>3. \A k \in 1 .. n : /\ seq[i + k].role = "tool" /\ seq[i + k].n = k
                        /\ seq[i + k].by = seq[i].by /\ seq[i + k].step = seq[i].step
    BY <1>2 DEF Answered
<1>4. \A k \in 1 .. n : i + k <= Len(new) /\ new[i + k] = seq[i + k]
    <2> SUFFICES ASSUME NEW k \in 1 .. n PROVE i + k <= Len(new) /\ new[i + k] = seq[i + k]
        OBVIOUS
    <2>1. i + k \in 1 .. m /\ Len(new) \in Nat
        BY <1>2
    <2> QED
        BY <2>1
<1>5. new[i].n = n
    BY <1>1, <1>2
<1>6. ASSUME NEW k \in 1 .. new[i].n
      PROVE  /\ i + k <= Len(new) /\ new[i + k].role = "tool" /\ new[i + k].n = k
             /\ new[i + k].by = new[i].by /\ new[i + k].step = new[i].step
    <2>1. k \in 1 .. n
        BY <1>5
    <2>2. i + k <= Len(new) /\ new[i + k] = seq[i + k]
        BY <1>4, <2>1
    <2>3. /\ seq[i + k].role = "tool" /\ seq[i + k].n = k
          /\ seq[i + k].by = seq[i].by /\ seq[i + k].step = seq[i].step
        BY <1>3, <2>1
    <2> QED
        BY <1>1, <2>2, <2>3
<1> QED
    BY <1>6 DEF Answered

\* The same of a result and its call.
LEMMA CalledIn ==
    ASSUME NEW seq \in Seq(Row), NEW new \in Seq(Row), NEW i \in Nat,
           \A j \in 1 .. i : new[j] = seq[j], Called(seq, i)
    PROVE  Called(new, i)
<1>1. PICK k \in 1 .. i - 1 : /\ seq[k].role = "calls" /\ seq[k].by = seq[i].by
                              /\ seq[k].step = seq[i].step /\ i - k = seq[i].n
    BY DEF Called
<1>2. k \in 1 .. i /\ i \in 1 .. i
    OBVIOUS
<1>3. new[k] = seq[k] /\ new[i] = seq[i]
    BY <1>2
<1> QED
    BY <1>1, <1>3 DEF Called

\* The calls of a turn that is among its tools are where it says.
CallsAt(t, seq, i) ==
    /\ i = Len(seq) - call[t] + 1 /\ call[t] >= 1
    /\ seq[i] = [by |-> t, role |-> "calls", step |-> step[t], n |-> asked[t]]
    /\ \A k \in 1 .. call[t] - 1 :
          seq[i + k] = [by |-> t, role |-> "tool", step |-> step[t], n |-> k]

\* The calls of the iteration a turn is in are those that end the transcript.
LEMMA TheCalls ==
    ASSUME TInv, AtItsTools, NEW s \in Sessions, NEW i \in DOMAIN rows[s], NEW t \in Turns,
           rows[s][i].by = t, rows[s][i].role = "calls", t \notin met,
           pc[t] \in AtTools, step[t] = rows[s][i].step, at[t] = s, asked[t] > 0
    PROVE  CallsAt(t, rows[s], i)
<1>0. TypeOK /\ Entered /\ Written /\ NoRepeats
    BY DEF TInv
<1>1. exists[s] = "yes"
    BY <1>0 DEF Entered
<1>2. PICK c : c = Len(rows[s]) - call[t] + 1
    OBVIOUS
<1>3. /\ call[t] >= 1 /\ c >= 1
      /\ rows[s][c] = [by |-> t, role |-> "calls", step |-> step[t], n |-> asked[t]]
      /\ \A k \in 1 .. call[t] - 1 :
            rows[s][c + k] = [by |-> t, role |-> "tool", step |-> step[t], n |-> k]
    BY <1>1, <1>2 DEF AtItsTools, LastCalls
<1>4. rows[s][i] \in Row /\ DOMAIN rows[s] = 1 .. Len(rows[s]) /\ Len(rows[s]) \in Nat /\ call[t] \in Nat
    BY <1>0, Domains, Fields
<1>5. rows[s][i].n = asked[t]
    BY <1>0 DEF Written, Behind
<1>6. rows[s][i] = [by |-> t, role |-> "calls", step |-> step[t], n |-> asked[t]]
    <2>1. PICK x : x = rows[s][i]
        OBVIOUS
    <2>2. x \in Row /\ x.by = t /\ x.role = "calls" /\ x.step = step[t] /\ x.n = asked[t]
        BY <1>4, <1>5, <2>1
    <2>3. x = [by |-> t, role |-> "calls", step |-> step[t], n |-> asked[t]]
        BY <2>2 DEF Row
    <2> QED
        BY <2>1, <2>3
<1>7. c \in DOMAIN rows[s]
    BY <1>2, <1>3, <1>4
<1>8. i = c
    <2>1. rows[s][i] = rows[s][c]
        BY <1>3, <1>6
    <2> QED
        BY <1>0, <1>7, <2>1 DEF NoRepeats
<1> QED
    BY <1>2, <1>3, <1>6, <1>8 DEF CallsAt

\* Calls for no tool have every answer.
LEMMA NoCalls ==
    ASSUME NEW seq, NEW i, seq[i].n = 0
    PROVE  Answered(seq, i)
<1>1. 1 .. seq[i].n = {}
    OBVIOUS
<1> QED
    BY <1>1 DEF Answered

\* A turn at its tools adds the next result; only turns it met could write between.
LEMMA AtItsToolsTurn ==
    ASSUME TInv, Apart, AtItsTools, NEW t \in Turns, TurnStep(t), TypeOK'
    PROVE  AtItsTools'
<1>0. TypeOK /\ Entered /\ Spans /\ Among
    BY DEF TInv
<1>1. at' = at /\ exists' = exists /\ met' = met /\ OthersKept(t) /\ pc[t] # "new"
    BY DEF TurnStep
<1> SUFFICES ASSUME NEW v \in Turns, v \notin met, pc'[v] \in AtTools, asked'[v] > 0, exists[at[v]] = "yes"
             PROVE  LastCalls(v)'
    BY <1>1 DEF AtItsTools
<1>2. CASE v # t
    <2>1. /\ pc'[v] = pc[v] /\ step'[v] = step[v] /\ asked'[v] = asked[v] /\ call'[v] = call[v]
        BY <1>1, <1>2 DEF OthersKept
    <2>2. v \in Active
        BY <2>1 DEF AtTools, Active
    <2>3. rows'[at[v]] = rows[at[v]] /\ at'[v] = at[v]
        BY <1>2, <2>2, OwnRows
    <2>4. LastCalls(v)
        BY <2>1 DEF AtItsTools
    <2> QED
        BY <2>1, <2>3, <2>4 DEF LastCalls
<1>3. CASE v = t
    <2>1. CASE Quiet(t)
        <3>1. Proceeds(t) /\ rows' = rows
            BY <1>3, <2>1 DEF Quiet, Ends, Edits, AtTools
        <3>2. pc[t] \in AtTools /\ step'[t] = step[t] /\ asked'[t] = asked[t] /\ call'[t] = call[t]
            BY <1>3, <3>1 DEF Proceeds, AtTools, BeforeLoop, Abandons
        <3>3. LastCalls(t)
            BY <1>3, <3>2 DEF AtItsTools
        <3> QED
            BY <1>1, <1>3, <3>1, <3>2, <3>3 DEF LastCalls
    <2>2. ASSUME NEW r \in Row, AddsRow(t, r)
          PROVE  LastCalls(t)'
        <3>1. PICK new, l : new = rows'[at[t]] /\ l = Len(rows[at[t]])
            OBVIOUS
        <3>2. l \in Nat /\ r.by = t /\ Len(new) \in Nat
            BY <1>0, <1>1, <2>2, <3>1, Sites, KeepsRows DEF AddsRow, Adds
        <3>3. CASE LoopRow(t, r)
            <4>1. r.role = "calls" /\ r.step = step'[t] /\ r.n = asked'[t] /\ call'[t] = 1
                BY <1>3, <3>3 DEF LoopRow
            <4>2. r = [by |-> t, role |-> "calls", step |-> step'[t], n |-> asked'[t]]
                BY <3>2, <4>1 DEF Row
            <4>3. new[Len(new)] = r /\ Len(new) >= 1
                <5>1. /\ Len(new) = l - (prune[t].upto - prune[t].keep) + 1
                      /\ new[l - (prune[t].upto - prune[t].keep) + 1] = r
                    BY <2>2, <3>1 DEF AddsRow, Adds
                <5> QED
                    BY <1>0, <1>1, <2>2, <3>1, <5>1, KeepsRows
            <4>4. Len(new) - call'[t] + 1 = Len(new)
                BY <3>2, <4>1
            <4>5. \A k \in 1 .. call'[t] - 1 : FALSE
                BY <4>1
            <4> QED
                BY <1>1, <3>1, <4>1, <4>2, <4>3, <4>4, <4>5 DEF LastCalls
        <3>4. CASE ToolRow(t, r)
            <4>1. /\ pc[t] = "resulted" /\ r.role = "tool" /\ r.step = step[t] /\ r.n = call[t]
                  /\ prune[t] = NothingPruned /\ asked'[t] = asked[t] /\ call'[t] = call[t] + 1
                  /\ step'[t] = step[t]
                BY <1>3, <3>4 DEF ToolRow, AtTools
            <4>2. r = [by |-> t, role |-> "tool", step |-> step[t], n |-> call[t]]
                BY <3>2, <4>1 DEF Row
            <4>3. PICK c : c = l - call[t] + 1
                OBVIOUS
            <4>4. /\ call[t] >= 1 /\ c >= 1 /\ call[t] \in Nat /\ c \in 1 .. l
                  /\ rows[at[t]][c] = [by |-> t, role |-> "calls", step |-> step[t], n |-> asked[t]]
                  /\ \A k \in 1 .. call[t] - 1 :
                        rows[at[t]][c + k] = [by |-> t, role |-> "tool", step |-> step[t], n |-> k]
                <5>1. LastCalls(t)
                    BY <1>3, <4>1 DEF AtItsTools, AtTools
                <5>2. call[t] \in Nat
                    BY <1>0, Fields
                <5> QED
                    BY <3>1, <3>2, <4>3, <5>1, <5>2 DEF LastCalls
            <4>5. /\ Len(new) = l + 1 /\ \A i \in 1 .. l : new[i] = rows[at[t]][i]
                BY <1>0, <1>1, <2>2, <3>1, <4>1, KeepsRows
            <4>6. new[l + 1] = r
                <5>1. new[l - (0 - 0) + 1] = r
                    BY <2>2, <3>1, <4>1 DEF AddsRow, Adds, NothingPruned
                <5>2. l - (0 - 0) + 1 = l + 1
                    BY <3>2
                <5> QED
                    BY <5>1, <5>2
            <4>7. Len(new) - call'[t] + 1 = c
                BY <3>2, <4>1, <4>3, <4>4, <4>5
            <4>8. ASSUME NEW k \in 1 .. call'[t] - 1
                  PROVE  new[c + k] = [by |-> t, role |-> "tool", step |-> step[t], n |-> k]
                <5>1. CASE k = call[t]
                    <6>1. c + k = l + 1
                        BY <3>2, <4>3, <4>4, <5>1
                    <6> QED
                        BY <4>2, <4>6, <5>1, <6>1
                <5>2. CASE k # call[t]
                    <6>1. k \in 1 .. call[t] - 1 /\ c + k \in 1 .. l
                        BY <3>2, <4>1, <4>3, <4>4, <5>2
                    <6> QED
                        BY <4>4, <4>5, <6>1
                <5> QED
                    BY <5>1, <5>2
            <4>9. new[c] = [by |-> t, role |-> "calls", step |-> step[t], n |-> asked[t]]
                BY <4>4, <4>5
            <4>10. call'[t] >= 1 /\ c >= 1
                BY <4>1, <4>4
            <4> QED
                BY <1>1, <3>1, <4>1, <4>7, <4>8, <4>9, <4>10 DEF LastCalls
        <3>5. CASE AsksRow(t, r)
            BY <1>3, <3>5 DEF AsksRow, AtTools
        <3> QED
            BY <2>2, <3>3, <3>4, <3>5 DEF AddsRow
    <2> QED
        BY <1>3, <2>1, <2>2 DEF TurnStep
<1> QED
    BY <1>2, <1>3

\* Whoever writes after an edit that is not committed has met it.
LEMMA LaterTurn ==
    ASSUME TInv, Apart, Later, NEW t \in Turns, TurnStep(t), TypeOK'
    PROVE  Later'
<1>0. TypeOK /\ Entered /\ Spans
    BY DEF TInv
<1>1. at' = at /\ met' = met /\ OthersKept(t) /\ pc[t] # "new"
    BY DEF TurnStep
<1> SUFFICES ASSUME NEW v \in Turns, prune'[v] # NothingPruned,
                    NEW i \in prune'[v].upto + 1 .. Len(rows'[at[v]])
             PROVE  rows'[at[v]][i].by \in met
    BY <1>1 DEF Later
<1>2. CASE v = t
    <2>1. rows' = rows /\ (Edits(t) \/ Proceeds(t))
        BY <1>2 DEF TurnStep, Quiet, Ends, AddsRow, Adds
    <2>2. CASE Edits(t)
        <3>1. prune'[t].upto = Len(rows[at[t]]) /\ Len(rows[at[t]]) \in Nat
            BY <1>0, <1>1, <2>2, Sites DEF Edits
        <3> QED
            BY <1>2, <2>1, <3>1
    <2>3. CASE Proceeds(t)
        BY <1>2, <2>1, <2>3 DEF Proceeds, Later
    <2> QED
        BY <2>1, <2>2, <2>3
<1>3. CASE v # t
    <2>1. prune'[v] = prune[v]
        BY <1>1, <1>3 DEF OthersKept
    <2>2. CASE rows'[at[v]] = rows[at[v]]
        BY <2>1, <2>2 DEF Later
    <2>3. CASE rows'[at[v]] # rows[at[v]]
        <3>1. PICK r \in Row : AddsRow(t, r)
            BY <2>3 DEF TurnStep, Quiet
        <3>2. /\ at[v] \in Sessions /\ sessionLock[at[v]] = v /\ v \in Active
              /\ prune[v].upto <= Len(rows[at[v]]) /\ prune[v].upto \in Nat
            BY <1>0, <2>1, Fields DEF Spans, Entered, Active, BeforeLoop
        <3>3. at[v] = at[t] /\ r.by = t /\ t \in Active
            BY <2>3, <3>1, <3>2 DEF AddsRow, Adds, AsksRow, LoopRow, ToolRow, Active
        <3>4. t \in met
            BY <1>3, <3>2, <3>3 DEF Apart
        <3>5. prune[t] = NothingPruned
            BY <1>0, <1>3, <3>2, <3>3 DEF Spans
        <3>6. PICK l \in Nat : l = Len(rows[at[v]])
            BY <1>0, <3>2, Fields
        <3>7. /\ Len(rows'[at[v]]) = l + 1 /\ \A j \in 1 .. l : rows'[at[v]][j] = rows[at[v]][j]
            BY <1>0, <1>1, <3>1, <3>3, <3>5, <3>6, KeepsRows
        <3>8. rows'[at[v]][l + 1] = r
            <4>1. rows'[at[v]][l - (0 - 0) + 1] = r
                BY <3>1, <3>3, <3>5, <3>6 DEF AddsRow, Adds, NothingPruned
            <4>2. l - (0 - 0) + 1 = l + 1
                OBVIOUS
            <4> QED
                BY <4>1, <4>2
        <3>9. CASE i = l + 1
            BY <3>3, <3>4, <3>8, <3>9
        <3>10. CASE i # l + 1
            <4>1. i \in 1 .. l /\ i \in prune[v].upto + 1 .. Len(rows[at[v]])
                BY <2>1, <3>2, <3>6, <3>7, <3>10
            <4>2. rows'[at[v]][i] = rows[at[v]][i]
                BY <3>7, <4>1
            <4> QED
                BY <2>1, <4>1, <4>2 DEF Later
        <3> QED
            BY <3>9, <3>10
    <2> QED
        BY <2>2, <2>3
<1> QED
    BY <1>2, <1>3

\* A step of a turn goes on excusing calls, or their last result is there.
LEMMA ExcusedTurn ==
    ASSUME TInv, NEW t \in Turns, TurnStep(t), NEW s \in Sessions, NEW x \in Row,
           Excused(s, x),
           ~(/\ x.by = t /\ pc[t] \in AtTools /\ step[t] = x.step /\ at[t] = s
             /\ (asked[t] = 0 \/ ~(pc'[t] \in AtTools /\ step'[t] = x.step)))
    PROVE  Excused(s, x)'
<1>1. /\ at' = at /\ branchedAt' = branchedAt /\ cut \subseteq cut' /\ OthersKept(t)
    BY DEF TurnStep
<1>2. x.by \in Turns
    BY DEF Row
<1>3. CASE CutByBranch(s, x)
    BY <1>1, <1>3 DEF Excused, CutByBranch
<1>4. CASE x.by \in cut
    BY <1>1, <1>4 DEF Excused
<1>5. CASE pc[x.by] \in AtTools /\ step[x.by] = x.step /\ at[x.by] = s
    <2>1. CASE x.by # t
        BY <1>1, <1>2, <1>5, <2>1 DEF OthersKept, Excused
    <2>2. CASE x.by = t
        BY <1>1, <1>5, <2>2 DEF Excused
    <2> QED
        BY <2>1, <2>2
<1> QED
    BY <1>3, <1>4, <1>5 DEF Excused

\* A step that leaves transcripts alone leaves calls as whole as they were.
LEMMA WholeQuiet ==
    ASSUME TInv, AllWhole, NEW t \in Turns, TurnStep(t), Quiet(t)
    PROVE  AllWhole'
<1>0. TypeOK /\ Written
    BY DEF TInv
<1>1. /\ rows' = rows /\ at' = at /\ met' = met
      /\ branchedAt' = branchedAt /\ cut \subseteq cut' /\ OthersKept(t)
    BY DEF TurnStep, Quiet
<1> SUFFICES ASSUME NEW s \in Sessions, NEW i \in DOMAIN rows[s], rows[s][i].by \notin met
             PROVE  /\ rows[s][i].role = "calls" => Excused(s, rows[s][i])' \/ Answered(rows[s], i)
                    /\ rows[s][i].role = "tool" => Called(rows[s], i)
    BY <1>1 DEF AllWhole, Whole, Excused, CutByBranch
<1>2. PICK seq, x : seq = rows[s] /\ x = rows[s][i]
    OBVIOUS
<1>3. /\ x \in Row /\ x.by \in Turns /\ Behind(x, x.by) /\ x = seq[i]
    <2>1. x \in Row
        BY <1>0, <1>2, Domains
    <2>2. Behind(x, x.by)
        BY <1>0, <1>2 DEF Written
    <2>3. x = seq[i]
        BY <1>2
    <2> QED
        BY <2>1, <2>2, <2>3 DEF Row
<1>4. /\ x.role = "calls" => Excused(s, x) \/ Answered(seq, i)
      /\ x.role = "tool" => Called(seq, i)
    BY <1>2 DEF AllWhole, Whole
<1>5. ASSUME x.role = "calls", Excused(s, x), ~Answered(seq, i)
      PROVE  Excused(s, x)'
    <2>1. CASE pc[x.by] \in AtTools /\ step[x.by] = x.step /\ at[x.by] = s /\ x.by = t
        <3>1. x.n = asked[t]
            BY <1>3, <1>5, <2>1 DEF Behind
        <3>2. asked[t] > 0
            <4>1. seq[i].n # 0
                BY <1>5, NoCalls
            <4>2. asked[t] \in Nat
                BY <1>0, Fields
            <4> QED
                BY <1>3, <3>1, <4>1, <4>2
        <3>3. CASE Ends(t)
            BY <2>1, <3>2, <3>3 DEF Ends, Excused
        <3>4. CASE Proceeds(t)
            BY <1>1, <2>1, <3>2, <3>4 DEF Proceeds, Excused, AtTools, BeforeLoop, Abandons
        <3> QED
            BY <2>1, <3>3, <3>4 DEF Quiet, Edits, AtTools
    <2>2. CASE ~(pc[x.by] \in AtTools /\ step[x.by] = x.step /\ at[x.by] = s /\ x.by = t)
        BY <1>3, <1>5, <2>2, ExcusedTurn
    <2> QED
        BY <2>1, <2>2
<1>6. Excused(s, x)' <=> Excused(s, rows[s][i])'
    BY <1>1, <1>2 DEF Excused, CutByBranch
<1> QED
    BY <1>2, <1>4, <1>5, <1>6

\* A row that is added answers calls, or makes calls whose turn is at its tools.
LEMMA WholeAdds ==
    ASSUME TInv, Headed, Apart, AtItsTools, AllWhole, Later, NEW t \in Turns, TurnStep(t),
           NEW r \in Row, AddsRow(t, r), TypeOK'
    PROVE  AllWhole'
<1>0. TypeOK /\ Entered /\ Spans /\ Written /\ NoRepeats /\ Among
    BY DEF TInv
<1>1. /\ at' = at /\ met' = met /\ exists' = exists
      /\ branchedAt' = branchedAt /\ cut \subseteq cut' /\ OthersKept(t) /\ pc[t] # "new"
      /\ Adds(t, r) /\ r.by = t
    BY DEF TurnStep, AddsRow, Adds
<1> SUFFICES ASSUME NEW s \in Sessions, NEW i \in DOMAIN rows'[s], rows'[s][i].by \notin met
             PROVE  /\ rows'[s][i].role = "calls" =>
                          (Excused(s, rows[s][i]))' \/ Answered(rows'[s], i)
                    /\ rows'[s][i].role = "tool" => Called(rows'[s], i)
    BY <1>1 DEF AllWhole, Whole
<1>2. PICK seq, new, x, k, u, l : /\ seq = rows[s] /\ new = rows'[s] /\ x = rows'[s][i]
                                  /\ k = prune[t].keep /\ u = prune[t].upto /\ l = Len(rows[s])
    OBVIOUS
<1>3. /\ seq \in Seq(Row) /\ new \in Seq(Row) /\ l \in Nat /\ i \in 1 .. Len(new) /\ x = new[i]
      /\ x \in Row /\ x.by \in Turns /\ x.by \notin met /\ l = Len(seq)
    <2>1. /\ seq \in Seq(Row) /\ new \in Seq(Row) /\ l \in Nat /\ i \in 1 .. Len(new)
        BY <1>0, <1>2, Domains
    <2>2. x \in Row
        BY <1>2, <2>1
    <2> QED
        BY <1>2, <2>1, <2>2 DEF Row
<1>4. \A y \in Row : y = x => (Excused(s, y)' <=> (Excused(s, rows[s][i]))')
    BY <1>2 DEF Excused, CutByBranch
<1> SUFFICES /\ x.role = "calls" => Excused(s, x)' \/ Answered(new, i)
             /\ x.role = "tool" => Called(new, i)
    BY <1>2, <1>3, <1>4
<1>5. CASE s # at[t]
    <2>1. new = seq
        BY <1>1, <1>2, <1>5 DEF Adds
    <2>2. /\ x.role = "calls" => Excused(s, x) \/ Answered(seq, i)
          /\ x.role = "tool" => Called(seq, i)
        BY <1>2, <1>3, <2>1 DEF AllWhole, Whole
    <2>3. Excused(s, x) => Excused(s, x)'
        BY <1>3, <1>5, ExcusedTurn
    <2> QED
        BY <2>1, <2>2, <2>3
<1>6. CASE s = at[t]
    <2>1. /\ k \in Nat /\ u \in Nat /\ k <= u /\ u <= l
          /\ Len(new) = l - (u - k) + 1 /\ new[l - (u - k) + 1] = r
          /\ \A j \in 1 .. k : new[j] = seq[j]
        BY <1>0, <1>1, <1>2, <1>6, Sites DEF Adds
    <2>2. PICK m \in Nat : /\ m <= l /\ \A j \in 1 .. m : new[j] = seq[j]
                           /\ prune[t] = NothingPruned => m = l /\ Len(new) = l + 1
                           /\ prune[t] # NothingPruned =>
                                 m = k /\ m \in 1 .. l /\ seq[m].role = "user" /\ m <= Len(new)
        <3>1. CASE prune[t] = NothingPruned
            <4>1. Len(new) = l + 1 /\ \A j \in 1 .. l : new[j] = seq[j]
                BY <1>0, <1>1, <1>2, <1>3, <1>6, <3>1, KeepsRows
            <4>2. l \in Nat /\ l <= l
                BY <1>3
            <4> QED
                BY <3>1, <4>1, <4>2
        <3>2. CASE prune[t] # NothingPruned
            <4>1. k \in 1 .. l /\ seq[k].role = "user"
                BY <1>2, <1>6, <3>2 DEF Headed
            <4>2. k <= Len(new) /\ k <= l /\ \A j \in 1 .. k : new[j] = seq[j]
                BY <1>3, <2>1
            <4> QED
                BY <2>1, <3>2, <4>1, <4>2
        <3> QED
            BY <3>1, <3>2
    <2>3. CASE i = Len(new)
        <3>1. x = r
            BY <1>3, <2>1, <2>3
        <3>2. CASE LoopRow(t, r)
            <4>1. r.role = "calls" => Excused(s, x)'
                BY <1>1, <1>6, <3>1, <3>2 DEF LoopRow, Excused, AtTools
            <4> QED
                BY <3>1, <3>2, <4>1 DEF LoopRow
        <3>3. CASE ToolRow(t, r)
            <4>1. m = l /\ Len(new) = l + 1 /\ pc[t] = "resulted" /\ r.n = call[t] /\ r.step = step[t]
                  /\ r.role = "tool"
                BY <2>2, <3>3 DEF ToolRow
            <4>2. asked[t] > 0 /\ call[t] \in Nat
                <5>1. call[t] \in Nat /\ asked[t] \in Nat
                    BY <1>0, Fields
                <5> QED
                    BY <1>0, <4>1, <5>1 DEF Among
            <4>3. LastCalls(t)
                BY <1>1, <1>3, <1>6, <3>1, <4>1, <4>2 DEF AtItsTools, AtTools, Adds
            <4>4. PICK c : c = l - call[t] + 1
                OBVIOUS
            <4>5. /\ c >= 1 /\ call[t] >= 1
                  /\ seq[c] = [by |-> t, role |-> "calls", step |-> step[t], n |-> asked[t]]
                BY <1>2, <1>6, <4>3, <4>4 DEF LastCalls
            <4>6. c \in 1 .. i - 1 /\ i - c = call[t] /\ c \in 1 .. m
                <5>1. i = l + 1 /\ m = l /\ l \in Nat /\ call[t] \in Nat
                    BY <1>3, <2>3, <4>1, <4>2
                <5>2. c = l - call[t] + 1 /\ c >= 1 /\ call[t] >= 1
                    BY <4>4, <4>5
                <5>3. c \in 1 .. l /\ l + 1 - c = call[t]
                    BY <5>1, <5>2
                <5> QED
                    BY <5>1, <5>3
            <4>7. new[c] = seq[c]
                BY <2>2, <4>6
            <4>8. Called(new, i)
                BY <1>1, <1>3, <3>1, <4>1, <4>5, <4>6, <4>7 DEF Called
            <4> QED
                BY <3>1, <4>1, <4>8
        <3>4. CASE AsksRow(t, r)
            BY <3>1, <3>4 DEF AsksRow
        <3> QED
            BY <3>2, <3>3, <3>4 DEF AddsRow
    <2>4. CASE i # Len(new) /\ i > m
        <3>1. prune[t] # NothingPruned
            BY <1>3, <2>2, <2>4
        <3>2. i > k
            BY <2>2, <2>4, <3>1
        <3>3. i + (u - k) \in u + 1 .. l /\ (i + (u - k)) - (u - k) = i
            <4>1. i \in Nat /\ k \in Nat /\ u \in Nat /\ l \in Nat /\ k <= u /\ k < i
                BY <1>3, <2>1, <3>2
            <4>2. i <= l - (u - k)
                BY <1>3, <2>1, <2>4
            <4> QED
                BY <4>1, <4>2
        <3>4. new[(i + (u - k)) - (u - k)] = seq[i + (u - k)]
            BY <1>1, <1>2, <1>6, <3>3 DEF Adds
        <3>5. seq[i + (u - k)].by \in met
            BY <1>2, <1>6, <3>1, <3>3 DEF Later
        <3> QED
            BY <1>3, <3>3, <3>4, <3>5
    <2>5. CASE i # Len(new) /\ i <= m
        <3>1. i \in 1 .. m /\ seq[i] = x /\ i \in DOMAIN rows[s] /\ m <= Len(new) /\ m <= Len(seq)
            BY <1>2, <1>3, <2>2, <2>5
        <3>2. /\ x.role = "calls" => Excused(s, x) \/ Answered(seq, i)
              /\ x.role = "tool" => Called(seq, i)
            BY <1>2, <1>3, <3>1 DEF AllWhole, Whole
        <3>3. x.role = "tool" => Called(new, i)
            <4>1. \A j \in 1 .. i : new[j] = seq[j]
                BY <2>2, <3>1
            <4> QED
                BY <1>3, <3>2, <4>1, CalledIn
        <3>4. ASSUME x.role = "calls", Answered(seq, i)
              PROVE  Answered(new, i)
            <4>1. x.n \in Nat
                BY <1>3 DEF Row
            <4>2. CASE x.n = 0
                BY <1>3, <4>2, NoCalls
            <4>3. CASE x.n > 0
                <5>1. i + x.n <= Len(seq)
                    <6>1. x.n \in 1 .. seq[i].n
                        BY <3>1, <4>1, <4>3
                    <6> QED
                        BY <3>4, <6>1 DEF Answered
                <5>2. i + x.n <= m
                    <6>1. CASE prune[t] = NothingPruned
                        BY <1>3, <2>2, <5>1, <6>1
                    <6>2. CASE prune[t] # NothingPruned
                        <7>1. seq[m].role = "user" /\ m \in 1 .. l
                            BY <2>2, <6>2
                        <7>2. m # i
                            BY <3>1, <3>4, <7>1
                        <7>3. ASSUME i + x.n > m
                              PROVE  FALSE
                            <8>1. m - i \in 1 .. seq[i].n /\ i + (m - i) = m
                                BY <3>1, <4>1, <7>1, <7>2, <7>3
                            <8>2. seq[i + (m - i)].role = "tool"
                                BY <3>4, <8>1 DEF Answered
                            <8> QED
                                BY <7>1, <8>1, <8>2
                        <7> QED
                            BY <3>1, <4>1, <7>1, <7>3
                    <6> QED
                        BY <6>1, <6>2
                <5>3. i + seq[i].n <= m
                    BY <3>1, <5>2
                <5> QED
                    BY <1>3, <2>2, <3>1, <3>4, <5>3, AnsweredIn
            <4> QED
                BY <4>1, <4>2, <4>3
        <3>5. ASSUME x.role = "calls", Excused(s, x)
              PROVE  Excused(s, x)' \/ Answered(new, i)
            <4>1. CASE /\ x.by = t /\ pc[t] \in AtTools /\ step[t] = x.step /\ at[t] = s
                       /\ (asked[t] = 0 \/ ~(pc'[t] \in AtTools /\ step'[t] = x.step))
                <5>1. Behind(x, t)
                    BY <1>0, <1>2, <3>1, <4>1 DEF Written
                <5>2. x.n = asked[t]
                    BY <3>5, <4>1, <5>1 DEF Behind
                <5>3. CASE asked[t] = 0
                    BY <1>3, <5>2, <5>3, NoCalls
                <5>4. CASE asked[t] # 0
                    <6>1. ToolRow(t, r)
                        BY <4>1 DEF AddsRow, AsksRow, LoopRow, AtTools
                    <6>2. call[t] \in Nat /\ asked[t] \in Nat /\ 1 <= call[t] /\ call[t] <= asked[t]
                          /\ step[t] \in Nat
                        BY <1>0, <6>1, Fields DEF ToolRow, Among
                    <6>3. call[t] = asked[t]
                        <7>1. ~(call[t] < asked[t])
                            BY <4>1, <5>4, <6>1 DEF ToolRow, AtTools
                        <7> QED
                            BY <6>2, <7>1
                    <6>4. /\ i = l - call[t] + 1
                          /\ x = [by |-> t, role |-> "calls", step |-> step[t], n |-> asked[t]]
                          /\ \A j \in 1 .. call[t] - 1 :
                                seq[i + j] = [by |-> t, role |-> "tool", step |-> step[t], n |-> j]
                        <7>1. /\ rows[s][i].by = t /\ rows[s][i].role = "calls" /\ t \notin met
                              /\ pc[t] \in AtTools /\ step[t] = rows[s][i].step /\ at[t] = s /\ asked[t] > 0
                            BY <1>2, <1>3, <3>1, <3>5, <4>1, <5>4, <6>2
                        <7>2. CallsAt(t, rows[s], i)
                            BY <3>1, <7>1, TheCalls
                        <7> QED
                            BY <1>2, <3>1, <7>2 DEF CallsAt
                    <6>5. prune[t] = NothingPruned /\ m = l /\ Len(new) = l + 1
                        BY <2>2, <6>1 DEF ToolRow
                    <6>6. r.role = "tool" /\ r.step = step[t] /\ r.n = call[t]
                        BY <6>1 DEF ToolRow
                    <6>7. new[l + 1] = r
                        BY <1>3, <2>1, <6>5
                    <6>8. ASSUME NEW j \in 1 .. new[i].n
                          PROVE  /\ i + j <= Len(new) /\ new[i + j].role = "tool" /\ new[i + j].n = j
                                 /\ new[i + j].by = new[i].by /\ new[i + j].step = new[i].step
                        <7>1. j \in 1 .. call[t] /\ new[i].by = t /\ new[i].step = step[t]
                            BY <1>3, <6>3, <6>4
                        <7>2. i + j <= Len(new)
                            BY <1>3, <6>2, <6>4, <6>5, <7>1
                        <7>3. CASE j = call[t]
                            <8>1. i + j = l + 1
                                <9>1. i = l - call[t] + 1
                                    BY <6>4
                                <9>2. PICK c \in Nat : c = call[t]
                                    BY <6>2
                                <9>3. l \in Nat
                                    BY <1>3
                                <9>4. i = l - c + 1 /\ j = c
                                    BY <7>3, <9>1, <9>2
                                <9> QED
                                    BY <9>2, <9>3, <9>4
                            <8> QED
                                BY <1>1, <6>6, <6>7, <7>1, <7>2, <7>3, <8>1
                        <7>4. CASE j # call[t]
                            <8>1. j \in 1 .. call[t] - 1 /\ i + j \in 1 .. m
                                BY <1>3, <6>2, <6>4, <6>5, <7>1, <7>4
                            <8>2. new[i + j] = seq[i + j]
                                BY <2>2, <8>1
                            <8>3. seq[i + j] = [by |-> t, role |-> "tool", step |-> step[t], n |-> j]
                                BY <6>4, <8>1
                            <8> QED
                                BY <7>1, <7>2, <8>2, <8>3
                        <7> QED
                            BY <7>3, <7>4
                    <6> QED
                        BY <6>8 DEF Answered
                <5> QED
                    BY <5>3, <5>4
            <4>2. CASE ~(/\ x.by = t /\ pc[t] \in AtTools /\ step[t] = x.step /\ at[t] = s
                         /\ (asked[t] = 0 \/ ~(pc'[t] \in AtTools /\ step'[t] = x.step)))
                BY <1>3, <3>5, <4>2, ExcusedTurn
            <4> QED
                BY <4>1, <4>2
        <3> QED
            BY <3>2, <3>3, <3>4, <3>5
    <2> QED
        BY <1>3, <2>2, <2>3, <2>4, <2>5
<1> QED
    BY <1>5, <1>6

\* A branch has the transcript up to a message, and is cut there.
LEMMA WholeBranch ==
    ASSUME TInv, AtItsTools, AllWhole, NEW s \in Sessions, NEW b \in Sessions,
           NEW i \in DOMAIN rows[s], Branch(s, b, i)
    PROVE  AllWhole'
<1>0. TypeOK /\ Entered /\ Written
    BY DEF TInv
<1>1. /\ exists[s] = "yes" /\ exists[b] = "no"
      /\ rows' = [rows EXCEPT ![b] = SubSeq(rows[s], 1, i)]
      /\ branchedAt' = [branchedAt EXCEPT ![b] = branchedAt[s] \union {rows[s][i]}]
      /\ UNCHANGED <<pc, at, step, met, cut>>
    BY DEF Branch, turn, history
<1>2. PICK seq, copied : seq = rows[s] /\ copied = SubSeq(rows[s], 1, i)
    OBVIOUS
<1>3. /\ seq \in Seq(Row) /\ i \in 1 .. Len(seq) /\ copied \in Seq(Row) /\ Len(copied) = i
      /\ \A j \in 1 .. i : copied[j] = seq[j]
    <2>1. seq \in Seq(Row) /\ i \in 1 .. Len(seq)
        BY <1>0, <1>2, Domains
    <2>2. i \in 0 .. Len(seq)
        BY <2>1
    <2> QED
        BY <1>2, <2>1, <2>2, Prefix
<1>4. /\ rows'[b] = copied /\ branchedAt'[b] = branchedAt[s] \union {seq[i]}
      /\ \A o \in Sessions \ {b} : rows'[o] = rows[o] /\ branchedAt'[o] = branchedAt[o]
    BY <1>0, <1>1, <1>2 DEF TypeOK
<1>5. ASSUME NEW o \in Sessions \ {b}, NEW j \in DOMAIN rows[o]
      PROVE  Whole(o, j)'
    <2>1. Whole(o, j)
        BY <1>5 DEF AllWhole
    <2> QED
        BY <1>1, <1>4, <2>1 DEF Whole, Excused, CutByBranch
<1>6. ASSUME NEW j \in 1 .. i, seq[j].by \notin met
      PROVE  /\ copied[j].role = "calls" => (Excused(b, rows[b][j]))' \/ Answered(copied, j)
             /\ copied[j].role = "tool" => Called(copied, j)
    <2>1. PICK x : x = seq[j]
        OBVIOUS
    <2>2. copied[j] = x /\ x \in Row /\ x.by \in Turns /\ j \in DOMAIN rows[s] /\ j \in 1 .. Len(seq)
        <3>1. j \in 1 .. Len(seq) /\ j \in DOMAIN rows[s]
            BY <1>2, <1>3
        <3>2. copied[j] = x /\ x \in Row
            BY <1>3, <2>1, <3>1
        <3>3. x.by \in Turns
            BY <3>2 DEF Row
        <3> QED
            BY <3>1, <3>2, <3>3
    <2>3. /\ x.role = "calls" => Excused(s, x) \/ Answered(seq, j)
          /\ x.role = "tool" => Called(seq, j)
        BY <1>2, <1>6, <2>1, <2>2 DEF AllWhole, Whole
    <2>4. x.role = "tool" => Called(copied, j)
        <3>1. \A k \in 1 .. j : copied[k] = seq[k]
            BY <1>3
        <3> QED
            BY <1>3, <2>3, <3>1, CalledIn
    <2>5. ASSUME NEW y \in {seq[i]} \union branchedAt[s], y.by = x.by, y.step = x.step
          PROVE  (Excused(b, rows[b][j]))'
        BY <1>4, <2>2, <2>5 DEF Excused, CutByBranch
    <2>6. ASSUME x.role = "calls", Answered(seq, j)
          PROVE  (Excused(b, rows[b][j]))' \/ Answered(copied, j)
        <3>1. x.n \in Nat
            BY <2>2 DEF Row
        <3>2. CASE j + x.n <= i
            BY <1>3, <2>1, <2>6, <3>2, AnsweredIn
        <3>3. CASE j = i
            BY <2>1, <2>5, <3>3
        <3>4. CASE ~(j + x.n <= i) /\ j # i
            <4>1. i - j \in 1 .. seq[j].n /\ j + (i - j) = i
                BY <1>3, <2>1, <3>1, <3>4
            <4>2. seq[j + (i - j)].by = seq[j].by /\ seq[j + (i - j)].step = seq[j].step
                BY <2>6, <4>1 DEF Answered
            <4> QED
                BY <2>1, <2>5, <4>1, <4>2
        <3> QED
            BY <3>2, <3>3, <3>4
    <2>7. ASSUME x.role = "calls", Excused(s, x)
          PROVE  (Excused(b, rows[b][j]))' \/ Answered(copied, j)
        <3>1. CASE x.by \in cut
            <4>1. rows'[b][j] = x
                BY <1>4, <2>2
            <4>2. cut' = cut
                BY <1>1
            <4> QED
                BY <3>1, <4>1, <4>2 DEF Excused
        <3>2. CASE CutByBranch(s, x)
            BY <2>5, <3>2 DEF CutByBranch
        <3>3. CASE pc[x.by] \in AtTools /\ step[x.by] = x.step /\ at[x.by] = s
            <4>1. PICK t \in Turns : t = x.by
                BY <2>2
            <4>2. x.n = asked[t] /\ asked[t] \in Nat
                <5>1. Behind(x, t)
                    BY <1>0, <1>2, <2>1, <2>2, <4>1 DEF Written
                <5> QED
                    BY <1>0, <2>7, <3>3, <4>1, <5>1, Fields DEF Behind
            <4>3. CASE asked[t] = 0
                BY <2>2, <4>2, <4>3, NoCalls
            <4>4. CASE asked[t] > 0
                <5>1. /\ j = Len(seq) - call[t] + 1 /\ call[t] >= 1
                      /\ \A k \in 1 .. call[t] - 1 :
                            seq[j + k] = [by |-> t, role |-> "tool", step |-> step[t], n |-> k]
                    <6>1. /\ rows[s][j].by = t /\ rows[s][j].role = "calls" /\ t \notin met
                          /\ step[t] = rows[s][j].step /\ pc[t] \in AtTools /\ at[t] = s
                        BY <1>2, <1>6, <2>1, <2>7, <3>3, <4>1
                    <6>2. /\ j = Len(rows[s]) - call[t] + 1 /\ call[t] >= 1
                          /\ \A k \in 1 .. call[t] - 1 :
                                rows[s][j + k] = [by |-> t, role |-> "tool", step |-> step[t], n |-> k]
                        <7>1. j \in DOMAIN rows[s]
                            BY <2>2
                        <7>2. CallsAt(t, rows[s], j)
                            BY <4>4, <6>1, <7>1, TheCalls
                        <7> QED
                            BY <7>2 DEF CallsAt
                    <6>3. seq = rows[s]
                        BY <1>2
                    <6> QED
                        BY <6>2, <6>3
                <5>2. CASE i = j
                    BY <2>1, <2>5, <5>2
                <5>3. CASE i # j
                    <6>1. PICK k \in Int : k = i - j
                        <7>1. i \in Int /\ j \in Int
                            BY <1>3
                        <7>2. i - j \in Int
                            BY <7>1
                        <7> QED
                            BY <7>2
                    <6>2. call[t] \in Nat /\ Len(seq) \in Nat
                        BY <1>0, <1>3, Fields
                    <6>3. k \in 1 .. call[t] - 1 /\ j + k = i
                        <7>1. i \in Nat /\ j \in Nat /\ j < i /\ i <= Len(seq)
                            BY <1>3, <5>3, <6>2
                        <7>2. j = Len(seq) - call[t] + 1
                            BY <5>1
                        <7>3. i - j \in 1 .. call[t] - 1 /\ j + (i - j) = i
                            BY <6>2, <7>1, <7>2, Distance
                        <7> QED
                            BY <6>1, <7>3
                    <6>4. seq[i].by = t /\ seq[i].step = step[t]
                        <7>1. seq[j + k] = [by |-> t, role |-> "tool", step |-> step[t], n |-> k]
                            BY <5>1, <6>3
                        <7>2. seq[j + k] = seq[i]
                            BY <6>3
                        <7> QED
                            BY <7>1, <7>2
                    <6> QED
                        BY <2>5, <3>3, <4>1, <6>4
                <5> QED
                    BY <5>2, <5>3
            <4> QED
                BY <4>2, <4>3, <4>4
        <3> QED
            BY <2>7, <3>1, <3>2, <3>3 DEF Excused
    <2> QED
        BY <2>2, <2>3, <2>4, <2>6, <2>7
<1>7. ASSUME NEW j \in DOMAIN rows'[b]
      PROVE  Whole(b, j)'
    <2>1. j \in 1 .. i /\ rows'[b] = copied /\ copied[j] = seq[j] /\ met' = met
        BY <1>1, <1>3, <1>4
    <2> QED
        BY <1>6, <2>1 DEF Whole
<1>8. ASSUME NEW o \in Sessions, NEW j \in DOMAIN rows'[o]
      PROVE  Whole(o, j)'
    BY <1>4, <1>5, <1>7
<1> QED
    BY <1>8 DEF AllWhole

\* Every step leaves the transcripts whole.
LEMMA WholeStep ==
    ASSUME TInv, Apart, Headed, AtItsTools, AllWhole, Later, [Next]_vars
    PROVE  AtItsTools' /\ AllWhole' /\ Later'
<1>0. TypeOK /\ Entered /\ Spans /\ TypeOK'
    BY TypeStep DEF TInv
<1>1. ASSUME NEW t \in Turns, Step(t)
      PROVE  AtItsTools' /\ AllWhole' /\ Later'
    <2>1. TurnStep(t)
        BY <1>0, <1>1, TurnInv
    <2>2. AtItsTools' /\ Later'
        BY <1>0, <2>1, AtItsToolsTurn, LaterTurn
    <2>3. AllWhole'
        <3>1. CASE Quiet(t)
            BY <2>1, <3>1, WholeQuiet
        <3>2. ASSUME NEW r \in Row, AddsRow(t, r)
              PROVE  AllWhole'
            BY <1>0, <2>1, <3>2, WholeAdds
        <3> QED
            BY <2>1, <3>1, <3>2 DEF TurnStep
    <2> QED
        BY <2>2, <2>3
<1>2. ASSUME NEW t \in Turns, NEW s \in Sessions,
             Say(t, s) \/ \E row \in Elements(rows[s]) : StartEdit(t, s, row)
      PROVE  AtItsTools' /\ AllWhole' /\ Later'
    <2>1. /\ pc[t] = "new" /\ pc'[t] \in {"saying", "editing"} /\ at'[t] = s /\ OthersKept(t)
          /\ UNCHANGED <<rows, step, asked, call, prune, branchedAt, cut>> /\ exists[s] # "deleted"
          /\ \A o \in Sessions \ {s} : exists'[o] = exists[o]
          /\ met \subseteq met'
        BY <1>0, <1>2, Begins
    <2>2. AtItsTools'
        <3> SUFFICES ASSUME NEW v \in Turns, v \notin met', pc'[v] \in AtTools, asked[v] > 0,
                            exists'[at'[v]] = "yes"
                     PROVE  LastCalls(v)'
            BY <2>1 DEF AtItsTools
        <3>1. v # t
            BY <2>1 DEF AtTools
        <3>2. pc'[v] = pc[v] /\ at'[v] = at[v]
            BY <2>1, <3>1 DEF OthersKept
        <3>3. at[v] \in Sessions /\ exists[at[v]] # "no"
            BY <1>0, <3>2 DEF Entered, AtTools
        <3>4. exists[at[v]] = "yes"
            BY <1>0, <2>1, <3>2, <3>3 DEF TypeOK
        <3>5. LastCalls(v)
            BY <2>1, <3>2, <3>4 DEF AtItsTools
        <3> QED
            BY <2>1, <3>2, <3>5 DEF LastCalls
    <2>3. AllWhole'
        <3> SUFFICES ASSUME NEW o \in Sessions, NEW i \in DOMAIN rows[o]
                     PROVE  Whole(o, i)'
            BY <2>1 DEF AllWhole
        <3>1. PICK x : x = rows[o][i]
            OBVIOUS
        <3>2. x \in Row /\ x.by \in Turns
            <4>1. x \in Row
                BY <1>0, <3>1, Domains
            <4> QED
                BY <4>1 DEF Row
        <3>3. Whole(o, i)
            BY DEF AllWhole
        <3>4. pc[x.by] \in AtTools => pc'[x.by] = pc[x.by] /\ at'[x.by] = at[x.by]
            BY <2>1, <3>2 DEF AtTools, OthersKept
        <3> QED
            BY <2>1, <3>1, <3>3, <3>4 DEF Whole, Excused, CutByBranch
    <2>4. Later'
        <3> SUFFICES ASSUME NEW v \in Turns, prune[v] # NothingPruned
                     PROVE  \A i \in prune[v].upto + 1 .. Len(rows[at'[v]]) : rows[at'[v]][i].by \in met'
            BY <2>1 DEF Later
        <3>1. v # t
            BY <1>0, <2>1 DEF Spans, BeforeLoop
        <3>2. at'[v] = at[v]
            BY <2>1, <3>1 DEF OthersKept
        <3> QED
            BY <2>1, <3>2 DEF Later
    <2> QED
        BY <2>2, <2>3, <2>4
<1>3. ASSUME NEW b \in Sessions, UNCHANGED <<pc, at, step, asked, call, prune, met>>,
             exists'[b] # "yes" \/ exists[b] = "no", sessionLock[b] = None \/ exists[b] = "no",
             \A o \in Sessions \ {b} : rows'[o] = rows[o] /\ exists'[o] = exists[o]
      PROVE  AtItsTools' /\ Later'
    <2>1. AtItsTools'
        <3> SUFFICES ASSUME NEW v \in Turns, v \notin met, pc[v] \in AtTools, asked[v] > 0,
                            exists'[at[v]] = "yes"
                     PROVE  LastCalls(v)'
            BY <1>3 DEF AtItsTools
        <3>1. at[v] \in Sessions \ {b}
            BY <1>0, <1>3 DEF Entered, AtTools
        <3>2. LastCalls(v)
            BY <1>3, <3>1 DEF AtItsTools
        <3> QED
            BY <1>3, <3>1, <3>2 DEF LastCalls
    <2>2. Later'
        <3> SUFFICES ASSUME NEW v \in Turns, prune[v] # NothingPruned
                     PROVE  \A i \in prune[v].upto + 1 .. Len(rows'[at[v]]) : rows'[at[v]][i].by \in met
            BY <1>3 DEF Later
        <3>1. at[v] \in Sessions \ {b}
            BY <1>0, <1>3 DEF Entered, Spans, BeforeLoop
        <3> QED
            BY <1>3, <3>1 DEF Later
    <2> QED
        BY <2>1, <2>2
<1>4. ASSUME NEW s \in Sessions, NEW b \in Sessions, NEW i \in DOMAIN rows[s], Branch(s, b, i)
      PROVE  AtItsTools' /\ AllWhole' /\ Later'
    <2>1. /\ UNCHANGED <<pc, at, step, asked, call, prune, met>> /\ exists[b] = "no"
          /\ exists' = [exists EXCEPT ![b] = "yes"] /\ rows' = [rows EXCEPT ![b] = SubSeq(rows[s], 1, i)]
        BY <1>4 DEF Branch, turn, history
    <2>2. \A o \in Sessions \ {b} : rows'[o] = rows[o] /\ exists'[o] = exists[o]
        BY <1>0, <2>1 DEF TypeOK
    <2> QED
        BY <1>3, <1>4, <2>1, <2>2, WholeBranch
<1>5. ASSUME NEW s \in Sessions, DeleteSession(s)
      PROVE  AtItsTools' /\ AllWhole' /\ Later'
    <2>1. /\ UNCHANGED <<pc, at, step, asked, call, prune, met, cut>> /\ sessionLock[s] = None
          /\ exists' = [exists EXCEPT ![s] = "deleted"] /\ rows' = [rows EXCEPT ![s] = <<>>]
          /\ branchedAt' = [branchedAt EXCEPT ![s] = {}]
        BY <1>5 DEF DeleteSession, turn, history
    <2>2. /\ exists'[s] # "yes" /\ rows'[s] = <<>>
          /\ \A o \in Sessions \ {s} : /\ rows'[o] = rows[o] /\ exists'[o] = exists[o]
                                       /\ branchedAt'[o] = branchedAt[o]
        BY <1>0, <2>1 DEF TypeOK
    <2>3. AllWhole'
        <3> SUFFICES ASSUME NEW o \in Sessions, NEW i \in DOMAIN rows'[o]
                     PROVE  Whole(o, i)'
            BY DEF AllWhole
        <3>1. o # s /\ i \in DOMAIN rows[o] /\ rows'[o] = rows[o] /\ branchedAt'[o] = branchedAt[o]
            BY <2>2
        <3>2. Whole(o, i)
            BY <3>1 DEF AllWhole
        <3> QED
            BY <2>1, <3>1, <3>2 DEF Whole, Excused, CutByBranch
    <2> QED
        BY <1>3, <2>1, <2>2, <2>3
<1>6. CASE UNCHANGED vars
    <2>1. AtItsTools'
        BY <1>6 DEF vars, committed, turn, history, AtItsTools, LastCalls
    <2>2. AllWhole' /\ Later'
        BY <1>6 DEF vars, committed, turn, env, history, AllWhole, Whole, Excused, CutByBranch, Later
    <2> QED
        BY <2>1, <2>2
<1> QED
    BY <1>1, <1>2, <1>4, <1>5, <1>6 DEF Next, Request

\* In no transcript do calls stand without their results, or a result without
\* its call, whatever was edited, branched or failed, but for a turn that is
\* among its tools or ended there, a branch cut there, and turns that met.
THEOREM TranscriptsAreWhole == Spec => []TranscriptIsWhole
<1> DEFINE AllInv == TInv /\ Apart /\ Headed /\ AtItsTools /\ AllWhole /\ Later
<1>1. Init => AllInv
    <2> SUFFICES ASSUME Init PROVE Apart /\ Headed /\ AtItsTools /\ AllWhole /\ Later
        BY TInvInit
    <2>1. \A t \in Turns : pc[t] = "new" /\ prune[t] = NothingPruned
        BY DEF Init
    <2>2. \A s \in Sessions : rows[s] = <<>>
        BY DEF Init
    <2>3. \A s \in Sessions : DOMAIN rows[s] = {}
        BY <2>2
    <2>4. Apart /\ Headed /\ AtItsTools /\ Later
        BY <2>1, <2>2 DEF Apart, Active, Headed, AtItsTools, AtTools, Later
    <2> QED
        BY <2>3, <2>4 DEF AllWhole
<1>2. AllInv /\ [Next]_vars => AllInv'
    BY TInvStep, ApartStep, HeadedStep, WholeStep
<1>3. AllInv => TranscriptIsWhole
    <2> SUFFICES ASSUME AllInv, NEW s \in Sessions, NEW i \in DOMAIN rows[s], rows[s][i].by \notin met
                 PROVE  /\ rows[s][i].role = "calls" =>
                              \/ /\ pc[rows[s][i].by] \in {"touching", "called", "resulted"}
                                 /\ step[rows[s][i].by] = rows[s][i].step
                              \/ rows[s][i].by \in cut \/ CutByBranch(s, rows[s][i])
                              \/ Answered(rows[s], i)
                        /\ rows[s][i].role = "tool" => Called(rows[s], i)
        BY DEF TranscriptIsWhole
    <2>1. Whole(s, i)
        BY DEF AllWhole
    <2> QED
        BY <2>1 DEF Whole, Excused, AtTools
<1> QED
    BY <1>1, <1>2, <1>3, PTL DEF Spec

====
