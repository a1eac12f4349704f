------------------------------ MODULE ChatTurn ------------------------------
(***************************************************************************)
(* Chat turns (app/chat): the rows a turn commits one by one to the         *)
(* transcript of its session, edits that prune it, branches that copy it,   *)
(* the images stored beside it, and the locks on the rows of the session    *)
(* and of its user.                                                         *)
(* A turn that streams runs on the event loop, which it leaves only where   *)
(* it yields an event; any other turn runs in a thread.  All sessions are   *)
(* of one user.  Every question carries an image.                           *)
(***************************************************************************)
EXTENDS Integers, FiniteSets, Sequences

CONSTANTS
    Turns, Sessions,
    Streaming,        \* the turns requested over the streaming route
    Preferences,      \* what turns change: the session's model, its settings, the user's
    HistoryLimit,     \* messages a request is built from
    MaxIterations,    \* MAX_TOOL_ITERATIONS
    MaxCalls,         \* bound: calls the model asks for at once, one less each time
    MaxBranches, MaxDeletions,  \* bounds: the requests of these kinds
    MayFail           \* whether settings, provider and tools may raise

ASSUME ChatAssumption ==
    /\ IsFiniteSet(Turns) /\ IsFiniteSet(Sessions) /\ Streaming \subseteq Turns
    /\ Preferences \subseteq SUBSET {"model", "user", "settings"}
    /\ HistoryLimit \in Nat \ {0} /\ MaxIterations \in Nat \ {0} /\ MaxCalls \in Nat \ {0}
    /\ MaxBranches \in Nat /\ MaxDeletions \in Nat /\ MayFail \in BOOLEAN

None == "none"
ASSUME NoneAssumption == None \notin Turns \union Sessions

\* A row: the turn that wrote it, in which iteration, and for "calls" how many
\* there are, for "tool" the call it answers.
Roles == {"user", "calls", "tool", "reply", "partial", "error"}
Row == [by : Turns, role : Roles, step : 0 .. MaxIterations, n : 0 .. MaxCalls]
VARIABLES
    \* Committed: each session's transcript, the row it was branched at, the
    \* questions whose row in it records an image; and the bytes stored.
    exists, rows, origin, images, bytes,
    sessionLock, userLock,   \* whose transaction has changed the row
    \* Turns: place, session, iteration, calls asked for and the next one to
    \* run, whether content has streamed, what it changes, what it edits and
    \* which rows of the transcript its open transaction has pruned: those
    \* after the first `keep`, up to the one at `upto`.
    pc, at, step, asked, call, content, change, target, prune,
    \* Requests beside them, and the rows at which a transcript, or one it
    \* descends from, was branched.
    branches, deletions, branchedAt,
    \* History: turns that shared a session, that ended among their tools, that
    \* were undone after pruning, and whose first request has the question.
    met, cut, undone, informed

committed == <<exists, rows, origin, images, bytes>>
locks == <<sessionLock, userLock>>
turn == <<pc, at, step, asked, call, content, change, target, prune>>
env == <<branches, deletions, branchedAt>>
history == <<met, cut, undone, informed>>
vars == <<committed, locks, turn, env, history>>

NothingPruned == [keep |-> 0, upto |-> 0]

Init ==
    /\ exists = [s \in Sessions |-> "no"] /\ rows = [s \in Sessions |-> <<>>]
    /\ origin = [s \in Sessions |-> <<>>]
    /\ images = [s \in Sessions |-> {}] /\ bytes = [s \in Sessions |-> {}]
    /\ sessionLock = [s \in Sessions |-> None] /\ userLock = None
    /\ pc = [t \in Turns |-> "new"] /\ at = [t \in Turns |-> None]
    /\ step = [t \in Turns |-> 1] /\ asked = [t \in Turns |-> 0]
    /\ call = [t \in Turns |-> 0] /\ content = [t \in Turns |-> FALSE]
    /\ change = [t \in Turns |-> {}] /\ target = [t \in Turns |-> <<>>]
    /\ prune = [t \in Turns |-> NothingPruned]
    /\ branches = 0 /\ deletions = 0 /\ branchedAt = [s \in Sessions |-> {}]
    /\ met = {} /\ cut = {} /\ undone = {} /\ informed = {}

Elements(seq) == {seq[i] : i \in DOMAIN seq}
Questioned(S) == {row.by : row \in {x \in S : x.role = "user"}}
Goto(t, label) == pc' = [pc EXCEPT ![t] = label]
Active == {t \in Turns : pc[t] \notin {"new", "done"}}

\* The event loop runs one generator until it yields an event: after a token,
\* before a tool runs and after it, and of its failure or end.
Yielded(t) == pc[t] \in {"called", "resulted", "closing"} \/ (pc[t] = "model" /\ content[t])
MayRun(t) == t \in Streaming => \A u \in Active \ {t} : u \in Streaming => Yielded(u)

SessionFree(t) == sessionLock[at[t]] \in {None, t}
UserFree(t) == userLock \in {None, t}
LockSession(t) == sessionLock' = [sessionLock EXCEPT ![at[t]] = t]
\* A commit, a rollback or the end of the session releases the locks.
Unlock(t) ==
    /\ sessionLock' = [s \in Sessions |-> IF sessionLock[s] = t THEN None ELSE sessionLock[s]]
    /\ userLock' = IF userLock = t THEN None ELSE userLock

\* What the turn's own transaction has pruned, and the transcript it sees.
\* Nobody else prunes a session while its row is locked, so places stay.
HasPruned(t) == prune[t].keep < prune[t].upto
PrunedRows(t) == {rows[at[t]][i] : i \in prune[t].keep + 1 .. prune[t].upto}
Without(seq, span) == SubSeq(seq, 1, span.keep) \o SubSeq(seq, span.upto + 1, Len(seq))
Visible(t) == Without(rows[at[t]], prune[t])

\* `record_message`: insert and commit, with what the transaction has pruned.
Record(t, role, s, n) ==
    /\ rows' = [rows EXCEPT ![at[t]] =
                   Append(Visible(t), [by |-> t, role |-> role, step |-> s, n |-> n])]
    /\ images' = [images EXCEPT ![at[t]] = @ \ Questioned(PrunedRows(t))]
    /\ prune' = [prune EXCEPT ![t] = NothingPruned]
    /\ Unlock(t)
\* The foreign key to the session's row holds.
Recordable(t) == exists[at[t]] = "yes"

\* The transaction ends with the turn: it has nothing to commit, or the
\* database or the session has rolled it back.
End(t) ==
    /\ Goto(t, "done") /\ Unlock(t)
    /\ prune' = [prune EXCEPT ![t] = NothingPruned]
    /\ undone' = IF HasPruned(t) THEN undone \union {t} ELSE undone

\* An exception leaves the turn, or its generator is closed; its session stays
\* open, and what it has changed locked.
Leave(t) == Goto(t, "closing") /\ UNCHANGED <<locks, prune, undone>>


\* The session is closed, which rolls it back: by `session_scope` or, where the
\* turn streams, by the route once its last events are sent.  Where the setup
\* raised or the client has left the route does not get there, and the session
\* is closed when the interpreter collects the generator that holds it.
Close(t) ==
    /\ pc[t] = "closing" /\ MayRun(t) /\ End(t)
    /\ UNCHANGED <<committed, at, step, asked, call, content, change, target, env, met, cut,
                   informed>>

-----------------------------------------------------------------------------
(* Setup: `ChatSetupBuilder.build`.                                        *)

\* A turn enters a session; turns already active in it have met it.
Enter(t, s) ==
    LET others == {u \in Active : at[u] = s} IN
    /\ at' = [at EXCEPT ![t] = s]
    /\ met' = IF others = {} THEN met ELSE met \union others \union {t}
    /\ change' \in {[change EXCEPT ![t] = c] : c \in Preferences}

\* `ensure_session`: a session that does not exist is created and committed.
Say(t, s) ==
    /\ pc[t] = "new" /\ MayRun(t) /\ exists[s] # "deleted"
    /\ exists' = [exists EXCEPT ![s] = "yes"]
    /\ Enter(t, s) /\ Goto(t, "saying")
    /\ UNCHANGED <<rows, origin, images, bytes, locks, step, asked, call, content, target,
                   prune, env, cut, undone, informed>>

\* `_apply_payload_to_session`: the image is stored, then the row is committed;
\* the image stays when the session is gone.
Ask(t) ==
    /\ pc[t] = "saying" /\ MayRun(t)
    /\ bytes' = [bytes EXCEPT ![at[t]] = @ \union {t}]
    /\ IF Recordable(t)
       THEN /\ rows' = [rows EXCEPT ![at[t]] =
                           Append(@, [by |-> t, role |-> "user", step |-> 0, n |-> 0])]
            /\ images' = [images EXCEPT ![at[t]] = @ \union {t}]
            /\ Goto(t, "setup")
       ELSE Goto(t, "done") /\ UNCHANGED <<rows, images>>
    /\ target' = [target EXCEPT ![t] = [by |-> t, role |-> "user", step |-> 0, n |-> 0]]
    /\ UNCHANGED <<exists, origin, locks, at, step, asked, call, content, change, prune, env,
                   history>>

\* An edit or a regeneration starts from a message of the transcript.
StartEdit(t, s, row) ==
    /\ pc[t] = "new" /\ MayRun(t) /\ exists[s] = "yes" /\ row \in Elements(rows[s])
    /\ Enter(t, s) /\ Goto(t, "editing")
    /\ target' = [target EXCEPT ![t] = row]
    /\ UNCHANGED <<committed, locks, step, asked, call, content, prune, env, cut, undone,
                   informed>>

\* As if messages were pruned from the one that is regenerated on.
KeptBefore(seq, i) == IF seq[i].role = "user" THEN i ELSE i - 1

\* What `apply_edit` keeps of a transcript: up to the edited question; for any
\* other message up to the question it answers, or up to the message.
Questions(seq, i) == {j \in 1 .. i : seq[j].role = "user"}
KeptUpTo(seq, i) ==
    IF Questions(seq, i) = {} THEN i - 1
    ELSE CHOOSE j \in Questions(seq, i) : \A k \in Questions(seq, i) : k <= j

\* As if `include_anchor` were true for a question.
SpanWithQuestion(seq, i) == [keep |-> KeptUpTo(seq, i) - 1, upto |-> Len(seq)]
Span(seq, i) == [keep |-> KeptUpTo(seq, i), upto |-> Len(seq)]
Pruned(seq, i) == {seq[j] : j \in Span(seq, i).keep + 1 .. Len(seq)}

\* Messages that a branch refers to cannot be deleted.
Referenced(s, row) ==
    \E b \in Sessions : /\ origin[b] # <<>> /\ origin[b].session = s
                        /\ row \in Elements(rows[b]) \union {origin[b].row}

\* `apply_edit`: in the open transaction, except for the images, which go at
\* once.  It waits for the session's row, which it touches.
Place(t) == CHOOSE i \in DOMAIN rows[at[t]] : rows[at[t]][i] = target[t]
Gone(t) == Pruned(rows[at[t]], Place(t))
\* As if `list_attachments_after` included the edited question.
EditedImages(t) == Questioned(Gone(t) \union {target[t]})
GoneImages(t) == Questioned(Gone(t))
Editable(t) == /\ target[t] \in Elements(rows[at[t]])
               /\ \A row \in Gone(t) : ~Referenced(at[t], row)
\* As if the edit committed what it has done.
EditCommits(t) ==
    LET k == KeptUpTo(rows[at[t]], Place(t)) IN
    /\ pc[t] = "editing" /\ MayRun(t) /\ SessionFree(t) /\ Editable(t)
    /\ rows' = [rows EXCEPT ![at[t]] = SubSeq(@, 1, k)]
    /\ images' = [images EXCEPT ![at[t]] = @ \ Questioned(Gone(t))]
    /\ bytes' = [bytes EXCEPT ![at[t]] = @ \ GoneImages(t)]
    /\ target' = [target EXCEPT ![t] = IF k = 0 THEN <<>> ELSE rows[at[t]][k]]
    /\ Goto(t, "setup")
    /\ UNCHANGED <<exists, origin, locks, at, step, asked, call, content, change, prune, env,
                   history>>
Edit(t) ==
    LET k == KeptUpTo(rows[at[t]], Place(t)) IN
    /\ pc[t] = "editing" /\ MayRun(t) /\ SessionFree(t) /\ Editable(t)
    /\ prune' = [prune EXCEPT ![t] = Span(rows[at[t]], Place(t))]
    /\ bytes' = [bytes EXCEPT ![at[t]] = @ \ GoneImages(t)]
    /\ target' = [target EXCEPT ![t] = IF k = 0 THEN <<>> ELSE rows[at[t]][k]]
    /\ LockSession(t) /\ UNCHANGED userLock /\ Goto(t, "setup")
    /\ UNCHANGED <<exists, rows, origin, images, at, step, asked, call, content, change, env,
                   history>>

\* The message has gone since, or the database refuses to delete one.
EditRefused(t) ==
    /\ pc[t] = "editing" /\ MayRun(t) /\ SessionFree(t) /\ ~Editable(t) /\ Goto(t, "done")
    /\ UNCHANGED <<committed, locks, at, step, asked, call, content, change, target, prune, env,
                   history>>

\* `_maybe_update_session_model` flushes a new model before the history is read.
SetModel(t) ==
    /\ pc[t] = "setup" /\ MayRun(t)
    /\ IF "model" \in change[t]
       THEN SessionFree(t) /\ LockSession(t) /\ UNCHANGED userLock
       ELSE UNCHANGED locks
    /\ Goto(t, "reading")
    /\ UNCHANGED <<committed, at, step, asked, call, content, change, target, prune, env,
                   history>>

\* `_build_message_history`: the oldest messages, without errors.
HistoryOf(seq) ==
    LET oldest == SubSeq(seq, 1, IF Len(seq) <= HistoryLimit THEN Len(seq) ELSE HistoryLimit)
    IN {row \in Elements(oldest) : row.role # "error"}
ReadHistory(t) ==
    /\ pc[t] = "reading" /\ MayRun(t) /\ Goto(t, "preferring")
    /\ informed' = IF target[t] \in HistoryOf(Visible(t)) THEN informed \union {t} ELSE informed
    /\ UNCHANGED <<committed, locks, at, step, asked, call, content, change, target, prune, env,
                   met, cut, undone>>

\* `persist_session_preferences`: one flush, the user's row before the session's.
PreferUser(t) ==
    /\ pc[t] = "preferring" /\ MayRun(t) /\ Goto(t, "settling")
    /\ IF "user" \in change[t]
       THEN UserFree(t) /\ userLock' = t /\ UNCHANGED sessionLock
       ELSE UNCHANGED locks
    /\ UNCHANGED <<committed, at, step, asked, call, content, change, target, prune, env,
                   history>>
PreferSession(t) ==
    /\ pc[t] = "settling" /\ MayRun(t) /\ Goto(t, "model")
    /\ IF "settings" \in change[t]
       THEN SessionFree(t) /\ LockSession(t) /\ UNCHANGED userLock
       ELSE UNCHANGED locks
    /\ UNCHANGED <<committed, at, step, asked, call, content, change, target, prune, env,
                   history>>

\* Two transactions that wait for each other: the database aborts one of them.
DeadlockVictim(t) ==
    /\ \E u \in Active \ {t} :
          /\ at[u] = at[t] /\ sessionLock[at[t]] = t /\ userLock = u
          /\ pc[t] = "preferring" /\ "user" \in change[t]
          /\ pc[u] = "settling" /\ "settings" \in change[u]
    /\ End(t)
    /\ UNCHANGED <<committed, at, step, asked, call, content, change, target, env, met, cut,
                   informed>>

\* `prepare_model_settings` and everything else that raises before the loop.
SetupFails(t) ==
    /\ MayFail /\ pc[t] = "preferring" /\ MayRun(t) /\ Leave(t)
    /\ UNCHANGED <<committed, at, step, asked, call, content, change, target, env, met, cut,
                   informed>>

-----------------------------------------------------------------------------
(* The loop: `_iterate`.                                                   *)

\* `_stream_iteration` forwards a token.
Token(t) ==
    /\ t \in Streaming /\ pc[t] = "model" /\ MayRun(t) /\ ~content[t]
    /\ content' = [content EXCEPT ![t] = TRUE]
    /\ UNCHANGED <<committed, locks, pc, at, step, asked, call, change, target, prune, env,
                   history>>

\* `_record_partial`: what has streamed is kept when the provider fails or the
\* client leaves; where nothing has, or the turn does not stream, nothing is.
Interrupted(t) ==
    IF content[t] /\ Recordable(t)
    THEN /\ Record(t, "partial", step[t], 0) /\ Goto(t, "touching")
         /\ asked' = [asked EXCEPT ![t] = 0] /\ UNCHANGED <<undone, call>>
    ELSE (IF content[t] THEN End(t) ELSE Leave(t)) /\ UNCHANGED <<rows, images, asked, call>>
ProviderFails(t) ==
    /\ MayFail /\ pc[t] = "model" /\ MayRun(t) /\ Interrupted(t)
    /\ UNCHANGED <<exists, origin, bytes, at, step, content, change, target, env, met, cut,
                   informed>>
Disconnect(t) ==
    /\ t \in Streaming /\ pc[t] = "model" /\ content[t] /\ MayRun(t) /\ Interrupted(t)
    /\ UNCHANGED <<exists, origin, bytes, at, step, content, change, target, env, met, cut,
                   informed>>

\* A row of the loop; where the session is gone its insert raises.
Commit(t, role, n, label) ==
    /\ pc[t] = "model" /\ MayRun(t)
    /\ IF Recordable(t)
       THEN /\ Record(t, role, step[t], n) /\ Goto(t, label)
            /\ asked' = [asked EXCEPT ![t] = n] /\ call' = [call EXCEPT ![t] = 1]
            /\ UNCHANGED undone
       ELSE End(t) /\ UNCHANGED <<rows, images, asked, call>>
    /\ content' = [content EXCEPT ![t] = FALSE]
    /\ UNCHANGED <<exists, origin, bytes, at, step, change, target, env, met, cut, informed>>

\* `append_tool_call_assistant_message`, the error of an unavailable tool, and
\* `finalize_response`; each goes on to change the session's row.
Calls(t, n) == Commit(t, "calls", n, "touching")
Unavailable(t) == Commit(t, "error", 0, "touching")
Reply(t) == Commit(t, "reply", 0, "finishing")

\* `touch_session`: the flush keeps the row until the next commit, which after
\* the calls is that of the first result; after an error or a partial answer
\* the exception goes on.  Where the session is gone the flush raises.
Touch(t) ==
    /\ pc[t] = "touching" /\ MayRun(t)
    /\ IF exists[at[t]] = "yes"
       THEN /\ SessionFree(t) /\ LockSession(t)
            /\ Goto(t, IF asked[t] > 0 THEN "called" ELSE "closing")
            /\ UNCHANGED <<userLock, prune, undone, cut>>
       ELSE End(t) /\ cut' = IF asked[t] > 0 THEN cut \union {t} ELSE cut
    /\ UNCHANGED <<committed, at, step, asked, call, content, change, target, env, met,
                   informed>>

\* `finalize_response` commits its change of the row.
Finish(t) ==
    /\ pc[t] = "finishing" /\ MayRun(t)
    /\ exists[at[t]] = "yes" => SessionFree(t)
    /\ End(t)
    /\ UNCHANGED <<committed, at, step, asked, call, content, change, target, env, met, cut,
                   informed>>

\* `ToolExecutor.execute`: the event before the call, the call, the event after.
RunTool(t) ==
    /\ pc[t] = "called" /\ MayRun(t) /\ Goto(t, "resulted")
    /\ UNCHANGED <<committed, locks, at, step, asked, call, content, change, target, prune, env,
                   history>>

\* The tool raises, or the client leaves at one of the events.
LeaveTools(t) ==
    /\ \/ MayFail /\ pc[t] = "called"
       \/ t \in Streaming /\ pc[t] \in {"called", "resulted"}
    /\ MayRun(t) /\ Leave(t) /\ cut' = cut \union {t}
    /\ UNCHANGED <<committed, at, step, asked, call, content, change, target, env, met,
                   informed>>

\* Its result is committed; then the next call, the next request to the
\* provider, or the end where the iterations are used up.
LastCall(t) == call[t] = asked[t]
Again(t) == LastCall(t) /\ step[t] < MaxIterations
RecordResult(t) ==
    /\ pc[t] = "resulted" /\ MayRun(t) /\ Recordable(t)
    /\ Record(t, "tool", step[t], call[t])
    /\ Goto(t, IF ~LastCall(t) THEN "called" ELSE IF Again(t) THEN "model" ELSE "done")
    /\ call' = [call EXCEPT ![t] = @ + 1]
    /\ step' = IF Again(t) THEN [step EXCEPT ![t] = @ + 1] ELSE step
    /\ UNCHANGED <<exists, origin, bytes, at, asked, content, change, target, env, history>>
ResultRefused(t) ==
    /\ pc[t] = "resulted" /\ MayRun(t) /\ ~Recordable(t)
    /\ End(t) /\ cut' = cut \union {t}
    /\ UNCHANGED <<committed, at, step, asked, call, content, change, target, env, met,
                   informed>>

-----------------------------------------------------------------------------
(* Requests beside the turns; each is one transaction in a thread.         *)

\* `branch_session`: the transcript up to a message, with copies of the images
\* that can be read.  It waits for a transaction that is pruning those messages.
Branch(s, b, i) ==
    LET copied == SubSeq(rows[s], 1, i)
        imaged == {row.by : row \in Elements(copied)} \intersect images[s] \intersect bytes[s] IN
    /\ branches < MaxBranches /\ branches' = branches + 1
    /\ exists[s] = "yes" /\ exists[b] = "no"
    /\ \A t \in Turns : at[t] = s /\ HasPruned(t) => i <= prune[t].keep
    /\ exists' = [exists EXCEPT ![b] = "yes"] /\ rows' = [rows EXCEPT ![b] = copied]
    /\ origin' = [origin EXCEPT ![b] = [session |-> s, row |-> rows[s][i]]]
    /\ images' = [images EXCEPT ![b] = imaged] /\ bytes' = [bytes EXCEPT ![b] = imaged]
    /\ branchedAt' = [branchedAt EXCEPT ![b] = branchedAt[s] \union {rows[s][i]}]
    /\ UNCHANGED <<locks, turn, deletions, history>>

\* The rows go, then the session's images; a branch of it makes the database
\* refuse the first.
DeleteSession(s) ==
    /\ deletions < MaxDeletions /\ deletions' = deletions + 1
    /\ exists[s] = "yes" /\ sessionLock[s] = None
    /\ \A b \in Sessions : origin[b] # <<>> => origin[b].session # s
    /\ exists' = [exists EXCEPT ![s] = "deleted"]
    /\ rows' = [rows EXCEPT ![s] = <<>>] /\ origin' = [origin EXCEPT ![s] = <<>>]
    /\ images' = [images EXCEPT ![s] = {}] /\ bytes' = [bytes EXCEPT ![s] = {}]
    /\ branchedAt' = [branchedAt EXCEPT ![s] = {}]
    /\ UNCHANGED <<locks, turn, branches, history>>

Step(t) ==
    \/ Ask(t) \/ Edit(t) \/ EditRefused(t) \/ SetModel(t) \/ ReadHistory(t) \/ PreferUser(t)
    \/ PreferSession(t)
    \/ DeadlockVictim(t) \/ SetupFails(t) \/ Token(t) \/ ProviderFails(t) \/ Disconnect(t)
    \/ (\E n \in 1 .. MaxCalls + 1 - step[t] : Calls(t, n)) \/ Unavailable(t) \/ Reply(t) \/ Touch(t)
    \/ Finish(t) \/ RunTool(t) \/ LeaveTools(t) \/ RecordResult(t) \/ ResultRefused(t)
    \/ Close(t)
Request ==
    \/ \E t \in Turns, s \in Sessions :
          Say(t, s) \/ (\E row \in Elements(rows[s]) : StartEdit(t, s, row))
    \/ \E s, b \in Sessions : \E i \in DOMAIN rows[s] : Branch(s, b, i)
    \/ \E s \in Sessions : DeleteSession(s)
Next == Request \/ \E t \in Turns : Step(t)

Spec == Init /\ [][Next]_vars
\* Threads and the event loop get to run, a blocked statement whose lock is
\* released goes on, and the interpreter collects what nothing refers to.
FairSpec == Spec /\ \A t \in Turns : WF_vars(Step(t))

-----------------------------------------------------------------------------
(* Properties.                                                             *)

Places == {"new", "saying", "editing", "setup", "reading", "preferring", "settling", "model",
           "touching", "finishing", "called", "resulted", "closing", "done"}
TypeOK ==
    /\ exists \in [Sessions -> {"no", "yes", "deleted"}]
    /\ rows \in [Sessions -> Seq(Row)]
    /\ origin \in [Sessions -> {<<>>} \union [session : Sessions, row : Row]]
    /\ images \in [Sessions -> SUBSET Turns] /\ bytes \in [Sessions -> SUBSET Turns]
    /\ sessionLock \in [Sessions -> Turns \union {None}] /\ userLock \in Turns \union {None}
    /\ pc \in [Turns -> Places] /\ at \in [Turns -> Sessions \union {None}]
    /\ step \in [Turns -> 1 .. MaxIterations] /\ asked \in [Turns -> 0 .. MaxCalls]
    /\ call \in [Turns -> 0 .. MaxCalls + 1] /\ content \in [Turns -> BOOLEAN]
    /\ change \in [Turns -> SUBSET {"model", "user", "settings"}]
    /\ target \in [Turns -> {<<>>} \union Row] /\ prune \in [Turns -> [keep : Nat, upto : Nat]]
    /\ branches \in 0 .. MaxBranches /\ deletions \in 0 .. MaxDeletions
    /\ branchedAt \in [Sessions -> SUBSET Row]
    /\ met \in SUBSET Turns /\ cut \in SUBSET Turns
    /\ undone \in SUBSET Turns /\ informed \in SUBSET Turns

\* Calls directly followed by one result for each, in order.
Answered(seq, i) ==
    \A k \in 1 .. seq[i].n :
        /\ i + k <= Len(seq) /\ seq[i + k].role = "tool" /\ seq[i + k].n = k
        /\ seq[i + k].by = seq[i].by /\ seq[i + k].step = seq[i].step
Called(seq, i) ==
    \E k \in 1 .. i - 1 : /\ seq[k].role = "calls" /\ seq[k].by = seq[i].by
                          /\ seq[k].step = seq[i].step /\ i - k = seq[i].n
\* A branch may be cut at a message among the calls and results of a turn.
CutByBranch(s, row) ==
    \E last \in branchedAt[s] : last.by = row.by /\ last.step = row.step

\* A provider rejects a conversation in which a message with tool calls is not
\* directly followed by the result of each.  In no transcript does one stand
\* alone, and no result stands without its call, whatever was edited, branched
\* or failed: except at the end of a turn that is still among its tools or was
\* interrupted there, where a branch was cut, or where two turns mixed.
TranscriptIsWhole ==
    \A s \in Sessions : \A i \in DOMAIN rows[s] :
        LET row == rows[s][i]
            running == pc[row.by] \in {"touching", "called", "resulted"} /\ step[row.by] = row.step
        IN  row.by \notin met =>
                /\ row.role = "calls" => \/ running \/ row.by \in cut \/ CutByBranch(s, row)
                                         \/ Answered(rows[s], i)
                /\ row.role = "tool" => Called(rows[s], i)

\* The first request of a turn has the question it is to answer, or the one
\* whose answer it regenerates, unless the transcript is longer than what is
\* read of it or another turn changed it meanwhile.
AsksTheQuestion ==
    \A t \in Turns :
        (/\ pc[t] \in {"preferring", "settling"} /\ target[t] # <<>> /\ t \notin met
         /\ Len(Visible(t)) <= HistoryLimit /\ exists[at[t]] = "yes")
            => t \in informed

\* An image that a message records is stored, unless an edit that is under way
\* has pruned the message, or some edit of the session was undone.
ImagesAreStored ==
    \A s \in Sessions : \A t \in images[s] \ bytes[s] :
        \E u \in Turns : at[u] = s /\ (u \in undone \/ t \in Questioned(PrunedRows(u)))

\* Messages leave a transcript only in the step that commits a message of the
\* turn that replaces them, or with their session: a turn that fails before it
\* has anything to show leaves the transcript as it was.
PruneIsReplaced ==
    [][\A s \in Sessions :
          Elements(rows[s]) \ Elements(rows'[s]) # {} =>
             \/ exists'[s] = "deleted"
             \/ \E row \in Elements(rows'[s]) \ Elements(rows[s]) :
                   PrunedRows(row.by) = Elements(rows[s]) \ Elements(rows'[s])]_vars

\* Every turn ends, whatever the provider, its tools, its client and other turns do,
\* and whatever rows a turn that has failed keeps locked until it is closed.
TurnsEnd == <>[](Active = {})
=============================================================================
