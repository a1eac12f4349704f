------------------------- MODULE DocumentLifecycle -------------------------
(***************************************************************************)
(* What a document row promises whoever reads it: "the honest record of    *)
(* the attempt" (app/services/ingestion.py).  A status moves only along    *)
(* these steps, and a document becomes ready with exactly the chunks of    *)
(* one attempt.                                                            *)
(***************************************************************************)
EXTENDS Naturals

CONSTANTS Docs, MaxChunks

VARIABLES state, chunks, reported

Init ==
    /\ state = [d \in Docs |-> "absent"]
    /\ chunks = [d \in Docs |-> 0]
    /\ reported = [d \in Docs |-> 0]

Move(d, from, to) == state[d] \in from /\ state' = [state EXCEPT ![d] = to]

Create(d) ==
    /\ \E to \in {"pending", "unsupported"} : Move(d, {"absent"}, to)
    /\ UNCHANGED <<chunks, reported>>

Claim(d) == Move(d, {"pending"}, "processing") /\ UNCHANGED <<chunks, reported>>

\* The attempt drops what an earlier one stored.
Clear(d) ==
    /\ state[d] = "processing"
    /\ chunks' = [chunks EXCEPT ![d] = 0]
    /\ UNCHANGED <<state, reported>>

Finish(d) ==
    /\ Move(d, {"processing"}, "ready")
    /\ \E n \in 0 .. MaxChunks :
         /\ chunks' = [chunks EXCEPT ![d] = n]
         /\ reported' = [reported EXCEPT ![d] = n]

Fail(d) ==
    /\ \E to \in {"failed", "unsupported"} : Move(d, {"processing"}, to)
    /\ UNCHANGED <<chunks, reported>>

\* A client asks again for any set of documents nobody is working on.
Requeue ==
    /\ \E S \in SUBSET {d \in Docs : state[d] # "processing"} :
         state' = [d \in Docs |-> IF d \in S THEN "pending" ELSE state[d]]
    /\ UNCHANGED <<chunks, reported>>

\* A new process finds what the last one was working on.
Recover ==
    /\ state' = [d \in Docs |-> IF state[d] = "processing" THEN "pending" ELSE state[d]]
    /\ UNCHANGED <<chunks, reported>>

Delete(d) ==
    /\ state' = [state EXCEPT ![d] = "absent"]
    /\ chunks' = [chunks EXCEPT ![d] = 0]
    /\ reported' = [reported EXCEPT ![d] = 0]

Next ==
    \/ \E d \in Docs : Create(d) \/ Claim(d) \/ Clear(d) \/ Finish(d) \/ Fail(d) \/ Delete(d)
    \/ Requeue \/ Recover

Spec == Init /\ [][Next]_<<state, chunks, reported>>
=============================================================================
