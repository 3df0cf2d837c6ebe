---------------------------- MODULE EmbeddingQueue ----------------------------
(***************************************************************************)
(* The queue of Object embeddings (embeddings.rs, db/embeddings.rs and the *)
(* trigger invalidate_object_embeddings).                                  *)
(*                                                                         *)
(* Every worker puts missing and outdated rows in order, claims one row,   *)
(* asks the provider for a vector and stores it.  The queue and the claim  *)
(* are single statements, yet not atomic: READ COMMITTED reads a snapshot, *)
(* and then locks and re-checks the newest version of each row it writes.  *)
(* A read and a write step stand for these two moments.  The hash of a     *)
(* text is the text itself: sha256 is taken to be injective.               *)
(***************************************************************************)
EXTENDS Integers, FiniteSets

CONSTANTS
    Objects,
    Texts,       \* what may be written as kind, title, description, correction
    Workers,     \* one per replica
    Crashable,   \* workers that may die in any step, and start again
    Nothing,     \* no text, no Object
    Limit,       \* 5: attempts after which no worker claims a row
    MaxEdits     \* bounds the edits of the Objects

ASSUME NothingAssumption == Nothing \notin Texts \cup Objects
ASSUME CrashableAssumption == Crashable \subseteq Workers
ASSUME BoundsAssumption == Limit \in Nat \ {0} /\ MaxEdits \in Nat

VARIABLES
    text,     \* the text of each Object
    row,      \* its embeddings row
    edits,    \* edits so far
    worker    \* what each worker is doing

vars == <<text, row, edits, worker>>

Row == [status : {"absent", "pending", "running", "failed", "completed"},
        attempts : 0..Limit, hash : Texts \cup {Nothing},
        vector : Texts \cup {Nothing}, lapsed : BOOLEAN]

\* The row an upsert or the trigger leaves: everything about an older text is gone.
Pending(t) ==
    [status |-> "pending", attempts |-> 0, hash |-> t, vector |-> Nothing, lapsed |-> FALSE]
Absent == [Pending(Nothing) EXCEPT !.status = "absent"]

At(w, pc) == worker[w].pc = pc
Idle == [pc |-> "idle"]

Init ==
    /\ text \in [Objects -> Texts]
    /\ row = [o \in Objects |-> Absent]
    /\ edits = 0
    /\ worker = [w \in Workers |-> Idle]

-----------------------------------------------------------------------------
(* queue_missing_embeddings                                                *)

\* SELECT: Objects without a row for the hash of their text.
QueueRead(w) ==
    /\ At(w, "idle")
    /\ worker' = [worker EXCEPT ![w] =
         [pc |-> "queueing",
          want |-> [o \in Objects |-> IF row[o].hash = text[o] THEN Nothing ELSE text[o]]]]
    /\ UNCHANGED <<text, row, edits>>

\* INSERT ... ON CONFLICT DO UPDATE ... WHERE the hash differs: the text wanted is
\* the snapshot's, the row it meets the newest.
Upserted(o, wanted) ==
    IF wanted # Nothing /\ row[o].hash # wanted THEN Pending(wanted) ELSE row[o]

QueueWrite(w) ==
    /\ At(w, "queueing")
    /\ row' = [o \in Objects |-> Upserted(o, worker[w].want[o])]
    /\ worker' = [worker EXCEPT ![w] = [pc |-> "queued"]]
    /\ UNCHANGED <<text, edits>>

-----------------------------------------------------------------------------
(* claim_embedding_job                                                     *)

\* Fault: a claim that ignores the attempts already made.
ClaimableForever(r) == r.status \in {"pending", "failed"}

\* The backoff of a failed row is abstracted: time passes.
Claimable(r) == r.status \in {"pending", "failed"} /\ r.attempts < Limit

\* Fault: a lease is never taken back.
ExpiredNever(r) == FALSE

Expired(r) == r.status = "running" /\ r.lapsed

\* The statement's snapshot.
ClaimRead(w) ==
    /\ At(w, "queued")
    /\ worker' = [worker EXCEPT ![w] = [pc |-> "claiming", rows |-> row, texts |-> text]]
    /\ UNCHANGED <<text, row, edits>>

Recovered(r) == [r EXCEPT !.status = "failed", !.lapsed = FALSE]
Claimed(r) == [r EXCEPT !.status = "running", !.attempts = @ + 1, !.lapsed = FALSE]

\* Both UPDATEs re-check the newest row.  The job returned takes its hash from the
\* row just written and its text from the snapshot the Objects are joined in.
ClaimWrite(w) ==
    LET seen == worker[w].rows
        expired == {o \in Objects : Expired(seen[o]) /\ Expired(row[o])}
        open == {o \in Objects : Claimable(seen[o]) /\ Claimable(row[o])}
    IN  /\ At(w, "claiming")
        /\ \/ \E o \in open :
                /\ row' = [p \in Objects |-> IF p = o THEN Claimed(row[p])
                                             ELSE IF p \in expired THEN Recovered(row[p])
                                             ELSE row[p]]
                /\ worker' = [worker EXCEPT ![w] =
                     [pc |-> "embedding", object |-> o, hash |-> row[o].hash,
                      text |-> worker[w].texts[o]]]
           \/ /\ open = {}
              /\ row' = [p \in Objects |-> IF p \in expired THEN Recovered(row[p]) ELSE row[p]]
              /\ worker' = [worker EXCEPT ![w] = Idle]
        /\ UNCHANGED <<text, edits>>

\* started_at is more than five minutes ago.
Lapse(o) ==
    /\ row[o].status = "running"
    /\ ~row[o].lapsed
    /\ row' = [row EXCEPT ![o].lapsed = TRUE]
    /\ UNCHANGED <<text, edits, worker>>

-----------------------------------------------------------------------------
(* The provider, and what becomes of its answer                            *)

Embed(w) ==
    /\ At(w, "embedding")
    /\ \E pc \in {"storing", "failing"} : worker' = [worker EXCEPT ![w].pc = pc]
    /\ UNCHANGED <<text, row, edits>>

\* complete_embedding_job: the row must be running and still have the job's hash,
\* whoever runs it.  Any other row is a conflict, recorded as a failure.
Store(w) ==
    LET job == worker[w]
        matches == row[job.object].status = "running" /\ row[job.object].hash = job.hash
    IN  /\ At(w, "storing")
        /\ IF matches
           THEN /\ row' = [row EXCEPT ![job.object] =
                             [@ EXCEPT !.status = "completed", !.vector = job.text,
                                       !.lapsed = FALSE]]
                /\ worker' = [worker EXCEPT ![w] = Idle]
           ELSE /\ worker' = [worker EXCEPT ![w].pc = "failing"]
                /\ UNCHANGED row
        /\ UNCHANGED <<text, edits>>

\* Fault: a failure is recorded whatever the row's status.
FailedAnyway(r) == [r EXCEPT !.status = "failed", !.lapsed = FALSE]

\* fail_embedding_job: only a running row fails, whoever runs it.
Failed(r) ==
    IF r.status = "running" THEN [r EXCEPT !.status = "failed", !.lapsed = FALSE] ELSE r

Fail(w) ==
    LET o == worker[w].object
    IN  /\ At(w, "failing")
        /\ row' = [row EXCEPT ![o] = Failed(@)]
        /\ worker' = [worker EXCEPT ![w] = Idle]
        /\ UNCHANGED <<text, edits>>

Crash(w) ==
    /\ ~At(w, "idle")
    /\ worker' = [worker EXCEPT ![w] = Idle]
    /\ UNCHANGED <<text, row, edits>>

-----------------------------------------------------------------------------
\* The trigger's UPDATE of the Object's rows.
Invalidated(r, t) == IF r.status # "absent" /\ r.hash # t THEN Pending(t) ELSE r

\* Any transaction that changes the text of an Object, trigger included.
Edit(o, t) ==
    /\ edits < MaxEdits
    /\ t # text[o]
    /\ text' = [text EXCEPT ![o] = t]
    /\ row' = [row EXCEPT ![o] = Invalidated(@, t)]
    /\ edits' = edits + 1
    /\ UNCHANGED worker

WorkerStep(w) ==
    \/ QueueRead(w) \/ QueueWrite(w) \/ ClaimRead(w) \/ ClaimWrite(w)
    \/ Embed(w) \/ Store(w) \/ Fail(w)

Next ==
    \/ \E w \in Workers : WorkerStep(w)
    \/ \E w \in Crashable : Crash(w)
    \/ \E o \in Objects : Lapse(o)
    \/ \E o \in Objects, t \in Texts : Edit(o, t)

Spec == Init /\ [][Next]_vars

\* A worker polls for as long as its process lives, its provider calls time out,
\* and time passes.
FairSpec ==
    /\ Spec
    /\ \A w \in Workers \ Crashable : WF_vars(WorkerStep(w))
    /\ \A o \in Objects : WF_vars(Lapse(o))
-----------------------------------------------------------------------------
(* Properties                                                              *)

\* Rows take the values their columns allow, and have a vector exactly when completed.
TypeOK ==
    /\ text \in [Objects -> Texts]
    /\ row \in [Objects -> Row]
    /\ edits \in 0..MaxEdits
    /\ \A o \in Objects : row[o].vector # Nothing <=> row[o].status = "completed"

\* A stored vector is taken away by a new text only: no late failure, expired
\* lease or second worker on the same row discards it.
VectorsKept ==
    [][\A o \in Objects :
         row[o].status = "completed" /\ row'[o].status # "completed"
         => row'[o] = Pending(row'[o].hash) /\ row'[o].hash # row[o].hash]_vars

\* Once edits stop, every Object ends up indexed under the hash of its text, or
\* has failed as often as the queue allows, although a queue statement may have
\* put back an older text, and a worker may have died with the row in hand.
EventuallyIndexed ==
    <>[](\A o \in Objects :
           row[o].hash = text[o] /\ (row[o].status = "completed" \/ row[o].attempts = Limit))

\* What retrieval serves (status completed and the hash of the current text) is the
\* embedding of that text: "corrected content invalidates old vector"
\* (docs/rd/132-agent-corrections.md).
ServedVectorIsCurrent ==
    \A o \in Objects :
        row[o].status = "completed" /\ row[o].hash = text[o] => row[o].vector = text[o]
=============================================================================
