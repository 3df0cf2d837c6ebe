----------------------------- MODULE ChatSummary -----------------------------
(***************************************************************************)
(* The title and description of a Chat, rewritten by the Curator's workers *)
(* and by its owner (summarize_chat in curator.rs).                        *)
(*                                                                         *)
(* A worker reads the Chat's metadata, asks the model outside any          *)
(* transaction to fold the window of its Run into it, and writes the       *)
(* answer if the revision has not moved.  The checkpoint kept with the     *)
(* metadata names the last message of the last window summarised.          *)
(* Which Run a worker holds, and when it is retried, is CuratorRuns' part. *)
(* SummaryInit, SummaryNext and the like carry the module's name because   *)
(* ChatWindows_proofs reads it beside ChatWindows.                         *)
(***************************************************************************)
EXTENDS Integers, FiniteSets, Sequences

CONSTANTS
    NRuns,       \* Curator Runs of one Chat, each with a window of its own
    Workers,
    Limit,       \* attempts per Run
    MaxRevision, \* bounds the owner's edits
    NoRun        \* no checkpoint, or no Run in hand

Runs == 1..NRuns   \* in the order of available_at

ASSUME NoRunAssumption == NoRun \notin Runs
ASSUME BoundsAssumption == Limit \in Nat /\ MaxRevision \in Nat

VARIABLES
    chat,        \* the Chat's objects row
    attempts,    \* of each Run
    status,      \* of each Run; one that failed is open again
    worker       \* what each worker has in hand

summary_vars == <<chat, attempts, status, worker>>

\* `folded` stands for title and description: the windows they summarise, in the
\* order they were folded in, after the last edit of the owner.
Metadata == [revision : Nat, by : {"system", "human"}, protected : BOOLEAN,
             through : Runs \cup {NoRun}, folded : Seq(Runs)]

Hand(pc, r, seen) == [pc |-> pc, run |-> r, seen |-> seen]

SummaryInit ==
    /\ chat = [revision |-> 1, by |-> "system", protected |-> FALSE,
               through |-> NoRun, folded |-> <<>>]
    /\ attempts = [r \in Runs |-> 0]
    /\ status = [r \in Runs |-> "open"]
    /\ worker = [w \in Workers |-> Hand("idle", NoRun, chat)]

Open(r) == status[r] = "open" /\ attempts[r] < Limit

\* Fault: a claim that ignores the attempts already made.
ClaimForever(w, r) ==
    /\ worker[w].pc = "idle"
    /\ status[r] # "completed"
    /\ \A q \in 1..(r - 1) : ~Open(q)
    /\ attempts' = [attempts EXCEPT ![r] = @ + 1]
    /\ status' = [status EXCEPT ![r] = "running"]
    /\ worker' = [worker EXCEPT ![w] = Hand("reading", r, chat)]
    /\ UNCHANGED chat

\* The oldest open Run, or one that has been running for too long.
Claim(w, r) ==
    /\ worker[w].pc = "idle"
    /\ attempts[r] < Limit
    /\ status[r] # "completed"
    /\ \A q \in 1..(r - 1) : ~Open(q)
    /\ attempts' = [attempts EXCEPT ![r] = @ + 1]
    /\ status' = [status EXCEPT ![r] = "running"]
    /\ worker' = [worker EXCEPT ![w] = Hand("reading", r, chat)]
    /\ UNCHANGED chat

\* The owner's metadata stays, and so does a summary of this very window.
Settled(r) == chat.protected \/ chat.by # "system" \/ chat.through = r

\* get_object, and the early return; otherwise the metadata goes into the prompt,
\* unless that exceeds its budget.
Read(w) ==
    LET r == worker[w].run
    IN  /\ worker[w].pc = "reading"
        /\ \/ /\ ~Settled(r)
              /\ worker' = [worker EXCEPT ![w] = Hand("asking", r, chat)]
           \/ worker' = [worker EXCEPT ![w] = Hand("summarised", r, chat)]
        /\ UNCHANGED <<chat, attempts, status>>

\* request_json_model: an answer, or an error that fails the Run.
Infer(w) ==
    /\ worker[w].pc = "asking"
    /\ \/ /\ worker' = [worker EXCEPT ![w].pc = "writing"]
          /\ UNCHANGED status
       \/ /\ worker' = [worker EXCEPT ![w] = Hand("idle", NoRun, chat)]
          /\ status' = [status EXCEPT ![worker[w].run] = "open"]
    /\ UNCHANGED <<chat, attempts>>

\* Fault: an UPDATE that does not compare the revision.
AnyRevision(seen) == ~chat.protected /\ chat.by = "system"

\* Fault: an UPDATE by id alone.
AnyRow(seen) == TRUE

\* The UPDATE's WHERE clause.
Unmoved(seen) == chat.revision = seen.revision /\ ~chat.protected /\ chat.by = "system"

\* UPDATE objects with the event in one transaction; when it matches no row the
\* answer is dropped and the Run goes on.
Write(w) ==
    LET r == worker[w].run
        seen == worker[w].seen
    IN  /\ worker[w].pc = "writing"
        /\ chat' = IF Unmoved(seen)
                   THEN [chat EXCEPT !.revision = @ + 1, !.by = "system", !.through = r,
                                     !.folded = Append(seen.folded, r)]
                   ELSE chat
        /\ worker' = [worker EXCEPT ![w].pc = "summarised"]
        /\ UNCHANGED <<attempts, status>>

\* The rest of the Run: its plan is committed, or it fails and may be retried.
Finish(w) ==
    /\ worker[w].pc = "summarised"
    /\ \E outcome \in {"completed", "open"} :
         status' = [status EXCEPT ![worker[w].run] = outcome]
    /\ worker' = [worker EXCEPT ![w] = Hand("idle", NoRun, chat)]
    /\ UNCHANGED <<chat, attempts>>

\* The process dies; the Run stays running until the lease elapses.
Crash(w) ==
    /\ worker[w].pc # "idle"
    /\ worker' = [worker EXCEPT ![w] = Hand("idle", NoRun, chat)]
    /\ UNCHANGED <<chat, attempts, status>>

\* The owner edits the Chat, protected or not (update_object).
Edit(protect) ==
    /\ chat.revision < MaxRevision
    /\ chat' = [chat EXCEPT !.revision = @ + 1, !.by = "human", !.protected = protect,
                            !.folded = <<>>]
    /\ UNCHANGED <<attempts, status, worker>>

\* A capture changes the Chat's coverage: a new revision, by nobody in particular.
Cover ==
    /\ chat.revision < MaxRevision
    /\ chat' = [chat EXCEPT !.revision = @ + 1]
    /\ UNCHANGED <<attempts, status, worker>>

SummaryNext ==
    \/ \E w \in Workers, r \in Runs : Claim(w, r)
    \/ \E w \in Workers : Read(w) \/ Infer(w) \/ Write(w) \/ Finish(w) \/ Crash(w)
    \/ \E protect \in BOOLEAN : Edit(protect)
    \/ Cover

SummarySpec == SummaryInit /\ [][SummaryNext]_summary_vars
-----------------------------------------------------------------------------
(* Properties                                                              *)

\* The Chat's row and the workers' snapshots of it; attempts within the limit.
SummaryTypeOK ==
    /\ chat \in Metadata
    /\ attempts \in [Runs -> 0..Limit]
    /\ status \in [Runs -> {"open", "running", "completed"}]
    /\ \A w \in Workers :
         /\ worker[w].pc \in {"idle", "reading", "asking", "writing", "summarised"}
         /\ worker[w].run \in Runs \cup {NoRun}
         /\ worker[w].seen \in Metadata

\* However many workers summarise windows of one Chat at once, no summary is
\* replaced by one that was written without it: only the owner's edit resets the
\* windows that the title and description stand for.
NoSummaryLost ==
    [][chat'.by = "system" =>
         /\ Len(chat.folded) <= Len(chat'.folded)
         /\ SubSeq(chat'.folded, 1, Len(chat.folded)) = chat.folded]_summary_vars

\* An answer asked for before the owner's edit never replaces it ("Protected or
\* manually edited Chat metadata is preserved", docs/codex.md).
OwnersWordStays ==
    [][chat.by = "human" => chat'.by = "human" /\ chat'.through = chat.through]_summary_vars

\* A Run whose summary is committed asks for no other ("The checkpoint is committed
\* with the metadata event, so a retried run performs no new inference", curator.rs).
RetriesReuseSummary ==
    [][\A w \in Workers :
         (\E i \in 1..Len(chat.folded) : chat.folded[i] = worker[w].run)
         => ~(worker[w].pc = "reading" /\ worker'[w].pc = "asking")]_summary_vars
=============================================================================
