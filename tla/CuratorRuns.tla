----------------------------- MODULE CuratorRuns -----------------------------
(***************************************************************************)
(* The life of a queued Curator Run (curator.rs, runs.rs).                 *)
(*                                                                         *)
(* Workers of several replicas claim Runs oldest first, ask the model for  *)
(* a plan outside any transaction and then commit it; clients of the       *)
(* Curator API commit plans of their own; owners undo what was committed;  *)
(* the events-first cutover changes what a commit may write; and reviewed  *)
(* maintenance fences a Chat.  Each transaction is one step: they lock the *)
(* Run's row first.  Whatever fails is recorded by a later transaction,    *)
(* which writes the Run without looking at it.                             *)
(***************************************************************************)
EXTENDS Integers, FiniteSets, Sequences

CONSTANTS
    NRuns,          \* Runs, numbered in the order of available_at
    Chats,
    ChatOf,         \* the Chat whose window a Run curates
    FenceableChats, \* Chats an owner may fence
    Workers,        \* worker ids: one per start of a worker process
    Crashable,      \* workers whose process may die
    Clients,        \* concurrent clients of the Curator API
    Actors,         \* who may ask for an undo
    Plans,          \* reconciliation plans
    EmptyPlans,     \* plans that change nothing
    Api,            \* worker_id 'curator-api'
    NoWorker,       \* worker_id of a Run nobody has started
    NoPlan,         \* a Run without a proposed plan
    MaxAttempts     \* bounds the attempts the API adds

Runs == 1..NRuns
Processes == Workers \cup Clients
Limit == 3          \* attempts after which no worker claims a Run

ASSUME NRunsAssumption == NRuns \in Nat
ASSUME ChatOfAssumption == ChatOf \in [Runs -> Chats]
ASSUME WorkersAssumption ==
    /\ Crashable \subseteq Workers
    /\ Api \notin Workers /\ NoWorker \notin Workers \cup {Api}
ASSUME ProcessesAssumption == Workers \cap Clients = {}
ASSUME PlansAssumption == EmptyPlans \subseteq Plans /\ NoPlan \notin Plans
ASSUME MaxAttemptsAssumption == MaxAttempts \in Nat /\ Limit <= MaxAttempts

VARIABLES
    run,      \* runs rows of kind 'curator'
    journal,  \* what each Run committed, one batch per commit
    curated,  \* curated_through_message_id of each Chat, as its last Run
    undone,   \* curator_undo Runs, whose key is the Run and the actor
    cutover,  \* an event_memory_cutover Run exists
    fenced,   \* Chats with a fence
    proc      \* where each worker and client stands

vars == <<run, journal, curated, undone, cutover, fenced, proc>>

Status == {"absent", "queued", "running", "completed", "failed", "reversed"}
RunRow == [status : Status, worker : Workers \cup {Api, NoWorker},
           attempts : 0..MaxAttempts, lapsed : BOOLEAN, plan : Plans \cup {NoPlan}]

\* The reversible changes of one commit, seen as a whole: none, as committed,
\* archived by an undo, or written by someone else since.
Batch == [by : Workers \cup {Api}, kind : {"memory", "event"},
          state : {"none", "intact", "archived", "changed"}]

\* `again`: the API handler records an error a second time.
State(pc, r, plan, again) == [pc |-> pc, run |-> r, plan |-> plan, again |-> again]
Idle == State("idle", 0, NoPlan, FALSE)
Failing(r, again) == State("failing", r, NoPlan, again)

Local ==
    [pc : {"idle", "dead"}, run : {0}, plan : {NoPlan}, again : {FALSE}]
    \cup [pc : {"working", "failing"}, run : Runs, plan : {NoPlan}, again : BOOLEAN]
    \cup [pc : {"memory", "event"}, run : Runs, plan : Plans, again : {FALSE}]

At(p, pc) == proc[p].pc = pc

\* The fence trigger refuses every write of a Run of a fenced Chat.
Writable(r) == ChatOf[r] \notin fenced

-----------------------------------------------------------------------------
Init ==
    /\ run = [r \in Runs |-> [status |-> "absent", worker |-> NoWorker, attempts |-> 0,
                              lapsed |-> FALSE, plan |-> NoPlan]]
    /\ journal = [r \in Runs |-> <<>>]
    /\ curated = [c \in Chats |-> 0]
    /\ undone = {}
    /\ cutover = FALSE
    /\ fenced = {}
    /\ proc = [p \in Processes |-> Idle]

\* queue_next_window inserts the next Run.
Queue(r) ==
    /\ run[r].status = "absent"
    /\ \A q \in 1..(r - 1) : run[q].status # "absent"
    /\ Writable(r)
    /\ run' = [run EXCEPT ![r].status = "queued"]
    /\ UNCHANGED <<journal, curated, undone, cutover, fenced, proc>>

-----------------------------------------------------------------------------
(* The worker                                                              *)

\* started_at is set by the first start and never again, so once ten minutes
\* have passed every later claim is open to takeover from its first moment.
LeaseElapses(r) ==
    /\ run[r].attempts > 0
    /\ ~run[r].lapsed
    /\ run' = [run EXCEPT ![r].lapsed = TRUE]
    /\ UNCHANGED <<journal, curated, undone, cutover, fenced, proc>>

\* Fault: a claim that ignores the attempts already made.
ClaimableForever(r) ==
    \/ run[r].status \in {"queued", "failed"}
    \/ run[r].status = "running" /\ run[r].lapsed

\* Fault: a claim that never takes over a running Run.
ClaimableOnce(r) ==
    /\ run[r].attempts < Limit
    /\ run[r].status \in {"queued", "failed"}

Claimable(r) ==
    /\ run[r].attempts < Limit
    /\ \/ run[r].status \in {"queued", "failed"}
       \/ run[r].status = "running" /\ run[r].lapsed

\* Rows another transaction may hold, which SKIP LOCKED passes over.
Writing == {proc[p].run : p \in {q \in Processes : proc[q].pc \in {"memory", "event", "failing"}}}

\* claim_run: the oldest claimable Run that is not locked.  A fenced one makes
\* the UPDATE raise, and the worker tries again at its next poll.
Claim(w) ==
    \E skipped \in SUBSET Writing :
      \E r \in {q \in Runs : Claimable(q)} \ skipped :
        /\ \A q \in 1..(r - 1) : Claimable(q) => q \in skipped
        /\ At(w, "idle")
        /\ Writable(r)
        /\ run' = [run EXCEPT ![r] = [run[r] EXCEPT !.status = "running", !.worker = w,
                                                    !.attempts = run[r].attempts + 1]]
        /\ proc' = [proc EXCEPT ![w] = State("working", r, NoPlan, FALSE)]
        /\ UNCHANGED <<journal, curated, undone, cutover, fenced>>

\* worker_context, the route taken, and the model's plan; any of it may fail.
Plan(w) ==
    /\ At(w, "working")
    /\ \/ \E p \in Plans :
            proc' = [proc EXCEPT ![w] = State(IF cutover THEN "event" ELSE "memory",
                                              proc[w].run, p, FALSE)]
       \/ proc' = [proc EXCEPT ![w] = Failing(proc[w].run, FALSE)]
    /\ UNCHANGED <<run, journal, curated, undone, cutover, fenced>>

\* The process dies; a restarted one has a new worker id.
Crash(w) ==
    /\ ~At(w, "dead")
    /\ proc' = [proc EXCEPT ![w] = State("dead", 0, NoPlan, FALSE)]
    /\ UNCHANGED <<run, journal, curated, undone, cutover, fenced>>

-----------------------------------------------------------------------------
(* Commits                                                                 *)

NewBatch(by, kind, plan) ==
    [by |-> by, kind |-> kind, state |-> IF plan \in EmptyPlans THEN "none" ELSE "intact"]

\* What a successful commit leaves: the changes, the terminal Run and the Chat's
\* watermark.
Complete(r, row, batch) ==
    /\ run' = [run EXCEPT ![r] = [row EXCEPT !.status = "completed"]]
    /\ journal' = [journal EXCEPT ![r] = Append(@, batch)]
    /\ curated' = [curated EXCEPT ![ChatOf[r]] = r]
    /\ UNCHANGED <<undone, cutover, fenced>>

\* Fault: the worker that lost its claim is not turned away.
VerdictOfAnyWorker(r, plan, claimant) ==
    CASE cutover -> "invalid"
      [] run[r].status = "completed" ->
            IF run[r].plan = plan THEN "replay" ELSE "conflict"
      [] run[r].status = "reversed" -> "conflict"
      [] OTHER -> "commit"

\* Fault: the cutover is looked at when the plan is requested only.
VerdictBeforeCutover(r, plan, claimant) ==
    CASE run[r].status = "completed" ->
            IF run[r].plan = plan THEN "replay" ELSE "conflict"
      [] run[r].status = "reversed" -> "conflict"
      [] run[r].status = "running" /\ run[r].worker # claimant -> "conflict"
      [] OTHER -> "commit"

\* The outcome of reconcile_owned before it writes; claimant is NoWorker for the
\* API.  "invalid" is an error like any other, "conflict" one the handler expects.
Verdict(r, plan, claimant) ==
    CASE cutover -> "invalid"
      [] run[r].status = "completed" ->
            IF run[r].plan = plan THEN "replay" ELSE "conflict"
      [] run[r].status = "reversed" -> "conflict"
      [] run[r].status = "running" /\ run[r].worker # claimant -> "conflict"
      [] OTHER -> "commit"

\* Fault: a commit of the API does not count as an attempt.
StartedUncounted(r, plan) ==
    LET row == run[r]
    IN  IF row.status = "running"
        THEN [row EXCEPT !.plan = plan]
        ELSE [row EXCEPT !.worker = Api, !.plan = plan]

\* The row a commit writes: a Run that is not running is started as the API's,
\* even for the worker that once claimed it.
Started(r, plan) ==
    LET row == run[r]
    IN  IF row.status = "running"
        THEN [row EXCEPT !.plan = plan]
        ELSE [row EXCEPT !.worker = Api, !.attempts = @ + 1, !.plan = plan]

\* reconcile_owned past its checks, by the process named `by`.
Reconcile(r, plan, by) ==
    /\ Writable(r)
    /\ Started(r, plan).attempts <= MaxAttempts
    /\ Complete(r, Started(r, plan), NewBatch(by, "memory", plan))

\* The worker's reconcile_owned, as the claimant.  Validation may fail, and so may
\* any statement (a lock not granted within statement_timeout).
CommitMemory(w) ==
    LET r == proc[w].run
        plan == proc[w].plan
    IN  /\ At(w, "memory")
        /\ \/ /\ Verdict(r, plan, w) = "commit"
              /\ Reconcile(r, plan, w)
              /\ proc' = [proc EXCEPT ![w] = Idle]
           \/ /\ Verdict(r, plan, w) = "replay"
              /\ proc' = [proc EXCEPT ![w] = Idle]
              /\ UNCHANGED <<run, journal, curated, undone, cutover, fenced>>
           \/ /\ proc' = [proc EXCEPT ![w] = Failing(r, FALSE)]
              /\ UNCHANGED <<run, journal, curated, undone, cutover, fenced>>

\* The worker's apply_events after the cutover: a completed Run is taken for a
\* replay whatever its plan, and only the holder of a running one commits.  Its
\* SERIALIZABLE snapshot, older than the lock it waits for, makes failures common.
CommitEvents(w) ==
    LET r == proc[w].run
    IN  /\ At(w, "event")
        /\ \/ /\ run[r].status = "running"
              /\ run[r].worker = w
              /\ Writable(r)
              /\ Complete(r, [run[r] EXCEPT !.plan = proc[w].plan],
                          NewBatch(w, "event", proc[w].plan))
              /\ proc' = [proc EXCEPT ![w] = Idle]
           \/ /\ run[r].status = "completed"
              /\ proc' = [proc EXCEPT ![w] = Idle]
              /\ UNCHANGED <<run, journal, curated, undone, cutover, fenced>>
           \/ /\ proc' = [proc EXCEPT ![w] = Failing(r, FALSE)]
              /\ UNCHANGED <<run, journal, curated, undone, cutover, fenced>>

\* POST .../reconcile: reconcile_owned without a claim.  A conflict is recorded by
\* reconcile only, every other error by reconcile and again by the handler.
Submit(c, r, plan) ==
    /\ At(c, "idle")
    /\ run[r].status # "absent"
    /\ \/ /\ Verdict(r, plan, NoWorker) = "commit"
          /\ Reconcile(r, plan, Api)
          /\ UNCHANGED proc
       \/ /\ Verdict(r, plan, NoWorker) = "conflict"
          /\ proc' = [proc EXCEPT ![c] = Failing(r, FALSE)]
          /\ UNCHANGED <<run, journal, curated, undone, cutover, fenced>>
       \/ /\ proc' = [proc EXCEPT ![c] = Failing(r, TRUE)]
          /\ UNCHANGED <<run, journal, curated, undone, cutover, fenced>>

\* record_failure: the Run becomes failed whatever it was, unless the write
\* itself fails, which is only logged.
RecordFailure(p) ==
    LET r == proc[p].run
    IN  /\ At(p, "failing")
        /\ \/ /\ Writable(r)
              /\ run' = [run EXCEPT ![r].status = "failed"]
           \/ UNCHANGED run
        /\ proc' = [proc EXCEPT ![p] = IF proc[p].again THEN Failing(r, FALSE) ELSE Idle]
        /\ UNCHANGED <<journal, curated, undone, cutover, fenced>>

-----------------------------------------------------------------------------
(* What happens to a committed Run                                         *)

\* archive_created_object and its kind: what an undo leaves of a batch.
Archived(batch) ==
    IF batch.state = "intact" THEN [batch EXCEPT !.state = "archived"] ELSE batch

\* Fault: a failed Run that once committed may be undone, too.
UndoFailed(a, r) ==
    /\ run[r].status \in {"completed", "failed"}
    /\ Writable(r)
    /\ <<r, a>> \notin undone
    /\ \A i \in 1..Len(journal[r]) : journal[r][i].state \in {"none", "intact"}
    /\ undone' = undone \cup {<<r, a>>}
    /\ run' = [run EXCEPT ![r].status = "reversed"]
    /\ journal' = [journal EXCEPT ![r] = [i \in 1..Len(@) |-> Archived(@[i])]]
    /\ UNCHANGED <<curated, cutover, fenced, proc>>

\* undo_as: archive every change of the Run, all of which must be at the revision
\* the Run left; otherwise the whole undo rolls back.
Undo(a, r) ==
    /\ run[r].status = "completed"
    /\ Writable(r)
    /\ <<r, a>> \notin undone
    /\ \A i \in 1..Len(journal[r]) : journal[r][i].state \in {"none", "intact"}
    /\ undone' = undone \cup {<<r, a>>}
    /\ run' = [run EXCEPT ![r].status = "reversed"]
    /\ journal' = [journal EXCEPT ![r] = [i \in 1..Len(@) |-> Archived(@[i])]]
    /\ UNCHANGED <<curated, cutover, fenced, proc>>

\* Any other writer revises, archives or restores what the Run created.
Touch(r, i) ==
    /\ journal[r][i].state \in {"intact", "archived"}
    /\ journal' = [journal EXCEPT ![r][i].state = "changed"]
    /\ UNCHANGED <<run, curated, undone, cutover, fenced, proc>>

\* event_memory::activate, which takes the lock every commit takes.
Cutover ==
    /\ ~cutover
    /\ cutover' = TRUE
    /\ UNCHANGED <<run, journal, curated, undone, fenced, proc>>

\* is_terminal counts a failed Run as finished, retries left or not.
Terminal == {"completed", "failed", "reversed"}

\* Reviewed cancellation of the Chat's interaction: no related Run may be active.
Fence(c) ==
    /\ c \notin fenced
    /\ \A r \in Runs : ChatOf[r] = c => run[r].status \in Terminal \cup {"absent"}
    /\ fenced' = fenced \cup {c}
    /\ UNCHANGED <<run, journal, curated, undone, cutover, proc>>

WorkerStep(w) ==
    \/ Claim(w) \/ Plan(w) \/ CommitMemory(w) \/ CommitEvents(w) \/ RecordFailure(w)

Next ==
    \/ \E r \in Runs : Queue(r) \/ LeaseElapses(r)
    \/ \E w \in Workers : WorkerStep(w)
    \/ \E w \in Crashable : Crash(w)
    \/ \E c \in Clients, r \in Runs, plan \in Plans : Submit(c, r, plan)
    \/ \E c \in Clients : RecordFailure(c)
    \/ \E a \in Actors, r \in Runs : Undo(a, r)
    \/ \E r \in Runs : \E i \in 1..Len(journal[r]) : Touch(r, i)
    \/ Cutover
    \/ \E c \in FenceableChats : Fence(c)

Spec == Init /\ [][Next]_vars

\* A worker that does not die polls, and every request it makes has a timeout;
\* time passes.  Clients, owners and the cutover promise nothing.
FairSpec ==
    /\ Spec
    /\ \A w \in Workers \ Crashable : WF_vars(WorkerStep(w))
    /\ \A r \in Runs : WF_vars(LeaseElapses(r))
-----------------------------------------------------------------------------
(* Properties                                                              *)

\* The Run rows, journals and processes take the values their columns allow.
TypeOK ==
    /\ run \in [Runs -> RunRow]
    /\ journal \in [Runs -> Seq(Batch)]
    /\ curated \in [Chats -> Runs \cup {0}]
    /\ undone \subseteq Runs \X Actors
    /\ cutover \in BOOLEAN
    /\ fenced \subseteq FenceableChats
    /\ proc \in [Processes -> Local]

\* However claims are taken over, failures recorded late and Runs reopened, the
\* changes of a Run are never committed twice under one claim or API call: there
\* are at most as many commits as counted attempts (claim_run, reconcile_owned).
CommitsWithinAttempts == \A r \in Runs : Len(journal[r]) <= run[r].attempts

\* A worker that lost its claim cannot write into a Run somebody else is running:
\* what is committed to a running Run comes from the worker that holds it.
CommitByHolder ==
    [][\A r \in Runs :
         run[r].status = "running" /\ Len(journal'[r]) > Len(journal[r])
         => journal'[r][Len(journal'[r])].by = run[r].worker]_vars

\* Plans requested before the events-first cutover and answered after it are
\* refused: no legacy Memory is committed once the cutover exists.
NoLegacyMemoryAfterCutover ==
    [][cutover => \A r \in Runs : Len(journal'[r]) > Len(journal[r])
                    => journal'[r][Len(journal'[r])].kind = "event"]_vars

UndosOf(r) == {u \in undone : u[1] = r}

\* Two owners who undo the same Run, or one who retries, never compensate one
\* commit twice, even when a late failure reopened the Run in between.
UndosMatchCommits ==
    \A r \in Runs : Cardinality(UndosOf(r)) <= Len(journal[r])

\* While one worker survives, a queued Run is completed or has had all its
\* attempts: a failure or a dead worker delays it, and stops no later Run.  (A Run
\* whose worker dies in the last attempt stays running for good.)
RunsSettle ==
    \A r \in Runs :
        run[r].status = "queued" ~>
            run[r].status \in {"completed", "reversed"} \/ run[r].attempts >= Limit

\* A worker takes up every queued Run that is not itself fenced (README.md: "a
\* worker loads that message window").
QueuedRunsAttempted ==
    \A r \in Runs : run[r].status = "queued" ~> (run[r].attempts > 0 \/ ~Writable(r))
=============================================================================
