# Verification of Centaur Context

TLA+ specifications of the parts of Centaur Context in which several processes
change the same rows, TLC runs that check them on small instances, and theorems
about them that TLAPS checks for every value of their constants. Every definition
is translated from the Rust and SQL sources; `PROJECT.json` maps it to the lines
it stands for.

Centaur Context is one Rust service (axum, sqlx) over PostgreSQL. It has no state
of its own in memory: every hard question about it is a question about
transactions that run READ COMMITTED (a few SERIALIZABLE) next to each other, in
several replicas, and about what is done between two of them (model and embedding
calls, retries, crashes).

## 1. The system

### 1.1 Components

| component (source) | state it keeps | operations | hard behaviour | properties that make it correct |
|---|---|---|---|---|
| Slack ingest and message windows (`src/ingest.rs`) | `chats`, `chat_messages`, interaction Runs, queued cursor | `ingest_slack_interaction`, `queue_next_window`, `queue_inactive_interactions` | redelivered and reordered batches; sequence numbers drawn before commit; an inactivity sweep of many Chats in one transaction | each message is in exactly one window; the cursor passes no unseen message; idle Chats are queued |
| Codex capture (`src/codex.rs`, `src/codex_outcomes.rs`) | the same tables, receipts, coverage | `capture`, Git outcomes | repeated batches, bounded backlog | backlog below one window; a finished turn is drained |
| Curator Runs (`src/curator.rs`, `src/runs.rs`) | `runs` of kind `curator` and `curator_undo`, Memory and Connections they created | `claim_run`, plan, `reconcile_owned`, `undo_as`, failure recording, API submission | lease takeover while the slow worker still commits; late failures reopen settled Runs; poison Runs | one commit per counted attempt; only the holder writes; undo compensates once; queued Runs are attempted |
| Chat summaries (`summarize_chat`) | title, description, revision, checkpoint of a Chat | read, infer, compare-and-write | model call between read and write; owners edit meanwhile | no summary lost; the owner's word stays |
| Event memory (`src/event_memory.rs`) | Events, Memory, cutover Run with its baselines | `activate`, extraction, synthesis, previews and approvals | plans asked for before the cutover, snapshots older than locks, two extractions of one outcome | no legacy Memory after the cutover; each outcome and Event version is worked in once |
| Execution fences and reviewed maintenance (`src/reviewed_purge.rs`, `src/maintenance.rs`, migration 0031) | `maintenance_execution_fences`, manifests | cancellation, purge preview, confirm, apply | fence inserted between another transaction's check and write | nothing runs behind a fence; a fence stops its own Chat only |
| Embedding queue (`src/embeddings.rs`, `src/db/embeddings.rs`, migration 0037) | `embeddings` | queue, claim, complete, fail, invalidation trigger | statements that mix a snapshot with re-read rows; expired leases | rows well formed; vectors kept; the served vector is of the current text |
| External action ledger (`src/external_actions.rs`) | `runs` of kind `external_action`, their trace | `reserve`, `append_event` | retries under the same or new keys, late and reordered events | one row per identity; a report is recorded once; no second attempt before the first is reconciled |
| Memory capture worker (`src/memory.rs`) | receipts (`memory_capture` Runs), Memories | capture pass under the lease 7818001 | Events dated before they commit; crash after the commit | an outcome is told once, every owed one is |
| Dreaming (`src/dreaming.rs`, migration 0034) | review Runs, previews, fingerprints, undo journal | claim, select, plan, apply or save, approve, undo | SERIALIZABLE snapshots older than the lock; lost leases and answers; wake-ups | plans spare what people did; untouched Runs can be undone; reviewing ends |
| Universal apply (`src/universal.rs`, `src/entity_categories.rs`, migration 0025) | Objects, Connections, categories, journal, receipts | `context_apply` with all its operations | a failing operation, a crash, a repeated key, rows checked but not locked, a fence or the cutover in between | all or nothing and once; checks still hold at commit; the journal explains every row |
| Objects, Connections, Tasks, Notes, Themes, Artifacts (`src/db/*`) | the same | create, update, archive, link, attach | rows and keys read outside the transaction; claims of Tasks; chains of visuals | no lost update; claims are not stolen; chains do not fork |
| Workflow Runs (`src/runs.rs`, migration 0020) | workflow Runs, traces, usage | start, append, finish, review | repeats and late deliveries | the first outcome stands |
| Task routines (`src/db/routines.rs`, migration 0032) | routines, occurrences | configure, claim, bind, report; the pausing trigger | edits after the claim, or between check and binding of a start; two dispatchers; replaced executions | a start begins of approved text; one execution at a time |
| Intake, source intake (`src/intake.rs`, `src/source_intake.rs`) | Runs of kind `intake`, Sources, Artifacts | submit, capture, adopt, replay | plans older than their commit; retries after purges | what was answered is kept; repeats are replays |
| Research and networking mutations | none of their own | typed calls to the writers above | - | as above |
| Codex bridge (`tools/codex_context/codex_context/bridge.py`) | local spool file | append, send, acknowledge | crash between send and acknowledge | nothing dropped, nothing sent twice with effect |
| Retrieval, HTTP listeners, configuration, web UI, agent tools | none | reads, routing, parsing | - | - |

### 1.2 How they interact

`main.rs` starts the HTTP listeners (owner UI, agent, ingest, Curator, maintenance,
source intake, research, networking, external actions, Codex) and five workers in
one `tokio::select!`: inactivity, embedding, Memory capture, dreaming, Curator.
They call each other through the database only:

* ingest, capture and the inactivity worker cut windows and insert `curator` Runs;
* Curator workers claim those Runs, read the window's messages, summarise the Chat
  and commit Memory, or Events once the cutover exists;
* a fence inserted by reviewed maintenance makes triggers raise in all of them;
* every change of an Object's text fires the trigger that resets its embedding row;
* owners edit and archive what the workers wrote, under optimistic revisions.

### 1.3 Hard to test

`PROJECT.json` lists the hazards at their lines. They fall into five groups: a row
read before a model call and written after it; a statement's snapshot beside rows it
re-reads; one transaction or one queue head on which other work depends; leases that
end while their holder is still at work; requests repeated, reordered or joined by a
second one under the same key.

## 2. Modules

| module | models | abstracts |
|---|---|---|
| `MessageLedger` | abstract specification: what capture promises of each message | everything but the fate of messages |
| `ChatWindows` | ingest, capture, inactivity pass and fence, one step per transaction | time, users, traces, participants |
| `ChatWindowTx` | the Slack transactions statement by statement with their locks | Codex Chats, Run contents |
| `CuratorRuns` | claim, plan, commit, failure, undo, API, cutover, fence | plan contents, Memory rows (one state per commit) |
| `ChatSummary` | `summarize_chat` beside owner edits and captures | the texts (the list of windows folded in) |
| `ExternalActions` | `reserve` and `append_event`, statement by statement with their locks | field validation |
| `EmbeddingQueue` | the worker's four statements, provider call and the trigger | Artifact chunks, backoff times |
| `ContextStore`, `UniversalApply`, `ContextWriters` | `context_apply`, operation by operation, and the typed writers of the API beside it | texts (the request that wrote them), listings |
| `MemoryStore`, `MemoryReview`, `EventMemory`, `MemoryWorkers` | capture, review, extraction, synthesis, the cutover between them, approvals and undo | texts, ranking, what models say beyond a few plans |
| `RecordStore`, `SourceIntake`, `WorkflowRuns`, `TaskRoutines`, `ReviewedPurge`, `RecordWriters` | intake, workflow Runs, recurring Tasks and reviewed purges over one store | hashes (injective), contents, schedules (one tick) |
| `MC*` | instances for TLC | |
| `*_proofs` | theorems | |

The rows of several modules are compositions: a store module declares the shared rows, one
module per component its actions, and the last one (`ContextWriters`, `MemoryWorkers`,
`RecordWriters`) puts them side by side, with Init, Next, the fairness and the
properties, many of which are about two components at once.

Each module that has a property to defend also defines *faults*: a definition named
in a comment `Fault: ...` has the parameters of one definition of the code and changes
it as a plausible bug would. Nothing uses them except the mutants in `PROJECT.json`:
each checked property is violated by one.

### 2.1 ChatWindows, ChatWindowTx, MessageLedger

`log[c]` is `chat_messages` of Chat `c` in `ingestion_sequence` order, `cursor[c]`
the position of `curation_queued_through_message_id`, `windows` the ranges recorded as
`curator` Runs (`queued`) or `curator_skipped` trace entries (`skipped`).

| action | code |
|---|---|
| `Ingest` | `ingest_slack_interaction` with `insert_message`, and `queue_next_window` when the interaction finishes; `owned` is a workflow that suppresses curation |
| `Capture` | `codex::capture`: at most `Batch` messages and two rounds of the drain loop (`DrainRound`) |
| `InactivityPass` | `queue_inactive_interactions`: one transaction over the Chats it selected |
| `Fence` | the cancellation of an abandoned interaction, as far as it concerns these tables |

`ChatWindowTx` splits `Ingest` and `InactivityPass` into statements. A transaction has
its uncommitted rows and its window in `tx`, holds the advisory lock of the provider
thread, the interaction Run's row, KEY SHARE or UPDATE locks of the Chat row and the
fence table's SHARE lock. A step that needs a lock somebody holds is disabled; `Abort`
rolls any transaction back at any statement, which covers errors, crashes and the
deadlock detector. It implements `ChatWindows` (`TransactionsAreAtomic`): `Log` is the
committed rows in sequence order, `Cursor` and `Windows` are `through` and `cuts` with each
sequence number replaced by its position among them (`Position`). `ChatWindows` implements
`MessageLedger` (`LedgerSpec`).

### 2.2 CuratorRuns

`run[r]` is the row of a Run, with `lapsed` for "`started_at` is more than ten minutes
ago" (set once, as in the code, so later claims start lapsed); `journal[r]` the
batches of changes it committed; `proc` where each worker or API client stands between
two transactions.

| action | code |
|---|---|
| `Queue` | the INSERT of `queue_next_window` |
| `Claim` | `claim_run`: oldest claimable Run that is not locked |
| `Plan` | `worker_context`, route and model call, any of which may fail |
| `CommitMemory`, `Submit` | `reconcile_owned`, as a claimant and as the API (`Verdict`, `Started`) |
| `CommitEvents` | `event_memory::apply_events` |
| `RecordFailure` | `record_failure` and `fail_curator_run`, which looks at nothing |
| `Undo`, `Touch` | `undo_as`; any other writer of what the Run created |
| `Cutover`, `Fence`, `Crash`, `LeaseElapses` | `activate`; reviewed cancellation; a dead process; time |

### 2.3 ChatSummary

`chat` is the Chat's `objects` row. `folded` stands for title and description: the
windows folded in since the owner's last edit. `Read`, `Infer` and `Write` are the three
moments of `summarize_chat`; `Edit` is an owner's `update_object`, `Cover` a capture that
changes the coverage and with it the revision.

### 2.4 ExternalActions

`actions` are the committed Runs, `tx` the requests in flight with the locks they hold
(advisory locks by name, the action's row). `Reserve`, `LookUpKey`, `LockIdentity`,
`LookUpIdentity`, `Insert` are the statements of `reserve`, `Report`, `CheckKey`, `Load`,
`Record` those of `append_event`; `NextStates` is `transition`. An answer, a repeat or a
conflict ends the transaction. Requests come from a set given by the constants and any
of them may be sent at any time and any number of times. The assumption that a key
belongs to one body is the clients' part of the contract (`RequestsAssumption`).

### 2.5 EmbeddingQueue

`row[o]` is the embeddings row of an Object; `hash` is the text it was computed from.
`QueueRead`/`QueueWrite` and `ClaimRead`/`ClaimWrite` are the two moments of one SQL
statement: it reads a snapshot, and READ COMMITTED then locks and re-checks the newest
version of each row it writes. The claim joins the Object in the snapshot. `Edit` is any
transaction that changes an Object's text, with the trigger's UPDATE.

### 2.6 ContextStore, UniversalApply, ContextWriters

`row` holds Objects with their subtype columns, Connections and Entity categories;
`art`, `corr` and `events` are Artifacts, evidence corrections and `object_events` with
their snapshots. A row has its revision and the key of the request that wrote it last, in
place of its texts.

| action | code |
|---|---|
| `Submit`, `Start` | authority checks and the fence table's share lock; then the advisory lock, receipt lookup, cutover gate and connectedness of new Objects |
| `CreateObject` ... `ChangeEntityCategory` | one operation each, with its guards from `Allowed`, on rows it locks, reading through the batch's own changes |
| `Refuse`, `Crash`, `ValidateOnly`, `Commit` | the first refusal or a lost session rolls back; `validate_only` rolls back too; commit writes rows, journal and receipt at once |
| `FenceThread`, `CutOver` | reviewed cancellation, `activate` |
| `Call`, `Fail` | what a typed call reads before its transaction; refusal, conflict or crash |
| `PostObject` ... `PostVisual`, `Relink` | the transaction of each call of `src/db`, with the links, revision comparison and key it has |

A batch never sees rows of other batches in progress (they take turns), but typed calls
commit between its operations unless they need a row the batch has locked (`Unlocked`).
`DerivedBefore` is the snapshot `insert_event_for_run` derives when its caller has none.
Ids are drawn by the server when a row is made (`Insert`, `Fresh`), so a request names a
row only after it was made, or in the batch that makes it (`NamesSeen`). An Event carries
its `run`, the key under which its Run is unique; the reconciliation of a repeated Task or
Note has a key of its own (`RunOf`).

The store a run starts from and the requests sent are the constant `Scenarios`.
`ScenariosAssumption` says what the tables and the request types admit of them
(`Admitted`, `BatchAssumed`, `CallAssumed`): rows have the columns of their table, foreign
keys exist, an identity has one holder, requests set only the fields `Settable` names, and
ids drawn by different requests differ.

Two of the properties of `ChecksHoldAtCommit` have exceptions that the code makes true,
not false. `BatchNeverMiscites`: a change of kind over the API (`db/connections.rs:232`)
locks neither endpoint, so it may turn a Connection of a Note a batch has just cited into
`derived_from`; the property therefore holds the batch to the Connections nobody wrote
since it began. `BatchNeverStrandsACategory`: restoring an Entity (`universal.rs:974`), or
writing it back as active by a call that read it before it was archived
(`db/objects.rs:373`), looks at no category, so an Entity that returns is excepted.

### 2.7 MemoryStore, MemoryReview, EventMemory, MemoryWorkers

`rows` are Objects and Connections, `runs` the Runs with the journal of what each wrote,
`lease` the two advisory locks, `at[w]` where a process stands. A SERIALIZABLE
transaction is `Begin` (its snapshot `base`) and a commit that replays the plan on that
snapshot: `Lock` fails on a row that moved since, `Connected` on a Connection the unique
index has and the snapshot has not. Plans are recursive functions over their changes, in
the order of `apply_plan`, `apply_events` and `apply_memories`, and stop at the first
error; so is an undo over the entries of its journal. `cut` is the cutover: whether it is
`done`, and its baselines. Ids are a bound of the model (`Free`): what finds none is
refused or does not happen, and no run uses them up.

| action | code |
|---|---|
| `ClaimDream`, `ClaimSynthesis`, `ClaimCapture` | lease and abandoned Runs (`LeftBehind`) |
| `ScanDream`, `ScanSynthesis`, `ScanOutcomes` | selection by fingerprint, attempts and retry times; the batch shown to the model |
| `SetTimer`, `Timer`, `RetryDue` | what a Reviewer does that found nothing: the query for the next retry, which comes after the scan and asks for retries still to fall due only, and the wait |
| `Propose*`, `Fails` | an answer or the failure of the model call |
| `BeginDream`, `CommitDream`, `FailDream` and their counterparts | the transaction; saving a preview; recording a failure |
| `CaptureOutcomes` | `capture_outcomes` before the cutover |
| `Activate` | the cutover: baselines of Event versions and outcomes |
| `ApproveDream`, `ApproveSynthesis`, `Undo` | the owner's calls of the maintenance listener |
| `EditRow`, `AddLink`, `CorrectFact`, `WriteEvent`, `BeginOutcome`, `CommitOutcome` | people, agents and the outcomes they commit |
| `Crash`, `LoseLease`, `TimesOut`, `Takes("ack")` | dead process, lost lease connection, lock timeout, lost commit answer |

### 2.8 RecordStore, SourceIntake, WorkflowRuns, TaskRoutines, ReviewedPurge, RecordWriters

`row` is one table of records with their columns; `ForeignKeys` are the columns that are
foreign keys, `Owners` the ones whose rows a purge takes along. `answers` are what
clients were told, `reviewed` the manifests owners saw, `receipts` the purges committed.

| action | code |
|---|---|
| `Prepare`, `Status`, `Write`, `Lost` | `commit_batch` and `commit_source`: reads and plan (`Settled`: create, adopt, supersede, reuse or refuse), replay check, transaction, lost answer |
| `EditSource`, `ArchiveLink`, `Correct`, `EditTask` | owners' edits with their journal; `EditTask` fires `pause_changed_task_routine` |
| `Start`, `Trace`, `Charge`, `Finish`, `FinishInteraction`, `Review` | workflow and Slack Runs over HTTP |
| `Configure`, `ClaimDue`, `CheckStart`, `Bind`, `Report` | Task routines. A start is two steps: it locks its occurrence and checks the approval of the Task by rows it does not lock, then it binds the execution (`starts` holds the ones in between); claims and reports that need the occurrence wait for it |
| `Preview`, `Purge` | reviewed purge with its reconciliations (detach, retire, cancel with a fence) |

`Columns` is what the tables' columns and constraints guarantee of a row, `Request` what the
listeners accept. `ScenariosAssumption` asks both of a scenario, and that its rows have
neither routines nor batches of the keys yet to come.

## 3. Runs

| run | instance | shows |
|---|---|---|
| `windows` | a Slack and a Codex Chat, a human, a reply and a status message, `Batch` 2 | every interleaving of ingest, capture, passes and fence tiles the log into windows and implements the ledger; unless fenced, waiting messages are queued |
| `window_tx` | one Chat, two ingests, one sweeper, a fence | sequence numbers never commit behind the cursor; each commit is one step of ChatWindows |
| `curator_runs` | one Run, two workers that may die, an API client, two owners, four attempts | commits, undos and the cutover under every race |
| `curator_liveness` | two Runs of two Chats, one worker survives | every queued Run settles or uses up its attempts |
| `chat_summary` | two windows, two workers, two attempts, four revisions | summaries and edits never overwrite each other |
| `external_actions` | three reservations that share keys, identities and principals, twelve reports, two requests at a time, six entries | no unique index refuses a reservation; idempotency; the trace explains the state; attempts are reconciled |
| `embedding_queue` | two Objects, two workers of which one may die, one edit, two attempts | rows are well formed, vectors are kept, every Object is indexed or has used up its attempts |
| `context_store` | nine small stores, two or three batches and calls on each | no lost update, one effect per key, no forked chain, checks that still hold at commit |
| `memory` | fifteen small stores, each with its workers, calls and faults | people's rows and Connections survive plans, nothing is told or reviewed twice, the work ends unless a Reviewer is overtaken on its way to wait |
| `event_overlap` | the same | **finding**: an extraction misses an Event told while it waited |
| `records` | eleven small stores in which requests, retries, edits and purges race | answers stand, repeats are replays, purges are as reviewed, routines start of text that is approved when the start checks it |
| `retry_refused` | the same | **finding**: an exact retry is answered with a conflict |

`CHECK_DEADLOCK FALSE` is stated everywhere: the systems stop when the bounded inputs
(messages, attempts, edits, trace entries) are used up.

Some properties of the compositions are conjunctions whose parts are named definitions of
their own and are stated and commented one by one in the modules:

| property | parts |
|---|---|
| `ContextWriters!StoreIsSound` | `TypeOK` (with `IdentitiesApart`), `CorrectionsFormAChain`, `VisualsApart` |
| `ContextWriters!ChecksHoldAtCommit` | `BatchNeverStrandsAConnection`, `BatchNeverMiscites`, `BatchNeverStrandsACategory` |
| `ContextWriters!GatesHold` | `FencedThreadIsSilent`, `SynthesisOwnsMemories` |
| `MemoryWorkers!EachInputOnce` | `TypeOK`, `OneCaptureWrites`, `SynthesisedOnce` |
| `MemoryWorkers!PlansSparePeople` | `OwnerRowsKept`, `MergeKeepsLinks` |
| `MemoryWorkers!CommitsInTurn` | `LegacySilent`, `ExtractionsNeverOverlap` |
| `MemoryWorkers!WorkEnds` | `ReviewSettles`, `OwedIsCaptured`, `SynthesisNeverRequeues` |
| `RecordWriters!StoreIsSound` | `TypeOK`, `NothingDangles`, `OccurrencesDoNotOverlap` |
| `RecordWriters!AnswersStand` | `CommittedContentIsKept`, `CommittedLinksAreMade`, `PurgedOnce` |
| `RecordWriters!RepeatsAreReplays` | `ReplaysAreWhole`, `PurgedNeverReturns`, `AdoptionKeepsPast` |
| `RecordWriters!PurgesAreReviewed` | `DeletionsAreReviewed`, `PurgeSparesWhatIsUsed` |
| `RecordWriters!OutcomesStand` | `RunOutcomesStand`, `OccurrencesEndOnce`, `StartsAreApproved`, `EligibleIsApproved` |
| `ExternalActions!TraceIsExact` | `OwnersReportsOnce`, `TraceExplainsState` |

The modules hold a fault for the parts too (for example `Kept` for
`IdentitiesApart`, `VisualAllowedAnywhere` for `VisualsApart`,
`AlwaysUnseen` for `SynthesisedOnce`, `PlannedAnyway` for `LegacySilent`,
`NeverReplayed` for `PurgedOnce`); `PROJECT.json` names one per property.

### 3.1 Bounds

* `Batch` 2 instead of 100: a full window, a backlog below it and a finish with more than
  one window pending all occur with three messages. The theorems hold for any size.
* `MaxSerial` bounds sequence numbers, rolled-back ones included: three values allow a
  number drawn early and committed late around one that commits in between.
* `MaxAttempts` 4 is one more than the limit of three at which workers stop, so that an
  API commit after the last attempt is included.
* `Limit` of the embedding queue is 2 in the passing run instead of 5: one retry, and
  the exhausted row. The theorems hold for any limit.
* `MaxTrace` 6 fits two attempts with a reconciliation in between.
* The three compositions start in one of several small stores (`Scenarios`), each with
  the few rows, requests, plans and faults whose meeting it is about. A store is small so
  that every order of its requests is explored, with the crash, lease or time-out allowed
  in it; together the stores fire every action.
  The requests of a store may come in any order, batches and calls any number of times
  (`work`), the others as often as `todo` holds them. Two or three writers are enough for
  each property: it is violated by one pair of steps in an order nobody meant, and the
  faults show that the stores contain that pair.
* Revisions, journals and traces are bounded by the requests of the store. `horizon` is
  two or three ticks where a Task recurs: an occurrence, the one after it, and an edit in
  between.
* Plans of the model in `MemoryWorkers` are one to two changes out of merge, rewrite,
  retire, connect and disconnect; three failures exhaust the attempts, as in the code.
* Symmetry is used for interchangeable workers, messages, clients and transactions in runs
  without liveness properties only.

### 3.2 Fairness

* `ChatWindows!FairSpec`: the inactivity worker polls as long as the process runs. Chats
  hidden by SKIP LOCKED are held by short transactions, so passes over every inactive Chat
  recur.
* `CuratorRuns!FairSpec`: workers outside `Crashable` keep polling, and their model calls
  have timeouts; time passes, so leases elapse. Clients, owners, fences and the cutover
  have no fairness.
* `EmbeddingQueue!FairSpec`: the same for the embedding worker, whose provider call has a
  timeout; edits have no fairness and are finitely many.

* `MemoryWorkers!Fairness`: each worker is a loop that does not stop, retry times pass,
  outcomes that were begun are committed. `[]<>(at[w].pc = "idle")` says that a pass ends:
  a process in a pass always has a step of its own that is enabled, passes have no loops,
  and the calls of model, locks and statements have timeouts. Calls, edits and faults have
  no fairness. `ReviewSettles` has a premise that the code does not guarantee: that somebody
  scans (`Recovers`) after a retry that fell due between a Reviewer's scan and its timer
  query (`RetryOvertakes`), and after an approval that held the lease a Reviewer found
  taken (`ApprovalOvertakes`). Any notification is such a scan, and so is another
  Reviewer's; section 5 has the traces without one. What an approval committed without
  being answered is excepted (`Unreconciled`): its Run is recorded as failed, a repeat is
  refused until an operator has reconciled it (`src/dreaming.rs:1189`), and no Reviewer is
  woken for it.
* `RecordWriters!Spec`: the dispatcher of routines polls, and starts what it was answered;
  a start that has checked its Task binds it, or fails and leaves nothing behind.

## 4. What is proved

TLAPS checks every proof to its leaves. The theorems hold for all values of the
constants under the named assumptions in the modules.

* `ChatWindows_proofs`: `TypeCorrect`, `WindowsArePartition`, `BacklogIsBounded`,
  `FinishLeavesNothing`, `LedgerIsImplemented`. `WindowsPartition` is not inductive: that no two windows overlap
  says nothing of where the next one starts. The invariant `TilingInv` adds that every
  window lies at or below its Chat's cursor and that the positions up to the cursor are
  covered, from which a new window above the cursor is disjoint from all. The backlog
  bound rests on the lemmas of one drain round (`DrainRoundFacts`): a capture adds at most
  `Batch` messages to fewer than `Batch`, and each round takes a window or leaves less
  than one. The refinement of `MessageLedger` rests on `LedgerInv`, which says how the place
  of a message in its log tells its disposition (a place is one message's, `DistinctInv`),
  and on `Grown`, what every step leaves in place; a step that moves the cursor is then a
  step of the ledger whichever action it was.
* `CuratorRuns_proofs`: `TypeCorrect`, `CommitsBounded`, `UndosBounded`,
  `CommitsAreTheHolders`, `CutoverIsFinal`. The number of commits is bounded because
  `AttemptInv` says that a running Run has one attempt that has not committed; a late
  failure makes it `failed` but never gives an attempt back. `UndoInv` says that a completed
  Run has a commit that has not been undone. `HolderInv` says that a
  running Run is held by a worker, never by the API, so that whatever commits to it past
  `Verdict` is the claimant named in the row.
* `EmbeddingQueue_proofs`: `TypeCorrect`, `VectorsAreKept`. The invariant follows the
  snapshots and jobs in the workers' hands, whose texts reach the rows again. Rows are
  completed exactly when they have a vector, so nothing but `Pending` of another hash can
  end a completed row.
* `ExternalActions_proofs`: `TypeCorrect`, `ReservationsNeverRefused`,
  `AttemptsAreReconciled`, `TracesAreExact`. What a transaction has looked up
  (`Protected`) stays true because whoever could make it false needs an advisory lock that
  it holds (`Exclusive`); `Refused` is then impossible at the INSERT. A transaction that
  has read the state of an action holds its row until it writes, so the state it moves on
  from is the one its trace ends in. `TraceExplainsState` is a fold over the trace; one
  step of it (the fold over a sequence and one more entry) follows from the definition of
  the recursive function the fold is made of.

* `ContextWriters_proofs`: all six properties of `context_store`
  (`TheStoreIsSound`, `RequestsApplyOnce`, `HistoryIsExplained`,
  `ChecksHoldWhenBatchesCommit`, `GatesHoldForBatches`, `ClaimsStay`), for any stores and
  requests that `ScenariosAssumption` admits. `IInv` (theorem `InvariantHolds`) has eight
  named parts, and most say the same thing twice: of the committed rows, and of the rows as
  the batch in progress reads them (`Rows`). That is why the properties alone are not
  inductive: `Commit` replaces the first by the second, and a call that commits between
  two operations changes both.

  | part | says |
  |---|---|
  | `BaseInv` | both views are `Admitted`, and what requests in flight have read is still so |
  | `BatchInv` | the batch has locked what it wrote, its log names its rows and nothing else, under its own Run |
  | `JournalInv` | the journal explains the rows, and the log continues it from the committed rows to the batch's |
  | `OnceInv` | the Run of every Event is a used key, and the batch in progress has an unused one |
  | `GateInv` | no thread of a batch past the check is fenced; after the cutover an agent's batch leaves Memories alone |
  | `ClaimInv` | a Task's claim is given up by its holder or a human |
  | `SuccessorInv` | corrections of a target are a chain below its Object's revision, visuals do not fork |
  | `CheckInv` | what `ChecksHoldAtCommit` asks of the commit holds of the batch's view at each step |

  The proof is factored by what a transaction writes, not by action. `Writes(log, a, b)`
  says that the entries of `log`, in order, lead from the rows `a`
  to `b`; its lemmas are about lists of any length. Each of the sixteen operations is shown
  to be such a list with a few properties (`OpWrites`), and one lemma per part of `IInv`
  takes any such list. For calls, `CallWrites` adds that no row of it is locked by the batch
  (`Beside`), from which it leads from the batch's view to the batch's new view as well.
  A Note or Task with its links writes a set of rows in one list, whatever their number.

  "The last Event of a row" and "the latest correction" need a greatest number below a
  bound. The library's induction over numbers takes an operator as parameter, but the
  existence of a least element of a set under a well-founded relation (`WFMin`) does not,
  and the greatest number is got from it by reflection.

* `ChatWindowTx_proofs`: `TypesHold`, `NothingCommitsLate` and
  `StatementsImplementTransactions` (`Spec => TransactionsAreAtomic`), for any Chats,
  messages, requests, ingests, sweepers and bounds. `IInv` (theorem `InvariantHolds`) says,
  for each transaction at each statement, which locks it holds (`IngestHolds`,
  `SweepHolds`), that its own rows are numbered after everything visible in its Chat
  (`OwnRows`), that what it has not yet to store is stored (`Progress`), and that the
  window it has read is still the one it would read now (`OwnCut`, `SweepHolds`). A step of
  one transaction keeps this for the others because of what their locks exclude
  (`Undisturbed`): with the advisory lock or the Chat row locked no row becomes visible,
  with the Chat row locked, or KEY SHARE and the advisory lock, the cursor stays. The
  commit of an ingest is then `Ingest` of its request, the commit of a sweep
  `InactivityPass` over the Chats it has windows of, or a stutter if it has none; every
  other statement and every abort stutters. The order of the rows is never computed: a
  set of rows is `Numbered` when each rank has one row, which an insert and a commit keep,
  and the log of a union is a concatenation (`MsgsOfUnion`).

* At the end of `ChatWindows_proofs`, of `ChatSummary`: `SummaryTypeCorrect`,
  `SummariesAreKept`, `OwnersWordIsKept`. The invariant is about the snapshots in the workers' hands (`SnapshotInv`): a snapshot is
  never of a later revision than the row, and one of the same revision is the row. So a
  write that finds its revision unmoved folds into exactly what is there.

* `RecordWriters_proofs`: all five safety properties of the shared rows (`StoreStaysSound`,
  `AnswersStayTrue`, `RepeatsStayReplays`, `PurgesStayReviewed`, `OutcomesStayFinal`), for
  any stores, requests, Tasks, threads and names. `ScenariosAssumption` says what a
  scenario may hold, `IdsAssumption` that the ids made for different keys and names differ.
  `IInv` (theorem `InvariantHolds`) has these parts:

  | part | says |
  |---|---|
  | `RowsInv` | every row has its columns, foreign keys refer to rows, the target of an Event is there |
  | `BatchesInv` | what the Run of a batch wrote has ids of its own, is there or was purged; its Events are one per thing at most |
  | `RoutinesInv` | what a routine approves of its Task was approved as it is; no two occurrences of a Task are active |
  | `StartsInv` | what is being started is active, and stays so until it is bound: whoever would end it waits |
  | `CallsInv` | a request in flight has a well-formed plan, and what its answer will say is in the plan or in the store |
  | `AnswersInv` | what a capture was answered is in the store or was purged |
  | `ClockInv`, `ReceiptsInv` | the clock within its horizon; a row is purged once |

  Every step but a purge adds rows and lets the others evolve (`Extends`): no identity,
  ending or content changes, and the facts above stay (`Keeps`). A batch is the one that
  adds what the others may refer to. A purge is the one that takes rows; its receipt keeps
  what was known of them. `PurgeSound` and `PurgeUses` show that the blockers a preview
  looks for, computed again at the purge, are all the rows that would dangle or be in use.
  A batch with as many Events as resources is complete (`Counts`): an injection of a finite
  set into one no larger is onto. Hence a replay never answers from half a batch.

* `MemoryWorkers_proofs`: `InputsAreWorkedOnce` (`EachInputOnce`), `UntouchedRunsAreUndoable`
  (`UntouchedRunsCanBeUndone`), `CommitsTakeTurns` (`CommitsInTurn`), `OwnersKeepTheirRows`
  (`OwnerRowsKept`, the first half of `PlansSparePeople`) and `SynthesisComesToRest`
  (`SynthesisNeverRequeues`, the safety part of `WorkEnds`), for any workers, ids, stores,
  calls, faults and plans. `ScenariosAssumption` says what a scenario may hold: a store with
  its columns, whose Connections have Objects of it as ends and are unique while active (the
  foreign keys and the index of `migrations/0001_initial.sql`), calls and outcomes about
  Objects of it, and plans made of the five changes of `dreaming.rs`. `IInv` (theorem
  `InvariantHolds`) has these parts:

  | part | says |
  |---|---|
  | `StoreInv` | rows have their columns, Connections have their ends, which are Objects, no two active ones are alike, nothing is ever deleted |
  | `RunsInv` | what a Run journalled is there and no person's while it is the last version, and its journal unwinds; a saved preview speaks of what its model was shown |
  | `PassInv` | where each pass is: its Run, what its batch and its plan may name, and that the store has gone on from its snapshot |
  | `WaitInv` | who holds the leases, and who waits |
  | `LeaseInv` | while no lease connection broke: a pass holds its lease, so the cutover is as it was when the pass began, and one extraction runs at a time |
  | `OutcomesInv` | the Runs that may be about one outcome: one capture, or one extraction that has not failed |
  | `SynthesesInv` | one review per version of an Event |

  The heart of it is `TxOK`, which says of a transaction on a snapshot what holds after any
  number of statements: what it wrote it journalled, and what it wrote of the snapshot is
  in the store as the snapshot has it (`Lock`) and is a worker's to write (`Spared`). Each
  operator that plans are made of keeps it, by an induction over the
  changes of the plan, the Connections that a merge moves, the rows a commit checks, and the
  entries an undo unwinds. `CommittedKeeps` then says what any such transaction does to the
  store, whoever commits it. That rows only get `Later` (no version comes back with another
  content) is what makes a journal outlive the passes of others: `EntryOK` of an older
  store is `EntryOK` of a newer one (`EntryAges`), and so for previews and plans
  (`PlanAges`). Of an extraction `Tells` says in addition that an Event it makes overlaps
  no other extraction it was not shown, and of a synthesis `Recalls` that it writes
  Memories and Connections from them, which no version of an Event is made of
  (`VersionStays`).

  That a Run can be undone is about the order in which it wrote. `Unwinds` says of any two
  entries of a journal, the earlier and the later, what keeps them out of each other's way
  (`Ordered`): they are about different rows; if taking one back makes a Connection active
  again, its ends are active at that moment, and no other of the Run's Connections is active
  beside it; if it takes back what the Run made, the Run's Connections of that are taken back
  before. It speaks of rows that still have the Run's version only, and so stays true
  when others write (`UnwindsAges`). A transaction keeps it (`Retraces`) because a change
  touches no row twice (`Rewritable`: the plan's touched Memories, the Memories a synthesis
  was shown once), archives Connections before their ends, and makes a Connection only where
  none is active and after its ends: that is shown for `Put`, `Insert` and `Connected`, then for
  the changes of a plan (`ChangeUnravels`, by what a locked and checked plan still allows,
  `Allows`), for extraction and for synthesis (`PlannedRetraces`, `ExtractedRetraces`,
  `SynthesisedRetraces`), and for the capture of outcomes; `CommittedIsWhole` carries it into
  the store, past the rows others committed since the snapshot. Then each step of an undo
  of an untouched Run finds nothing in its way (`NextCanBeTakenBack`): what blocks an entry
  is a row the Run wrote, which the order settles, or one it did not, which
  `Untouched` excludes.

  The induction over plans is by contradiction from a least counterexample (`UpTo`), since
  the induction theorems of the library take an operator as parameter.

Model-checked only: everything under fairness (`InactivityQueuesUnfenced`, `RunsSettle`,
`EventuallyIndexed`, `WorkEnds`, `PendingSettles`), and of `MemoryWorkers`
`MergeKeepsLinks`, the second half of `PlansSparePeople`: its proof would have to follow
each Connection of a merged Memory through the changes that come after the merge.

## 5. Findings

Two disagreements between documentation and code are runs of their own:

1. `apply_events` (`src/event_memory.rs:438`) takes its snapshot with the statement that
   waits for the lock 7818003, so it does not see an Event that was told while it waited,
   and tells the same outcome again (`event_overlap`).
2. `commit_source` (`src/source_intake.rs:365`) compares a retry with a plan made anew. A
   Source adopted and then captured under another key makes the exact retry of that
   capture a conflict (`retry_refused`).

Eight more have a configuration with one property, which `tlc -config X.cfg M` finds
violated:

| configuration, module, property | code | stated by |
|---|---|---|
| `ChatFenceStarvation.cfg`, `MCChatWindows`, `InactivityQueues` | `queue_inactive_interactions` (`src/ingest.rs:1269`) rolls back for all Chats when one of those it selected is fenced, and selects the same ones at the next poll | README.md:40 |
| `CuratorFenceStarvation.cfg`, `MCCuratorRuns`, `QueuedRunsAttempted` | `claim_run` (`src/curator.rs:1923`) always takes the oldest claimable Run; a failed one counts as terminal for a fence, is still claimable, and then raises at each poll | README.md:41 |
| `ChatSummaryRetry.cfg`, `MCChatSummary`, `RetriesReuseSummary` | `summarize_chat` (`src/curator.rs:1860`) recognises only the newest checkpoint, so a retry after a later window asks again and folds the windows out of order | src/curator.rs:1846 |
| `EmbeddingStale.cfg`, `MCEmbeddingQueue`, `ServedVectorIsCurrent` | `claim_embedding_job` (`src/db/embeddings.rs:300`) may return the new hash with the old text, whose vector is then served under the new hash | docs/rd/132-agent-corrections.md:72 |
| `ContextTaskSkew.cfg`, `MCContextWriters`, `BatchNeverStrandsATask` | archiving a User checks for active Tasks without locking any (`src/universal.rs:2013`); one may be assigned in between | src/universal.rs:2017 |
| `MissedSignal.cfg`, `MCMemoryWorkers`, `SignalsAreRecovered` | a Reviewer that finds the lease taken waits as if the queue were empty (`src/dreaming.rs:1282`); an approval that held it ends without a notification | src/dreaming.rs:1232 |
| `RetryOvertaken.cfg`, `MCMemoryWorkers`, `RetriesAreTimed` | `run_worker` (`src/dreaming.rs:1241`) asks for retries with `retry_at > now()` after the scan that asked for those that are due: one that falls due in between is in neither, and the Reviewer waits without a timer (`:1249`) | src/dreaming.rs:1232 |
| `RoutineRace.cfg`, `MCRecordWriters`, `ExecutionsAreApproved` | `routine_run_update` checks the approval by an unlocked `EXISTS` (`src/db/routines.rs:235`) and binds later (`:254`); an edit of the Task that commits in between is what the execution runs | migrations/0032_task_routines.sql:25 |

## 6. Limits of the models

Locks are granted in any order and waiting is a disabled step. A statement is atomic,
except in `EmbeddingQueue`, where the difference between its snapshot and the rows it
re-reads matters. Timestamps are abstracted to "may have passed". sha256 is injective.
Model answers are members of a set: whether a plan is a good one is not asked. The filter
on eligible providers and the per-poll LIMIT of the inactivity pass leave a subset of the
Chats, which any selection covers. Of serializability, `MemoryStore` has what the code
relies on: the snapshot, the failure on rows that moved, and the conflict of two
extractions that tell the same evidence (`Rivals`). The writers of one composition do not
meet those of another: what `context_apply` does to a Memory is an edit of a person in
`MemoryWorkers`, and a purge meets intake and Runs but not `context_apply`.

Where the code is only approximated, it may do less than the model, or the model compares
less than the code. A direct Artifact always names a revision, which the API makes
optional. A Note's citation is checked against its Artifact, not against the text quoted
from it. A batch of intake may add a `themed` Connection that a trigger would refuse.
`EventPrint` leaves out corrections of the Event itself and of a cited message's Chat,
`ReviewPrint` the newest message of the Chats around a Memory: both see a change through
the other components only, so the models review less often than the code does.

Some hazards have no property, or one with a premise, because nothing in the code prevents
them; their configurations in section 5 show the trace. One, an execution of a routine that dies
and leaves its occurrence `running` (`src/db/routines.rs:163`), has neither timeout nor
takeover in the code: every later occurrence of the Task is dropped until somebody reports.

### 6.1 Not modelled

* Codex bridge spool: a Python process outside the service. Its retries reach the service
  as repeated and reordered batches, which `Capture` takes as inputs.
* Codex batch receipts and Git outcomes (`src/codex_outcomes.rs`): a repeated batch is
  answered from its Run under the session's lock, which leaves the tables modelled here as
  they are; a Git receipt is one row under a lock of its own, and evidence only.
* Users, avatars and participant Connections of Slack ingest: written in the same
  transaction as the messages, and read by none of the models.
* Artifact chunk embeddings: they share the claim statement of `EmbeddingQueue`.
* The contents of Curator plans, their validation and the selection of candidates: whether
  a plan is valid is one of its possible outcomes in `Plan`.
* Research and networking mutations beyond the writers they call: authentication,
  validation, and the comparison of a replayed row with the request change no state.
* Retrieval and ranking, HTTP routing and authentication, configuration, schema
  description, the web UI and command-line clients: no durable state, or only reads of it.

## 7. Plan

Next proof: `MergeKeepsLinks` of `MemoryWorkers`.

Abstract specifications worth stating then: an idempotent request log (universal apply,
intake, purges and external actions), and a lease queue (Curator Runs, embeddings, review
and capture) that the modules are shown to implement. Models worth adding: identities and
participants of ingest, Artifact chunks of the embedding queue.
