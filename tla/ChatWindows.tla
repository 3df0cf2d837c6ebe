----------------------------- MODULE ChatWindows -----------------------------
(***************************************************************************)
(* How captured conversation messages are cut into Curator windows.        *)
(*                                                                         *)
(* Three writers store messages or cut windows, each in one transaction    *)
(* that holds the Chat: the Slack ingest handler (ingest.rs), the Codex    *)
(* capture handler (codex.rs) and the inactivity pass of the background    *)
(* worker (ingest.rs, main.rs).  A window is a contiguous range of the     *)
(* Chat's messages, recorded either as a queued `curator` Run or as a      *)
(* `curator_skipped` trace entry.  Here a transaction is one step;         *)
(* ChatWindowTx refines the transactions into their statements and locks.  *)
(***************************************************************************)
EXTENDS Integers, FiniteSets, Sequences, SequencesExt

CONSTANTS
    SlackChats,       \* Chats with provider 'slack'
    CodexChats,       \* Chats with provider 'codex', captured with curation on
    FenceableChats,   \* Slack Chats an owner may fence (reviewed maintenance)
    HumanMessages,    \* messages whose sender is a human
    ReplyMessages,    \* agent messages with content worth curating
    StatusMessages,   \* agent messages that is_non_durable_status matches
    Batch             \* 100: messages per capture request and per Codex window

Chats == SlackChats \cup CodexChats
Messages == HumanMessages \cup ReplyMessages \cup StatusMessages

ASSUME ChatsAssumption ==
    /\ SlackChats \cap CodexChats = {}
    /\ FenceableChats \subseteq SlackChats
ASSUME MessagesAssumption == IsFiniteSet(Messages)
ASSUME BatchAssumption == Batch \in Nat \ {0}

VARIABLES
    log,       \* chat_messages of each Chat in ingestion_sequence order
    cursor,    \* position of curation_queued_through_message_id, 0 for NULL
    windows,   \* the windows cut so far and what became of them
    fenced     \* Chats with a row in maintenance_execution_fences

vars == <<log, cursor, windows, fenced>>

Window == [chat : Chats, first : Nat, last : Nat, fate : {"queued", "skipped"}]

Pending(c) == Len(log[c]) - cursor[c]

-----------------------------------------------------------------------------
(* queue_next_window: what one call does with the messages after `lo`.     *)

\* Agent messages are present and every one of them is a status line.
StatusOnly(msgs, lo, hi) ==
    LET agent == {msgs[p] : p \in (lo + 1)..hi} \ HumanMessages
    IN  agent # {} /\ agent \subseteq StatusMessages

\* Fault: a status-only window recorded under a fate of its own.
FateOfStatus(msgs, lo, hi, owned) ==
    IF owned THEN "skipped" ELSE IF StatusOnly(msgs, lo, hi) THEN "status" ELSE "queued"

Fate(msgs, lo, hi, owned) ==
    IF owned \/ StatusOnly(msgs, lo, hi) THEN "skipped" ELSE "queued"

\* Fault: no limit for Codex Chats.
WindowEndUnlimited(c, msgs, lo) == Len(msgs)

\* Where the next window ends: all pending messages, at most Batch for Codex.
WindowEnd(c, msgs, lo) ==
    IF c \in CodexChats /\ Len(msgs) - lo > Batch THEN lo + Batch ELSE Len(msgs)

\* Fault: the window starts with the message the cursor already names.
CutInclusive(c, msgs, lo, hi, owned) ==
    {w \in {[chat |-> c, first |-> lo, last |-> hi,
             fate |-> Fate(msgs, lo, hi, owned)]} : lo < hi}

\* The record left for the range after lo up to hi: none for an empty range.
Cut(c, msgs, lo, hi, owned) ==
    {w \in {[chat |-> c, first |-> lo + 1, last |-> hi,
             fate |-> Fate(msgs, lo, hi, owned)]} : lo < hi}

\* Fault: late messages ordered by their source time, before those already stored.
AppendedInFront(c, batch) == {new \o log[c] : new \in SetToSeqs(batch \ Range(log[c]))}

\* ON CONFLICT (chat, provider_message_id) DO NOTHING: only new messages of the
\* batch are appended, in the order the request lists them.
Appended(c, batch) == {log[c] \o new : new \in SetToSeqs(batch \ Range(log[c]))}

-----------------------------------------------------------------------------
Init ==
    /\ log = [c \in Chats |-> <<>>]
    /\ cursor = [c \in Chats |-> 0]
    /\ windows = {}
    /\ fenced = {}

\* POST .../slack/interactions: store the batch, and when the interaction is
\* finished cut everything pending; a workflow that owns the mutation
\* suppresses curation of the window.
Ingest(c, batch, finished, owned) ==
    /\ c \notin fenced
    /\ \E msgs \in Appended(c, batch) :
         LET hi == IF finished THEN WindowEnd(c, msgs, cursor[c]) ELSE cursor[c]
         IN  /\ log' = [log EXCEPT ![c] = msgs]
             /\ cursor' = [cursor EXCEPT ![c] = hi]
             /\ windows' = windows \cup Cut(c, msgs, cursor[c], hi, owned)
    /\ UNCHANGED fenced

\* Fault: an unfinished Chat waits for one message more than a full window.
DrainRoundLate(c, msgs, lo, finished) ==
    IF Len(msgs) = lo \/ (~finished /\ Len(msgs) - lo <= Batch)
    THEN lo
    ELSE WindowEnd(c, msgs, lo)

\* One round of the capture handler's drain loop: where the cursor ends.
DrainRound(c, msgs, lo, finished) ==
    IF Len(msgs) = lo \/ (~finished /\ Len(msgs) - lo < Batch)
    THEN lo
    ELSE WindowEnd(c, msgs, lo)

\* POST .../codex/captures: store at most Batch messages, then two rounds.
Capture(c, batch, finished) ==
    /\ Cardinality(batch) <= Batch
    /\ \E msgs \in Appended(c, batch) :
         LET mid == DrainRound(c, msgs, cursor[c], finished)
             hi == DrainRound(c, msgs, mid, finished)
         IN  /\ log' = [log EXCEPT ![c] = msgs]
             /\ cursor' = [cursor EXCEPT ![c] = hi]
             /\ windows' = windows \cup Cut(c, msgs, cursor[c], mid, FALSE)
                                   \cup Cut(c, msgs, mid, hi, FALSE)
    /\ UNCHANGED fenced

\* Fault: a Chat with a single message waiting is not worth a pass.
InactiveMany == {c \in SlackChats : Pending(c) > 1}

\* Slack Chats the inactivity pass selects.  Time is abstracted: source
\* timestamps come from the provider, so any Chat may be past the cutoff.
Inactive == {c \in SlackChats : Pending(c) > 0}

\* The inactivity pass: one transaction over the selected Chats.  SKIP LOCKED
\* (a Chat some ingest transaction is writing) and LIMIT 100 leave a subset; if
\* one of them is fenced, the fence trigger raises and the pass rolls back.
InactivityPass(selected) ==
    /\ selected # {}
    /\ selected \cap fenced = {}
    /\ cursor' = [c \in Chats |-> IF c \in selected THEN Len(log[c]) ELSE cursor[c]]
    /\ windows' = windows \cup
         UNION {Cut(c, log[c], cursor[c], Len(log[c]), FALSE) : c \in selected}
    /\ UNCHANGED <<log, fenced>>

\* The owner cancels an abandoned interaction and fences its provider thread.
\* The request checks the Chat's Runs, never its unqueued messages.
Fence(c) ==
    /\ c \notin fenced
    /\ fenced' = fenced \cup {c}
    /\ UNCHANGED <<log, cursor, windows>>

Next ==
    \/ \E c \in SlackChats, batch \in (SUBSET Messages) \ {{}},
          finished, owned \in BOOLEAN : Ingest(c, batch, finished, owned)
    \/ \E c \in CodexChats, batch \in SUBSET Messages, finished \in BOOLEAN :
          Capture(c, batch, finished)
    \/ \E selected \in SUBSET Inactive : InactivityPass(selected)
    \/ \E c \in FenceableChats : Fence(c)

Spec == Init /\ [][Next]_vars

\* The inactivity worker polls for as long as the process runs (main.rs).  The
\* ingest transactions that hide a Chat from it are short, so passes that select
\* every inactive Chat recur; a fenced Chat, which nobody writes, is in all.
FairSpec == Spec /\ WF_vars(InactivityPass(Inactive))
-----------------------------------------------------------------------------
(* Properties                                                              *)

Covers(w, c, p) == w.chat = c /\ w.first <= p /\ p <= w.last

\* The tables hold what their columns allow: messages, cursors inside the log,
\* windows, fences on Slack Chats.
TypeOK ==
    /\ log \in [Chats -> Seq(Messages)]
    /\ cursor \in [Chats -> Nat]
    /\ windows \subseteq Window
    /\ fenced \subseteq SlackChats

\* queue_next_window, over any interleaving of ingest, capture and inactivity
\* passes, cuts every message up to the cursor into exactly one window, queued
\* or skipped, and no message beyond it into any: nothing is curated twice and
\* nothing is passed over.
WindowsPartition ==
    \A c \in Chats :
        /\ cursor[c] <= Len(log[c])
        /\ \A p \in 1..Len(log[c]) :
             /\ p <= cursor[c] <=> \E w \in windows : Covers(w, c, p)
             /\ \A v, w \in windows : Covers(v, c, p) /\ Covers(w, c, p) => v = w

\* The capture handler's drain loop keeps the backlog of an unfinished Codex
\* Chat below one window, whatever sequence of batches and finishes preceded
\* ("queue full windows so evidence cannot grow unbounded", codex.rs).
CodexBacklogBounded == \A c \in CodexChats : Pending(c) < Batch

\* Two drain rounds are enough: a capture that finishes a turn leaves nothing
\* pending, although it adds up to Batch messages to what was waiting, and no
\* window it cuts exceeds the Batch messages one Curator prompt may hold.
FinishDrains ==
    [][\A c \in CodexChats, batch \in SUBSET Messages :
         Capture(c, batch, TRUE) =>
             /\ Pending(c)' = 0
             /\ \A w \in windows' \ windows : w.last - w.first < Batch]_vars

\* The disposition of each message that the log and the windows stand for.
DispositionOf(c, m) ==
    LET covering == {w \in windows : \E p \in w.first..w.last :
                        Covers(w, c, p) /\ log[c][p] = m}
    IN  IF m \notin Range(log[c]) THEN "absent"
        ELSE IF covering = {} THEN "waiting"
        ELSE (CHOOSE w \in covering : TRUE).fate

Ledger == INSTANCE MessageLedger WITH
    disposition <- [c \in Chats |-> [m \in Messages |-> DispositionOf(c, m)]]

\* The cursor and windows implement the ledger: under redelivery and any mix of
\* triggers a message is disposed of at most once, for good, and in order.
LedgerSpec == Ledger!Spec

\* While no Chat is fenced, the inactivity pass eventually cuts whatever a Slack
\* Chat has waiting, however often new messages arrive or other triggers cut.
InactivityQueuesUnfenced ==
    \A c \in SlackChats : Pending(c) > 0 ~> (Pending(c) = 0 \/ fenced # {})

\* The inactivity pass eventually cuts whatever a Slack Chat has waiting, unless
\* that Chat is itself fenced (README.md: a Run is queued for the next eligible,
\* unqueued window "on completion or inactivity").
InactivityQueues ==
    \A c \in SlackChats : Pending(c) > 0 ~> (Pending(c) = 0 \/ c \in fenced)
=============================================================================
