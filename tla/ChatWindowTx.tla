---------------------------- MODULE ChatWindowTx -----------------------------
(***************************************************************************)
(* The Slack transactions of ChatWindows, statement by statement.          *)
(*                                                                         *)
(* Postgres runs them READ COMMITTED: every statement sees the committed   *)
(* rows and its own.  What makes each transaction one step of ChatWindows  *)
(* is the locks they take: the advisory lock of the provider thread, the   *)
(* row of the latest interaction Run, KEY SHARE on the Chat row (foreign   *)
(* key of every stored message), FOR NO KEY UPDATE or FOR UPDATE on the    *)
(* Chat row, and the fence table's SHARE lock.  ingestion_sequence numbers *)
(* are drawn when a row is inserted, long before it becomes visible.       *)
(***************************************************************************)
EXTENDS Integers, FiniteSets, Sequences, SequencesExt

CONSTANTS
    SlackChats, FenceableChats, HumanMessages, ReplyMessages, StatusMessages,
    Ingesters,     \* concurrent ingest requests
    Sweepers,      \* inactivity workers, one per replica
    NoTx,          \* the holder of a free lock
    MaxBatch,      \* messages in a request: bounds the model's requests
    MaxSerial      \* ingestion_sequence values drawn: bounds rolled-back inserts

Messages == HumanMessages \cup ReplyMessages \cup StatusMessages
Tx == Ingesters \cup Sweepers

ASSUME TxAssumption == NoTx \notin Tx /\ Ingesters \cap Sweepers = {}
ASSUME BoundsAssumption == MaxBatch \in Nat /\ MaxSerial \in Nat

VARIABLES
    rows,       \* committed chat_messages
    serial,     \* last ingestion_sequence drawn, committed or not
    through,    \* ingestion_sequence of the queued cursor of each Chat
    cuts,       \* committed windows, by ingestion_sequence
    fenced,     \* Chats with a fence row
    advisory,   \* holder of pg_advisory_xact_lock of each provider thread
    runRow,     \* holder of the row lock on the latest interaction Run
    keyShare,   \* transactions holding KEY SHARE on the Chat row
    chatRow,    \* holder of FOR [NO KEY] UPDATE on the Chat row
    tx          \* the local state of each transaction

tables == <<rows, serial, through, cuts, fenced>>
locks == <<advisory, runRow, keyShare, chatRow>>
vars == <<tables, locks, tx>>

Row == [chat : SlackChats, msg : Messages, at : 1..MaxSerial]
Interval == [chat : SlackChats, first : 1..MaxSerial, last : 1..MaxSerial,
             fate : {"queued", "skipped"}]

\* An ingest request: the messages it carries in order, whether it continues an
\* interaction whose Run exists, finishes it, and is owned by a workflow.
Requests == {r \in [chat : SlackChats, msgs : SeqOf(Messages, MaxBatch),
                    continues : BOOLEAN, finished : BOOLEAN, owned : BOOLEAN] :
                r.msgs # <<>>}

Idle == [pc |-> "idle", todo |-> <<>>, own |-> {}, cut |-> {}]

-----------------------------------------------------------------------------
(* Reads                                                                   *)

Stored(c, own) == {r \in rows \cup own : r.chat = c}

\* The statement of queue_next_window: messages beyond the committed cursor.
Unqueued(c, own) == {r \in Stored(c, own) : r.at > through[c]}

WindowFate(seen, owned) ==
    LET agent == {r.msg : r \in seen} \ HumanMessages
    IN  IF owned \/ (agent # {} /\ agent \subseteq StatusMessages)
        THEN "skipped" ELSE "queued"

\* The window queue_next_window records for the rows it saw, if it saw any.
NextWindow(c, own, owned) ==
    LET seen == Unqueued(c, own)
        at == {r.at : r \in seen}
    IN  IF seen = {} THEN {}
        ELSE {[chat |-> c, first |-> Min(at), last |-> Max(at),
               fate |-> WindowFate(seen, owned)]}

\* The cursor after the windows in `new` become visible.
CursorAfter(new) ==
    [c \in SlackChats |-> Max({through[c]} \cup {w.last : w \in {v \in new : v.chat = c}})]

-----------------------------------------------------------------------------
(* Locks                                                                   *)

Free(holder, t) == holder \in {NoTx, t}

\* Ingest takes the fence table's SHARE lock first; a sweep takes it with its
\* first write, when the fence trigger runs.
HoldsFenceShare(t) == IF t \in Ingesters THEN tx[t].pc # "idle" ELSE tx[t].cut # {}

\* Fault: the foreign key's lock outlives the transaction.
ReleaseRows(t) ==
    /\ advisory' = [c \in SlackChats |-> IF advisory[c] = t THEN NoTx ELSE advisory[c]]
    /\ runRow' = [c \in SlackChats |-> IF runRow[c] = t THEN NoTx ELSE runRow[c]]
    /\ chatRow' = [c \in SlackChats |-> IF chatRow[c] = t THEN NoTx ELSE chatRow[c]]
    /\ tx' = [tx EXCEPT ![t] = Idle]
    /\ UNCHANGED keyShare

\* COMMIT and ROLLBACK release every lock of the transaction.
Release(t) ==
    /\ advisory' = [c \in SlackChats |-> IF advisory[c] = t THEN NoTx ELSE advisory[c]]
    /\ runRow' = [c \in SlackChats |-> IF runRow[c] = t THEN NoTx ELSE runRow[c]]
    /\ keyShare' = [c \in SlackChats |-> keyShare[c] \ {t}]
    /\ chatRow' = [c \in SlackChats |-> IF chatRow[c] = t THEN NoTx ELSE chatRow[c]]
    /\ tx' = [tx EXCEPT ![t] = Idle]

-----------------------------------------------------------------------------
(* The ingest transaction                                                  *)

Request(h) == tx[h].req
At(h, pc) == tx[h].pc = pc

\* LOCK TABLE maintenance_execution_fences IN SHARE MODE and the fence check.
Begin(h, r) ==
    /\ At(h, "idle")
    /\ r.chat \notin fenced
    /\ r.continues => \E o \in rows : o.chat = r.chat
    /\ tx' = [tx EXCEPT ![h] = [pc |-> "begun", req |-> r, todo |-> r.msgs,
                                own |-> {}, cut |-> {}]]
    /\ UNCHANGED <<tables, locks>>

\* Fault: no advisory lock.
LockNothing(h) ==
    /\ At(h, "begun")
    /\ tx' = [tx EXCEPT ![h].pc = "locked"]
    /\ UNCHANGED <<tables, locks>>

\* advisory_lock on the provider thread, held to the end of the transaction.
LockThread(h) ==
    /\ At(h, "begun")
    /\ advisory[Request(h).chat] = NoTx
    /\ advisory' = [advisory EXCEPT ![Request(h).chat] = h]
    /\ tx' = [tx EXCEPT ![h].pc = "locked"]
    /\ UNCHANGED <<tables, runRow, keyShare, chatRow>>

\* open_slack_interaction: SELECT ... FOR UPDATE of an existing Run, or a new
\* Run nobody else can see yet, whose foreign key takes KEY SHARE on the Chat.
OpenRun(h) ==
    LET c == Request(h).chat
    IN  /\ At(h, "locked")
        /\ IF Request(h).continues
           THEN /\ Free(runRow[c], h)
                /\ runRow' = [runRow EXCEPT ![c] = h]
                /\ UNCHANGED keyShare
           ELSE /\ chatRow[c] \notin Sweepers
                /\ keyShare' = [keyShare EXCEPT ![c] = @ \cup {h}]
                /\ UNCHANGED runRow
        /\ tx' = [tx EXCEPT ![h].pc = "storing"]
        /\ UNCHANGED <<tables, advisory, chatRow>>

\* insert_message: the foreign key takes KEY SHARE on the Chat row, which waits
\* for a sweep's FOR UPDATE; the unique index waits for another transaction's
\* uncommitted row of the same message, and a stored message is left alone.
Store(h) ==
    LET c == Request(h).chat
        m == Head(tx[h].todo)
        new == [chat |-> c, msg |-> m, at |-> serial + 1]
    IN  /\ At(h, "storing")
        /\ tx[h].todo # <<>>
        /\ chatRow[c] \notin Sweepers
        /\ \A o \in Ingesters \ {h} : \A r \in tx[o].own : r.chat = c => r.msg # m
        /\ IF \E r \in Stored(c, tx[h].own) : r.msg = m
           THEN /\ tx' = [tx EXCEPT ![h].todo = Tail(@)]
                /\ UNCHANGED <<serial, keyShare>>
           ELSE /\ serial < MaxSerial
                /\ serial' = serial + 1
                /\ keyShare' = [keyShare EXCEPT ![c] = @ \cup {h}]
                /\ tx' = [tx EXCEPT ![h].todo = Tail(@), ![h].own = @ \cup {new}]
        /\ UNCHANGED <<rows, through, cuts, fenced, advisory, runRow, chatRow>>

\* UPDATE chats SET latest_source_message_at: FOR NO KEY UPDATE, compatible with
\* the KEY SHARE of others; then queue_next_window reads, if finished.
Touch(h) ==
    LET c == Request(h).chat
    IN  /\ At(h, "storing")
        /\ tx[h].todo = <<>>
        /\ Free(chatRow[c], h)
        /\ chatRow' = [chatRow EXCEPT ![c] = h]
        /\ tx' = [tx EXCEPT ![h].pc = IF Request(h).finished THEN "queueing" ELSE "done"]
        /\ UNCHANGED <<tables, advisory, runRow, keyShare>>

QueueWindow(h) ==
    /\ At(h, "queueing")
    /\ tx' = [tx EXCEPT ![h].pc = "done",
                        ![h].cut = NextWindow(Request(h).chat, tx[h].own, Request(h).owned)]
    /\ UNCHANGED <<tables, locks>>

\* COMMIT: the rows, the window and the cursor become visible together.
Commit(h) ==
    /\ At(h, "done")
    /\ rows' = rows \cup tx[h].own
    /\ cuts' = cuts \cup tx[h].cut
    /\ through' = CursorAfter(tx[h].cut)
    /\ Release(h)
    /\ UNCHANGED <<serial, fenced>>

-----------------------------------------------------------------------------
(* The inactivity pass                                                     *)

\* SELECT ... FOR UPDATE SKIP LOCKED: the Chats past the cutoff, any of those
\* with unqueued messages, whose row no one holds in a conflicting mode.
SelectInactive(w) ==
    \E found \in SUBSET {c \in SlackChats : /\ Unqueued(c, {}) # {}
                                       /\ keyShare[c] = {}
                                       /\ chatRow[c] = NoTx} :
        /\ At(w, "idle")
        /\ found # {}
        /\ chatRow' = [c \in SlackChats |-> IF c \in found THEN w ELSE chatRow[c]]
        /\ tx' = [tx EXCEPT ![w].pc = "sweeping", ![w].todo = SetToSeq(found)]
        /\ UNCHANGED <<tables, advisory, runRow, keyShare>>

\* One Chat of the pass: lock its latest interaction Run, read the window again,
\* write.  The fence trigger refuses a fenced Chat, and the pass can only Abort.
SweepChat(w) ==
    LET c == Head(tx[w].todo)
    IN  /\ At(w, "sweeping")
        /\ tx[w].todo # <<>>
        /\ c \notin fenced
        /\ Free(runRow[c], w)
        /\ runRow' = [runRow EXCEPT ![c] = w]
        /\ tx' = [tx EXCEPT ![w].todo = Tail(@),
                            ![w].cut = @ \cup NextWindow(c, {}, FALSE)]
        /\ UNCHANGED <<tables, advisory, keyShare, chatRow>>

CommitSweep(w) ==
    /\ At(w, "sweeping")
    /\ tx[w].todo = <<>>
    /\ cuts' = cuts \cup tx[w].cut
    /\ through' = CursorAfter(tx[w].cut)
    /\ Release(w)
    /\ UNCHANGED <<rows, serial, fenced>>

-----------------------------------------------------------------------------
\* ROLLBACK: a statement failed, the connection or the process died, or the
\* deadlock detector chose this transaction.
Abort(t) ==
    /\ ~At(t, "idle")
    /\ Release(t)
    /\ UNCHANGED tables

\* Fault: the fence is inserted without the table lock.
FenceAtOnce(c) ==
    /\ c \notin fenced
    /\ fenced' = fenced \cup {c}
    /\ UNCHANGED <<rows, serial, through, cuts, locks, tx>>

\* Reviewed cancellation: EXCLUSIVE on the fence table waits for every SHARE.
Fence(c) ==
    /\ c \notin fenced
    /\ \A t \in Tx : ~HoldsFenceShare(t)
    /\ fenced' = fenced \cup {c}
    /\ UNCHANGED <<rows, serial, through, cuts, locks, tx>>

Init ==
    /\ rows = {} /\ serial = 0 /\ cuts = {} /\ fenced = {}
    /\ through = [c \in SlackChats |-> 0]
    /\ advisory = [c \in SlackChats |-> NoTx]
    /\ runRow = [c \in SlackChats |-> NoTx]
    /\ chatRow = [c \in SlackChats |-> NoTx]
    /\ keyShare = [c \in SlackChats |-> {}]
    /\ tx = [t \in Tx |-> Idle]

IngestStep(h) ==
    \/ LockThread(h) \/ OpenRun(h) \/ Store(h) \/ Touch(h) \/ QueueWindow(h) \/ Commit(h)

SweepStep(w) == SweepChat(w) \/ CommitSweep(w)

Next ==
    \/ \E h \in Ingesters : \E r \in Requests : Begin(h, r)
    \/ \E h \in Ingesters : IngestStep(h)
    \/ \E w \in Sweepers : SelectInactive(w)
    \/ \E w \in Sweepers : SweepStep(w)
    \/ \E t \in Tx : Abort(t)
    \/ \E c \in FenceableChats : Fence(c)

Spec == Init /\ [][Next]_vars
-----------------------------------------------------------------------------
(* Properties                                                              *)

\* Committed rows, windows and cursors refer to drawn sequence numbers, and
\* every lock is held by a running transaction of the kind that takes it.
TypeOK ==
    /\ rows \subseteq Row
    /\ serial \in 0..MaxSerial
    /\ through \in [SlackChats -> 0..serial]
    /\ cuts \subseteq Interval
    /\ fenced \subseteq FenceableChats
    /\ advisory \in [SlackChats -> Ingesters \cup {NoTx}]
    /\ runRow \in [SlackChats -> Tx \cup {NoTx}]
    /\ keyShare \in [SlackChats -> SUBSET Ingesters]
    /\ chatRow \in [SlackChats -> Tx \cup {NoTx}]
    /\ \A t \in Tx : /\ tx[t].own \subseteq Row
                      /\ tx[t].cut \subseteq Interval
                      /\ At(t, "idle") => \A c \in SlackChats :
                            t \notin {advisory[c], runRow[c], chatRow[c]} \cup keyShare[c]

\* A sequence number is drawn at INSERT and visible only at COMMIT, so a cursor
\* could pass a message it has never seen.  The thread's advisory lock and the
\* Chat's row locks prevent it: no message ever becomes visible at or below the
\* cursor that stood, or was moved, when it was committed by someone else.
NoLateCommit ==
    [][\A r \in rows' \ rows : r.at > through[r.chat]]_vars

\* Where a number stands in the ingestion_sequence order of a Chat, and the message there.
Position(c, at) == Cardinality({r \in Stored(c, {}) : r.at <= at})
MessageAt(c, p) == (CHOOSE r \in Stored(c, {}) : Position(c, r.at) = p).msg

\* The committed tables, by positions.
Log == [c \in SlackChats |-> [p \in 1..Cardinality(Stored(c, {})) |-> MessageAt(c, p)]]
Cursor == [c \in SlackChats |-> Position(c, through[c])]
Windows == {[chat |-> w.chat, first |-> Position(w.chat, w.first),
             last |-> Position(w.chat, w.last), fate |-> w.fate] : w \in cuts}

CW == INSTANCE ChatWindows WITH
    CodexChats <- {}, Batch <- MaxBatch, log <- Log, cursor <- Cursor, windows <- Windows

\* Under READ COMMITTED these locks make every committed transaction one atomic
\* step of ChatWindows, and every aborted one no step at all.
TransactionsAreAtomic == CW!Spec
=============================================================================
