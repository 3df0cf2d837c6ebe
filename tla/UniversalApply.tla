--------------------------- MODULE UniversalApply ---------------------------
(***************************************************************************)
(* context_apply (universal.rs): a batch of operations in one transaction. *)
(*                                                                         *)
(* A batch first takes the fence table's share lock and then the advisory  *)
(* lock under which all batches take turns.  It claims its idempotency     *)
(* key, runs its operations one by one on rows it locks and reads through  *)
(* its own changes, and commits rows, journal and receipt together; the    *)
(* first operation that is refused rolls everything back.  Other writers   *)
(* commit between its steps (ContextWriters).                              *)
(***************************************************************************)
EXTENDS ContextStore

VARIABLES
    work,        \* the batches and calls clients send, each any number of times
    waiting,     \* batches past the fence check, and when they began
    tx,          \* the batch that holds the advisory lock
    receipts,    \* context_apply_requests, by principal and key
    cutover      \* synthesis has taken over the Memories (event_memory.rs)

applyVars == <<store, work, waiting, tx, receipts, cutover>>

NoTx == [step |-> 0, held |-> {}, row |-> << >>, art |-> << >>, corr |-> {}]

Begun(b, at) == [batch |-> b, at |-> at, step |-> 1, held |-> {},
                 row |-> << >>, art |-> << >>, corr |-> {}, log |-> << >>]

\* What the statements of the batch read: committed rows under its own changes.
Rows == Over(tx.row, row)
Arts == Over(tx.art, art)
Corrections == corr \cup tx.corr

Created(b) == SelectSeq(b.ops, LAMBDA op : op.op = "create_object")

\* After its operations a batch connects its Chat to every new Object.
ChatLink(b, i) ==
    [op |-> "create_connection", on |-> Created(b)[i].link, src |-> b.chat,
     kind |-> "about", dst |-> Created(b)[i].on]

Steps(b) == Len(b.ops) + IF b.chat = None THEN 0 ELSE Len(Created(b))

Req == tx.batch
Op == IF tx.step <= Len(Req.ops) THEN Req.ops[tx.step] ELSE ChatLink(Req, tx.step - Len(Req.ops))
Running == tx # NoTx /\ tx.step <= Steps(tx.batch)
Finished == tx # NoTx /\ tx.step > Steps(tx.batch)

-----------------------------------------------------------------------------
(* Before the first operation                                              *)

\* Only reviewed maintenance may use update_description.
WithinAuthority(b) ==
    b.maint \/ \A op \in Range(b.ops) : op.op # "update_description"

\* A new Object needs a Connection in its batch, or a Chat, or is a standalone Note.
NewObjectsConnected(b) ==
    b.chat # None \/ \A new \in Range(Created(b)) :
        \/ new.fields.kind = "note" /\ new.fields.cites = None
        \/ \E link \in Range(b.ops) : /\ link.op = "create_connection"
                                     /\ new.on \in {link.src, link.dst}

MemoryOps == {"update_object", "update_description", "archive_object", "restore_object"}

\* After the cutover an agent's ordinary batch may not write a Memory.
LeavesMemories(b) ==
    cutover /\ b.who \notin Humans /\ ~b.maint =>
        \A op \in Range(b.ops) :
            /\ ~(op.op = "create_object" /\ op.fields.kind = "memory")
            /\ ~(op.op \in MemoryOps /\ op.on \in OfKind(row, "memory"))

Makes(b, id) == \E op \in Range(b.ops) : op.op = "create_object" /\ op.on = id

\* Ids are the server's: a client names the Objects it has seen or makes.
NamesSeen(b) ==
    \A op \in Range(b.ops) : op.op \in MemoryOps => op.on \in DOMAIN row \/ Makes(b, op.on)

Submit(b) ==
    /\ WithinAuthority(b) /\ NamesSeen(b)
    /\ b.thread \notin fenced
    /\ \A w \in waiting : w.batch # b
    /\ waiting' = waiting \cup {[batch |-> b, at |-> BeginsNow]}
    /\ UNCHANGED <<store, work, tx, receipts, cutover>>

\* Fault: the receipt stands for the request's text.
ReceiptOfText(b) == <<b.who, b.ops>>

Receipt(b) == <<b.who, b.key>>

\* Under the advisory lock: a used key answers or refuses, and runs nothing.
Start(w) ==
    /\ tx = NoTx
    /\ waiting' = waiting \ {w}
    /\ IF /\ LeavesMemories(w.batch)
          /\ w.batch.dry \/ Receipt(w.batch) \notin DOMAIN receipts
          /\ NewObjectsConnected(w.batch)
       THEN tx' = [Begun(w.batch, w.at) EXCEPT !.held =
                       UNION {{op.on, op.to} : op \in {o \in Range(w.batch.ops) : o.op = "reassign"}}]
       ELSE tx' = tx
    /\ UNCHANGED <<store, work, receipts, cutover>>

-----------------------------------------------------------------------------
(* Guards of the operations                                                *)

\* The row of the table that the operation is about, at the revision it names.
AtRevision(table, id, rev) == id \in OfTable(Rows, table) /\ Rows[id].rev = rev

MaintainedKinds == {"source", "note", "entity", "theme", "task"}

\* lock_writable_object
Writable(id) == /\ Live(Rows, id) /\ Rows[id].table = "object"
                /\ Req.maint => Rows[id].kind \in MaintainedKinds

\* validate_endpoints
EndpointsAllowed(src, kind, dst) ==
    /\ src # dst /\ Live(Rows, src) /\ Live(Rows, dst)
    /\ kind = "derived_from" /\ Rows[src].kind = "note" /\ Rows[src].cites # None
          => Arts[Rows[src].cites].of = dst
    /\ kind = "themed" => Rows[src].kind # "theme" /\ Rows[dst].kind = "theme"

\* Event evidence is committed, and no active Event refers to it.
EvidenceAllowed(fields) ==
    fields.kind = "event" => \A o \in OfKind(Rows, "event") :
                                 Rows[o].live => Rows[o].evidence \cap fields.evidence = {}

\* The row an update leaves: a change of subtype fields goes through the Task's
\* trigger; the text is Req's in any case.
Updated(old, set, actor) ==
    LET new == With(Touched(old, Req.key), set) IN
    IF old.kind = "task" /\ set # << >> THEN Claimed(old, new, actor) ELSE new

\* Fault: the Source a Note already derives from is not compared.
CitationExists(id, old, new) == new.cites # None => new.cites \in DOMAIN Arts

\* validate_note_evidence
CitationAllowed(id, old, new) ==
    /\ new.cites # None => new.cites \in DOMAIN Arts
    /\ old # NoRow => ~Miscites(Over(At(id, new), Rows), Arts, id)

SubtypeAllowed(id, old, new) ==
    CASE new.kind = "task" -> TaskAllowed(Rows, old, new, Req.who)
      [] new.kind = "entity" -> \A c \in new.cats : Live(Rows, c) \/ (old # NoRow /\ c \in old.cats)
      [] new.kind = "note" -> CitationAllowed(id, old, new)
      [] OTHER -> TRUE

CanUpdate(op) ==
    /\ Writable(op.on) /\ AtRevision("object", op.on, op.rev)
    /\ op.set # << >> =>
         /\ ~("status" \in DOMAIN op.set /\ op.set.status = "doing" /\ Rows[op.on].status = "doing")
         /\ SubtypeAllowed(op.on, Rows[op.on], Updated(Rows[op.on], op.set, Req.who))

\* Fault: Connections are left behind.
CanArchiveConnected(op) ==
    Writable(op.on) /\ AtRevision("object", op.on, op.rev) /\ TasksOwnedBy(Rows, op.on) = {}

\* An Object is archived after its Connections, a User after leaving her Tasks.
CanArchive(op) ==
    /\ Writable(op.on) /\ AtRevision("object", op.on, op.rev)
    /\ LinksOf(Rows, op.on) = {} /\ TasksOwnedBy(Rows, op.on) = {}

CanPromote(op) ==
    /\ Writable(op.on) /\ AtRevision("object", op.on, op.rev) /\ Rows[op.on].kind = "source"
    /\ op.art \in DOMAIN Arts /\ Arts[op.art].of = op.on /\ Arts[op.art].body # None

\* A Chat takes over an imported identity when it has none, a User any.
CanReassign(op) ==
    /\ op.on # op.to /\ AtRevision("object", op.on, op.rev) /\ AtRevision("object", op.to, op.torev)
    /\ Rows[op.on].kind \in {"chat", "user"}
    /\ Rows[op.to].kind = Rows[op.on].kind /\ Rows[op.to].live
    /\ op.what \in Rows[op.on].holds
    /\ Rows[op.to].kind = "chat" => Rows[op.to].holds = {}

CanRestoreObject(op) ==
    /\ AtRevision("object", op.on, op.rev) /\ ~Rows[op.on].live
    /\ Rows[op.on].kind = "task" => Live(Rows, Rows[op.on].owner)

\* The corrected evidence belongs to the Object that is corrected.
CanCorrect(op) ==
    /\ AtRevision("object", op.on, op.rev)
    /\ op.about = op.on \/ (op.about \in DOMAIN Arts /\ Arts[op.about].of = op.on)

CanRestoreConnection(op) ==
    /\ AtRevision("connection", op.on, op.rev) /\ ~Rows[op.on].live
    /\ EndpointsAllowed(Rows[op.on].src, Rows[op.on].kind, Rows[op.on].dst)
    /\ SameLink(Rows, Rows[op.on].src, Rows[op.on].kind, Rows[op.on].dst) = {}

CanUpdateConnection(op) ==
    /\ Live(Rows, op.on) /\ AtRevision("connection", op.on, op.rev)
    /\ EndpointsAllowed(Rows[op.on].src, op.kind, Rows[op.on].dst)
    /\ SameLink(Rows, Rows[op.on].src, op.kind, Rows[op.on].dst) \subseteq {op.on}

\* Maintenance changes a Connection by its id and revision only.
CanConnect(op) ==
    /\ EndpointsAllowed(op.src, op.kind, op.dst)
    /\ Req.maint => \A c \in SameLink(Rows, op.src, op.kind, op.dst) :
                        Rows[c].first = Req.key /\ Rows[c].says = {}

CanAppend(op) ==
    /\ Writable(op.on) /\ AtRevision("object", op.on, op.rev)
    /\ op.pred # None => op.pred \in DOMAIN Arts /\ Arts[op.pred].of = op.on

\* Fault: without the trigger.
CanChangeUsedCategory(op) == AtRevision("category", op.on, op.rev)

\* entity_categories::mutate and the trigger guard_category_archive
CanChangeCategory(op) ==
    /\ AtRevision("category", op.on, op.rev)
    /\ op.to = "archived" /\ Rows[op.on].live =>
         \A o \in OfKind(Rows, "entity") : Rows[o].live => op.on \notin Rows[o].cats

CanCreate(op) ==
    /\ EvidenceAllowed(op.fields)
    /\ SubtypeAllowed(op.on, NoRow, NewObject(op.fields, Req.key))

Allowed(op) ==
    CASE op.op = "create_object" -> CanCreate(op)
      [] op.op = "update_object" -> CanUpdate(op)
      [] op.op = "update_description" -> AtRevision("object", op.on, op.rev)
      [] op.op = "promote_source_artifact" -> CanPromote(op)
      [] op.op = "archive_object" -> CanArchive(op)
      [] op.op = "reassign" -> CanReassign(op)
      [] op.op = "restore_object" -> CanRestoreObject(op)
      [] op.op = "rebuild_derived" -> AtRevision("object", op.on, op.rev)
      [] op.op = "correct_evidence" -> CanCorrect(op)
      [] op.op = "restore_connection" -> CanRestoreConnection(op)
      [] op.op = "create_connection" -> CanConnect(op)
      [] op.op = "update_connection" -> CanUpdateConnection(op)
      [] op.op = "archive_connection" -> Live(Rows, op.on) /\ AtRevision("connection", op.on, op.rev)
      [] op.op = "append_artifact" -> CanAppend(op)
      [] op.op = "create_category" -> TRUE
      [] op.op = "change_category" -> CanChangeCategory(op)

-----------------------------------------------------------------------------
(* One action per operation                                                *)

Run(b) == <<"context_apply", b.who, b.key>>

\* record_event_with_before: the snapshot is the one read under the row's lock.
Logged(id, new, locked) ==
    Event(id, Run(Req), Req, tx.at, IF locked THEN Rows[id].rev ELSE 0,
          IF locked THEN Rows[id] ELSE NoRow, new, TRUE)

Step(op) == Running /\ Op.op = op /\ Allowed(Op)

\* Fault: rows are written without their lock.
EffectUnlocked(locks, rows, log) ==
    /\ tx' = [tx EXCEPT !.step = @ + 1, !.row = Over(rows, @), !.log = @ \o log]
    /\ UNCHANGED <<store, work, waiting, receipts, cutover>>

\* The statement's effect inside the transaction: locks it takes, rows it writes.
Effect(locks, rows, log) ==
    /\ tx' = [tx EXCEPT !.step = @ + 1, !.held = @ \cup locks,
                        !.row = Over(rows, @), !.log = @ \o log]
    /\ UNCHANGED <<store, work, waiting, receipts, cutover>>

Rewrite(id, new) == Effect({id}, At(id, new), <<Logged(id, new, TRUE)>>)
\* Ids are drawn when the row is made.
Insert(id, new, locks) ==
    id \in Ids \ DOMAIN Rows /\ Effect({id} \cup locks, At(id, new), <<Logged(id, new, FALSE)>>)

CreateObject ==
    /\ Step("create_object")
    /\ LET new == NewObject(Op.fields, Req.key) IN
       Insert(Op.on, IF new.kind = "task" THEN Claimed(NoRow, new, Req.who) ELSE new, {})

UpdateObject == Step("update_object") /\ Rewrite(Op.on, Updated(Rows[Op.on], Op.set, Req.who))

\* Also of an archived Object.
UpdateDescription == Step("update_description") /\ Rewrite(Op.on, Touched(Rows[Op.on], Req.key))

PromoteSourceArtifact ==
    /\ Step("promote_source_artifact")
    /\ Rewrite(Op.on, [Touched(Rows[Op.on], Req.key) EXCEPT !.current = Op.art])

ArchiveObject ==
    /\ Step("archive_object")
    /\ Rewrite(Op.on, [Touched(Rows[Op.on], Req.key) EXCEPT !.live = FALSE])

RestoreObject ==
    /\ Step("restore_object")
    /\ Rewrite(Op.on, [Touched(Rows[Op.on], Req.key) EXCEPT !.live = TRUE])

RebuildDerived == Step("rebuild_derived") /\ Rewrite(Op.on, Touched(Rows[Op.on], Req.key))

\* Fault: the one before it is looked for among committed corrections only.
CorrectionOfCommitted(id, about) ==
    LET earlier == {c \in corr : c.on = id /\ c.about = about} IN
    [on |-> id, about |-> about, rev |-> Rows[id].rev + 1,
     supersedes |-> IF earlier = {} THEN 0
                    ELSE CHOOSE r \in {c.rev : c \in earlier} : \A c \in earlier : c.rev <= r]

\* The latest correction of a target supersedes the one before it.
Correction(id, about) ==
    LET earlier == {c \in Corrections : c.on = id /\ c.about = about} IN
    [on |-> id, about |-> about, rev |-> Rows[id].rev + 1,
     supersedes |-> IF earlier = {} THEN 0
                    ELSE CHOOSE r \in {c.rev : c \in earlier} : \A c \in earlier : c.rev <= r]

CorrectEvidence ==
    /\ Step("correct_evidence")
    /\ LET new == Touched(Rows[Op.on], Req.key) IN
       tx' = [tx EXCEPT !.step = @ + 1, !.held = @ \cup {Op.on}, !.row = Over(At(Op.on, new), @),
                        !.corr = @ \cup {Correction(Op.on, Op.about)},
                        !.log = @ \o <<Logged(Op.on, new, TRUE)>>]
    /\ UNCHANGED <<store, work, waiting, receipts, cutover>>

\* Fault: the old holder keeps the identity.
Kept(r, what) == Touched(r, Req.key)

Released(r, what) == [Touched(r, Req.key) EXCEPT !.holds = @ \ {what}]

\* reassign_identity and reassign_chat: an imported identity changes hands, and
\* both its holders are corrected.  Start has locked them, the lower id first.
Reassign ==
    /\ Step("reassign")
    /\ LET old == Released(Rows[Op.on], Op.what)
           new == [Touched(Rows[Op.to], Req.key) EXCEPT !.holds = @ \cup {Op.what}] IN
       tx' = [tx EXCEPT !.step = @ + 1, !.row = Over(At(Op.on, old), Over(At(Op.to, new), @)),
                        !.corr = @ \cup {Correction(Op.on, Op.on), Correction(Op.to, Op.to)},
                        !.log = @ \o <<Logged(Op.on, old, TRUE), Logged(Op.to, new, TRUE)>>]
    /\ UNCHANGED <<store, work, waiting, receipts, cutover>>

RestoreConnection ==
    /\ Step("restore_connection")
    /\ LET new == [Touched(Rows[Op.on], Req.key) EXCEPT !.live = TRUE] IN
       Effect({Op.on, new.src, new.dst}, At(Op.on, new), <<Logged(Op.on, new, TRUE)>>)

\* An active Connection of the same kind between the two takes the assertion.
CreateConnection ==
    /\ Step("create_connection")
    /\ LET same == SameLink(Rows, Op.src, Op.kind, Op.dst) IN
       IF same = {}
       THEN Insert(Op.on, NewConnection(Op.src, Op.kind, Op.dst, Req.key), {Op.src, Op.dst})
       ELSE \E c \in same :
              IF Rows[c].says = {} /\ Rows[c].first = Req.key
              THEN Effect({c, Op.src, Op.dst}, << >>, << >>)
              ELSE LET new == Asserted(Touched(Rows[c], Req.key), Req.key) IN
                   Effect({c, Op.src, Op.dst}, At(c, new), <<Logged(c, new, TRUE)>>)

UpdateConnection ==
    /\ Step("update_connection")
    /\ LET new == [Touched(Rows[Op.on], Req.key) EXCEPT !.kind = Op.kind] IN
       Effect({Op.on, new.src, new.dst}, At(Op.on, new), <<Logged(Op.on, new, TRUE)>>)

ArchiveConnection ==
    /\ Step("archive_connection")
    /\ Rewrite(Op.on, [Touched(Rows[Op.on], Req.key) EXCEPT !.live = FALSE])

\* An Object created in the same batch is not locked for a snapshot.
AppendArtifact ==
    /\ Step("append_artifact") /\ Op.art \in Artifacts \ DOMAIN Arts
    /\ LET new == Touched(Rows[Op.on], Req.key)
           local == \E made \in Range(Created(Req)) : made.on = Op.on IN
       tx' = [tx EXCEPT !.step = @ + 1, !.held = @ \cup {Op.on}, !.row = Over(At(Op.on, new), @),
                        !.art = Over(At(Op.art, [of |-> Op.on, pred |-> Op.pred, body |-> Op.body,
                                                 document |-> None]), @),
                        !.log = @ \o <<Event(Op.on, Run(Req), Req, tx.at, Rows[Op.on].rev,
                                              IF local THEN NoRow ELSE Rows[Op.on], new, ~local)>>]
    /\ UNCHANGED <<store, work, waiting, receipts, cutover>>

CreateEntityCategory == Step("create_category") /\ Insert(Op.on, NewCategory(Req.key), {})

\* update, archive and restore: `to` is the state an archive or a restore asks for.
ChangeEntityCategory ==
    /\ Step("change_category")
    /\ Rewrite(Op.on, [Touched(Rows[Op.on], Req.key) EXCEPT
                         !.live = IF Op.to = "same" THEN @ ELSE Op.to # "archived"])

-----------------------------------------------------------------------------
(* The end of a batch                                                      *)

Refuse ==
    /\ Running /\ ~Allowed(Op)
    /\ tx' = NoTx
    /\ UNCHANGED <<store, work, waiting, receipts, cutover>>

\* The process or its database session dies; the client may send the batch again.
Crash ==
    /\ tx # NoTx
    /\ tx' = NoTx
    /\ UNCHANGED <<store, work, waiting, receipts, cutover>>

ValidateOnly ==
    /\ Finished /\ tx.batch.dry
    /\ tx' = NoTx
    /\ UNCHANGED <<store, work, waiting, receipts, cutover>>

Commit ==
    /\ Finished /\ ~tx.batch.dry
    /\ row' = Rows /\ art' = Arts /\ corr' = Corrections
    /\ events' = events \o tx.log
    /\ receipts' = Over(At(Receipt(tx.batch), tx.batch), receipts)
    /\ tx' = NoTx
    /\ UNCHANGED <<fenced, work, waiting, cutover>>

\* Fault: the fence waits for nobody.
FenceThreadAtOnce(t) ==
    /\ Fence(t)
    /\ UNCHANGED <<work, waiting, tx, receipts, cutover>>

\* A fence waits for every transaction that has taken the share lock.
FenceThread(t) ==
    /\ waiting = {} /\ tx = NoTx
    /\ Fence(t)
    /\ UNCHANGED <<work, waiting, tx, receipts, cutover>>

\* Fault: the cutover does not wait its turn.
CutOverBesides ==
    /\ ~cutover
    /\ cutover' = TRUE
    /\ UNCHANGED <<store, work, waiting, tx, receipts>>

\* The cutover takes the advisory lock (event_memory.rs).
CutOver ==
    /\ tx = NoTx /\ ~cutover
    /\ cutover' = TRUE
    /\ UNCHANGED <<store, work, waiting, tx, receipts>>

OneOperation ==
    \/ CreateObject \/ UpdateObject \/ UpdateDescription \/ PromoteSourceArtifact
    \/ ArchiveObject \/ RestoreObject \/ RebuildDerived \/ CorrectEvidence \/ Reassign
    \/ CreateConnection \/ UpdateConnection \/ ArchiveConnection \/ RestoreConnection
    \/ AppendArtifact \/ CreateEntityCategory \/ ChangeEntityCategory

Apply ==
    \/ \E b \in work.batches : Submit(b)
    \/ \E w \in waiting : Start(w)
    \/ OneOperation \/ Refuse \/ Crash \/ ValidateOnly \/ Commit
    \/ \E t \in Threads : FenceThread(t)
    \/ CutOver
=============================================================================
