--------------------------- MODULE ContextWriters ---------------------------
(***************************************************************************)
(* The typed writers of the HTTP API (db/objects.rs, db/connections.rs,    *)
(* db/tasks.rs, db/notes.rs, db/artifacts.rs) beside context_apply.        *)
(*                                                                         *)
(* A call first looks its idempotency key up and reads the rows it will    *)
(* write, outside any transaction; then it commits in one transaction that *)
(* locks its row and compares the revision.  The unique index on the keys  *)
(* refuses the second of two calls that both found the key unused.  A call *)
(* waits for the rows a batch has locked, also as the endpoints its        *)
(* foreign keys refer to, and takes no part in the batches' turns.         *)
(***************************************************************************)
EXTENDS UniversalApply

CONSTANTS Scenarios   \* what the store holds and the requests that are sent

\* No identity has two holders, and the visuals of a document do not fork.
IdentitiesApart(rows) ==
    \A a, b \in OfTable(rows, "object") : a # b => rows[a].holds \cap rows[b].holds = {}

VisualsApart(arts) ==
    \A a, b \in DOMAIN arts :
        a # b /\ arts[a].document # None /\ arts[a].document = arts[b].document
              /\ arts[a].of = arts[b].of => arts[a].pred # arts[b].pred

\* What the columns, foreign keys and unique indexes of the tables admit.
Admitted(rows, arts) ==
    /\ rows \in [DOMAIN rows -> Range(rows)] /\ DOMAIN rows \subseteq Ids
    /\ \A id \in DOMAIN rows : WellFormed(rows[id])
    /\ \A c \in OfTable(rows, "connection") : {rows[c].src, rows[c].dst} \subseteq DOMAIN rows
    /\ \A n \in OfKind(rows, "note") : rows[n].cites \in DOMAIN arts \cup {None}
    /\ arts \in [DOMAIN arts -> Range(arts)] /\ DOMAIN arts \subseteq Artifacts
    /\ \A a \in DOMAIN arts : arts[a].of \in DOMAIN rows
    /\ IdentitiesApart(rows)

BatchAssumed(b) ==
    /\ b.ops \in Seq(Range(b.ops)) /\ b.dry \in BOOLEAN
    /\ \A op \in Range(b.ops) :
          /\ op.op = "create_object" => DOMAIN op.fields \subseteq {"kind"} \cup Settable
          /\ op.op = "update_object" => DOMAIN op.set \subseteq Settable

\* The ids a request draws for its row and for its links differ.
CallAssumed(c) ==
    /\ IsFiniteSet(c.links) /\ \A l \in c.links : l.on # c.on
    /\ c.op \in {"create_object", "create_task", "create_note"} =>
          DOMAIN c.fields \subseteq {"kind"} \cup Settable
    /\ c.op = "update_task" => DOMAIN c.set \subseteq Settable

\* The ids a batch and a call draw for new Objects differ.
ScenariosAssumption ==
    \A s \in Scenarios :
        /\ Admitted(s.rows, s.arts) /\ VisualsApart(s.arts)
        /\ \A b \in s.batches : BatchAssumed(b)
        /\ \A c \in s.calls : CallAssumed(c)
        /\ \A b \in s.batches, c \in s.calls : c.op = "create_object" => ~Makes(b, c.on)

ASSUME ScenariosAssumption

VARIABLES
    calls,       \* calls between their reads and their transaction
    keys         \* used idempotency keys, with the row they stand for

vars == <<applyVars, calls, keys>>

KeyOf(c) == <<"call", c.who, c.key>>
LinkMissing(l) == SameLink(row, l.src, l.kind, l.dst) = {}

\* validate_note_links: active endpoints, and an excerpt cites its one Source.
LinksAllowed(c) ==
    /\ \A l \in c.links : \A end \in {l.src, l.dst} \ {c.on} : Live(row, end)
    /\ c.op = "create_note" /\ c.fields.cites # None =>
         /\ c.fields.cites \in DOMAIN art /\ art[c.fields.cites].body # None
         /\ \A l \in c.links : l.kind = "derived_from" => l.dst = art[c.fields.cites].of

\* validate_connection_endpoints looks at themed Connections only.
EndsAllowed(src, kind, dst) ==
    kind = "themed" => /\ Live(row, src) /\ Live(row, dst)
                       /\ row[src].kind # "theme" /\ row[dst].kind = "theme"

Reads(c) ==
    CASE c.op \in {"create_task", "create_note"} -> LinksAllowed(c)
      [] c.op = "create_connection" -> EndsAllowed(c.src, c.kind, c.dst)
      [] c.op = "update_connection" ->
            Live(row, c.on) /\ EndsAllowed(row[c.on].src, c.kind, row[c.on].dst)
      [] c.op = "update_task" ->
            /\ c.on \in OfKind(row, "task")
            /\ ~("status" \in DOMAIN c.set /\ c.set.status = "doing" /\ row[c.on].status = "doing")
      [] c.op \in {"update_object", "update_note"} -> c.on \in OfTable(row, "object")
      [] OTHER -> TRUE

\* A key that is found answers with its row; a Task or Note is first given the
\* links of the request that it lacks (reconcile_existing_task_links).
Call(c) ==
    /\ \A p \in calls : p.call # c
    /\ Reads(c)
    /\ IF KeyOf(c) \notin DOMAIN keys
       THEN calls' = calls \cup {[call |-> c, seen |-> IF c.on \in DOMAIN row THEN row[c.on] ELSE NoRow,
                                  path |-> "write", missing |-> {}]}
       ELSE /\ c.op \in {"create_task", "create_note"}
            /\ \E l \in c.links : LinkMissing(l)
            /\ calls' = calls \cup {[call |-> c, seen |-> NoRow, path |-> "links",
                                     missing |-> {l \in c.links : LinkMissing(l)}]}
    /\ UNCHANGED <<applyVars, keys>>

\* A refusal, a revision conflict, a used key or a crash: nothing is written.
Fail(p) ==
    /\ calls' = calls \ {p}
    /\ UNCHANGED <<applyVars, keys>>

\* Fault: calls do not wait for the locks of a batch.
UnlockedOrNot(ids) == tx.held \subseteq Ids

Unlocked(ids) == ids \cap tx.held = {}

\* The links of a repeated creation are written under a key of their own.
RunOf(p) == IF p.path = "links" THEN <<"call", p.call.who, p.call.key \o ":links">> ELSE KeyOf(p.call)

\* What every transaction of a call does besides writing its rows.
Commits(p, on, log) ==
    /\ p.call.thread \notin fenced
    /\ RunOf(p) \notin DOMAIN keys
    /\ keys' = Over(At(RunOf(p), on), keys)
    /\ events' = events \o log
    /\ calls' = calls \ {p}
    /\ UNCHANGED <<corr, fenced, work, waiting, tx, receipts, cutover>>

Journal(p, id, from, before, new, locked) ==
    Event(id, RunOf(p), p.call, CommitsNow, from, before, new, locked)

Inserted(p, id, new) == Journal(p, id, 0, NoRow, new, TRUE)

\* insert_note_connection: new rows, whose endpoints the foreign keys look up and lock.
LinkOf(links, id) == CHOOSE l \in links : l.on = id

NewLinks(links, who) ==
    [id \in {l.on : l \in links} |->
        LET l == LinkOf(links, id) IN NewConnection(l.src, l.kind, l.dst, who)]

LinkEvents(p, links) ==
    LET order == SetToSeq({l.on : l \in links}) IN
    [i \in DOMAIN order |-> Inserted(p, order[i], NewLinks(links, p.call.key)[order[i]])]

EndsOf(links) == UNION {{l.src, l.dst} : l \in links}

\* Ids are drawn when the rows are made.
Fresh(ids) == ids \subseteq Ids \ DOMAIN Rows

\* A new row and its links, in one transaction.
Posts(p, new) ==
    LET c == p.call IN
    /\ Fresh({c.on} \cup {l.on : l \in c.links})
    /\ EndsOf(c.links) \subseteq DOMAIN row \cup {c.on} /\ Unlocked(EndsOf(c.links))
    /\ row' = Over(At(c.on, new), Over(NewLinks(c.links, c.key), row))
    /\ Commits(p, c.on, <<Inserted(p, c.on, new)>> \o LinkEvents(p, c.links))
    /\ UNCHANGED art

Written(p, op) == p.path = "write" /\ p.call.op = op

\* create_object, create_classified_object; a category is locked against its archive.
PostObject(p) ==
    LET new == NewObject(p.call.fields, p.call.key) IN
    /\ Written(p, "create_object")
    /\ new.kind \in {"chat", "entity", "memory", "event"}
    /\ new.kind = "event" => \A o \in OfKind(row, "event") :
                                 row[o].live => row[o].evidence \cap new.evidence = {}
    /\ \A g \in new.cats : Live(row, g) /\ Unlocked({g})
    /\ Posts(p, new)

PostTask(p) ==
    LET new == [NewObject(p.call.fields, p.call.key) EXCEPT !.kind = "task"] IN
    /\ Written(p, "create_task")
    /\ TaskAllowed(row, NoRow, new, p.call.who)
    /\ Posts(p, Claimed(NoRow, new, p.call.who))

PostNote(p) ==
    /\ Written(p, "create_note")
    /\ Posts(p, [NewObject(p.call.fields, p.call.key) EXCEPT !.kind = "note"])

\* The links a repeated creation lacks, to the row its key stands for.
Relink(p) ==
    /\ p.path = "links"
    /\ Fresh({l.on : l \in p.missing})
    /\ \A l \in p.missing : SameLink(Rows, l.src, l.kind, l.dst) = {}
    /\ EndsOf(p.missing) \subseteq DOMAIN row /\ Unlocked(EndsOf(p.missing))
    /\ row' = Over(NewLinks(p.missing, p.call.key), row)
    /\ Commits(p, keys[KeyOf(p.call)], LinkEvents(p, p.missing))
    /\ UNCHANGED art

\* An update locks its row and compares the revision; what the request does not
\* set it writes back as the call has read it.
Patches(p, new) ==
    LET c == p.call IN
    /\ Unlocked({c.on})
    /\ row[c.on].rev = c.rev
    /\ row' = [row EXCEPT ![c.on] = new]
    /\ Commits(p, c.on, <<Journal(p, c.on, row[c.on].rev, row[c.on], new, TRUE)>>)
    /\ UNCHANGED art

PatchObject(p) ==
    /\ Written(p, "update_object")
    /\ Patches(p, [Touched(row[p.call.on], p.call.key) EXCEPT !.live = ~p.call.archive /\ p.seen.live])

PatchNote(p) ==
    /\ Written(p, "update_note")
    /\ row[p.call.on].kind = "note" /\ row[p.call.on].live
    /\ Patches(p, Touched(row[p.call.on], p.call.key))

PatchTask(p) ==
    LET c == p.call
        old == row[c.on]
        new == Claimed(old, With([Touched(old, c.key) EXCEPT !.status = p.seen.status,
                                                             !.owner = p.seen.owner], c.set), c.who)
    IN Written(p, "update_task") /\ TaskAllowed(row, old, new, c.who) /\ Patches(p, new)

\* create_or_reuse_connection
PostConnection(p) ==
    LET c == p.call
        same == SameLink(row, c.src, c.kind, c.dst)
    IN /\ Written(p, "create_connection")
       /\ SameLink(Rows, c.src, c.kind, c.dst) = same /\ Unlocked(same)
       /\ IF same = {}
          THEN LET new == NewConnection(c.src, c.kind, c.dst, c.key) IN
               /\ Fresh({c.on}) /\ {c.src, c.dst} \subseteq DOMAIN row /\ Unlocked({c.src, c.dst})
               /\ row' = Over(At(c.on, new), row)
               /\ Commits(p, c.on, <<Inserted(p, c.on, new)>>)
          ELSE \E id \in same, before \in UNION {DerivedBefore(s) : s \in same} :
               LET new == Asserted(Touched(row[id], c.key), c.key) IN
               /\ c.key \notin row[id].says
               /\ before \in DerivedBefore(id)
               /\ row' = [row EXCEPT ![id] = new]
               /\ Commits(p, id, <<Journal(p, id, row[id].rev, before, new, FALSE)>>)
       /\ UNCHANGED art

\* Both compare the revision in the statement that writes.
PatchConnection(p) ==
    LET old == row[p.call.on] IN
    /\ Written(p, "update_connection")
    /\ p.call.on \in ActiveLinks(row)
    /\ SameLink(Rows, old.src, p.call.kind, old.dst) \subseteq {p.call.on}
    /\ Patches(p, [Touched(old, p.call.key) EXCEPT !.kind = p.call.kind])

DropConnection(p) ==
    /\ Written(p, "archive_connection")
    /\ p.call.on \in ActiveLinks(row)
    /\ Patches(p, [Touched(row[p.call.on], p.call.key) EXCEPT !.live = FALSE])

Visuals(id, document) == {a \in DOMAIN art : art[a].of = id /\ art[a].document = document}
Succeeded(a) == \E b \in DOMAIN art : art[b].pred = a

\* Fault: a visual may follow one that has a successor.
VisualAllowedAnywhere(c) ==
    IF c.pred = None THEN Visuals(c.on, c.document) = {}
    ELSE c.pred \in Visuals(c.on, c.document) /\ row[c.on].current # c.pred

\* A visual starts its document or follows the last visual of it.
VisualAllowed(c) ==
    IF c.pred = None THEN Visuals(c.on, c.document) = {}
    ELSE c.pred \in Visuals(c.on, c.document) /\ row[c.on].current # c.pred /\ ~Succeeded(c.pred)

\* The Event's before_state is derived.
Attaches(p, document) ==
    LET c == p.call
        new == Touched(row[c.on], c.key)
    IN /\ c.on \in OfTable(row, "object") /\ row[c.on].live
       /\ Unlocked({c.on}) /\ row[c.on].rev = c.rev
       /\ c.art \in Artifacts \ DOMAIN Arts
       /\ art' = Over(At(c.art, [of |-> c.on, pred |-> c.pred, body |-> c.body,
                                 document |-> document]), art)
       /\ row' = [row EXCEPT ![c.on] = new]
       /\ \E before \in DerivedBefore(c.on) :
             Commits(p, c.on, <<Journal(p, c.on, row[c.on].rev, before, new, FALSE)>>)

\* The same content is attached once.
PostArtifact(p) ==
    /\ Written(p, "append_artifact")
    /\ \A a \in DOMAIN art : art[a].of = p.call.on => art[a].body # p.call.body
    /\ p.call.pred # None => p.call.pred \in DOMAIN art /\ art[p.call.pred].of = p.call.on
    /\ Attaches(p, None)

PostVisual(p) ==
    /\ Written(p, "append_visual")
    /\ row[p.call.on].kind = "source" /\ VisualAllowed(p.call)
    /\ Attaches(p, p.call.document)

-----------------------------------------------------------------------------

Init ==
    /\ \E s \in Scenarios :
          /\ row = s.rows /\ art = s.arts
          /\ work = [batches |-> s.batches, calls |-> s.calls]
    /\ corr = {} /\ events = << >> /\ fenced = {}
    /\ waiting = {} /\ tx = NoTx /\ receipts = << >> /\ cutover = FALSE
    /\ calls = {} /\ keys = << >>

Writers ==
    \/ \E c \in work.calls : Call(c)
    \/ \E p \in calls :
          \/ Fail(p) \/ Relink(p)
          \/ PostObject(p) \/ PostTask(p) \/ PostNote(p) \/ PostConnection(p)
          \/ PatchObject(p) \/ PatchTask(p) \/ PatchNote(p) \/ PatchConnection(p) \/ DropConnection(p)
          \/ PostArtifact(p) \/ PostVisual(p)

Next == (Apply /\ UNCHANGED <<calls, keys>>) \/ Writers

Spec == Init /\ [][Next]_vars

-----------------------------------------------------------------------------
(* Properties                                                              *)

\* Rows are what their tables admit, the batch in progress changes only rows it has
\* locked, and what the journal and the receipts refer to exists.
TypeOK ==
    /\ Admitted(row, art) /\ fenced \subseteq Threads
    /\ tx # NoTx => Admitted(Rows, Arts) /\ DOMAIN tx.row \subseteq tx.held
    /\ \A i \in DOMAIN events : events[i].on \in DOMAIN row
    /\ \A k \in DOMAIN receipts : receipts[k].dry = FALSE
    /\ \A k \in DOMAIN keys : keys[k] \in DOMAIN row

Earlier(i) == {j \in EventsOf(events[i].on) : j < i}
Latest(S) == CHOOSE i \in S : \A j \in S : j <= i

\* The journal explains every row, whichever writers raced for it: revisions move
\* by one from the Event before, a snapshot read under the row's lock is the state
\* that Event left, and the last Event left the row as it is.  No update is lost.
HistoryExplainsRows ==
    /\ \A i \in DOMAIN events :
          LET e == events[i] IN
          /\ e.after.rev = e.from + 1
          /\ Earlier(i) # {} => e.from = events[Latest(Earlier(i))].after.rev
          /\ Earlier(i) # {} /\ e.locked => e.before = events[Latest(Earlier(i))].after
    /\ \A id \in DOMAIN row :
          EventsOf(id) # {} => row[id] = events[Latest(EventsOf(id))].after

\* One key of one principal changes the store in one transaction, however often
\* the request is repeated, raced with itself or cut off by a crash.
AppliedOnce ==
    \A i, j \in DOMAIN events :
        events[i].run = events[j].run =>
            events[i].at = events[j].at /\ \A k \in i..j : events[k].run = events[i].run

\* The corrections of one target form a chain without forks, in revision order.
CorrectionsFormAChain ==
    \A c, d \in corr : c # d /\ c.on = d.on /\ c.about = d.about =>
        /\ c.rev # d.rev /\ c.supersedes # d.supersedes
        /\ c.supersedes \in {0} \cup {e.rev : e \in {x \in corr : x.on = c.on /\ x.about = c.about}}

BatchCommits == tx # NoTx /\ receipts' # receipts

\* A batch never leaves an active Connection to an Object it archives, although
\* Connections are created beside it: the foreign key waits for its lock.
BatchNeverStrandsAConnection ==
    [][BatchCommits => \A id \in DOMAIN tx.row \cap OfTable(row, "object") :
          row[id].live /\ ~row'[id].live => LinksOf(row', id) = {}]_vars

\* What others committed to a row since the batch began.
Meanwhile(id) == {events[i] : i \in {j \in EventsOf(id) : events[j].at > tx.at}}

\* A batch never makes an excerpt derive from a Source it does not cite: a Connection
\* that does so when it commits did so before, or somebody wrote it meanwhile (a
\* change of kind by the API locks no endpoint).
BatchNeverMiscites ==
    [][BatchCommits => \A c \in ActiveLinks(row') : Miscited(row', art', c) =>
          (c \in ActiveLinks(row) /\ Miscited(row, art, c)) \/ Meanwhile(c) # {}]_vars

\* An archived Entity returns to the categories it had, archived or not.
Returned(o) ==
    \/ \E op \in Range(tx.batch.ops) : op.op = "restore_object" /\ op.on = o
    \/ \E e \in Meanwhile(o) : e.locked /\ e.from > 0 /\ ~e.before.live /\ e.after.live

\* A batch never archives a category that an active Entity is assigned to, unless the
\* Entity was archived and returns: nothing looks at its categories then.
BatchNeverStrandsACategory ==
    [][BatchCommits => \A id \in DOMAIN tx.row \cap OfTable(row, "category") :
          row[id].live /\ ~row'[id].live =>
              \A o \in OfKind(row', "entity") :
                  row'[o].live /\ id \in row'[o].cats => Returned(o)]_vars

\* A fenced thread writes nothing any more: what it had begun was waited for.
FencedThreadIsSilent ==
    [][\A i \in DOMAIN events' \ DOMAIN events : events'[i].thread \notin fenced]_vars

\* No agent takes over or ends a Task another actor executes.
ClaimsAreNotStolen ==
    [][\A t \in OfKind(row, "task") :
          row[t].claim # None /\ row'[t].claim # row[t].claim =>
              \E i \in DOMAIN events' \ DOMAIN events :
                  events'[i].on = t /\ events'[i].who \in Humans \cup {row[t].claim}]_vars

\* Once synthesis owns the Memories, no agent's batch creates, archives or restores
\* one, whenever it began.
SynthesisOwnsMemories ==
    [][BatchCommits /\ cutover /\ tx.batch.who \notin Humans /\ ~tx.batch.maint =>
          \A m \in OfKind(row', "memory") : m \in DOMAIN row /\ row'[m].live = row[m].live]_vars

\* The comment of archive_object: a batch never archives a User who still owns
\* active Tasks.
BatchNeverStrandsATask ==
    [][BatchCommits => \A id \in DOMAIN tx.row \cap OfKind(row, "user") :
          row[id].live /\ ~row'[id].live => TasksOwnedBy(row', id) = {}]_vars

\* What every committed state shows, whichever batches moved identities: rows their
\* tables admit, one User or Chat for each imported identity, and successors that fork
\* neither corrections nor visuals.
StoreIsSound == TypeOK /\ CorrectionsFormAChain /\ VisualsApart(art)

\* What a batch has checked of rows it did not lock still holds when it commits.
ChecksHoldAtCommit ==
    BatchNeverStrandsAConnection /\ BatchNeverMiscites /\ BatchNeverStrandsACategory

\* A fence and the cutover hold against batches that were begun before them.
GatesHold == FencedThreadIsSilent /\ SynthesisOwnsMemories
=============================================================================
