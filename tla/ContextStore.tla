---------------------------- MODULE ContextStore ----------------------------
(***************************************************************************)
(* The rows every writer of context works on: Objects with their subtype,  *)
(* Connections between them, Entity categories, Artifacts and evidence     *)
(* corrections, and the journal object_events with its snapshots           *)
(* (db/events.rs and the tables of the migrations).                        *)
(*                                                                         *)
(* A row carries its revision and the request that wrote it last, which    *)
(* stands for all the text it holds; the other fields are the ones that    *)
(* the guards of the writers read.                                         *)
(***************************************************************************)
EXTENDS Integers, Sequences, FiniteSets, SequencesExt

CONSTANTS
    Ids,          \* of Objects, Connections and Entity categories
    Artifacts,    \* ids of Artifacts
    Threads,      \* Centaur threads a request may name
    Humans,       \* the actors of type human; all others are agents
    None          \* no id, no actor, no Artifact

ASSUME NoneAssumption == None \notin Ids \cup Artifacts \cup Threads \cup Humans

VARIABLES
    row,          \* the rows that exist, by id
    art,          \* the Artifacts, by id
    corr,         \* evidence_corrections
    events,       \* object_events, in the order of their commits
    fenced        \* the threads whose execution a reviewed fence forbids

store == <<row, art, corr, events, fenced>>

\* The rows of f, and those of g at the other ids.
Over(f, g) == [x \in DOMAIN f \cup DOMAIN g |-> IF x \in DOMAIN f THEN f[x] ELSE g[x]]

At(id, r) == [x \in {id} |-> r]

\* The row r with the fields that `set` names.
With(r, set) == [f \in DOMAIN r |-> IF f \in DOMAIN set THEN set[f] ELSE r[f]]

NoRow == [table |-> "none", rev |-> 0, owner |-> None, status |-> "none", claim |-> None]

Columns ==
    [object |-> {"table", "kind", "live", "rev", "by", "owner", "status", "claim", "cites",
                 "current", "holds", "cats", "evidence"},
     connection |-> {"table", "live", "rev", "by", "src", "kind", "dst", "first", "says"},
     category |-> {"table", "live", "rev", "by"}]

\* A row has the columns of its table, and only a Task in status doing an executor.
WellFormed(r) ==
    /\ r.table \in DOMAIN Columns /\ DOMAIN r = Columns[r.table]
    /\ r.live \in BOOLEAN /\ r.rev \in Nat \ {0}
    /\ r.table = "object" /\ r.kind = "task" /\ r.claim # None => r.status = "doing"

\* A new Object; `fields` are its kind and what its subtype row holds.
NewObject(fields, who) ==
    With([table |-> "object", kind |-> "none", live |-> TRUE, rev |-> 1, by |-> who,
          owner |-> None, status |-> "todo", claim |-> None, cites |-> None,
          current |-> None, holds |-> {}, cats |-> {}, evidence |-> {}], fields)

\* The fields a request may name; revisions, claims and identities are not its to set.
Settable == {"owner", "status", "cites", "cats", "evidence"}

NewConnection(src, kind, dst, who) ==
    [table |-> "connection", live |-> TRUE, rev |-> 1, by |-> who,
     src |-> src, kind |-> kind, dst |-> dst, first |-> who, says |-> {}]

\* A second assertion of an active Connection joins the first in one list.
Asserted(r, who) ==
    [r EXCEPT !.says = (IF @ = {} THEN {r.first} ELSE @) \cup {who}]

NewCategory(who) == [table |-> "category", live |-> TRUE, rev |-> 1, by |-> who]

\* objects.revision and connections.revision move with every change.
Touched(r, who) == [r EXCEPT !.rev = @ + 1, !.by = who]

-----------------------------------------------------------------------------
(* What the guards ask of a set of rows                                    *)

Live(rows, id) == id \in DOMAIN rows /\ rows[id].live

OfTable(rows, t) == {id \in DOMAIN rows : rows[id].table = t}

ActiveLinks(rows) == {c \in OfTable(rows, "connection") : rows[c].live}

LinksOf(rows, id) == {c \in ActiveLinks(rows) : id \in {rows[c].src, rows[c].dst}}

\* connections_active_unique_idx: at most one active row per triple.
SameLink(rows, src, kind, dst) ==
    {c \in ActiveLinks(rows) : <<rows[c].src, rows[c].kind, rows[c].dst>> = <<src, kind, dst>>}

OfKind(rows, k) == {o \in OfTable(rows, "object") : rows[o].kind = k}

TasksOwnedBy(rows, user) ==
    {o \in OfKind(rows, "task") : rows[o].live /\ rows[o].owner = user}

\* An excerpt Note derives from another Source than the one its Artifact is of.
Miscited(rows, arts, c) ==
    LET note == rows[c].src IN
    /\ rows[c].kind = "derived_from" /\ note \in OfKind(rows, "note")
    /\ rows[note].cites # None /\ rows[c].dst # arts[rows[note].cites].of

Miscites(rows, arts, note) ==
    \E c \in ActiveLinks(rows) : rows[c].src = note /\ Miscited(rows, arts, c)

\* Fault: the claim of another agent is not respected.
TaskAllowedToAll(rows, old, new, actor) ==
    (new.status = "doing" /\ old.status # "doing") \/ old = NoRow \/ new.owner # old.owner
        => Live(rows, new.owner) /\ rows[new.owner].kind = "user"

\* The trigger enforce_actionable_task on the row of a Task before and after:
\* what it refuses,
TaskAllowed(rows, old, new, actor) ==
    LET claims == new.status = "doing" /\ old.status # "doing" IN
    /\ claims \/ old = NoRow \/ new.owner # old.owner
          => Live(rows, new.owner) /\ rows[new.owner].kind = "user"
    /\ old.status = "doing" /\ old.claim # None => old.claim = actor \/ actor \in Humans

\* and whom it records as executing the Task.
Claimed(old, new, actor) ==
    [new EXCEPT !.claim = IF new.status # "doing" THEN None
                          ELSE IF old.status = "doing" THEN @ ELSE actor]

-----------------------------------------------------------------------------
(* The journal                                                             *)

\* `run` is the idempotency key of its Run, `at` is created_at: when the transaction
\* began, not when it committed.  `locked`: its before_state was read under the lock
\* of the row.
Event(on, run, req, at, from, before, after, locked) ==
    [on |-> on, run |-> run, who |-> req.who, thread |-> req.thread,
     at |-> at, locked |-> locked, from |-> from, before |-> before, after |-> after]

EventsOf(id) == {i \in DOMAIN events : events[i].on = id}

\* insert_event_for_run without a snapshot of its caller's: before_state is the
\* after_state of the youngest Event by created_at.
DerivedBefore(id) ==
    LET youngest == {i \in EventsOf(id) : \A j \in EventsOf(id) : events[j].at <= events[i].at}
    IN IF youngest = {} THEN {NoRow} ELSE {events[i].after : i \in youngest}

\* Transactions begin between commits.
BeginsNow == 2 * Len(events) + 1
CommitsNow == 2 * Len(events) + 2

-----------------------------------------------------------------------------

Fence(thread) ==
    /\ thread \notin fenced
    /\ fenced' = fenced \cup {thread}
    /\ UNCHANGED <<row, art, corr, events>>
=============================================================================
