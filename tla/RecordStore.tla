----------------------------- MODULE RecordStore ----------------------------
(***************************************************************************)
(* The rows of PostgreSQL that intake, workflow Runs, Task routines and    *)
(* reviewed purges share: one table `row` of records with their columns.   *)
(* A subtype row (source, task, chat) is part of its Object, with which it *)
(* is created and deleted.  Every transaction modelled here takes effect   *)
(* at its commit, under the locks named at its action; of one, the start of *)
(* an execution, what it reads unlocked is a step of its own (`starts`).    *)
(***************************************************************************)
EXTENDS Naturals, FiniteSets, Sequences, FiniteSetsExt, SequencesExt, TLC

CONSTANTS
    Scenarios,   \* small stores, with the requests and edits that are sent
    None

VARIABLES
    row,         \* id -> row
    now,         \* the time, up to the scenario's horizon
    horizon,
    starts,      \* occurrence of a routine -> the execution a transaction, which holds its row, binds
    calls,       \* requests between their reads and their transaction
    todo,        \* requests, edits and faults still to come
    answers,     \* what requests were answered: retries compare with it
    reviewed,    \* purge requests with the manifest their preview returned
    receipts     \* committed purges, in order

store == <<row, now, horizon, starts>>
vars == <<row, now, horizon, starts, calls, todo, answers, reviewed, receipts>>

\* The columns that are foreign keys with the table they refer to, and those by
\* which a row belongs to others.
ForeignKeys ==
    [object |-> "object", src |-> "object", dst |-> "object", chat |-> "object", task |-> "object",
     primary |-> "object", artifact |-> "artifact", current |-> "artifact", pred |-> "artifact",
     run |-> "run", parent |-> "run", cursor |-> "message"]

Owners(r) ==
    CASE r.tab = "link" -> {r.src, r.dst}
      [] r.tab = "artifact" -> {r.object}
      [] r.tab = "event" -> {r.target}
      [] r.tab = "message" -> {r.chat}
      [] r.tab = "embedding" -> {r.object, r.artifact} \ {None}
      [] r.tab \in {"routine", "occurrence"} -> {r.task}
      [] r.tab = "reply" -> {r.run}
      [] OTHER -> {}

Refs(r) == {r[c] : c \in DOMAIN ForeignKeys \cap DOMAIN r} \ {None}

\* Every id the JSON of a row contains, its own included.
Mentions(id, r) == {id} \cup Refs(r) \cup Owners(r) \cup r.says

OfTab(tab) == {id \in DOMAIN row : row[id].tab = tab}
Objects(kind) == {id \in OfTab("object") : row[id].kind = kind}
Live(id) == id \in OfTab("object") /\ row[id].live
SameLink(src, kind, dst) ==
    {l \in OfTab("link") : row[l].live /\ <<row[l].src, row[l].kind, row[l].dst>> = <<src, kind, dst>>}

\* is_terminal, for the kinds of Run there are here
Terminal(r) == r.status \in {"completed", "failed"} \/ (r.kind = "slack_interaction" /\ r.status = "cancelled")

\* Rows written over others, and a table of one row.
f ++ g == [id \in DOMAIN f \cup DOMAIN g |-> IF id \in DOMAIN f THEN f[id] ELSE g[id]]
Only(id, r) == [x \in {id} |-> r]

Object(kind, more) == more ++ [tab |-> "object", kind |-> kind, rev |-> 1, live |-> TRUE, says |-> {}]
\* by: who its provenance names; past: the provenance it had before its adoption
SourceObject(uri, guarded, by) ==
    Object("source", [uri |-> uri, guarded |-> guarded, by |-> by, past |-> None, current |-> None])
Artifact(object, body, pred) ==
    [tab |-> "artifact", object |-> object, body |-> body, pred |-> pred, says |-> {},
     age |-> Max({0} \cup {row[a].age : a \in OfTab("artifact")}) + 1]
Link(src, kind, dst) == [tab |-> "link", src |-> src, kind |-> kind, dst |-> dst, live |-> TRUE, says |-> {}]
NewRun(kind, status, more) ==
    more ++ [tab |-> "run", kind |-> kind, status |-> status, chat |-> None, parent |-> None,
             primary |-> None, pinned |-> FALSE, trace |-> {}, review |-> 0, says |-> {}]
ObjectEvent(run, target, says) == [tab |-> "event", run |-> run, target |-> target, says |-> says]

\* guard_maintenance_execution_fence: a Run that a purge has cancelled, and those
\* of its Chat or below it, are written no more.
Fenced(id, r) ==
    \E f \in OfTab("fence") : r.chat = row[f].thread \/ {id, r.parent} \cap row[f].runs # {}

\* A direct mutation journals an Event in a Run of its own.
Journal(key, target, says) ==
    Only(key, NewRun("mutation", "completed", << >>)) ++ Only(key \o ":event", ObjectEvent(key, target, says))

Sent(q) == todo' = todo \ {q}
\* Requests of one step: no time passes, and nothing waits for them.
OneStep(q) == Sent(q) /\ UNCHANGED <<now, horizon, starts, calls, reviewed, receipts>>

\* What the requests of one transaction leave dangling is refused by the database.
Sound(r) ==
    \A id \in DOMAIN r : \A c \in DOMAIN ForeignKeys \cap DOMAIN r[id] :
        r[id][c] # None => r[id][c] \in DOMAIN r /\ r[r[id][c]].tab = ForeignKeys[c]

\* correct_evidence: an append-only correction of an Object or an Artifact.
Correct(q) ==
    /\ q.do = "correct" /\ q.on \in OfTab("object") \cup OfTab("artifact") /\ {q.key, q.id} \cap DOMAIN row = {}
    /\ LET owner == IF row[q.on].tab = "object" THEN q.on ELSE row[q.on].object
           correction == [tab |-> "correction", object |-> owner, target |-> q.on, says |-> {q.on}]
       IN row' = Only(owner, [row[owner] EXCEPT !.rev = @ + 1]) ++ row
                 ++ Journal(q.key, owner, {}) ++ Only(q.id, correction)
    /\ OneStep(q) /\ UNCHANGED answers

\* Time passes.
Tick ==
    /\ now < horizon /\ now' = now + 1
    /\ UNCHANGED <<row, horizon, starts, calls, todo, answers, reviewed, receipts>>
=============================================================================
