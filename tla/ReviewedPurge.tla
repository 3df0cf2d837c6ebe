--------------------------- MODULE ReviewedPurge ----------------------------
(***************************************************************************)
(* Deletion of fixtures an owner has reviewed.  A preview works out, from  *)
(* one snapshot, all that goes with the selected rows and what blocks      *)
(* them; the owner approves the hash of that manifest; the commit, which   *)
(* locks all tables against writers, works it out again and applies it     *)
(* only if it is the same.  Receipts answer repeated commits.              *)
(***************************************************************************)
EXTENDS RecordStore

(******************************* requests **********************************)
\* The rows a request names, by id and content: a hash that is stale refuses it.
Named(q) ==
    q.select \cup {d.run : d \in q.detach} \cup {x.old : x \in q.retire} \cup q.cancel

\* Tables whose rows may be selected: the others follow their owner.
Selectable == {"object", "link", "occurrence", "routine", "message", "artifact", "run", "event", "reply"}

\* A job that waits for a provider, in place of which a vector is current.
Retirable(x) ==
    LET old == row[x.old] new == row[x.new] IN
    /\ x.new \in OfTab("embedding") /\ old.tab = "embedding"
    /\ old.model = "unconfigured" /\ old.status = "pending" /\ old.artifact = None
    /\ new.object = old.object /\ new.artifact = None /\ new.status = "completed"
    /\ new.model = "configured" /\ new.of = row[new.object].rev

\* An unpinned terminal Run that stays, and its Chat that goes.
Detachable(q, d) ==
    LET run == row[d.run] IN
    /\ run.tab = "run" /\ run.chat = d.chat /\ ~run.pinned /\ Terminal(run)
    /\ d.chat \in q.select /\ d.run \notin q.select

\* A Slack wrapper that runs, with no pinned or active work beside or below it
\* that is not cancelled too.
Below(c) ==
    LET down[n \in Nat] ==
            IF n = 0 THEN {c} ELSE down[n - 1] \cup {r \in OfTab("run") : row[r].parent \in down[n - 1]}
    IN down[Cardinality(OfTab("run"))]
Beside(c) == {r \in OfTab("run") : row[r].chat = row[c].chat} \cup Below(c)
Cancellable(q, c) ==
    /\ row[c].tab = "run" /\ row[c].kind = "slack_interaction" /\ row[c].status = "running" /\ ~row[c].pinned
    /\ \A r \in Beside(c) \ {c} : ~row[r].pinned /\ (r \in q.cancel \/ Terminal(row[r]))

Reconcilable(q) ==
    /\ q.cancel # {} => q.select = {} /\ q.detach = {} /\ q.retire = {}
    /\ \A id \in q.select : row[id].tab \in Selectable
    /\ \A x \in q.retire : Retirable(x)
    /\ \A d \in q.detach : Detachable(q, d)
    /\ \A c \in q.cancel : Cancellable(q, c)

(******************************* manifest **********************************)
\* What goes: the selected rows and, in turn, all that belongs to those. Nothing
\* belongs to others at a greater distance: an Event to a Connection, or a vector
\* to an Artifact, of an Object.
WithOwned(ids) == ids \cup {id \in DOMAIN row : Owners(row[id]) \cap ids # {}}
Gone(q) == WithOwned(WithOwned(q.select \cup {x.old : x \in q.retire}))

Detached(q, id) == IF \E d \in q.detach : d.run = id THEN [row[id] EXCEPT !.chat = None] ELSE row[id]

\* Fault: a retained row may refer to what goes.
BlockersButKeys(q, gone) ==
    {id \in gone : row[id].tab = "event" /\ row[id].target \notin gone}

\* What blocks it: a retained row that refers to what goes, evidence about it
\* that was corrected, the history of what stays, active work that mentions it,
\* and what a replaced job was proved with.
Blockers(q, gone) ==
    {id \in DOMAIN row \ gone : Refs(Detached(q, id)) \cap gone # {}}
    \cup {id \in OfTab("correction") : row[id].target \in gone}
    \cup {id \in gone : row[id].tab = "event" /\ row[id].target \notin gone}
    \cup {id \in OfTab("occurrence") : row[id].status \in {"pending", "running"} /\ Mentions(id, row[id]) \cap gone # {}}
    \cup {id \in OfTab("run") : ~Terminal(row[id]) /\ Mentions(id, row[id]) \cap gone # {}}
    \cup (gone \cap ({x.new : x \in q.retire} \cup {row[x.new].object : x \in q.retire}))

Facts(ids) == {<<id, row[id]>> : id \in ids}
Manifest(q) ==
    LET gone == Gone(q)
    IN [gone |-> Facts(gone), blockers |-> Blockers(q, gone),
        changes |-> Facts({d.run : d \in q.detach} \cup q.cancel),
        proofs |-> Facts({x.new : x \in q.retire} \cup {row[x.new].object : x \in q.retire}
                         \cup UNION {Beside(c) \cup {row[c].chat} : c \in q.cancel}),
        mentions |-> Facts({id \in DOMAIN row \ gone : Mentions(id, row[id]) \cap gone # {}})]

(******************************* purges ************************************)
\* The preview, which an owner reviews and approves.
Preview(q) ==
    /\ q.do = "purge" /\ Named(q) \subseteq DOMAIN row /\ Reconcilable(q)
    /\ \A r \in reviewed : r.asked # q
    /\ reviewed' = reviewed \cup {[asked |-> q, manifest |-> Manifest(q)]}
    /\ UNCHANGED <<store, calls, todo, answers, receipts>>

\* Fault: the manifest is not compared with the one that was approved.
Unreviewed(r) == Named(r.asked) \subseteq DOMAIN row /\ Reconcilable(r.asked)

\* The manifest holds every row the request names, with its content.
Unchanged(r) ==
    /\ Named(r.asked) \subseteq DOMAIN row /\ Reconcilable(r.asked)
    /\ Manifest(r.asked) = r.manifest

\* Fault: the receipts are not looked at.
NeverReplayed(r) == FALSE

Replayed(r) == \E i \in DOMAIN receipts : receipts[i].asked.key = r.asked.key

(* The commit.  A used key answers with its receipt; otherwise the manifest  *)
(* must be the approved one, as of the tables it has locked, and nothing may *)
(* block it.                                                                 *)
Purge(r) ==
    LET q == r.asked
        gone == Gone(q)
        fences == [f \in {c \o ":fence" : c \in q.cancel} |->
                      LET c == CHOOSE x \in q.cancel : f = x \o ":fence"
                      IN [tab |-> "fence", thread |-> row[c].chat, runs |-> Beside(c), says |-> {}]]
        Changed(id) == IF id \in q.cancel THEN [row[id] EXCEPT !.status = "cancelled"] ELSE Detached(q, id)
    IN /\ ~Replayed(r) /\ Unchanged(r) /\ Manifest(q).blockers = {}
       /\ row' = [id \in DOMAIN row \ gone |-> Changed(id)] ++ fences
       /\ receipts' = Append(receipts, [asked |-> q, gone |-> Facts(gone)])
       /\ UNCHANGED <<now, horizon, starts, calls, todo, answers, reviewed>>
=============================================================================
