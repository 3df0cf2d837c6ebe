---------------------------- MODULE SourceIntake ----------------------------
(***************************************************************************)
(* The intake listener: batches of Objects, Artifacts and Connections, and *)
(* Source captures, which are batches of one Source.  A request is         *)
(* prepared from reads outside any transaction, compared with the Run of   *)
(* an earlier commit under the same key, and written in one transaction.   *)
(* Ids are derived from the key; hashes stand for what they are taken of.  *)
(***************************************************************************)
EXTENDS RecordStore

Id(key, name) == key \o ":" \o name
RunOf(key) == Id(key, "run")
Committed(key) == RunOf(key) \in OfTab("run") /\ row[RunOf(key)].kind = "intake"

(***************************** preparation *********************************)
Names(b) == {o.name : o \in b.objects}
Resolvable(b, ref) == ref \in Names(b) \/ Live(ref)
Resolved(b, ref) == IF ref \in Names(b) THEN Id(b.key, ref) ELSE ref
KindOf(b, ref) == IF ref \in Names(b) THEN (CHOOSE o \in b.objects : o.name = ref).kind ELSE row[ref].kind

Acceptable(b) ==
    /\ \A x, y \in b.objects \cup b.contents \cup b.edges : x.name = y.name => x = y
    /\ \A c \in b.contents : Resolvable(b, c.of)
    /\ \A e \in b.edges :
          /\ Resolvable(b, e.src) /\ Resolvable(b, e.dst)
          /\ Resolved(b, e.src) # Resolved(b, e.dst)
          /\ e.kind = "themed" => KindOf(b, e.src) # "theme" /\ KindOf(b, e.dst) = "theme"
          /\ \A f \in b.edges : <<e.src, e.kind, e.dst>> = <<f.src, f.kind, f.dst>> => e = f

\* The batch with the ids its resources will have.
Prepared(b) ==
    [objects |-> {[id |-> Id(b.key, o.name), kind |-> o.kind, uri |-> o.uri] : o \in b.objects},
     contents |-> {[id |-> Id(b.key, c.name), object |-> Resolved(b, c.of), pred |-> None,
                    body |-> c.body, whole |-> c.whole] : c \in b.contents},
     edges |-> {[id |-> Id(b.key, e.name), src |-> Resolved(b, e.src), kind |-> e.kind,
                 dst |-> Resolved(b, e.dst)] : e \in b.edges},
     on |-> {Id(b.key, o.name) : o \in b.objects}, adopts |-> {}, chat |-> None]

(****************************** Sources ************************************)
\* source_batch: one Source, its content, and what it is connected with.
SourceBatch(q) ==
    [key |-> q.key,
     objects |-> {[name |-> "source", kind |-> "source", uri |-> q.uri]},
     contents |-> {[name |-> "content", of |-> "source", body |-> q.body, whole |-> TRUE]},
     edges |-> {[name |-> e.kind \o "-" \o e.dst, src |-> "source", kind |-> e.kind, dst |-> e.dst] : e \in q.edges}
               \cup (IF q.chat = None THEN {}
                     ELSE {[name |-> "originating-chat", src |-> q.chat, kind |-> "about", dst |-> "source"]})]

Copies(s, body) == {a \in OfTab("artifact") : row[a].object = s /\ row[a].body = body}
LatestCopy(s, body) == CHOOSE a \in Copies(s, body) : \A b \in Copies(s, body) : row[b].age <= row[a].age
SameUri(s, q) == q.uri # None /\ row[s].uri = q.uri
Rivals(q) ==
    {s \in Objects("source") \ {Id(q.key, "source")} :
        row[s].live /\ (SameUri(s, q) \/ Copies(s, q.body) # {})}

\* A Source the curator has named, for which nothing is captured yet.
Placeholder(s, q) ==
    ~row[s].guarded /\ row[s].current = None /\ row[s].uri = q.uri /\ row[s].by = "curator"

\* adopt_object, reuse_object_with_artifacts, reuse_object: the Source s takes
\* the place of the one that would have been created.
Moved(p, s) ==
    LET At(ref) == IF ref \in p.on THEN s ELSE ref
    IN [p EXCEPT !.on = {s},
                 !.objects = {[o EXCEPT !.id = s] : o \in @},
                 !.contents = {[c EXCEPT !.object = At(c.object)] : c \in @},
                 !.edges = {[e EXCEPT !.src = At(e.src), !.dst = At(e.dst)] : e \in @}]
Adopting(p, s) == [Moved(p, s) EXCEPT !.adopts = {s}]
Superseding(p, s, pred) ==
    [Moved(p, s) EXCEPT !.objects = {}, !.contents = {[c EXCEPT !.pred = pred] : c \in @}]
Reusing(p, s) == [Moved(p, s) EXCEPT !.objects = {}, !.contents = {}]
\* Fault: a Connection of another kind counts as the one asked for.
LackingAny(p) ==
    [p EXCEPT !.edges = {e \in @ : \A l \in OfTab("link") : row[l].live => {row[l].src, row[l].dst} # {e.src, e.dst}}]

\* discard_connections: but for those another batch or agent has made
Lacking(p) == [p EXCEPT !.edges = {e \in @ : SameLink(e.src, e.kind, e.dst) \subseteq {e.id}}]

Refused == [refused |-> TRUE]

\* Fault: content is known because its URI is.
SettledByUri(p, q) ==
    IF Rivals(q) = {} THEN p ELSE Lacking(Reusing(p, CHOOSE x \in Rivals(q) : TRUE))

\* What becomes of a capture when another Source has its URI or its content.
Settled(p, q) ==
    IF Rivals(q) = {} THEN p
    ELSE IF Cardinality(Rivals(q)) > 1 THEN Refused
    ELSE LET s == CHOOSE x \in Rivals(q) : TRUE
             exact == SameUri(s, q) /\ Copies(s, q.body) # {}
             adopted == Committed(q.key) /\ row[s].past # None
         IN IF adopted THEN Adopting(p, s)
            ELSE IF exact /\ p.edges = {} THEN Refused
            ELSE IF exact /\ LatestCopy(s, q.body) = Id(q.key, "content")
            THEN Lacking(Superseding(p, s, IF row[s].current = None THEN None ELSE row[row[s].current].pred))
            ELSE IF exact THEN Lacking(Reusing(p, s))
            ELSE IF SameUri(s, q) /\ row[s].current # None
            THEN Lacking(Superseding(p, s, row[s].current))
            ELSE IF Committed(q.key) \/ Placeholder(s, q) THEN Adopting(p, s)
            ELSE Refused

Batch(q) == IF q.do = "capture" THEN SourceBatch(q) ELSE q.batch

(***************************** the handlers ********************************)
KeyOf(q) == Batch(q).key
Said(q, how, on) == answers' = answers \cup {[asked |-> q, how |-> how, on |-> on]}

\* The reads of commit_batch and commit_source.
Prepare(q) ==
    /\ q.do \in {"capture", "batch"} /\ Sent(q)
    /\ LET p == IF ~Acceptable(Batch(q)) THEN Refused ELSE
                IF q.do = "batch" THEN Prepared(q.batch) ELSE Settled(Prepared(SourceBatch(q)), q)
       IN IF p = Refused
          THEN Said(q, "refused", {}) /\ UNCHANGED calls
          ELSE calls' = calls \cup {[asked |-> q, plan |-> p, pc |-> "status"]} /\ UNCHANGED answers
    /\ UNCHANGED <<store, reviewed, receipts>>

Payload(p) == <<p.objects, p.contents, p.edges>>
EventsOfRun(run) == {e \in OfTab("event") : row[e].run = run}
Resources(p) == Cardinality(p.objects) + Cardinality(p.contents) + Cardinality(p.edges)

\* Fault: a retry is compared with the manifest alone.
SameRequest(q, p) == row[RunOf(KeyOf(q))].manifest = Batch(q)

\* The manifest, the payload and the Events of the Run with this key.
SameBatch(q, p) ==
    /\ row[RunOf(KeyOf(q))].manifest = Batch(q)
    /\ row[RunOf(KeyOf(q))].payload = Payload(p)
    /\ Cardinality(EventsOfRun(RunOf(KeyOf(q)))) = Resources(p)

Status(c) ==
    /\ c.pc = "status"
    /\ IF Committed(KeyOf(c.asked))
       THEN /\ calls' = calls \ {c}
            /\ IF SameBatch(c.asked, c.plan) THEN Said(c.asked, "replayed", c.plan.on)
               ELSE Said(c.asked, "refused", {})
       ELSE calls' = (calls \ {c}) \cup {[c EXCEPT !.pc = "write"]} /\ UNCHANGED answers
    /\ UNCHANGED <<store, todo, reviewed, receipts>>

\* Fault: a placeholder is adopted as it was when the request was prepared.
AnyAdoptable(s) == s \in DOMAIN row

Adoptable(s) ==
    s \in Objects("source") /\ row[s].live /\ ~row[s].guarded /\ row[s].current = None

ContentsOf(p, o) == {c \in p.contents : c.object = o}
\* An Object that gains Artifacts: the last whole one is its current content.
Filled(old, p, o) ==
    LET cs == ContentsOf(p, o)
        whole == {c.id : c \in {x \in cs : x.whole}}
        new == [old EXCEPT !.rev = @ + Cardinality(cs)]
    IN IF old.kind = "source" /\ whole # {} THEN [new EXCEPT !.current = CHOOSE a \in whole : TRUE] ELSE new

IntakeRun(q, p) ==
    NewRun("intake", "completed",
        [manifest |-> Batch(q), payload |-> Payload(p),
         says |-> p.on \cup {c.id : c \in p.contents} \cup {e.dst : e \in p.edges},
         primary |-> IF Cardinality(p.on) = 1 THEN CHOOSE o \in p.on : TRUE ELSE None,
         chat |-> IF \E e \in p.edges : e.id = Id(KeyOf(q), "originating-chat") THEN q.chat ELSE None])

Fresh(p) == {o \in p.objects : o.id \notin p.adopts}
Born(q, o) == IF o.kind = "source" THEN SourceObject(o.uri, TRUE, KeyOf(q)) ELSE Object(o.kind, << >>)
NewObjects(q, p) ==
    [i \in {o.id : o \in Fresh(p)} |-> LET o == CHOOSE x \in Fresh(p) : x.id = i IN Filled(Born(q, o), p, i)]
NewArtifacts(p) ==
    [i \in {c.id : c \in p.contents} |->
        LET c == CHOOSE x \in p.contents : x.id = i IN Artifact(c.object, c.body, c.pred)]
NewLinks(p) ==
    [i \in {e.id : e \in p.edges} |->
        LET e == CHOOSE x \in p.edges : x.id = i IN Link(e.src, e.kind, e.dst)]

\* One Event for each resource; an Object that is adopted has had others.
EventId(x) == x.id \o "!"
IntakeEventId(o, key) == o.id \o "!" \o key
ObjectEvents(q, p) ==
    [i \in {IntakeEventId(o, KeyOf(q)) : o \in p.objects} |->
        LET o == CHOOSE x \in p.objects : i = IntakeEventId(x, KeyOf(q))
        IN ObjectEvent(RunOf(KeyOf(q)), o.id, {})]
ContentEvents(q, p) ==
    [i \in {EventId(c) : c \in p.contents} |->
        LET c == CHOOSE x \in p.contents : i = EventId(x) IN ObjectEvent(RunOf(KeyOf(q)), c.object, {c.id})]
LinkEvents(q, p) ==
    [i \in {EventId(e) : e \in p.edges} |->
        LET e == CHOOSE x \in p.edges : i = EventId(x) IN ObjectEvent(RunOf(KeyOf(q)), e.id, {e.src, e.dst})]

NewRows(q, p) ==
    Only(RunOf(KeyOf(q)), IntakeRun(q, p)) ++ NewObjects(q, p) ++ NewArtifacts(p) ++ NewLinks(p)
    ++ ObjectEvents(q, p) ++ ContentEvents(q, p) ++ LinkEvents(q, p)

Touched(p) == p.adopts \cup {c.object : c \in p.contents}
Updated(q, p) ==
    [o \in Touched(p) \cap DOMAIN row |->
        IF o \in p.adopts
        THEN Filled([row[o] EXCEPT !.rev = @ + 1, !.guarded = TRUE, !.past = row[o].by,
                                   !.by = KeyOf(q), !.uri = q.uri], p, o)
        ELSE Filled(row[o], p, o)]

\* Fault: rows that are there already are no conflict.
WritableAnyway(q, p) == Sound(NewRows(q, p) ++ Updated(q, p) ++ row)

\* write_batch: the keys, the unique Connections and the foreign keys decide at
\* commit; a Source that is reused is locked, whatever has become of it since.
Writable(q, p) ==
    /\ \A o \in p.adopts : Adoptable(o)
    /\ DOMAIN NewRows(q, p) \cap DOMAIN row = {}
    /\ ~Fenced(RunOf(KeyOf(q)), NewRows(q, p)[RunOf(KeyOf(q))])
    /\ \A e \in p.edges : SameLink(e.src, e.kind, e.dst) = {}
    /\ Sound(NewRows(q, p) ++ Updated(q, p) ++ row)

Write(c) ==
    /\ c.pc = "write" /\ Writable(c.asked, c.plan)
    /\ row' = NewRows(c.asked, c.plan) ++ Updated(c.asked, c.plan) ++ row
    /\ calls' = calls \ {c}
    /\ Said(c.asked, "committed", c.plan.on)
    /\ UNCHANGED <<now, horizon, starts, todo, reviewed, receipts>>

\* Fault: the transaction fails, or its answer or the process is lost.
Lost(c) ==
    /\ "asked" \in DOMAIN c /\ c.pc = "write"
    /\ calls' = calls \ {c}
    /\ UNCHANGED <<store, todo, answers, reviewed, receipts>>

(**************************** edits of Sources *****************************)
\* update_source: by revision, so what it writes back unchanged is unchanged.
EditSource(q) ==
    /\ q.do = "edit source" /\ q.on \in Objects("source") /\ row[q.on].live
    /\ q.key \notin DOMAIN row
    /\ row' = Only(q.on, q.set ++ [row[q.on] EXCEPT !.rev = @ + 1]) ++ row ++ Journal(q.key, q.on, {})
    /\ OneStep(q) /\ UNCHANGED answers

\* archive_connection
ArchiveLink(q) ==
    /\ q.do = "unlink" /\ q.on \in OfTab("link") /\ row[q.on].live
    /\ q.key \notin DOMAIN row
    /\ row' = Only(q.on, [row[q.on] EXCEPT !.live = FALSE]) ++ row ++ Journal(q.key, q.on, {})
    /\ OneStep(q) /\ UNCHANGED answers
=============================================================================
