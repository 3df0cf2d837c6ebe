---------------------------- MODULE RecordWriters ---------------------------
(***************************************************************************)
(* Intake, workflow Runs, Task routines and reviewed purges over one       *)
(* store, with the owners' edits beside them.  A purge is alone while it   *)
(* commits, but what the others have read before it, or keep a reference   *)
(* to, outlives it.                                                        *)
(***************************************************************************)
EXTENDS WorkflowRuns, TaskRoutines, ReviewedPurge

CONSTANT Tasks   \* ids of the Tasks with a routine

Sent_ == UNION {s.todo : s \in Scenarios}
Captures == {q \in Sent_ : q.do \in {"capture", "batch"}}
Resources_(b) == b.objects \cup b.contents \cup b.edges

\* Keys of batches, and names of what is in one.
Keys == {KeyOf(q) : q \in Captures}
NamesIn(q) == {x.name : x \in Resources_(Batch(q))}
AllNames == {"run"} \cup UNION {NamesIn(q) : q \in Captures}

\* Ids derived from different keys or names differ, as UUIDs do.
ASSUME IdsAssumption ==
    /\ \A k, l \in Keys : \A n, m \in AllNames : Id(k, n) = Id(l, m) => k = l /\ n = m
    /\ \A t, u \in Tasks : RoutineOf(t) = RoutineOf(u) => t = u
    /\ None \notin Nat \cup {Id(k, n) : k \in Keys, n \in AllNames}

\* What the listeners accept: bounded batches of the kinds intake creates, edits of
\* columns a client may name, and outcomes an occurrence may have.
Request(q) ==
    /\ q.do \in {"capture", "batch"} =>
           /\ "run" \notin NamesIn(q)
           /\ IsFiniteSet(Batch(q).objects) /\ IsFiniteSet(Batch(q).contents) /\ IsFiniteSet(Batch(q).edges)
           /\ \A o \in Batch(q).objects :
                 DOMAIN o = {"name", "kind", "uri"} /\ o.kind \in {"user", "entity", "source", "note", "theme"}
           /\ \A c \in Batch(q).contents : DOMAIN c = {"name", "of", "body", "whole"}
           /\ \A e \in Batch(q).edges : DOMAIN e = {"name", "src", "kind", "dst"}
    /\ q.do = "capture" => \A e \in q.edges : e.dst # "source"
    /\ q.do = "edit source" =>
           /\ DOMAIN q.set \subseteq {"uri", "guarded", "live", "by"}
           /\ "live" \in DOMAIN q.set => q.set.live \in BOOLEAN
    /\ q.do = "edit task" =>
           /\ DOMAIN q.set \subseteq {"status", "ready", "text", "live"}
           /\ "live" \in DOMAIN q.set => q.set.live \in BOOLEAN
    /\ q.do = "configure" => q.on \in Tasks /\ q.enabled \in BOOLEAN
    /\ q.do = "report" => q.status \in Outcomes

\* The columns of the tables.
Columns(x) ==
    /\ {"tab", "says"} \subseteq DOMAIN x
    /\ x.tab = "object" =>
           /\ {"kind", "rev", "live"} \subseteq DOMAIN x /\ x.rev \in Nat \ {0} /\ x.live \in BOOLEAN
           /\ x.kind = "source" =>
                 /\ {"uri", "guarded", "by", "past", "current"} \subseteq DOMAIN x
                 /\ x.past # None => x.current # None
           /\ x.kind = "task" => {"status", "ready", "text"} \subseteq DOMAIN x
    /\ x.tab = "artifact" => {"object", "body", "pred", "age"} \subseteq DOMAIN x /\ x.object # None
    /\ x.tab = "link" => {"src", "kind", "dst", "live"} \subseteq DOMAIN x /\ None \notin {x.src, x.dst}
    /\ x.tab = "event" => {"run", "target"} \subseteq DOMAIN x
    /\ x.tab = "run" =>
           /\ {"kind", "status", "chat", "parent", "primary", "trace", "review", "pinned"} \subseteq DOMAIN x
           /\ x.kind = "intake" => {"manifest", "payload"} \subseteq DOMAIN x
    /\ x.tab = "correction" => {"object", "target"} \subseteq DOMAIN x /\ x.says = {x.target}
    /\ x.tab = "routine" => {"task", "enabled", "approves", "next"} \subseteq DOMAIN x /\ x.enabled = (x.next # None)
    /\ x.tab = "occurrence" =>
           /\ {"task", "at", "rev", "status", "thread"} \subseteq DOMAIN x
           /\ x.status \in Outcomes \cup {"pending", "running"}
    /\ x.tab = "message" => "chat" \in DOMAIN x
    /\ x.tab = "embedding" => {"object", "artifact"} \subseteq DOMAIN x
    /\ x.tab = "reply" => "run" \in DOMAIN x

\* Events are of rows that are there.
Targets(r) ==
    \A id \in DOMAIN r :
        r[id].tab = "event" => r[id].target \in DOMAIN r /\ r[r[id].target].tab \in {"object", "link"}

\* A store the other writers have left; no batch under these keys, and no routine, yet.
ASSUME ScenariosAssumption ==
    \A s \in Scenarios :
        /\ s.horizon \in Nat /\ \A q \in s.todo : Request(q)
        /\ None \notin DOMAIN s.rows
        /\ \A id \in DOMAIN s.rows :
              /\ Columns(s.rows[id]) /\ s.rows[id].tab \notin {"routine", "occurrence"}
              /\ s.rows[id].tab = "run" => s.rows[id].kind # "intake"
        /\ Sound(s.rows) /\ Targets(s.rows)

Init ==
    /\ \E s \in Scenarios : row = s.rows /\ todo = s.todo /\ horizon = s.horizon
    /\ now = 0 /\ starts = << >> /\ calls = {} /\ answers = {} /\ reviewed = {} /\ receipts = << >>

Requests ==
    \E q \in todo :
        \/ Prepare(q) \/ EditSource(q) \/ ArchiveLink(q) \/ Correct(q)
        \/ Start(q) \/ Trace(q) \/ Charge(q) \/ Finish(q) \/ FinishInteraction(q) \/ Review(q)
        \/ EditTask(q) \/ Configure(q) \/ Report(q)

Intake == \E c \in calls : Status(c) \/ Write(c) \/ Lost(c)

Dispatch == \E o \in Occurrences, thread \in Threads : CheckStart(o, thread)
Binding == \E o \in DOMAIN starts : Bind(o)
Purging == (\E q \in todo : Preview(q)) \/ (\E r \in reviewed : Purge(r))

\* What is still to come may never come: then nothing more happens.
Next == Requests \/ Intake \/ Tick \/ ClaimDue \/ Dispatch \/ Binding \/ Purging

\* The dispatcher polls, and starts what it was answered; a transaction that has
\* begun ends.
Spec == Init /\ [][Next]_vars /\ WF_vars(ClaimDue) /\ WF_vars(Dispatch) /\ WF_vars(Binding)

-----------------------------------------------------------------------------
(* Properties                                                              *)

\* Requests in flight have a plan, answers name a request, a row with a routine
\* is a Task's, what is being started is active, and the revisions and times are
\* numbers.
TypeOK ==
    /\ now \in 0..horizon
    /\ \A c \in calls : c.pc \in {"status", "write"}
    /\ \A o \in OfTab("object") : row[o].rev \in Nat \ {0} /\ row[o].live \in BOOLEAN
    /\ \A r \in Routines : row[r].enabled = (row[r].next # None) /\ row[r].task \in Objects("task")
    /\ \A o \in Occurrences : row[o].status \in Outcomes \cup {"pending", "running"}
    /\ DOMAIN starts \subseteq {o \in Occurrences : Active(o)}

\* Whoever writes and whatever is purged, no foreign key dangles: a purge of
\* rows and all that they own is never refused by the database half-way.
NothingDangles == Sound(row)

Answered200(a) == a.how \in {"committed", "replayed"}

\* The rows that purges have taken, as they were reviewed.
PurgedFacts == UNION {receipts[i].gone : i \in DOMAIN receipts}
PurgedIds == {f[1] : f \in PurgedFacts}

\* A row that holds this content of a Source, and one that connects two Objects.
IsCopy(r, s, body) == r.tab = "artifact" /\ r.object = s /\ r.body = body
Connects(r, src, kind, dst) == r.tab = "link" /\ <<r.src, r.kind, r.dst>> = <<src, kind, dst>>

\* What a capture was told is committed, or replayed, is among the content of
\* the Source it was answered with, however captures, retries and edits race,
\* unless a reviewed purge has taken it.
CommittedContentIsKept ==
    \A a \in answers :
        a.asked.do = "capture" /\ Answered200(a) =>
            \A s \in a.on : \/ Copies(s, a.asked.body) # {}
                            \/ \E f \in PurgedFacts : IsCopy(f[2], s, a.asked.body)

\* The Connections asked for are there too, or were archived or purged after.
CommittedLinksAreMade ==
    \A a \in answers :
        a.asked.do = "capture" /\ Answered200(a) =>
            \A s \in a.on, e \in a.asked.edges :
                \/ \E l \in DOMAIN row : Connects(row[l], s, e.kind, e.dst)
                \/ \E f \in PurgedFacts : Connects(f[2], s, e.kind, e.dst)

WrittenBy(run) == {x.id : x \in UNION Range(run.payload)}

\* A repeated request is told it was a replay only while all the Objects and
\* Connections it wrote are there, whatever was purged in between.
ReplaysAreWhole ==
    [][\A a \in answers' \ answers :
          a.how = "replayed" =>
              LET payload == row[RunOf(KeyOf(a.asked))].payload
              IN {x.id : x \in payload[1] \cup payload[3]} \subseteq DOMAIN row]_vars

Resource(r) == r.tab \in {"object", "artifact", "link"}

\* While the Run of a batch is retained, nothing a purge has taken of the batch
\* comes back by a retry of it.
PurgedNeverReturns ==
    [][\A r \in OfTab("run") \cap DOMAIN row' :
          row[r].kind = "intake" =>
              \A id \in WrittenBy(row[r]) \cap PurgedIds : id \in DOMAIN row' /\ Resource(row'[id]) => id \in DOMAIN row]_vars

\* A placeholder is adopted once, and what it was before stays on record.
AdoptionKeepsPast ==
    [][\A s \in Objects("source") :
          s \in DOMAIN row' /\ row[s].past # None => row'[s].past = row[s].past]_vars

\* The first outcome of a Run stands, whatever is delivered again or late and
\* whoever else ends it.
RunOutcomesStand ==
    [][\A r \in OfTab("run") :
          r \in DOMAIN row' /\ Terminal(row[r]) => row'[r].status = row[r].status]_vars

Purges == receipts' # receipts
Deleted == DOMAIN row \ DOMAIN row'

\* A row is deleted only by a purge, and as its owner has reviewed it.
DeletionsAreReviewed ==
    [][Deleted # {} =>
          /\ Purges
          /\ \E r \in reviewed : r.asked = Last(receipts').asked /\ Facts(Deleted) = r.manifest.gone]_vars

\* No purge takes the history of a row that stays, a row that active work
\* mentions, or evidence that was corrected.
PurgeSparesWhatIsUsed ==
    [][Deleted # {} =>
          /\ \A e \in Deleted : row[e].tab = "event" => row[e].target \in Deleted
          /\ \A r \in DOMAIN row' :
                (row'[r].tab = "run" /\ ~Terminal(row'[r])) \/ (row'[r].tab = "occurrence" /\ row'[r].status \notin Outcomes)
                    \/ row'[r].tab = "correction"
                => (Mentions(r, row'[r]) \cup (IF row'[r].tab = "correction" THEN {row'[r].target} ELSE {}))
                       \cap Deleted = {}]_vars

\* One key purges once: neither another review under it, nor rows that a retried
\* capture has written again, make it purge a second time.
PurgedOnce ==
    \A i, j \in DOMAIN receipts : receipts[i].asked.key = receipts[j].asked.key => i = j

ApprovedTexts(t) == {a.on : a \in {x \in answers : x.how = "approved" /\ x.asked.on = t}}

\* The text of its Task is as somebody approved it.
TextIsApproved(o) == row[row[o].task].text \in ApprovedTexts(row[o].task)

\* A start begins only of approved text, and reads rows it does not lock: when an
\* edit overtakes it, what is bound to the new text is never called eligible.
StartsAreApproved == [][\A o \in DOMAIN starts' \ DOMAIN starts : TextIsApproved(o)]_vars
EligibleIsApproved == \A o \in Occurrences : Eligible(o) => TextIsApproved(o)

\* Migration 0032: any edit invalidates approval of the old definition, so that what
\* is bound is as it was approved.
ExecutionsAreApproved ==
    [][\A o \in Occurrences : o \in DOMAIN row' /\ row'[o].thread # row[o].thread => TextIsApproved(o)]_vars

\* The outcome of an occurrence stands, but that a human completes a review; and
\* only the execution that was bound last reports beside humans and dispatcher.
OccurrencesEndOnce ==
    [][\A o \in Occurrences :
          o \in DOMAIN row' /\ row[o].status \in Outcomes /\ row'[o].status # row[o].status =>
              row[o].status = "review" /\ row'[o].status = "completed"
              /\ \E q \in todo \ todo' : q.do = "report" /\ q.who = "human"]_vars

\* Two executions of one Task never overlap.
OccurrencesDoNotOverlap ==
    \A o, p \in Occurrences : o # p /\ row[o].task = row[p].task => ~(Active(o) /\ Active(p))

IsPending(t) == \E o \in OccurrencesOf(t) : row[o].status = "pending"

\* While the dispatcher polls, no occurrence stays pending: it is started, or is
\* skipped because its Task was paused or edited.
PendingSettles == \A t \in Tasks : IsPending(t) ~> ~IsPending(t)

\* docs/operations.md: an exact retry of a committed capture is a replay: while
\* the Source it went to is there under its URI, the retry is planned as it was.
RetriesAreReplays ==
    [][\A q \in todo \ todo' :
          /\ q.do = "capture" /\ Committed(q.key) /\ row[RunOf(q.key)].manifest = SourceBatch(q)
          /\ LET s == row[RunOf(q.key)].primary IN Live(s) /\ SameUri(s, q)
          => \E c \in calls' : c.asked = q /\ SameBatch(q, c.plan)]_vars

\* What every committed state shows: well-formed rows, no dangling key, and one
\* execution of each Task at most.
StoreIsSound == TypeOK /\ NothingDangles /\ OccurrencesDoNotOverlap

\* What was answered stays true: the content and the Connections of a capture, and
\* that a purge was done, once.
AnswersStand == CommittedContentIsKept /\ CommittedLinksAreMade /\ PurgedOnce

\* Requests repeated around purges and adoptions are replays of what is there, bring
\* nothing purged back, and adopt nothing twice.
RepeatsAreReplays == ReplaysAreWhole /\ PurgedNeverReturns /\ AdoptionKeepsPast

\* A purge takes what its owner has reviewed, and spares what is in use.
PurgesAreReviewed == DeletionsAreReviewed /\ PurgeSparesWhatIsUsed

\* Runs and occurrences end once, and a start begins only of what is approved.
OutcomesStand == RunOutcomesStand /\ OccurrencesEndOnce /\ StartsAreApproved /\ []EligibleIsApproved
=============================================================================
