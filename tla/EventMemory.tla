----------------------------- MODULE EventMemory -----------------------------
(* Memory from committed outcomes (memory.rs, event_memory.rs). Until the      *)
(* cutover every outcome of a Task, Source or Note becomes a Memory. After it  *)
(* outcomes are extracted into canonical Events, and the Events are reviewed   *)
(* into Memories by synthesis.                                                 *)
EXTENDS MemoryReview

Outcomes == DOMAIN scenario.what
Told(o) == \E r \in Runs("memory_capture") : o \in DOMAIN runs[r].prints
Record(of, log) == [NewRun("memory_capture", of, FALSE) EXCEPT !.status = "completed", !.log = log]

(************************** outcomes are committed **************************)
\* The transaction of an outcome begins, which is when its Event is dated.
BeginOutcome(a) ==
    /\ External(a) /\ a.do = "outcome"
    /\ capture' = [capture EXCEPT !.open = @ \cup {a.on}, !.early = IF capture.started THEN @ ELSE @ \cup {a.on}]
    /\ UNCHANGED <<rows, runs, cut, facts, woken>>
CommitOutcome(o) ==
    /\ o \in capture.open
    /\ capture' = [capture EXCEPT !.open = @ \ {o}]
    /\ facts' = With(facts, o, 0)
    /\ Notified
    /\ UNCHANGED <<scenario, rows, runs, cut, lease, at, armed, timing, todo>>

(*************************** capture_outcomes *******************************)
\* An Event of the ledger that capture answers for: committed, dated after the
\* start, a creation or a Task's update. Some only leave a receipt.
Owed(o) == o \in DOMAIN facts /\ o \notin capture.early /\ scenario.what[o] # "other"
Untold == {o \in Outcomes : Owed(o) /\ ~Told(o)}
Memorable == {o \in Untold : scenario.what[o] = "created" /\ rows[scenario.on[o]].live}
\* The store with the rows a pass makes: of each such outcome a Memory and its Connection.
Written(new) ==
    [i \in DOMAIN rows \cup Range(new) |->
        LET p == CHOOSE p \in DOMAIN new : new[p] = i
        IN IF i \in DOMAIN rows THEN rows[i]
           ELSE IF p[2] = "memory" THEN NewObject("memory", "capture", {p[1]})
           ELSE NewLink(new[<<p[1], "memory">>], "about", scenario.on[p[1]], "capture")]
Journal(new, o) ==
    IF o \in Memorable THEN <<Entry(new[<<o, "memory">>], TRUE, None, 1), Entry(new[<<o, "about">>], TRUE, None, 1)>>
    ELSE << >>
\* One transaction under the lease: a receipt per outcome, with its Memory.
CaptureOutcomes(w) ==
    LET parts == Memorable \X {"memory", "about"}
        new == CHOOSE f \in [parts -> Ids \ DOMAIN rows] : IsInjective(f)
        order == SetToSeq(Untold)
    IN /\ w \in Capturers /\ at[w].pc = "idle" /\ lease.capture = None /\ ~cut.done
       /\ ~capture.started \/ Untold # {}
       /\ \E f \in [parts -> Ids \ DOMAIN rows] : IsInjective(f)
       /\ capture' = [capture EXCEPT !.started = TRUE]
       /\ rows' = Written(new)
       /\ runs' = runs \o [k \in DOMAIN order |-> Record([o \in {order[k]} |-> None], Journal(new, order[k]))]
       /\ Notified
       /\ UNCHANGED <<scenario, cut, facts, lease, at, armed, timing, todo>>

(******************************** the cutover *******************************)
\* activate() waits for every lease. Its baselines are the Event versions there
\* are, and the outcomes that capture does not owe a receipt.
\* Fault: the baseline takes every outcome committed so far.
ActivateOverAll(a) ==
    /\ External(a) /\ a.do = "cutover" /\ ~cut.done /\ lease.capture = None /\ lease.review = None
    /\ cut' = [done |-> TRUE, prints |-> [e \in OfKind(rows, "event") |-> EventPrint(rows, facts, e)], acts |-> Outcomes \cap DOMAIN facts]
    /\ Notified /\ UNCHANGED <<rows, runs, facts, capture>>
Activate(a) ==
    /\ External(a) /\ a.do = "cutover"
    /\ ~cut.done /\ lease.capture = None /\ lease.review = None
    /\ cut' = [done |-> TRUE,
               prints |-> [e \in OfKind(rows, "event") |-> EventPrint(rows, facts, e)],
               acts |-> {o \in Outcomes \cap DOMAIN facts : ~(capture.started /\ Owed(o) /\ ~Told(o))}]
    /\ Notified
    /\ UNCHANGED <<rows, runs, facts, capture>>

(****************************** extraction **********************************)
\* Fault: an extraction that was undone is made again.
CoveredUntilUndone(o) ==
    \E r \in Runs("event_capture") :
        /\ o \in DOMAIN runs[r].prints
        /\ runs[r].status = "completed" \/ (runs[r].status = "failed" /\ runs[r].retry # "due")
Covered(o) ==
    \E r \in Runs("event_capture") :
        /\ o \in DOMAIN runs[r].prints
        /\ runs[r].status \in {"completed", "reversed"} \/ (runs[r].status = "failed" /\ runs[r].retry # "due")
Unextracted == {o \in (Outcomes \cap DOMAIN facts) \ cut.acts : ~Told(o) /\ ~Covered(o)}
Capturing(w) == w \in Capturers /\ at[w].run # 0

ClaimCapture(w) ==
    /\ w \in Capturers /\ at[w].pc = "idle" /\ cut.done /\ lease.capture = None
    /\ Unextracted # {} \/ Abandoned("event_capture") # {}
    /\ Claimed(w) /\ runs' = LeftBehind("event_capture")
    /\ at' = [at EXCEPT ![w].pc = "event_capture"]
    /\ UNCHANGED <<scenario, rows, cut, facts, capture, woken, armed, timing, todo>>
ScanOutcomes(w) ==
    LET targets == {scenario.on[o] : o \in Unextracted}
        related == {e \in OfKind(rows, "event") : rows[e].live /\ \E t \in targets : LinksOf(rows, e) \cap LinksOf(rows, t) # {}}
        batch == [evidence |-> [o \in Unextracted |-> facts[o]], candidates |-> Revisions(targets \cup related)]
    IN /\ at[w].pc = "event_capture"
       /\ IF Unextracted = {} THEN /\ at' = [at EXCEPT ![w] = Idle] /\ lease' = Released(w)
                                   /\ UNCHANGED <<runs, woken, armed, timing>>
          ELSE Starts(w, NewRun("event_capture", [o \in Unextracted |-> None], FALSE), batch)
       /\ UNCHANGED <<scenario, rows, cut, facts, capture, todo>>

\* What the model may propose: nothing, one Event for all, or one for each.
Fact(on, cites) == [on |-> on, cites |-> cites]
Extractions(b) ==
    LET all == DOMAIN b.evidence
        Enriched == {e \in DOMAIN b.candidates : rows[e].kind = "event"}
    IN {<< >>, <<Fact(None, all)>>, SetToSeq({Fact(None, {o}) : o \in all})} \cup {<<Fact(e, all)>> : e \in Enriched}
ProposeEvents(w) == Capturing(w) /\ \E p \in Extractions(at[w].batch) : Proposes(w, p)
BeginEvents(w) == Capturing(w) /\ Begin(w)

(* apply_events: the evidence must be as it was read, an Event to enrich at   *)
(* its revision, and every Event that already tells some of the evidence must *)
(* be one the model was shown. Two extractions that tell the same evidence at  *)
(* once are not serializable: the second is aborted.                           *)
Enrichable(t, e) == Check(Lock(t, e), t.rows[e].live /\ ~t.rows[e].guarded, "invalid")
Grounded(t, base, b) == Check(t, \A o \in DOMAIN b.evidence : base.facts[o] = b.evidence[o], "conflict")
\* Fault: Events written after the model was asked are not looked for.
NoneUnshown(t, b, p) == {}
Unshown(t, b, p) == Overlaps(t.rows, p.cites) \ ({p.on} \cup DOMAIN b.candidates \cup Wrote(t))
Rivals(t, p) == {e \in Overlaps(rows, p.cites) : rows[e].by = "extract" /\ (e \in DOMAIN t.base => Moved(t, e))}
Derived(t, e, cites) == Tied(t, e, {scenario.on[c] : c \in cites}, "extract")
TellEvent(t, b, p) ==
    LET new == Fresh(t)
        shown == Check(Check(t, Unshown(t, b, p) = {}, "conflict"), Rivals(t, p) = {}, "database")
        old == Check(Enrichable(shown, p.on), t.rows[p.on].rev = b.candidates[p.on], "conflict")
    IN IF t.err # None THEN t
       ELSE IF p.on = None THEN Derived(Insert(shown, NewObject("event", "extract", p.cites)), new, p.cites)
       ELSE Derived(Put(old, "extract", p.on, [t.rows[p.on] EXCEPT !.text = "extract", !.cites = @ \cup p.cites]), p.on, p.cites)
Extracted(base, b, plan) ==
    LET after[n \in 0..Len(plan)] ==
            IF n = 0 THEN Grounded(Begun(base.rows), base, b) ELSE TellEvent(after[n - 1], b, plan[n])
    IN after[Len(plan)]

Commits(w, t, reviewed) ==
    /\ rows' = Committed(t)
    /\ runs' = [runs EXCEPT ![at[w].run].status = "completed", ![at[w].run].log = t.log, ![at[w].run].reviewed = reviewed]
Refused(w, e) ==
    /\ at' = [at EXCEPT ![w].pc = "failing", ![w].err = e]
    /\ UNCHANGED <<rows, runs, lease, woken, armed, timing, todo>>
\* The completed Run notifies; the answer of its commit may be lost.
Announced(w) ==
    /\ Notified /\ UNCHANGED <<armed, timing>>
    /\ \/ at' = [at EXCEPT ![w] = Idle] /\ lease' = Released(w) /\ todo' = todo
       \/ /\ Takes("ack")
          /\ at' = [at EXCEPT ![w].pc = "failing", ![w].err = "database"] /\ lease' = lease
CommitEvents(w) ==
    LET t == Extracted(at[w].base, at[w].batch, at[w].plan)
        e == IF runs[at[w].run].status # "running" THEN "conflict" ELSE t.err
    IN /\ Capturing(w) /\ at[w].pc = "commit"
       /\ IF e # None THEN Refused(w, e) ELSE Commits(w, t, << >>) /\ Announced(w)
       /\ UNCHANGED <<scenario, cut, facts, capture>>
FailEvents(w) ==
    LET r == at[w].run
        again == Attempts("event_capture", runs[r].prints, FALSE) < 2 /\ at[w].err # "deferred"
    IN /\ Capturing(w) /\ at[w].pc = "failing"
       /\ runs' = [runs EXCEPT ![r].status = "failed", ![r].retry = IF again THEN "later" ELSE "never"]
       /\ Ends(w)
       /\ UNCHANGED <<scenario, rows, cut, facts, capture, todo>>

(******************************* synthesis **********************************)
Syntheses == Runs("memory_synthesis")
Version(r, f, e) == EventPrint(r, f, e)
Covers(r, e) == e \in DOMAIN runs[r].prints /\ runs[r].prints[e] = Version(rows, facts, e)
Changed(e) == e \notin DOMAIN cut.prints \/ cut.prints[e] # Version(rows, facts, e)
Settled(w, r) ==
    \/ runs[r].status \in {"completed", "reversed"}
    \/ Previews(w) /\ runs[r].status = "preview"
    \/ runs[r].status = "failed" /\ runs[r].retry = "never"
Unreviewed(w) == {e \in OfKind(rows, "event") : Changed(e) /\ \A r \in Syntheses : Covers(r, e) => ~Settled(w, r)}
DueEvents(w) == {e \in Unreviewed(w) : \A r \in Syntheses : Covers(r, e) => ~(runs[r].status = "failed" /\ runs[r].retry = "later")}
Synthesising(w) == at[w].run # 0 /\ runs[at[w].run].kind = "memory_synthesis"

ClaimSynthesis(w) == cut.done /\ ClaimReview(w, "memory_synthesis")
ScanSynthesis(w) ==
    LET memories == {m \in OfKind(rows, "memory") : rows[m].live}
        related == {rows[l].dst : l \in {l \in Links(rows) : rows[l].live /\ rows[l].src \in memories /\ rows[l].rel = "derived_from"}}
        events == DueEvents(w) \cup {e \in related : rows[e].kind = "event"}
        prints == [e \in DueEvents(w) |-> Version(rows, facts, e)]
        cited == UNION {rows[e].cites : e \in events}
        batch == [events |-> Revisions(events), memories |-> Revisions(memories), prints |-> prints,
                  evidence |-> [c \in cited |-> facts[c]]]
    IN /\ at[w].pc = "memory_synthesis"
       /\ IF DueEvents(w) = {} THEN NothingToDo(w)
          ELSE Starts(w, NewRun("memory_synthesis", prints, Previews(w)), batch)
       /\ UNCHANGED <<scenario, rows, cut, facts, capture, todo>>

Editable(row) == row.kind = "memory" /\ row.live /\ ~row.guarded /\ row.by \in {"capture", "dream", "synthesis"}
Idea(do, on, from) == [do |-> do, on |-> on, from |-> from]
MemoryPlans(b) ==
    {<< >>, <<Idea("create", None, DOMAIN b.prints)>>}
    \cup {<<Idea(do, m, DOMAIN b.prints)>> : do \in {"update", "retire"}, m \in {m \in DOMAIN b.memories : Editable(rows[m])}}
ProposeMemories(w) == Synthesising(w) /\ \E p \in MemoryPlans(at[w].batch) : Proposes(w, p)
BeginMemories(w) ==
    /\ Synthesising(w) /\ at[w].pc = "begin"
    /\ IF runs[at[w].run].status \in {"running", "preview"} THEN Begin(w)
       ELSE /\ at' = [at EXCEPT ![w].pc = "failing", ![w].err = "conflict"]
            /\ UNCHANGED <<scenario, store, lease, woken, armed, timing, todo>>

(* apply_memories: every row read is at its revision, every Event version and *)
(* its evidence as reviewed, and no other Run has reviewed one of them.       *)
\* Fault: the Runs of other processes are not looked at.
AlwaysUnseen(w, b) == TRUE
Unseen(w, b) ==
    \A r \in Syntheses \ {at[w].run} : runs[r].status \in {"completed", "reversed"} =>
        \A e \in DOMAIN b.prints \cap DOMAIN runs[r].prints : runs[r].prints[e] # b.prints[e]
AtRevision(t, revs) ==
    Reject(t, [i \in DOMAIN revs |-> Check(Lock(t, i), t.rows[i].rev = revs[i], "conflict").err])
Reviewable(w, base, b) ==
    LET locked == AtRevision(AtRevision(Begun(base.rows), b.events), b.memories)
        same == Check(locked, \A e \in DOMAIN b.prints : Version(base.rows, base.facts, e) = b.prints[e], "conflict")
    IN Check(Check(same, Unseen(w, b), "conflict"), \A c \in DOMAIN b.evidence : base.facts[c] = b.evidence[c], "conflict")
Supported(t, m, events) == Tied(t, m, events, "synthesis")
Remember(t, p) ==
    LET new == Fresh(t)
    IN IF t.err # None THEN t
       ELSE IF p.do = "create" THEN Supported(Insert(t, NewObject("memory", "synthesis", {})), new, p.from)
       ELSE Supported(Put(t, "synthesis", p.on, IF p.do = "update" THEN [t.rows[p.on] EXCEPT !.text = "synthesis"]
                                                ELSE [t.rows[p.on] EXCEPT !.live = FALSE]), p.on, p.from)
Synthesised(w) ==
    LET plan == at[w].plan
        after[n \in 0..Len(plan)] ==
            IF n = 0 THEN Reviewable(w, at[w].base, at[w].batch) ELSE Remember(after[n - 1], plan[n])
    IN after[Len(plan)]
\* A preview is rolled back and saved; the owner's approval applies it as it is.
CommitMemories(w) ==
    LET t == Synthesised(w)  r == at[w].run
    IN /\ Synthesising(w) /\ at[w].pc = "commit"
       /\ IF t.err # None THEN Refused(w, t.err)
          ELSE IF runs[r].preview /\ w # Operator
          THEN /\ runs' = [runs EXCEPT ![r].status = "preview", ![r].saved = [batch |-> at[w].batch, plan |-> at[w].plan]]
               /\ Ends(w) /\ UNCHANGED <<rows, todo>>
          ELSE Commits(w, t, << >>) /\ Announced(w)
       /\ UNCHANGED <<scenario, cut, facts, capture>>
FailMemories(w) ==
    LET r == at[w].run
        again == Attempts("memory_synthesis", runs[r].prints, runs[r].preview) < 2 /\ at[w].err # "deferred"
    IN /\ Synthesising(w) /\ at[w].pc = "failing"
       /\ runs' = IF w = Operator THEN runs
                  ELSE [runs EXCEPT ![r].status = "failed", ![r].retry = IF again THEN "later" ELSE "never"]
       /\ Ends(w)
       /\ UNCHANGED <<scenario, rows, cut, facts, capture, todo>>
ApproveSynthesis(a, p) ==
    /\ a.do = "approve" /\ todo' = todo \ {a} /\ at[Operator].pc = "idle"
    /\ runs[p].kind = "memory_synthesis" /\ runs[p].status = "preview"
    /\ at' = [at EXCEPT ![Operator] = [Idle EXCEPT !.pc = "begin", !.run = p, !.batch = runs[p].saved.batch, !.plan = runs[p].saved.plan]]
    /\ UNCHANGED <<scenario, store, lease, woken, armed, timing>>

CaptureStep(w) ==
    \/ CaptureOutcomes(w) \/ ClaimCapture(w) \/ ScanOutcomes(w) \/ ProposeEvents(w) \/ (Capturing(w) /\ Fails(w))
    \/ BeginEvents(w) \/ CommitEvents(w) \/ FailEvents(w)
SynthesisStep(w) ==
    \/ ClaimSynthesis(w) \/ ScanSynthesis(w) \/ ProposeMemories(w) \/ (Synthesising(w) /\ Fails(w))
    \/ BeginMemories(w) \/ CommitMemories(w) \/ FailMemories(w)
=============================================================================
