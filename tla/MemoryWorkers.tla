---------------------------- MODULE MemoryWorkers ----------------------------
(* The Memory workers together: capture, review, extraction, synthesis, the   *)
(* cutover between them, the owner's approvals and undo, and the edits of     *)
(* people and agents in between.                                              *)
EXTENDS EventMemory

ASSUME ProcessesDisjoint == /\ Reviewers \cap Capturers = {}
                            /\ Operator \notin Reviewers \cup Capturers
ASSUME IdsAssumption == IsFiniteSet(Ids) /\ None \notin Ids
ASSUME NoneAssumption ==
    None \notin Processes \cup {"database", "conflict", "invalid"} \cup UNION {s.errors : s \in Scenarios}

\* A store with its columns, whose Connections have their ends in it.
Columns == {"kind", "rev", "live", "by", "guarded", "text"}
RowOK(row) ==
    /\ Columns \subseteq DOMAIN row
    /\ row.rev \in Nat \ {0} /\ row.live \in BOOLEAN /\ row.guarded \in BOOLEAN
    /\ row.kind = "link" => {"src", "rel", "dst"} \subseteq DOMAIN row
    /\ row.kind = "event" => "cites" \in DOMAIN row
StoreOK(r) ==
    /\ DOMAIN r \subseteq Ids
    /\ \A i \in DOMAIN r : RowOK(r[i])
    /\ \A l \in Links(r) : r[l].src \in DOMAIN r /\ r[l].dst \in DOMAIN r
\* Connections are between Objects, and an active one is the only one of its kind
\* between its ends (the foreign keys and the index of connections, 0001_initial.sql).
EndsOf(row) == {row.src, row.dst}
Parallel(l, m) == l.src = m.src /\ l.rel = m.rel /\ l.dst = m.dst
Whole(r) ==
    /\ \A l \in Links(r) : EndsOf(r[l]) \cap Links(r) = {}
    /\ \A l, m \in Links(r) : r[l].live /\ r[m].live /\ Parallel(r[l], r[m]) => l = m

IsSeq(s) == s \in Seq(Range(s))

\* Outcomes are of Objects of the store, calls connect Objects of the store, and
\* the plans of the model are sequences of the five changes (dreaming.rs, Change).
ASSUME ScenariosAssumption ==
    \A s \in Scenarios :
        /\ StoreOK(s.rows) /\ Whole(s.rows) /\ s.cut.done \in BOOLEAN
        /\ IsFiniteSet(DOMAIN s.what) /\ \A o \in DOMAIN s.what : s.on[o] \in DOMAIN s.rows \ Links(s.rows)
        /\ \A a \in s.todo : a.do = "link" => EndsOf(a) \subseteq DOMAIN s.rows \ Links(s.rows)
        /\ \A p \in s.plans :
              IsSeq(p) /\ \A k \in 1..Len(p) : p[k].do \in {"rewrite", "retire", "merge", "disconnect", "connect"}

Start(s) ==
    /\ scenario = s /\ rows = s.rows /\ runs = << >> /\ cut = s.cut /\ facts = s.facts
    /\ capture = [started |-> FALSE, open |-> {}, early |-> {}]
    /\ lease = [capture |-> None, review |-> None]
    /\ at = [w \in Processes |-> Idle]
    /\ woken = Reviewers \cap s.workers /\ timing = {} /\ armed = {}
    /\ todo = s.todo
Init == \E s \in Scenarios : Start(s)

Reviewing(w) == ReviewStep(w) \/ SynthesisStep(w) \/ SetTimer(w) \/ Timer(w)
Working(w) == CaptureStep(w)
Calls ==
    \/ \E r \in DOMAIN runs : Undo(r)
    \/ \E a \in todo :
          \/ EditRow(a) \/ AddLink(a) \/ CorrectFact(a) \/ WriteEvent(a) \/ BeginOutcome(a) \/ Activate(a)
          \/ \E p \in DOMAIN runs : ApproveDream(a, p) \/ ApproveSynthesis(a, p)
Approving ==
    \/ BeginDream(Operator) \/ CommitDream(Operator) \/ FailApproved
    \/ BeginMemories(Operator) \/ CommitMemories(Operator) \/ FailMemories(Operator)
Faults == \E w \in Processes : Crash(w) \/ LoseLease(w) \/ TimesOut(w)

Next ==
    \/ \E w \in Active : Reviewing(w)
    \/ \E w \in Capturers \cap scenario.workers : Working(w)
    \/ Calls \/ Approving \/ Faults
    \/ \E r \in DOMAIN runs : RetryDue(r)
    \/ \E o \in capture.open : CommitOutcome(o)

(* Each worker is a loop that does not stop, the capture worker on a timer;   *)
(* retry times pass. A pass that began ends: the calls of the model, of locks  *)
(* and of statements have timeouts, and no step of it waits for another one.   *)
Claims(w) == ClaimDream(w) \/ ClaimSynthesis(w) \/ SetTimer(w) \/ Timer(w)
Captures(w) == CaptureOutcomes(w) \/ ClaimCapture(w)
Fairness ==
    /\ \A w \in Reviewers : WF_vars(w \in Active /\ Claims(w))
    /\ \A w \in Capturers : WF_vars(w \in scenario.workers /\ Captures(w))
    /\ \A w \in Processes : []<>(at[w].pc = "idle")
    /\ WF_vars(\E r \in DOMAIN runs : RetryDue(r))
    /\ WF_vars(\E o \in capture.open : CommitOutcome(o))
Spec == Init /\ [][Next]_vars /\ Fairness

(******************************** properties ********************************)
Statuses == {"running", "preview", "completed", "failed", "reversed"}
\* The type of the shared state: rows are versioned, Runs have a status, and an
\* advisory lock has at most one holder, which is a worker of its kind.
TypeOK ==
    /\ DOMAIN rows \subseteq Ids
    /\ \A i \in DOMAIN rows : rows[i].rev \in Nat \ {0} /\ rows[i].live \in BOOLEAN
    /\ \A l \in Links(rows) : {rows[l].src, rows[l].dst} \subseteq DOMAIN rows
    /\ \A r \in DOMAIN runs : /\ runs[r].status \in Statuses
                              /\ runs[r].parent \in 0..Len(runs)
                              /\ \A k \in DOMAIN runs[r].log : runs[r].log[k].on \in DOMAIN rows
    /\ lease.capture \in Capturers \cup {None} /\ lease.review \in Reviewers \cup {Operator, None}
    /\ \A w \in Processes : at[w].run \in 0..Len(runs)
    /\ armed \cup woken \cup timing \subseteq Reviewers

\* What a person wrote last, or protected, no worker and no undo changes, at
\* whatever moment of a pass the person wrote it. (An Event an agent wrote may
\* still be enriched; only protection keeps it.)
OwnerRowsKept ==
    [][\A i \in DOMAIN rows :
          (rows[i].guarded \/ (rows[i].by = "owner" /\ rows[i].kind # "event")) /\ rows'[i] # rows[i]
             => rows'[i].by = "owner"]_vars

\* A completed Run of which nobody has touched a row since, nor connected
\* anything to what it made, can be undone as a whole: its journal, unwound from
\* the end, meets no conflict of its own making.
Latest(r, i) == CHOOSE v \in {runs[r].log[k].rev : k \in {k \in DOMAIN runs[r].log : runs[r].log[k].on = i}} :
                   \A k \in DOMAIN runs[r].log : runs[r].log[k].on = i => runs[r].log[k].rev <= v
Untouched(r) ==
    LET written == {runs[r].log[k].on : k \in DOMAIN runs[r].log}
        objects == written \ Links(rows)
        links == written \cap Links(rows)
    IN /\ \A i \in written : rows[i].rev = Latest(r, i)
       /\ \A o \in objects : LinksOf(rows, o) \subseteq written
       /\ \A l \in links : /\ \A o \in {rows[l].src, rows[l].dst} : rows[o].live \/ o \in written
                           /\ Same(rows, rows[l].src, rows[l].rel, rows[l].dst) \subseteq written
UntouchedRunsCanBeUndone ==
    \A r \in DOMAIN runs :
        runs[r].status = "completed" /\ runs[r].kind \in Undoable /\ Untouched(r) => Undone(r).err = None

\* Merging a Memory into another loses none of the Connections the plan was
\* checked against: each is there at the other Memory, if not between the two,
\* unless the plan disconnects it there, or archives its other end as well.
MergedAway(w) ==
    IF at[w].pc # "commit" \/ runs[at[w].run].kind # "memory_dream" THEN {}
    ELSE {k \in DOMAIN at[w].plan : at[w].plan[k].do = "merge"}
Disconnects(w) == {at[w].plan[k].on : k \in {k \in DOMAIN at[w].plan : at[w].plan[k].do = "disconnect"}}
MergeKeepsLinks ==
    [][\A w \in Processes : at'[w].pc # "commit" => \A k \in MergedAway(w) :
          LET m == at[w].plan[k].on  into == at[w].plan[k].into
              At(l) == <<Redirect(rows[l].src, m, into), rows[l].rel, Redirect(rows[l].dst, m, into)>>
          IN rows[m].live /\ ~rows'[m].live =>
             \A l \in LinksOf(at[w].base.rows, m) :
                \/ Other(rows[l], m) = into \/ ~rows'[Other(rows[l], m)].live
                \/ \E d \in Disconnects(w) : d = l \/ <<rows[d].src, rows[d].rel, rows[d].dst>> = At(l)
                \/ Same(rows', At(l)[1], At(l)[2], At(l)[3]) # {}]_vars

\* An outcome is told by one Run at most, as a Memory or in Events, across the
\* cutover, crashes and undo; unless the connection of the lease was lost, when
\* two workers may be about the same outcome. (A Run whose commit was not answered
\* is recorded as failed and does not count: its outcomes are told again.)
Undisturbed == [do |-> "lose"] \in scenario.todo => [do |-> "lose"] \in todo
Writes(r, o) ==
    /\ runs[r].kind \in {"memory_capture", "event_capture"} /\ runs[r].status \in {"completed", "reversed"}
    /\ runs[r].log # << >> /\ o \in DOMAIN runs[r].prints
OneCaptureWrites ==
    Undisturbed => \A o \in Outcomes : \A r, q \in DOMAIN runs : Writes(r, o) /\ Writes(q, o) => r = q

\* Two extractions never tell the same evidence in two Events unless the model
\* of the later one was shown the earlier.
ExtractionsNeverOverlap ==
    [][\A w \in Capturers :
          at[w].pc = "commit" /\ at'[w].pc # "commit" =>
             \A e \in DOMAIN rows' \ DOMAIN rows : rows'[e].kind = "event" /\ rows'[e].by = "extract" =>
                \A d \in Overlaps(rows, rows'[e].cites) :
                   rows[d].by = "extract" => d \in DOMAIN at[w].batch.candidates]_vars

\* An Event version is reviewed into Memories by one Run at most, whichever of
\* workers in preview or apply mode and approvals of saved previews gets there.
Reviews(r, e) == /\ runs[r].kind = "memory_synthesis" /\ runs[r].status \in {"completed", "reversed"}
                 /\ e \in DOMAIN runs[r].prints
SynthesisedOnce ==
    \A r, q \in DOMAIN runs : \A e \in OfKind(rows, "event") :
        Reviews(r, e) /\ Reviews(q, e) /\ runs[r].prints[e] = runs[q].prints[e] => r = q

\* A Memory that synthesis writes about an Event is no new version of the Event:
\* reviewing never asks for another review.
SynthesisNeverRequeues ==
    [][\A w \in Processes :
          Synthesising(w) /\ at[w].pc = "commit" /\ at'[w].pc # "commit" =>
             \A e \in OfKind(rows, "event") : Version(rows', facts', e) = Version(rows, facts, e)]_vars

\* After the cutover no plan of the old writers is committed, not even one that
\* was approved or begun before; the one exception is a worker whose lease
\* connection broke, which the cutover does not wait for.
LegacySilent ==
    [][cut.done /\ Undisturbed /\ rows' # rows =>
          \A w \in Processes : at[w].pc = "commit" /\ at'[w].pc # "commit" => runs[at[w].run].kind # "memory_dream"]_vars

\* Two things can overtake a Reviewer on its way to wait, of which nobody is
\* told: a retry falls due between its scan and its timer (dreaming.rs:1241), and
\* an approval, which does not scan when it ends, has the lease it found taken.
RetryOvertakes(w) ==
    /\ w \in timing /\ woken = {} /\ lease.review = None /\ Retries(w, "due") # {}
    /\ IF cut.done THEN DueEvents(w) # {} ELSE ~Paused /\ Selected(w) # {}
ApprovalOvertakes(w) == w \in timing /\ woken = {} /\ lease.review = Operator
Recovers(w) == RetryOvertakes(w) \/ ApprovalOvertakes(w) ~> woken # {}

\* A Run that succeeded or failed for good settles the versions it was about:
\* where all Reviewers run in one mode, review and synthesis come to rest with
\* nothing left to review, if somebody scans after each such meeting. (Whoever
\* approved a preview has to reconcile a commit that was not answered.)
Unreconciled == \E r \in Runs("memory_dream") : runs[r].parent # 0 /\ runs[r].status = "failed" /\ runs[r].log # << >>
Alone == scenario.preview \in {{}, Active} /\ ~Unreconciled
Resting(w) ==
    IF ~cut.done THEN Paused \/ \A m \in DOMAIN rows : ~Unsettled(w, m)
    ELSE Unreviewed(w) = {}
ComesToRest(w) == <>[](w \in Active /\ Alone => Resting(w))
ReviewSettles == (\A v \in Reviewers : Recovers(v)) => \A w \in Reviewers : ComesToRest(w)

\* Every outcome that capture owes a receipt gets one: as a Memory before the
\* cutover, or from extraction after it, which may also give it up for good.
Answered_(o) ==
    \/ Told(o)
    \/ \E r \in Runs("event_capture") : /\ o \in DOMAIN runs[r].prints
                                        /\ runs[r].status \in {"completed", "reversed"} \/ runs[r].retry = "never"
OwedIsCaptured ==
    \A o \in UNION {DOMAIN s.what : s \in Scenarios} :
        [](o \in Outcomes /\ capture.started /\ Owed(o) => <>Answered_(o))

\* The lock 7818003 is there so that extraction and the writes of agents never
\* tell the same evidence in two Events.
ExtractionSeesOverlaps ==
    [][\A w \in Capturers :
          at[w].pc = "commit" /\ at'[w].pc # "commit" =>
             \A e \in DOMAIN rows' \ DOMAIN rows : rows'[e].kind = "event" /\ rows'[e].by = "extract" =>
                Overlaps(rows, rows'[e].cites) \subseteq DOMAIN at[w].batch.candidates]_vars
\* Durable state recovers missed signals (dreaming.rs:1232): a retry that falls due
\* is made, whenever it does.
RetriesAreTimed ==
    \A w \in Reviewers : <>[](w \in Active /\ Alone /\ [do |-> "approve"] \notin scenario.todo => Resting(w))
\* And what an approval leaves is reviewed, whenever it ends.
SignalsAreRecovered ==
    (\A v \in Reviewers : []~RetryOvertakes(v)) => \A w \in Reviewers : ComesToRest(w)

\* No outcome and no version of an Event is worked into the store twice.
EachInputOnce == TypeOK /\ OneCaptureWrites /\ SynthesisedOnce

\* A plan made before others wrote keeps what they wrote and connected.
PlansSparePeople == OwnerRowsKept /\ MergeKeepsLinks

\* What a commit was planned on still stands: no older writer after the cutover, and
\* no extraction that missed another one.
CommitsInTurn == LegacySilent /\ ExtractionsNeverOverlap

\* The workers get to an end, and make no work for themselves.
WorkEnds == ReviewSettles /\ OwedIsCaptured /\ SynthesisNeverRequeues
=============================================================================
