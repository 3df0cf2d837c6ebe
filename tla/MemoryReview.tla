---------------------------- MODULE MemoryReview ----------------------------
(* Maintenance of generated Memories before the Events-first cutover          *)
(* (dreaming.rs): a Reviewer selects Memories whose fingerprint no Run has     *)
(* reviewed, asks the model for a plan and applies it, or saves it as a       *)
(* preview that the owner may apply later, exactly as approved.               *)
EXTENDS MemoryStore

Dreams == Runs("memory_dream")
Eligible(row) == row.kind = "memory" /\ row.live /\ ~row.guarded /\ row.by \in {"capture", "dream"}

(******************************** selection *********************************)
Matches(r, m) == m \in DOMAIN runs[r].prints /\ runs[r].prints[m] = ReviewPrint(rows, m)
Reviewed(w, m) ==
    \E r \in Dreams : /\ runs[r].status = "completed" \/ (Previews(w) /\ runs[r].status = "preview")
                      /\ m \in DOMAIN runs[r].reviewed /\ runs[r].reviewed[m] = ReviewPrint(rows, m)
Failures(w, m) == {r \in Dreams : runs[r].status = "failed" /\ runs[r].preview = Previews(w) /\ Matches(r, m)}
Unsettled(w, m) ==
    /\ Eligible(rows[m]) /\ ~Reviewed(w, m)
    /\ \A r \in Failures(w, m) : runs[r].retry # "never"
    /\ Cardinality(Failures(w, m)) < 3
Selected(w) == {m \in DOMAIN rows : Unsettled(w, m) /\ \A r \in Failures(w, m) : runs[r].retry = "due"}
Paused == \E r \in Dreams : runs[r].paused

\* A failed group is retried one by one; a group that never failed takes along
\* the Memories of the same occurrence.
Neighbours(ms) == {n \in DOMAIN rows \ ms : Eligible(rows[n]) /\ \E m \in ms : rows[n].cites = rows[m].cites}
Groups(w) ==
    IF \E m \in Selected(w), r \in Dreams : runs[r].status = "failed" /\ Matches(r, m)
    THEN {{m} : m \in Selected(w)} ELSE {Selected(w) \cup Neighbours(Selected(w))}
\* Shrunk from the end while a Memory lacks its evidence; one alone is deferred.
Complete(ms) == \A m \in ms : rows[m].cites # {} /\ rows[m].cites \subseteq DOMAIN facts
Shrunk(ms) ==
    IF Complete(ms) THEN {ms}
    ELSE {b \in (SUBSET ms) \ {{}} : /\ Complete(b) \/ Cardinality(b) = 1
                                     /\ b = ms \/ \E m \in ms \ b : ~Complete(b \cup {m})}

(* What the model is shown and the plan is held to: the Memories with their   *)
(* fingerprints, their Connections, and the candidates around them.           *)
Near(ms) ==
    LET one == UNION {{Other(rows[l], m) : l \in LinksOf(rows, m)} : m \in ms}
    IN one \cup UNION {{Other(rows[l], o) : l \in LinksOf(rows, o)} : o \in one}
Revisions(ids) == [i \in ids |-> rows[i].rev]
Batch(ms) ==
    LET near == {o \in Near(ms) \ ms : rows[o].live}
    IN [memories |-> [m \in ms |-> rows[m]],
        links |-> Revisions(UNION {LinksOf(rows, m) : m \in ms}),
        prints |-> [m \in ms |-> ReviewPrint(rows, m)],
        around |-> Revisions({l \in Links(rows) : rows[l].live /\ {rows[l].src, rows[l].dst} \subseteq near}),
        targets |-> Revisions(near),
        approved |-> FALSE]

(******************************** the plan **********************************)
LockMemory(t, b, m) ==
    Check(Check(Lock(Check(t, m \in DOMAIN b.memories, "invalid"), m),
                Eligible(t.rows[m]), "invalid"),
          t.rows[m].rev = b.memories[m].rev, "conflict")
LockLink(t, b, l) ==
    LET now == t.rows[l]
    IN Check(Check(Lock(Check(t, l \in DOMAIN b.links, "invalid"), l),
                   now.live /\ ~now.guarded /\ now.by \in {"capture", "dream"}, "invalid"),
             now.rev = b.links[l], "conflict")
Touch(t, ms) ==
    [Check(t, ms \cap t.touched = {}, "invalid") EXCEPT !.touched = @ \cup ms]
AddEdge(t, src, rel, dst) ==
    Connected(Check(Lock(Lock(Check(t, src # dst, "invalid"), src), dst),
                    t.rows[src].live /\ t.rows[dst].live, "conflict"), src, rel, dst, "dream")
Archive(t, i) == Put(t, "dream", i, [t.rows[i] EXCEPT !.live = FALSE])
Rewritten(t, m) == Put(t, "dream", m, [t.rows[m] EXCEPT !.text = "dream"])

\* The evidence a Memory derives from stays connected to it.
Provenance(t, b, l) ==
    \/ t.rows[l].rel = "derived_from"
    \/ \E m \in DOMAIN b.memories \cap {t.rows[l].src, t.rows[l].dst} :
          Other(t.rows[l], m) \in {scenario.on[c] : c \in t.rows[m].cites}

Redirect(o, from, to) == IF o = from THEN to ELSE o
\* Fault: a merge transfers the evidence alone.
EvidenceTransferred(t, l, m, into) ==
    IF into = None \/ t.rows[l].rel # "derived_from" THEN t
    ELSE AddEdge(t, Redirect(t.rows[l].src, m, into), t.rows[l].rel, Redirect(t.rows[l].dst, m, into))
Transferred(t, l, m, into) ==
    LET src == Redirect(t.rows[l].src, m, into)  dst == Redirect(t.rows[l].dst, m, into)
    IN IF into = None \/ src = dst THEN t ELSE AddEdge(t, src, t.rows[l].rel, dst)
Moves(t, b, l, m, into) == Archive(Transferred(LockLink(t, b, l), l, m, into), l)
Retired(t, b, m, into) ==
    LET links == SetToSeq(LinksOf(t.rows, m))
        after[n \in 0..Len(links)] == IF n = 0 THEN t ELSE Moves(after[n - 1], b, links[n], m, into)
    IN Archive(after[Len(links)], m)

Rewrite(t, b, c) == Rewritten(LockMemory(Touch(t, {c.on}), b, c.on), c.on)
Retire(t, b, c) == Retired(LockMemory(Touch(t, {c.on}), b, c.on), b, c.on, None)
Merge(t, b, c) ==
    LET locked == LockMemory(LockMemory(Touch(t, {c.on, c.into}), b, c.on), b, c.into)
        same == t.rows[c.on].cites # {} /\ t.rows[c.on].cites = t.rows[c.into].cites
    IN Retired(Rewritten(Check(locked, same /\ c.on # c.into, "invalid"), c.into), b, c.on, c.into)
Disconnect(t, b, c) ==
    Archive(Check(LockLink(t, b, c.on), ~Provenance(t, b, c.on), "invalid"), c.on)
Connect(t, b, c) ==
    LET old == Same(t.rows, c.on, c.rel, c.to)
        known == IF c.to \in DOMAIN b.targets THEN b.targets[c.to] ELSE b.memories[c.to].rev
        memory == Check(t, c.on \in DOMAIN b.memories /\ Eligible(b.memories[c.on]), "invalid")
        target == Check(Lock(Check(memory, c.to \in DOMAIN b.targets \cup DOMAIN b.memories, "invalid"), c.to),
                        c.to \in t.touched \/ (t.rows[c.to].live /\ t.rows[c.to].rev = known), "conflict")
        allowed == Check(target, t.rows[c.to].kind = "memory" => c.rel = "related_to", "invalid")
    IN IF old = {} THEN AddEdge(allowed, c.on, c.rel, c.to)
       ELSE LET l == CHOOSE l \in old : TRUE IN Rewritten(LockLink(allowed, b, l), l)
Change(t, b, c) ==
    IF t.err # None THEN t
    ELSE CASE c.do = "rewrite" -> Rewrite(t, b, c)
           [] c.do = "retire" -> Retire(t, b, c)
           [] c.do = "merge" -> Merge(t, b, c)
           [] c.do = "disconnect" -> Disconnect(t, b, c)
           [] c.do = "connect" -> Connect(t, b, c)

(* The whole input is revalidated before the first change; an approved plan   *)
(* is also held to every Connection and candidate it was approved with.       *)
LiveAt(t, i, rev) == t.rows[i].live /\ t.rows[i].rev = rev
Incident(t, m) == {<<l, t.rows[l].rev>> : l \in LinksOf(t.rows, m)}
Approved(b, t, m) == {<<l, b.links[l]>> : l \in {l \in DOMAIN b.links : m \in {t.rows[l].src, t.rows[l].dst}}}
HeldTo(t, versions) ==
    Reject(t, [i \in DOMAIN versions |-> Check(Lock(t, i), LiveAt(t, i, versions[i]), "conflict").err])
Revalidated(t, b) ==
    LET InputOf(m) ==
            Check(Check(LockMemory(t, b, m), b.approved => Incident(t, m) = Approved(b, t, m), "conflict"),
                  ReviewPrint(t.rows, m) = b.prints[m], "conflict")
        input == HeldTo(Reject(t, [m \in DOMAIN b.memories |-> InputOf(m).err]), b.links)
    IN IF b.approved THEN HeldTo(HeldTo(input, b.around), b.targets) ELSE input
\* Fault: a saved plan is applied whether or not the cutover has happened.
PlannedAnyway(base, b, plan) ==
    LET after[n \in 0..Len(plan)] ==
            IF n = 0 THEN Revalidated(Begun(base.rows), b) ELSE Change(after[n - 1], b, plan[n])
    IN after[Len(plan)]
Planned(base, b, plan) ==
    LET after[n \in 0..Len(plan)] ==
            IF n = 0 THEN Revalidated(Check(Begun(base.rows), ~base.cut.done, "invalid"), b)
            ELSE Change(after[n - 1], b, plan[n])
    IN after[Len(plan)]
Checkpoint(t, b) == [m \in DOMAIN b.memories |-> ReviewPrint(t.rows, m)]

(******************************** one pass **********************************)
\* A Reviewer that finds the lease taken goes to wait as well.
ClaimReview(w, kind) ==
    /\ w \in woken \ timing /\ at[w].pc = "idle" /\ woken' = woken \ {w} /\ armed' = armed \ {w}
    /\ IF lease.review # None
       THEN timing' = timing \cup {w} /\ UNCHANGED <<runs, lease, at>>
       ELSE /\ \A r \in Abandoned(kind) : ~Held(r)
            /\ Claimed(w) /\ runs' = LeftBehind(kind)
            /\ at' = [at EXCEPT ![w].pc = kind]
            /\ UNCHANGED timing
    /\ UNCHANGED <<scenario, rows, cut, facts, capture, todo>>
ClaimDream(w) == ~cut.done /\ ClaimReview(w, "memory_dream")

NothingToDo(w) ==
    /\ runs' = runs /\ at' = [at EXCEPT ![w] = Idle] /\ lease' = Released(w) /\ GoesToWait(w)
Starts(w, run, b) ==
    /\ runs' = Append(runs, run)
    /\ at' = [at EXCEPT ![w].pc = "model", ![w].run = Len(runs'), ![w].batch = b]
    /\ UNCHANGED <<lease, woken, armed, timing>>
Dreaming(w) == w \in Reviewers /\ at[w].run # 0 /\ runs[at[w].run].kind = "memory_dream"
ScanDream(w) ==
    /\ at[w].pc = "memory_dream"
    /\ IF Paused \/ Selected(w) = {} THEN NothingToDo(w)
       ELSE \E g \in Groups(w) : \E ms \in Shrunk(g) :
            LET run == NewRun("memory_dream", Batch(ms).prints, Previews(w))
            IN IF Complete(ms) THEN Starts(w, run, Batch(ms))
               ELSE runs' = Append(runs, [run EXCEPT !.status = "failed", !.retry = "never"]) /\ Ends(w)
    /\ UNCHANGED <<scenario, rows, cut, facts, capture, todo>>

ProposeDream(w) == Dreaming(w) /\ \E p \in scenario.plans : Proposes(w, p)
BeginDream(w) ==
    /\ at[w].pc = "begin" /\ runs[at[w].run].kind = "memory_dream"
    /\ IF runs[at[w].run].status = "running" THEN Begin(w)
       ELSE /\ at' = [at EXCEPT ![w].pc = "failing", ![w].err = "invalid"]
            /\ UNCHANGED <<scenario, store, lease, woken, armed, timing, todo>>

\* Fault "ack": the store commits, but the answer of the commit is lost.
Answered(w) ==
    \/ /\ Ends(w) /\ todo' = todo
    \/ /\ Takes("ack")
       /\ at' = [at EXCEPT ![w].pc = "failing", ![w].err = "database"]
       /\ UNCHANGED <<lease, woken, armed, timing>>
CommitDream(w) ==
    LET b == at[w].batch  r == at[w].run  t == Planned(at[w].base, b, at[w].plan)
    IN /\ at[w].pc = "commit" /\ runs[r].kind = "memory_dream"
       /\ IF t.err # None
          THEN /\ at' = [at EXCEPT ![w].pc = "failing", ![w].err = t.err]
               /\ UNCHANGED <<rows, runs, lease, woken, armed, timing, todo>>
          ELSE IF runs[r].preview
          THEN /\ runs' = [runs EXCEPT ![r].status = "preview", ![r].reviewed = b.prints,
                                       ![r].saved = [batch |-> [b EXCEPT !.approved = TRUE], plan |-> at[w].plan]]
               /\ Ends(w) /\ UNCHANGED <<rows, todo>>
          ELSE /\ rows' = Committed(t)
               /\ runs' = [runs EXCEPT ![r].status = "completed", ![r].log = t.log, ![r].reviewed = Checkpoint(t, b)]
               /\ Answered(w)
       /\ UNCHANGED <<scenario, cut, facts, capture>>

\* The failure is recorded whatever the Run has become.
FailDream(w) ==
    LET r == at[w].run  e == at[w].err
        content == e \in {"content", "invalid"}
        retryable == e \in {"transient", "conflict"} \/ (content /\ Cardinality(DOMAIN runs[r].prints) > 1)
        attempts == Attempts("memory_dream", runs[r].prints, runs[r].preview)
    IN /\ Dreaming(w) /\ at[w].pc = "failing"
       /\ runs' = [runs EXCEPT ![r].status = "failed", ![r].paused = (e = "config"),
                               ![r].retry = IF retryable /\ attempts < 2 THEN "later" ELSE "never"]
       /\ IF (~retryable \/ content) /\ e # "config" THEN Ends(w)
          ELSE at' = [at EXCEPT ![w] = Idle] /\ lease' = Released(w) /\ GoesOn(w)
       /\ UNCHANGED <<scenario, rows, cut, facts, capture, todo>>

(************************ an approved saved preview *************************)
\* One child Run per preview: it replays when completed, is refused when
\* reversed or when it failed with changes, and starts again otherwise.
Children(p) == {r \in Dreams : runs[r].parent = p}
ApproveDream(a, p) ==
    /\ a.do = "approve" /\ a \in todo /\ todo' = todo \ {a}
    /\ at[Operator].pc = "idle" /\ lease.review = None /\ Claimed(Operator)
    /\ runs[p].kind = "memory_dream" /\ runs[p].status = "preview"
    /\ \A r \in Children(p) : runs[r].status = "running" \/ (runs[r].status = "failed" /\ runs[r].log = << >>)
    /\ runs' = IF Children(p) = {}
               THEN Append(runs, [NewRun("memory_dream", << >>, FALSE) EXCEPT !.parent = p])
               ELSE [r \in DOMAIN runs |-> IF r \in Children(p) THEN [runs[r] EXCEPT !.status = "running", !.retry = None] ELSE runs[r]]
    /\ at' = [at EXCEPT ![Operator] = [Idle EXCEPT !.pc = "begin", !.batch = runs[p].saved.batch, !.plan = runs[p].saved.plan,
                                                   !.run = CHOOSE r \in DOMAIN runs' : runs'[r].parent = p]]
    /\ UNCHANGED <<scenario, rows, cut, facts, capture, woken, armed, timing>>
FailApproved ==
    /\ at[Operator].pc = "failing" /\ at[Operator].run # 0 /\ runs[at[Operator].run].kind = "memory_dream"
    /\ runs' = [runs EXCEPT ![at[Operator].run].status = "failed"]
    /\ Ends(Operator)
    /\ UNCHANGED <<scenario, rows, cut, facts, capture, todo>>

ReviewStep(w) ==
    \/ ClaimDream(w) \/ ScanDream(w) \/ ProposeDream(w) \/ (Dreaming(w) /\ Fails(w))
    \/ BeginDream(w) \/ CommitDream(w) \/ FailDream(w)
=============================================================================
