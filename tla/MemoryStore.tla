----------------------------- MODULE MemoryStore -----------------------------
(* What the Memory workers share in PostgreSQL: Objects and Connections (one  *)
(* table `rows`, a Connection being a row of kind "link"), the Runs with the  *)
(* journal of what each wrote, the transactions in which they write, undo,    *)
(* the edits of owners and agents, and the two advisory leases.               *)
(*                                                                            *)
(* The workers write under SERIALIZABLE: such a transaction reads the store   *)
(* as of its first statement (`base`), fails when a row it locks has changed  *)
(* since, and does not see rows committed since.                              *)
EXTENDS Naturals, Sequences, FiniteSets, SequencesExt, FiniteSetsExt, TLC

CONSTANTS
    Ids,          \* ids of Objects and Connections
    Reviewers,    \* processes of run_worker: review, after the cutover synthesis
    Capturers,    \* processes of run_capture_worker
    Operator,     \* the owner's calls of the maintenance listener
    Scenarios,    \* small stores with the calls, faults and proposals to try
    None

VARIABLES
    scenario,     \* which of them this behaviour is about
    rows,         \* id -> Object or Connection
    runs,         \* the Runs, in the order they were inserted
    cut,          \* the Events-first cutover: whether it is done, and its baselines
    facts,        \* committed evidence -> how many corrections it has
    capture,      \* whether capture has started, and the outcomes still uncommitted
    lease,        \* who holds the advisory locks 7818001 and 7818002
    at,           \* process -> where it is in its pass
    woken,        \* Reviewers that scan now; the others wait for a notification
    timing,       \* Reviewers that have scanned, and look next when a retry is due
    armed,        \* Reviewers that wait with a retry timer
    todo          \* calls, edits and faults still to come

store == <<rows, runs, cut, facts, capture>>
vars == <<scenario, rows, runs, cut, facts, capture, lease, at, woken, timing, armed, todo>>

\* The workers of the scenario, and those of them that only save previews.
Active == Reviewers \cap scenario.workers
Previews(w) == w \in scenario.preview
\* One of the calls, edits and faults to come.
Takes(what) == [do |-> what] \in todo /\ todo' = todo \ {[do |-> what]}

Processes == Reviewers \cup Capturers \cup {Operator}
Idle == [pc |-> "idle", run |-> 0, batch |-> None, plan |-> None, base |-> None, err |-> None]

(******************************* rows ***************************************)
With(r, i, new) == [j \in DOMAIN r \cup {i} |-> IF j = i THEN new ELSE r[j]]
Links(r) == {l \in DOMAIN r : r[l].kind = "link"}
LinksOf(r, o) == {l \in Links(r) : r[l].live /\ o \in {r[l].src, r[l].dst}}
OfKind(r, k) == {o \in DOMAIN r : r[o].kind = k}
Same(r, src, rel, dst) ==
    {l \in Links(r) : r[l].live /\ <<r[l].src, r[l].rel, r[l].dst>> = <<src, rel, dst>>}

NewObject(kind, who, cites) ==
    [kind |-> kind, rev |-> 1, live |-> TRUE, by |-> who, guarded |-> FALSE, text |-> who, cites |-> cites]
NewLink(src, rel, dst, who) ==
    [kind |-> "link", rev |-> 1, live |-> TRUE, by |-> who, guarded |-> FALSE, text |-> who,
     src |-> src, rel |-> rel, dst |-> dst]

(* memory_review_fingerprint: the Memory, the Objects around it, and the      *)
(* Connections the review worker did not write itself.                        *)
Other(link, o) == IF link.src = o THEN link.dst ELSE link.src
Direct(r, m) == {o \in {Other(r[l], m) : l \in LinksOf(r, m)} : r[o].kind # "memory"}
Around(r, m) == UNION {{Other(r[l], o) : l \in LinksOf(r, o)} : o \in Direct(r, m)}
ReviewPrint(r, m) ==
    LET direct == Direct(r, m)
        near == {o \in {m} \cup direct \cup Around(r, m) : o = m \/ r[o].kind # "memory"}
        Counts(l) == /\ {r[l].src, r[l].dst} \cap (direct \cup {m}) # {}
                     /\ r[l].by # "dream"
                     /\ \/ m \in {r[l].src, r[l].dst}
                        \/ \A o \in {r[l].src, r[l].dst} : r[o].kind # "memory"
    IN [objects |-> {<<o, r[o].rev>> : o \in near},
        links |-> {<<l, r[l].rev>> : l \in {l \in Links(r) : Counts(l)}}]

(* event_memory_fingerprint: the Event, the corrections of what it cites, and *)
(* what it is derived from; nothing that a Memory written about it changes.   *)
\* Fault: what is derived from an Event counts as a part of it.
Derivations(r, e) == {l \in Links(r) : e \in {r[l].src, r[l].dst} /\ r[l].rel = "derived_from"}
Sources(r, e) == {l \in Links(r) : r[l].src = e /\ r[l].rel = "derived_from"}
EventPrint(r, f, e) ==
    LET support == {o \in {r[l].dst : l \in {l \in Sources(r, e) : r[l].live}} : r[o].kind \notin {"chat", "memory"}}
    IN [event |-> <<e, r[e].rev, r[e].live, r[e].guarded>>,
        evidence |-> {<<c, f[c]>> : c \in r[e].cites \cap DOMAIN f},
        support |-> {<<o, r[o].rev, r[o].live>> : o \in support},
        links |-> {<<l, r[l].rev, r[l].live>> : l \in Sources(r, e)}]

(**************************** transactions **********************************)
(* A transaction: the rows as it sees them, as they were when it began, what  *)
(* it has journalled, the Memories its plan has touched and its first error.  *)
Begun(base) == [rows |-> base, base |-> base, log |-> << >>, touched |-> {}, err |-> None]
Fail(t, e) == IF t.err = None THEN [t EXCEPT !.err = e] ELSE t
\* Of the rows a statement checks, one that fails decides the error.
Reject(t, why) ==
    LET bad == {i \in DOMAIN why : why[i] # None}
    IN IF bad = {} THEN t ELSE Fail(t, why[CHOOSE i \in bad : TRUE])
Check(t, ok, e) == IF t.err = None /\ ~ok THEN Fail(t, e) ELSE t
Moved(t, i) == i \in DOMAIN t.base /\ rows[i] # t.base[i]
\* Fault: a row is written without looking whether it changed since the snapshot.
Unlocked(t, i) == Check(t, TRUE, "database")
Lock(t, i) == Check(t, ~Moved(t, i), "database")

\* One entry of a Run's journal: the row it created, or changed from what it was.
Entry(on, made, was, rev) == [on |-> on, made |-> made, was |-> was, rev |-> rev]
Put(t, who, i, new) ==
    IF t.err # None THEN t
    ELSE [t EXCEPT !.rows[i] = [new EXCEPT !.rev = @ + 1, !.by = who],
                   !.log = Append(@, Entry(i, FALSE, t.rows[i], t.rows[i].rev + 1))]
\* Bound: nothing is inserted when Ids are used up.
Free(t) == Ids \ (DOMAIN t.rows \cup DOMAIN rows)
Fresh(t) == CHOOSE i \in Free(t) : TRUE
Inserted(t, new) ==
    [t EXCEPT !.rows = With(@, Fresh(t), new), !.log = Append(@, Entry(Fresh(t), TRUE, None, 1))]
Insert(t, new) ==
    IF t.err # None THEN t ELSE IF Free(t) = {} THEN Fail(t, "database") ELSE Inserted(t, new)
Wrote(t) == {t.log[k].on : k \in DOMAIN t.log}
Committed(t) == [i \in DOMAIN rows \cup Wrote(t) |-> IF i \in Wrote(t) THEN t.rows[i] ELSE rows[i]]

\* The active Connections of a store are unique: an insertion that meets one it
\* cannot see is refused by the index.
Connected(t, src, rel, dst, who) ==
    IF t.err # None \/ Same(t.rows, src, rel, dst) # {} THEN t
    ELSE Insert(Check(t, \A l \in Same(rows, src, rel, dst) : l \in DOMAIN t.base /\ ~Moved(t, l), "database"),
                NewLink(src, rel, dst, who))
\* connect(), for each of the Objects that an Event or a Memory derives from.
Tied(t, o, from, who) ==
    LET order == SetToSeq(from)
        after[n \in 0..Len(order)] ==
            IF n = 0 THEN t ELSE Connected(after[n - 1], o, "derived_from", order[n], who)
    IN after[Len(order)]

(********************************* runs *************************************)
\* prints: the versions a Run is about, or the outcomes it captures.
NewRun(kind, prints, preview) ==
    [kind |-> kind, status |-> "running", prints |-> prints, preview |-> preview,
     reviewed |-> << >>, retry |-> None, paused |-> FALSE, saved |-> None, parent |-> 0, log |-> << >>]
Runs(kind) == {r \in DOMAIN runs : runs[r].kind = kind}
Notified == woken' = Active

\* The claim of a lease declares the Runs its last holder left running failed.
\* A Run whose row an open transaction holds is waited for.
Held(r) == \E w \in Processes : at[w].pc = "commit" /\ at[w].run = r /\ runs[r].kind # "event_capture"
Abandoned(kind) == {r \in Runs(kind) : runs[r].status = "running"}
\* Fault: an interrupted Run gets a status of its own, that nothing knows.
Stranded(kind) ==
    [r \in DOMAIN runs |-> IF r \in Abandoned(kind) THEN [runs[r] EXCEPT !.status = "interrupted"] ELSE runs[r]]
LeftBehind(kind) ==
    [r \in DOMAIN runs |-> IF r \in Abandoned(kind)
                           THEN [runs[r] EXCEPT !.status = "failed", !.retry = "later"] ELSE runs[r]]

Attempts(kind, prints, preview) ==
    Max({0} \cup {Cardinality({r \in Runs(kind) : /\ runs[r].status = "failed"
                                                  /\ runs[r].preview = preview
                                                  /\ k \in DOMAIN runs[r].prints
                                                  /\ runs[r].prints[k] = prints[k]}) : k \in DOMAIN prints})

(********************************* undo *************************************)
\* One journal entry, unwound: the row must still be as the Run left it.
Unwound(t, e) ==
    IF t.err # None THEN t ELSE
    LET now == t.rows[e.on]
        back == IF e.made THEN [now EXCEPT !.live = FALSE]
                ELSE [e.was EXCEPT !.rev = now.rev, !.guarded = now.guarded]
        Ends == {now.src, now.dst}
    IN IF now.rev # e.rev THEN Fail(t, "conflict")
       ELSE IF now.kind = "link"
       THEN Put(Check(Check(t, back.live => \A o \in Ends : t.rows[o].live, "conflict"),
                      back.live => Same(t.rows, back.src, back.rel, back.dst) \subseteq {e.on}, "database"),
                "dream", e.on, back)
       ELSE Put(Check(Check(t, now.kind \in {"memory", "event"}, "invalid"),
                      e.made => LinksOf(t.rows, e.on) = {}, "conflict"),
                "dream", e.on, back)
\* Fault: the journal is unwound from its first entry.
UnwoundForward(r) ==
    LET log == runs[r].log
        after[n \in 0..Len(log)] == IF n = 0 THEN Begun(rows) ELSE Unwound(after[n - 1], log[n])
    IN after[Len(log)]
Undone(r) ==
    LET log == runs[r].log
        after[n \in 0..Len(log)] ==
            IF n = 0 THEN Begun(rows) ELSE Unwound(after[n - 1], log[Len(log) + 1 - n])
    IN after[Len(log)]
Undoable == {"memory_dream", "memory_capture", "memory_synthesis", "event_capture"}

(* The last entry first, the whole Run or nothing; a reversed Run stays so.   *)
Undo(r) ==
    /\ Takes("undo")
    /\ runs[r].kind \in Undoable /\ runs[r].status = "completed"
    /\ ~Held(r)
    /\ Undone(r).err = None
    /\ rows' = Committed(Undone(r))
    /\ runs' = [runs EXCEPT ![r].status = "reversed"]
    /\ Notified
    /\ UNCHANGED <<scenario, cut, facts, capture, lease, at, armed, timing>>

(*********************** edits of owners and agents *************************)
Edited(i, new) == rows' = [rows EXCEPT ![i] = [new EXCEPT !.rev = @ + 1, !.by = "owner"]]
External(a) ==
    /\ a \in todo /\ todo' = todo \ {a}
    /\ UNCHANGED <<scenario, lease, at, armed, timing>>

EditRow(a) ==
    /\ External(a) /\ a.do \in {"edit", "protect", "unlink"} /\ rows[a.on].live
    /\ Edited(a.on, CASE a.do = "edit" -> [rows[a.on] EXCEPT !.text = "owner"]
                      [] a.do = "protect" -> [rows[a.on] EXCEPT !.guarded = TRUE]
                      [] a.do = "unlink" -> [rows[a.on] EXCEPT !.live = FALSE])
    /\ Notified /\ UNCHANGED <<runs, facts, cut, capture>>

AddLink(a) ==
    /\ External(a) /\ a.do = "link"
    /\ rows[a.src].live /\ rows[a.dst].live /\ Same(rows, a.src, a.rel, a.dst) = {}
    /\ Free(Begun(rows)) # {}
    /\ rows' = With(rows, Fresh(Begun(rows)), NewLink(a.src, a.rel, a.dst, "owner"))
    /\ Notified /\ UNCHANGED <<runs, facts, cut, capture>>

\* correct_evidence qualifies a message or a committed outcome.
CorrectFact(a) ==
    /\ External(a) /\ a.do = "correct" /\ a.on \in DOMAIN facts
    /\ facts' = [facts EXCEPT ![a.on] = @ + 1]
    /\ Notified /\ UNCHANGED <<rows, runs, cut, capture>>

\* An agent's context_apply creates a canonical Event, unless one of the
\* evidence it cites is already told; READ COMMITTED under the lock 7818003.
Overlaps(r, cites) == {e \in OfKind(r, "event") : r[e].live /\ r[e].cites \cap cites # {}}
WriteEvent(a) ==
    /\ External(a) /\ a.do = "event"
    /\ a.cites \subseteq DOMAIN facts /\ Overlaps(rows, a.cites) = {} /\ Free(Begun(rows)) # {}
    /\ rows' = With(rows, Fresh(Begun(rows)), NewObject("event", "owner", a.cites))
    /\ Notified /\ UNCHANGED <<runs, facts, cut, capture>>

(******************************* processes **********************************)
LeaseOf(w) == IF w \in Capturers THEN "capture" ELSE "review"
Holds(w) == lease[LeaseOf(w)] = w
Released(w) == [l \in DOMAIN lease |-> IF lease[l] = w THEN None ELSE lease[l]]
Claimed(w) == lease' = [lease EXCEPT ![LeaseOf(w)] = w]

\* The failed Runs of its mode that a Reviewer will retry.
Retries(w, when) ==
    {r \in Runs("memory_dream") \cup Runs("memory_synthesis") :
        runs[r].status = "failed" /\ runs[r].retry = when /\ runs[r].preview = Previews(w)}
\* A pass consumes what woke its Reviewer. Then the Reviewer scans again, or
\* goes to wait for the next notification.
GoesOn(w) == woken' = woken \cup ({w} \cap Reviewers) /\ UNCHANGED <<armed, timing>>
GoesToWait(w) == timing' = timing \cup {w} /\ UNCHANGED <<woken, armed>>
\* The end of a pass commits the lease: a pass that lost it reports an error.
Ends(w) == /\ at' = [at EXCEPT ![w] = Idle]
           /\ lease' = Released(w)
           /\ IF w \in Reviewers /\ ~Holds(w) THEN GoesToWait(w) ELSE GoesOn(w)

\* Fault: no timer is set for a retry.
WaitsForever(w) == armed' = armed \ {w}
Waits(w) == armed' = IF Retries(w, "later") # {} THEN armed \cup {w} ELSE armed \ {w}
\* It waits with a timer when a retry is set for later than now: of one that has
\* fallen due since the scan it knows nothing.
SetTimer(w) ==
    /\ w \in timing /\ timing' = timing \ {w} /\ Waits(w)
    /\ UNCHANGED <<scenario, store, lease, at, woken, todo>>
Timer(w) ==
    /\ w \in armed /\ Retries(w, "due") # {}
    /\ woken' = woken \cup {w} /\ armed' = armed \ {w}
    /\ UNCHANGED <<scenario, store, lease, at, timing, todo>>
RetryDue(r) ==
    /\ runs[r].status = "failed" /\ runs[r].retry = "later"
    /\ runs' = [runs EXCEPT ![r].retry = "due"]
    /\ UNCHANGED <<scenario, rows, cut, facts, capture, lease, at, woken, armed, timing, todo>>

\* Fault: the process dies; started again, it scans first.
Crash(w) ==
    /\ Takes("crash") /\ at[w].pc # "idle"
    /\ at' = [at EXCEPT ![w] = Idle] /\ lease' = Released(w)
    /\ GoesOn(w) /\ UNCHANGED <<scenario, store>>
\* Fault: the connection of the lease is lost; the pass goes on with the others of the pool.
LoseLease(w) ==
    /\ Takes("lose") /\ Holds(w)
    /\ lease' = Released(w)
    /\ UNCHANGED <<scenario, store, at, woken, armed, timing>>

\* A transaction begins: its snapshot is taken by its first statement.
Begin(w) ==
    /\ at[w].pc = "begin"
    /\ at' = [at EXCEPT ![w].pc = "commit",
                        ![w].base = [rows |-> rows, facts |-> facts, cut |-> cut]]
    /\ UNCHANGED <<scenario, store, lease, woken, armed, timing, todo>>
Proposes(w, plan) ==
    /\ at[w].pc = "model" /\ at' = [at EXCEPT ![w].pc = "begin", ![w].plan = plan]
    /\ UNCHANGED <<scenario, store, lease, woken, armed, timing, todo>>
\* The model call fails, after the one correction it is allowed.
Fails(w) ==
    /\ at[w].pc = "model"
    /\ \E e \in scenario.errors : at' = [at EXCEPT ![w].pc = "failing", ![w].err = e]
    /\ UNCHANGED <<scenario, store, lease, woken, armed, timing, todo>>
\* Fault: a lock is not granted in time, or the connection breaks.
TimesOut(w) ==
    /\ Takes("timeout") /\ at[w].pc = "commit"
    /\ at' = [at EXCEPT ![w].pc = "failing", ![w].err = "database"]
    /\ UNCHANGED <<scenario, store, lease, woken, armed, timing>>
=============================================================================
