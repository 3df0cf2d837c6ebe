------------------------- MODULE MemoryWorkers_proofs -------------------------
(* Theorems about MemoryWorkers, for any processes, ids and scenarios.        *)
EXTENDS MemoryWorkers, FiniteSetTheorems, SequenceTheorems, WellFoundedInduction, TLAPS

(******************************* the invariant ******************************)
\* A row stays what it is, and no version of it comes back with another content.
Alike(a, b) ==
    /\ a.kind = b.kind
    /\ a.kind = "link" => a.src = b.src /\ a.rel = b.rel /\ a.dst = b.dst
Later(r, s) ==
    /\ DOMAIN r \subseteq DOMAIN s
    /\ \A i \in DOMAIN r : /\ Alike(r[i], s[i]) /\ r[i].rev <= s[i].rev
                           /\ r[i].rev = s[i].rev => r[i] = s[i]

\* What a Run journalled is there, and nobody else's while it is the last version.
EntryOK(e, r) ==
    /\ e.on \in DOMAIN r /\ e.made \in BOOLEAN
    /\ e.rev \in Nat \ {0} /\ e.rev <= r[e.on].rev
    /\ e.rev = r[e.on].rev => r[e.on].by # "owner" /\ ~r[e.on].guarded
    /\ ~e.made => RowOK(e.was) /\ Alike(e.was, r[e.on])
JournalOK(log, r) == IsSeq(log) /\ \A k \in 1..Len(log) : EntryOK(log[k], r)

(* What unwinding a journal from its end needs of it. Of two entries, e the    *)
(* earlier one: where it makes a Connection active again, its ends are active  *)
(* then and no other Connection like it is; where it takes back what the Run   *)
(* made, the Connections of that are taken back before.                        *)
IsLink(e, r) == r[e.on].kind = "link"
Stays(e, r) == r[e.on].rev = e.rev
Revived(e, r) == IsLink(e, r) /\ ~e.made /\ e.was.live
Ordered(e, f, r) ==
    /\ e.on # f.on
    /\ Revived(f, r) /\ Stays(e, r) =>
          /\ e.on \in EndsOf(r[f.on]) => r[e.on].live
          /\ IsLink(e, r) /\ Parallel(r[e.on], r[f.on]) => ~r[e.on].live
    /\ Revived(e, r) =>
          /\ f.on \in EndsOf(r[e.on]) => ~f.made /\ f.was.live
          /\ IsLink(f, r) /\ Parallel(r[e.on], r[f.on]) => f.made \/ ~f.was.live
    /\ f.made /\ IsLink(e, r) => f.on \notin EndsOf(r[e.on])
    /\ e.made /\ IsLink(f, r) /\ e.on \in EndsOf(r[f.on]) => f.made
Unwinds(log, r) ==
    /\ \A k \in 1..Len(log) : r[log[k].on].kind \in {"memory", "event", "link"}
    /\ \A k \in 1..Len(log) : \A j \in 1..(k - 1) : Ordered(log[j], log[k], r)

(* What a batch and its plan may speak of, in the store r as its model saw it. *)
DreamOK(b, plan, r) ==
    /\ IsSeq(plan) /\ {"memories", "links", "targets"} \subseteq DOMAIN b
    /\ \A k \in 1..Len(plan) : plan[k].do \in {"rewrite", "retire", "merge", "disconnect", "connect"}
    /\ DOMAIN b.memories \subseteq DOMAIN r /\ DOMAIN b.links \subseteq Links(r)
    /\ DOMAIN b.targets \subseteq DOMAIN r \ Links(r)
EventsOK(b, plan, r) ==
    /\ IsSeq(plan) /\ DOMAIN b.candidates \subseteq DOMAIN r
    /\ \A e \in DOMAIN b.candidates : b.candidates[e] \in Nat /\ b.candidates[e] <= r[e].rev
    /\ \A k \in 1..Len(plan) :
          /\ plan[k].cites \subseteq DOMAIN b.evidence
          /\ plan[k].on # None => plan[k].on \in DOMAIN b.candidates \cap OfKind(r, "event")
IdeasOK(b, plan, r) ==
    /\ IsSeq(plan)
    /\ DOMAIN b.prints \subseteq OfKind(r, "event") /\ DOMAIN b.events \subseteq OfKind(r, "event")
    /\ DOMAIN b.memories \subseteq OfKind(r, "memory")
    /\ \A m \in DOMAIN b.memories : b.memories[m] \in Nat /\ b.memories[m] <= r[m].rev
    /\ \A k \in 1..Len(plan) :
          /\ plan[k].do \in {"create", "update", "retire"} /\ plan[k].from = DOMAIN b.prints
          /\ plan[k].do # "create" =>
                /\ plan[k].on \in DOMAIN b.memories
                /\ r[plan[k].on].rev = b.memories[plan[k].on] => Editable(r[plan[k].on])
    /\ \A j, k \in 1..Len(plan) :
          plan[j].do # "create" /\ plan[k].do # "create" /\ plan[j].on = plan[k].on => j = k
PlanOK(kind, b, plan, r) ==
    CASE kind = "memory_dream" -> DreamOK(b, plan, r)
      [] kind = "event_capture" -> EventsOK(b, plan, r)
      [] kind = "memory_synthesis" -> IdeasOK(b, plan, r) 
      [] OTHER -> FALSE

RunFields == {"kind", "status", "prints", "preview", "reviewed", "retry", "paused", "saved", "parent", "log"}
Kinds == {"memory_dream", "memory_capture", "memory_synthesis", "event_capture"}
RunOK(run, n, r) ==
    /\ DOMAIN run = RunFields
    /\ run.kind \in Kinds /\ run.status \in Statuses
    /\ run.parent \in 0..n /\ (run.parent # 0 => run.kind = "memory_dream")
    /\ JournalOK(run.log, r) /\ Unwinds(run.log, r)
    /\ run.status = "preview" =>
          /\ run.kind \in {"memory_dream", "memory_synthesis"}
          /\ PlanOK(run.kind, run.saved.batch, run.saved.plan, r)
          /\ run.kind = "memory_synthesis" => run.saved.batch.prints = run.prints
RunsOK(q, r) == IsSeq(q) /\ \A k \in 1..Len(q) : RunOK(q[k], Len(q), r)
RunsInv == RunsOK(runs, rows)

PassFields == {"pc", "run", "batch", "plan", "base", "err"}
Steps_ == {"model", "begin", "commit", "failing"}
KindsOf(w) == IF w \in Capturers THEN {"event_capture"} ELSE {"memory_dream", "memory_synthesis"}
\* Where a pass is: its Run, what its model was shown, and what it proposed.
PassOK(w, a, q, r, s) ==
    /\ DOMAIN a = PassFields
    /\ a.pc \in {"idle"} \cup Kinds \cup Steps_
    /\ a.pc \in Kinds => a.pc \in KindsOf(w) /\ w # Operator
    /\ a.pc \in {"idle"} \cup Kinds => a.run = 0
    /\ a.pc \in Steps_ =>
          /\ a.run \in 1..Len(q) /\ q[a.run].kind \in KindsOf(w)
          /\ q[a.run].kind = "memory_synthesis" => a.batch.prints = q[a.run].prints
          /\ a.pc # "failing" /\ q[a.run].kind = "event_capture" => DOMAIN a.batch.evidence \subseteq DOMAIN s.what
    /\ a.pc = "model" => PlanOK(q[a.run].kind, a.batch, << >>, r)
    /\ a.pc = "begin" => PlanOK(q[a.run].kind, a.batch, a.plan, r)
    /\ a.pc = "commit" =>
          /\ StoreOK(a.base.rows) /\ Whole(a.base.rows) /\ Later(a.base.rows, r)
          /\ DOMAIN s.rows \subseteq DOMAIN a.base.rows
          /\ DOMAIN s.rows \ Links(s.rows) \subseteq DOMAIN a.base.rows \ Links(a.base.rows)
          /\ PlanOK(q[a.run].kind, a.batch, a.plan, a.base.rows)
PassInv == DOMAIN at = Processes /\ \A w \in Processes : PassOK(w, at[w], runs, rows, scenario)

StoreInv ==
    /\ StoreOK(rows) /\ Whole(rows)
    /\ DOMAIN scenario.rows \subseteq DOMAIN rows
    /\ DOMAIN scenario.rows \ Links(scenario.rows) \subseteq DOMAIN rows \ Links(rows)
LeaseType(l) ==
    /\ DOMAIN l = {"capture", "review"}
    /\ l.capture \in Capturers \cup {None} /\ l.review \in Reviewers \cup {Operator, None}
WaitInv ==
    /\ scenario \in Scenarios
    /\ LeaseType(lease)
    /\ armed \cup timing \subseteq Reviewers /\ woken \subseteq Reviewers
    /\ todo \subseteq scenario.todo

(* The leases, while no connection that holds one was lost. *)
LeaseOK(w, a, q, l, c) ==
    /\ a.pc # "idle" /\ (w = Operator => q[a.run].kind = "memory_dream") => l[LeaseOf(w)] = w
    /\ a.pc = "commit" /\ q[a.run].kind = "memory_dream" => a.base.cut = c
    /\ w \in Capturers /\ a.pc = "event_capture" =>
          \A k \in 1..Len(q) : q[k].kind = "event_capture" => q[k].status # "running"
LeaseInv == Undisturbed => \A w \in Processes : LeaseOK(w, at[w], runs, lease, cut)

(* Which Runs may be about the same outcome. *)
OutcomesOK(q, alone) ==
    /\ \A j, k \in 1..Len(q) :
          /\ q[j].kind = "memory_capture" /\ q[k].kind \in {"memory_capture", "event_capture"}
          /\ DOMAIN q[j].prints \cap DOMAIN q[k].prints # {}
          => j = k
    /\ alone => \A j, k \in 1..Len(q) :
          /\ q[j].kind = "event_capture" /\ q[k].kind = "event_capture"
          /\ q[j].status # "failed" /\ q[k].status # "failed"
          /\ DOMAIN q[j].prints \cap DOMAIN q[k].prints # {}
          => j = k
LegacyOK(c, q, a) ==
    ~c.done => /\ \A k \in 1..Len(q) : q[k].kind # "event_capture"
               /\ \A w \in Processes : a[w].pc # "event_capture"
OutcomesInv == LegacyOK(cut, runs, at) /\ OutcomesOK(runs, Undisturbed)
\* Which Runs have reviewed a version of an Event.
ReviewsOf(run) == run.kind = "memory_synthesis" /\ run.status \in {"completed", "reversed"}
SynthesesOK(q) ==
    \A j, k \in 1..Len(q) : \A e \in DOMAIN q[j].prints \cap DOMAIN q[k].prints :
        ReviewsOf(q[j]) /\ ReviewsOf(q[k]) /\ q[j].prints[e] = q[k].prints[e] => j = k
SynthesesInv == SynthesesOK(runs)

IInv == StoreInv /\ WaitInv /\ RunsInv /\ PassInv /\ LeaseInv /\ OutcomesInv /\ SynthesesInv

(************************ how rows and journals age *************************)
LEMMA LaterItself == ASSUME NEW r, StoreOK(r) PROVE Later(r, r)
  BY DEF Later, Alike, StoreOK, RowOK

LEMMA LaterStill ==
    ASSUME NEW r, NEW s, NEW t, StoreOK(r), StoreOK(s), StoreOK(t), Later(r, s), Later(s, t)
    PROVE  Later(r, t)
<1>1. DOMAIN r \subseteq DOMAIN s /\ DOMAIN s \subseteq DOMAIN t
  BY DEF Later
<1>2. ASSUME NEW i \in DOMAIN r
      PROVE  Alike(r[i], t[i]) /\ r[i].rev <= t[i].rev /\ (r[i].rev = t[i].rev => r[i] = t[i])
  <2>1. i \in DOMAIN s /\ i \in DOMAIN t
    BY <1>1
  <2>2. r[i].rev \in Nat /\ s[i].rev \in Nat /\ t[i].rev \in Nat
    BY <2>1 DEF StoreOK, RowOK
  <2>3. Alike(r[i], t[i])
    BY <2>1 DEF Later, Alike
  <2>4. r[i].rev <= s[i].rev /\ s[i].rev <= t[i].rev
    BY <2>1 DEF Later
  <2>5. r[i].rev = t[i].rev => r[i].rev = s[i].rev /\ s[i].rev = t[i].rev
    BY <2>2, <2>4
  <2> QED
    BY <2>1, <2>2, <2>3, <2>4, <2>5 DEF Later
<1> QED
  BY <1>1, <1>2 DEF Later

LEMMA EntryAges ==
    ASSUME NEW r, NEW s, StoreOK(r), StoreOK(s), Later(r, s), NEW e, EntryOK(e, r)
    PROVE  EntryOK(e, s)
<1>1. e.on \in DOMAIN r /\ e.on \in DOMAIN s
  BY DEF EntryOK, Later
<1>2. r[e.on].rev \in Nat /\ s[e.on].rev \in Nat /\ e.rev \in Nat
  BY <1>1 DEF StoreOK, RowOK, EntryOK
<1>3. r[e.on].rev <= s[e.on].rev /\ e.rev <= r[e.on].rev
  BY <1>1 DEF Later, EntryOK
<1>4. e.rev <= s[e.on].rev
  BY <1>2, <1>3
<1>5. e.rev = s[e.on].rev => r[e.on] = s[e.on] /\ e.rev = r[e.on].rev
  BY <1>1, <1>2, <1>3 DEF Later
<1>6. ~e.made => Alike(e.was, s[e.on])
  BY <1>1 DEF Later, EntryOK, Alike
<1> QED
  BY <1>1, <1>4, <1>5, <1>6 DEF EntryOK

LEMMA JournalAges ==
    ASSUME NEW r, NEW s, StoreOK(r), StoreOK(s), Later(r, s), NEW log, JournalOK(log, r)
    PROVE  JournalOK(log, s)
  BY EntryAges DEF JournalOK

LEMMA OrderAges ==
    ASSUME NEW r, NEW s, StoreOK(r), StoreOK(s), Later(r, s), NEW e, NEW f, EntryOK(e, r), EntryOK(f, r), Ordered(e, f, r)
    PROVE  Ordered(e, f, s)
<1>1. /\ e.on \in DOMAIN r /\ f.on \in DOMAIN r /\ e.on \in DOMAIN s /\ f.on \in DOMAIN s
      /\ Alike(r[e.on], s[e.on]) /\ Alike(r[f.on], s[f.on])
  BY DEF EntryOK, Later
<1>2. /\ r[e.on].rev \in Nat /\ s[e.on].rev \in Nat /\ e.rev \in Nat
      /\ e.rev <= r[e.on].rev /\ r[e.on].rev <= s[e.on].rev
      /\ r[e.on].rev = s[e.on].rev => r[e.on] = s[e.on]
  BY <1>1 DEF StoreOK, RowOK, EntryOK, Later
<1>3. Stays(e, s) => Stays(e, r) /\ s[e.on] = r[e.on]
  BY <1>2 DEF Stays
<1>4. /\ IsLink(e, s) = IsLink(e, r) /\ IsLink(f, s) = IsLink(f, r)
      /\ Revived(e, s) = Revived(e, r) /\ Revived(f, s) = Revived(f, r)
  BY <1>1 DEF IsLink, Revived, Alike
<1>5. /\ IsLink(e, r) => EndsOf(s[e.on]) = EndsOf(r[e.on])
      /\ IsLink(f, r) => EndsOf(s[f.on]) = EndsOf(r[f.on])
      /\ IsLink(e, r) /\ IsLink(f, r) => (Parallel(s[e.on], s[f.on]) <=> Parallel(r[e.on], r[f.on]))
  BY <1>1 DEF IsLink, EndsOf, Parallel, Alike
<1>6. (Revived(e, r) => IsLink(e, r)) /\ (Revived(f, r) => IsLink(f, r))
  BY DEF Revived
<1> QED
  BY <1>3, <1>4, <1>5, <1>6 DEF Ordered

LEMMA UnwindsAges ==
    ASSUME NEW r, NEW s, StoreOK(r), StoreOK(s), Later(r, s), NEW log, JournalOK(log, r), Unwinds(log, r)
    PROVE  Unwinds(log, s)
<1>1. Len(log) \in Nat /\ \A k \in 1..Len(log) : EntryOK(log[k], r)
  BY DEF JournalOK, IsSeq
<1>2. \A k \in 1..Len(log) : s[log[k].on].kind = r[log[k].on].kind
  BY <1>1 DEF EntryOK, Later, Alike
<1>3. \A k \in 1..Len(log) : \A j \in 1..(k - 1) : j \in 1..Len(log)
  BY <1>1
<1>4. \A k \in 1..Len(log) : \A j \in 1..(k - 1) : Ordered(log[j], log[k], s)
  BY <1>1, <1>3, OrderAges DEF Unwinds
<1> QED
  BY <1>2, <1>4 DEF Unwinds

\* A store stays whole when its Connections stay what they are and none comes back.
LEMMA WholeStill ==
    ASSUME NEW r, Whole(r), NEW s, Links(s) \subseteq Links(r),
           \A l \in Links(s) : /\ s[l].src = r[l].src /\ s[l].rel = r[l].rel /\ s[l].dst = r[l].dst
                               /\ s[l].live => r[l].live
    PROVE  Whole(s)
<1>1. \A l \in Links(s) : EndsOf(s[l]) = EndsOf(r[l])
  BY DEF EndsOf
<1>2. \A l, m \in Links(s) : Parallel(s[l], s[m]) => Parallel(r[l], r[m])
  BY DEF Parallel
<1> QED
  BY <1>1, <1>2 DEF Whole

LEMMA PlanAges ==
    ASSUME NEW r, NEW s, StoreOK(r), StoreOK(s), Later(r, s), NEW kind, NEW b, NEW plan, PlanOK(kind, b, plan, r)
    PROVE  PlanOK(kind, b, plan, s)
<1>1. DOMAIN r \subseteq DOMAIN s /\ Links(r) \subseteq Links(s)
      /\ DOMAIN r \ Links(r) \subseteq DOMAIN s \ Links(s)
      /\ \A k : OfKind(r, k) \subseteq OfKind(s, k)
  BY DEF Later, Links, OfKind, Alike
<1>2. CASE kind = "memory_dream"
  BY <1>1, <1>2 DEF PlanOK, DreamOK
<1>3. CASE kind = "event_capture"
  <2>1. EventsOK(b, plan, r)
    BY <1>3 DEF PlanOK
  <2>2. ASSUME NEW e \in DOMAIN b.candidates PROVE b.candidates[e] <= s[e].rev
    <3>1. e \in DOMAIN r /\ e \in DOMAIN s
      BY <2>1, <1>1 DEF EventsOK
    <3>2. r[e].rev \in Nat /\ s[e].rev \in Nat /\ b.candidates[e] \in Nat
      BY <3>1, <2>1 DEF StoreOK, RowOK, EventsOK
    <3>3. b.candidates[e] <= r[e].rev /\ r[e].rev <= s[e].rev
      BY <3>1, <2>1 DEF EventsOK, Later
    <3> QED
      BY <3>2, <3>3
  <2>3. EventsOK(b, plan, s)
    BY <1>1, <2>1, <2>2 DEF EventsOK
  <2> QED
    BY <1>3, <2>3 DEF PlanOK
<1>4. CASE kind = "memory_synthesis"
  <2>1. IdeasOK(b, plan, r)
    BY <1>4 DEF PlanOK
  <2>2. ASSUME NEW m \in DOMAIN b.memories
        PROVE  /\ b.memories[m] <= s[m].rev
               /\ s[m].rev = b.memories[m] => r[m].rev = b.memories[m] /\ r[m] = s[m]
    <3>1. m \in DOMAIN r /\ m \in DOMAIN s
      BY <2>1, <1>1 DEF IdeasOK, OfKind
    <3>2. r[m].rev \in Nat /\ s[m].rev \in Nat /\ b.memories[m] \in Nat
      BY <3>1, <2>1 DEF StoreOK, RowOK, IdeasOK
    <3>3. b.memories[m] <= r[m].rev /\ r[m].rev <= s[m].rev
      BY <3>1, <2>1 DEF IdeasOK, Later
    <3>4. r[m].rev = s[m].rev => r[m] = s[m]
      BY <3>1 DEF Later
    <3> QED
      BY <3>2, <3>3, <3>4
  <2>3. IdeasOK(b, plan, s)
    BY <1>1, <2>1, <2>2 DEF IdeasOK
  <2> QED
    BY <1>4, <2>3 DEF PlanOK
<1> QED
  BY <1>2, <1>3, <1>4 DEF PlanOK

(***************************** transactions *********************************)
\* A row that a worker may still write: a person has neither protected it nor
\* written it last, an Event excepted.
Spared(row) == ~row.guarded /\ (row.by # "owner" \/ row.kind = "event")

\* A transaction on the snapshot b has changed what it journalled, and nothing
\* that somebody else changed since.
TxFields == {"rows", "base", "log", "touched", "err"}
TxOK(t, b) ==
    /\ DOMAIN t = TxFields /\ t.base = b
    /\ StoreOK(b) /\ StoreOK(t.rows) /\ Later(b, t.rows)
    /\ JournalOK(t.log, t.rows)
    /\ DOMAIN t.rows = DOMAIN b \cup Wrote(t)
    /\ Wrote(t) \cap DOMAIN rows \subseteq DOMAIN b
    /\ \A i \in Wrote(t) : t.rows[i].by # "owner" /\ ~t.rows[i].guarded
    /\ \A i \in DOMAIN b : IF i \in Wrote(t) THEN rows[i] = b[i] /\ Spared(b[i]) ELSE t.rows[i] = b[i]
SameTx(u, t) ==
    /\ DOMAIN u = TxFields /\ u.rows = t.rows /\ u.base = t.base /\ u.log = t.log
    /\ t.err # None => u.err # None
\* One transaction went on from another: nothing it had is gone.
Onward(u, t) ==
    /\ DOMAIN t.rows \subseteq DOMAIN u.rows /\ Later(t.rows, u.rows) /\ Wrote(t) \subseteq Wrote(u)
    /\ t.err # None => u.err # None

LEMMA TxSame == ASSUME NEW t, NEW u, NEW b, TxOK(t, b), SameTx(u, t) PROVE TxOK(u, b) /\ Onward(u, t)
<1>1. Wrote(u) = Wrote(t)
  BY DEF SameTx, Wrote
<1>2. Later(t.rows, t.rows)
  BY LaterItself DEF TxOK
<1> QED
  BY <1>1, <1>2 DEF TxOK, SameTx, Onward

LEMMA OnwardStill ==
    ASSUME NEW t, NEW u, NEW v, NEW b, TxOK(t, b), TxOK(u, b), TxOK(v, b), Onward(u, t), Onward(v, u)
    PROVE  Onward(v, t)
<1>1. Later(t.rows, v.rows)
  BY LaterStill DEF TxOK, Onward
<1> QED
  BY <1>1 DEF Onward

LEMMA TxBegins ==
    ASSUME NEW b, StoreOK(b), Later(b, rows) PROVE TxOK(Begun(b), b) /\ Begun(b).err = None
<1> DEFINE t == Begun(b)
<1>1. /\ DOMAIN t = TxFields /\ t.base = b /\ t.rows = b /\ t.log = << >> /\ t.err = None
  BY DEF Begun, TxFields
<1>2. Wrote(t) = {} /\ JournalOK(t.log, t.rows)
  BY <1>1 DEF Wrote, JournalOK, IsSeq
<1>3. Later(b, t.rows) /\ StoreOK(t.rows)
  BY <1>1, LaterItself
<1> HIDE DEF t
<1>4. TxOK(t, b) /\ t.err = None
  BY <1>1, <1>2, <1>3 DEF TxOK
<1> QED
  BY <1>4 DEF t

LEMMA CheckKeeps ==
    ASSUME NEW t, DOMAIN t = TxFields, NEW ok \in BOOLEAN, NEW e \in {"database", "conflict", "invalid"}
    PROVE  /\ SameTx(Check(t, ok, e), t) /\ Check(t, ok, e).touched = t.touched
           /\ Check(t, ok, e).err = None <=> t.err = None /\ ok
  BY NoneAssumption DEF Check, Fail, SameTx, TxFields

LEMMA LockKeeps ==
    ASSUME NEW t, DOMAIN t = TxFields, NEW i
    PROVE  /\ SameTx(Lock(t, i), t) /\ Lock(t, i).touched = t.touched
           /\ Lock(t, i).err = None <=> t.err = None /\ ~Moved(t, i)
  BY CheckKeeps DEF Lock, Moved

LEMMA RejectKeeps ==
    ASSUME NEW t, DOMAIN t = TxFields, NEW why
    PROVE  /\ SameTx(Reject(t, why), t) /\ Reject(t, why).touched = t.touched
           /\ Reject(t, why).err = None => t.err = None /\ \A i \in DOMAIN why : why[i] = None
<1> DEFINE bad == {i \in DOMAIN why : why[i] # None}
<1>1. CASE bad = {}
  BY <1>1 DEF Reject, SameTx
<1>2. CASE bad # {}
  <2>1. why[CHOOSE i \in bad : TRUE] # None
    BY <1>2
  <2> DEFINE e == why[CHOOSE i \in bad : TRUE]
  <2>2. Reject(t, why) = Fail(t, e)
    BY <1>2 DEF Reject
  <2> HIDE DEF e, bad
  <2>3. SameTx(Fail(t, e), t) /\ Fail(t, e).touched = t.touched /\ Fail(t, e).err # None
    BY <2>1 DEF Fail, SameTx, TxFields, e
  <2> QED
    BY <2>2, <2>3
<1> QED
  BY <1>1, <1>2

LEMMA SeqFacts ==
    ASSUME NEW s, IsSeq(s)
    PROVE  /\ Len(s) \in Nat /\ DOMAIN s = 1..Len(s)
           /\ \A e : /\ IsSeq(Append(s, e)) /\ Len(Append(s, e)) = Len(s) + 1
                    /\ Append(s, e)[Len(s) + 1] = e
                    /\ \A k \in 1..Len(s) : Append(s, e)[k] = s[k]
<1>1. s \in Seq(Range(s)) /\ Len(s) \in Nat /\ DOMAIN s = 1..Len(s)
  BY DEF IsSeq
<1>2. ASSUME NEW e
      PROVE  /\ IsSeq(Append(s, e)) /\ Len(Append(s, e)) = Len(s) + 1
             /\ Append(s, e)[Len(s) + 1] = e
             /\ \A k \in 1..Len(s) : Append(s, e)[k] = s[k]
  <2> DEFINE u == Append(s, e)
  <2>1. s \in Seq(Range(s) \cup {e}) /\ e \in Range(s) \cup {e}
    BY <1>1, SeqMonotonic
  <2>2. /\ u \in Seq(Range(s) \cup {e}) /\ Len(u) = Len(s) + 1
        /\ u[Len(s) + 1] = e /\ \A k \in 1..Len(s) : u[k] = s[k]
    BY <2>1
  <2> HIDE DEF u
  <2>3. u \in Seq(Range(u))
    <3>1. Len(u) \in Nat /\ u \in [1..Len(u) -> Range(s) \cup {e}]
      BY <2>2
    <3>2. u \in [1..Len(u) -> Range(u)]
      BY <3>1 DEF Range
    <3> QED
      BY <3>1, <3>2
  <2> QED
    BY <2>2, <2>3 DEF IsSeq, u
<1> QED
  BY <1>1, <1>2

\* One more entry of the journal.
LEMMA JournalGrows ==
    ASSUME NEW r, NEW log, JournalOK(log, r), NEW e, EntryOK(e, r)
    PROVE  JournalOK(Append(log, e), r)
<1>1. /\ IsSeq(Append(log, e)) /\ Len(Append(log, e)) = Len(log) + 1 /\ Len(log) \in Nat
      /\ \A k \in 1..Len(log) : Append(log, e)[k] = log[k]
      /\ Append(log, e)[Len(log) + 1] = e
  BY SeqFacts DEF JournalOK
<1>2. \A k \in 1..(Len(log) + 1) : k \in 1..Len(log) \/ k = Len(log) + 1
  BY <1>1
<1> QED
  BY <1>1, <1>2 DEF JournalOK

LEMMA WroteGrows ==
    ASSUME NEW t, NEW u, NEW e, IsSeq(t.log), u.log = Append(t.log, e)
    PROVE  Wrote(u) = Wrote(t) \cup {e.on}
<1>1. /\ Len(t.log) \in Nat /\ DOMAIN t.log = 1..Len(t.log)
      /\ IsSeq(u.log) /\ Len(u.log) = Len(t.log) + 1 /\ DOMAIN u.log = 1..(Len(t.log) + 1)
      /\ \A k \in 1..Len(t.log) : u.log[k] = t.log[k]
      /\ u.log[Len(t.log) + 1] = e
  <2>1. IsSeq(Append(t.log, e)) /\ Len(Append(t.log, e)) = Len(t.log) + 1
    BY SeqFacts
  <2>2. DOMAIN Append(t.log, e) = 1..(Len(t.log) + 1)
    BY <2>1, SeqFacts
  <2> QED
    BY <2>1, <2>2, SeqFacts
<1>2. 1..(Len(t.log) + 1) = 1..Len(t.log) \cup {Len(t.log) + 1}
  BY <1>1
<1> QED
  BY <1>1, <1>2 DEF Wrote

\* A row that the transaction may write.
Writable(t, b, i) ==
    /\ i \in DOMAIN t.rows
    /\ i \in DOMAIN b \ Wrote(t) => rows[i] = b[i] /\ Spared(b[i])

\* It is the one row that is written.
PutsAt(u, t, i) ==
    /\ u.err = t.err /\ DOMAIN u.rows = DOMAIN t.rows
    /\ t.err # None => u = t
    /\ t.err = None => /\ Wrote(u) = Wrote(t) \cup {i}
                       /\ \A j \in DOMAIN t.rows \ {i} : u.rows[j] = t.rows[j]

LEMMA PutKeeps ==
    ASSUME NEW t, NEW b, TxOK(t, b), NEW who, who # "owner", NEW i, NEW new,
           t.err = None => /\ Writable(t, b, i) /\ RowOK(new) /\ Alike(t.rows[i], new)
                           /\ new.rev = t.rows[i].rev /\ ~new.guarded
    PROVE  /\ TxOK(Put(t, who, i, new), b) /\ Onward(Put(t, who, i, new), t)
           /\ PutsAt(Put(t, who, i, new), t, i)
<1>1. CASE t.err # None
  <2>1. Put(t, who, i, new) = t
    BY <1>1 DEF Put
  <2>2. SameTx(t, t) /\ PutsAt(t, t, i)
    BY <1>1 DEF SameTx, TxOK, PutsAt
  <2> QED
    BY <2>1, <2>2, TxSame
<1>2. CASE t.err = None
  <2> DEFINE row == [new EXCEPT !.rev = @ + 1, !.by = who]
             e == Entry(i, FALSE, t.rows[i], t.rows[i].rev + 1)
             u == Put(t, who, i, new)
  <2>0. i \in DOMAIN t.rows /\ (i \in DOMAIN b \ Wrote(t) => rows[i] = b[i] /\ Spared(b[i]))
    BY <1>2 DEF Writable
  <2>1. /\ DOMAIN u = TxFields /\ u.rows = [t.rows EXCEPT ![i] = row] /\ u.log = Append(t.log, e)
        /\ u.base = b /\ u.err = None
    BY <1>2 DEF Put, TxOK, TxFields
  <2>2. /\ RowOK(row) /\ row.rev = t.rows[i].rev + 1 /\ row.by = who /\ ~row.guarded
        /\ Alike(t.rows[i], row) /\ t.rows[i].rev \in Nat
    <3>1. RowOK(new) /\ new.rev = t.rows[i].rev /\ Alike(t.rows[i], new) /\ ~new.guarded
      BY <1>2
    <3>2. /\ DOMAIN row = DOMAIN new /\ row.rev = new.rev + 1 /\ row.by = who
          /\ \A c \in DOMAIN new \ {"rev", "by"} : row[c] = new[c]
      BY <3>1 DEF RowOK, Columns
    <3>3. row.kind = new.kind /\ row.live = new.live /\ row.guarded = new.guarded
      BY <3>1, <3>2 DEF RowOK, Columns
    <3>4. new.kind = "link" => row.src = new.src /\ row.rel = new.rel /\ row.dst = new.dst
      BY <3>1, <3>2 DEF RowOK
    <3> HIDE DEF row
    <3> QED
      BY <3>1, <3>2, <3>3, <3>4 DEF RowOK, Alike
  <2> HIDE DEF row, u, e
  <2>3. /\ DOMAIN u.rows = DOMAIN t.rows /\ u.rows[i] = row
        /\ \A j \in DOMAIN t.rows \ {i} : u.rows[j] = t.rows[j]
    BY <2>0, <2>1
  <2>4. StoreOK(u.rows) /\ Later(t.rows, u.rows) /\ Later(b, u.rows)
    <3>1. \A j \in DOMAIN t.rows : RowOK(u.rows[j]) /\ Alike(t.rows[j], u.rows[j])
      BY <2>2, <2>3 DEF TxOK, StoreOK, Alike
    <3>2. StoreOK(u.rows)
      BY <2>3, <3>1 DEF TxOK, StoreOK, Links, Alike
    <3>3. Later(t.rows, u.rows)
      BY <2>2, <2>3, <3>1 DEF Later, TxOK, StoreOK, RowOK
    <3>4. Later(b, u.rows)
      BY <3>2, <3>3, LaterStill DEF TxOK
    <3> QED
      BY <3>2, <3>3, <3>4
  <2>5. e.on = i /\ EntryOK(e, u.rows)
    BY <2>0, <2>2, <2>3 DEF e, Entry, EntryOK, TxOK, StoreOK, Alike, RowOK
  <2>6. JournalOK(u.log, u.rows)
    <3>1. JournalOK(t.log, u.rows)
      BY <2>4, JournalAges DEF TxOK
    <3> QED
      BY <2>1, <2>5, <3>1, JournalGrows
  <2>7. Wrote(u) = Wrote(t) \cup {i}
    BY <2>1, <2>5, WroteGrows DEF TxOK, JournalOK
  <2>8. /\ \A j \in Wrote(u) : u.rows[j].by # "owner" /\ ~u.rows[j].guarded
        /\ \A j \in DOMAIN b : IF j \in Wrote(u) THEN rows[j] = b[j] /\ Spared(b[j]) ELSE u.rows[j] = b[j]
    <3>1. \A j \in Wrote(t) : j \in DOMAIN t.rows
      BY DEF TxOK
    <3> QED
      BY <2>0, <1>2, <2>2, <2>3, <2>7, <3>1 DEF TxOK
  <2>9. DOMAIN u.rows = DOMAIN b \cup Wrote(u) /\ Wrote(u) \cap DOMAIN rows \subseteq DOMAIN b
    BY <2>0, <2>3, <2>7 DEF TxOK
  <2>10. TxOK(u, b) /\ Onward(u, t)
    BY <1>2, <2>1, <2>3, <2>4, <2>6, <2>7, <2>8, <2>9 DEF TxOK, Onward
  <2>11. PutsAt(u, t, i)
    BY <1>2, <2>1, <2>3, <2>7 DEF PutsAt
  <2> QED
    BY <2>10, <2>11 DEF u
<1> QED
  BY <1>1, <1>2

\* It is journalled as it was.
Journals(u, t, i, new) ==
    /\ u.log = Append(t.log, Entry(i, FALSE, t.rows[i], t.rows[i].rev + 1))
    /\ u.rows[i].rev = new.rev + 1 /\ u.rows[i].live = new.live

LEMMA PutWrites ==
    ASSUME NEW t, NEW b, TxOK(t, b), NEW who, NEW i, i \in DOMAIN t.rows, NEW new, RowOK(new), t.err = None
    PROVE  Journals(Put(t, who, i, new), t, i, new)
<1> DEFINE row == [new EXCEPT !.rev = @ + 1, !.by = who]
           e == Entry(i, FALSE, t.rows[i], t.rows[i].rev + 1)
           u == Put(t, who, i, new)
<1>1. u.rows = [t.rows EXCEPT ![i] = row] /\ u.log = Append(t.log, e)
  BY DEF Put, TxOK, TxFields
<1>2. row.rev = new.rev + 1 /\ row.live = new.live
  BY DEF RowOK, Columns
<1> HIDE DEF row, u
<1>3. u.rows[i] = row
  BY <1>1
<1> QED
  BY <1>1, <1>2, <1>3 DEF u, Journals

\* A new row, whose ends are there if it is a Connection.
LEMMA InsertKeeps ==
    ASSUME NEW t, NEW b, TxOK(t, b), NEW new,
           t.err = None => /\ RowOK(new) /\ new.rev = 1 /\ new.by # "owner" /\ ~new.guarded
                           /\ new.kind = "link" => new.src \in DOMAIN t.rows /\ new.dst \in DOMAIN t.rows
    PROVE  /\ TxOK(Insert(t, new), b) /\ Onward(Insert(t, new), t)
           /\ Insert(t, new).err # None => Insert(t, new).rows = t.rows /\ Wrote(Insert(t, new)) = Wrote(t)
           /\ Insert(t, new).err = None =>
                 /\ t.err = None
                 /\ Fresh(t) \in Ids /\ Fresh(t) \notin DOMAIN t.rows \cup DOMAIN rows
                 /\ DOMAIN Insert(t, new).rows = DOMAIN t.rows \cup {Fresh(t)}
                 /\ Insert(t, new).rows[Fresh(t)] = new
                 /\ \A i \in DOMAIN t.rows : Insert(t, new).rows[i] = t.rows[i]
                 /\ Wrote(Insert(t, new)) = Wrote(t) \cup {Fresh(t)}
<1>1. CASE t.err # None
  <2>1. Insert(t, new) = t /\ Onward(t, t)
    BY <1>1, TxSame DEF Insert, SameTx, TxOK
  <2> QED
    BY <1>1, <2>1
<1>2. CASE t.err = None /\ Free(t) = {}
  <2>1. Insert(t, new) = Fail(t, "database")
    BY <1>2 DEF Insert
  <2>2. SameTx(Fail(t, "database"), t) /\ Fail(t, "database").err # None
    BY <1>2, NoneAssumption DEF Fail, SameTx, TxOK, TxFields
  <2>3. Wrote(Fail(t, "database")) = Wrote(t)
    BY <2>2 DEF SameTx, Wrote
  <2> QED
    BY <2>1, <2>2, <2>3, TxSame DEF SameTx
<1>3. CASE t.err = None /\ Free(t) # {}
  <2> DEFINE f == Fresh(t)
             e == Entry(f, TRUE, None, 1)
             u == Insert(t, new)
  <2>1. f \in Ids /\ f \notin DOMAIN t.rows \cup DOMAIN rows
    BY <1>3 DEF Fresh, Free
  <2>2. /\ DOMAIN u = TxFields /\ u.rows = With(t.rows, f, new) /\ u.log = Append(t.log, e)
        /\ u.base = b /\ u.err = None
    BY <1>3 DEF Insert, Inserted, TxOK, TxFields
  <2> HIDE DEF f, u, e
  <2>3. /\ DOMAIN u.rows = DOMAIN t.rows \cup {f} /\ u.rows[f] = new
        /\ \A j \in DOMAIN t.rows : u.rows[j] = t.rows[j]
    BY <2>1, <2>2 DEF With
  <2>4. RowOK(new) /\ new.rev = 1 /\ new.by # "owner" /\ ~new.guarded
        /\ (new.kind = "link" => new.src \in DOMAIN t.rows /\ new.dst \in DOMAIN t.rows)
    BY <1>3
  <2>5. StoreOK(u.rows)
    BY <2>1, <2>3, <2>4 DEF TxOK, StoreOK, Links
  <2>6. Later(t.rows, u.rows) /\ Later(b, u.rows)
    <3>1. Later(t.rows, u.rows)
      BY <2>3 DEF Later, Alike, TxOK, StoreOK, RowOK
    <3> QED
      BY <2>5, <3>1, LaterStill DEF TxOK
  <2>7. e.on = f /\ EntryOK(e, u.rows)
    BY <2>3, <2>4 DEF e, Entry, EntryOK
  <2>8. JournalOK(u.log, u.rows)
    <3>1. JournalOK(t.log, u.rows)
      BY <2>5, <2>6, JournalAges DEF TxOK
    <3> QED
      BY <2>2, <2>7, <3>1, JournalGrows
  <2>9. Wrote(u) = Wrote(t) \cup {f}
    BY <2>2, <2>7, WroteGrows DEF TxOK, JournalOK
  <2>10. Wrote(t) \subseteq DOMAIN t.rows /\ DOMAIN b \subseteq DOMAIN t.rows
    BY DEF TxOK
  <2>11. /\ \A j \in Wrote(u) : u.rows[j].by # "owner" /\ ~u.rows[j].guarded
         /\ \A j \in DOMAIN b : IF j \in Wrote(u) THEN rows[j] = b[j] /\ Spared(b[j]) ELSE u.rows[j] = b[j]
    BY <2>1, <2>3, <2>4, <2>9, <2>10 DEF TxOK
  <2>12. DOMAIN u.rows = DOMAIN b \cup Wrote(u) /\ Wrote(u) \cap DOMAIN rows \subseteq DOMAIN b
    BY <2>1, <2>3, <2>9 DEF TxOK
  <2>13. TxOK(u, b) /\ Onward(u, t)
    BY <1>3, <2>2, <2>3, <2>5, <2>6, <2>8, <2>9, <2>11, <2>12 DEF TxOK, Onward
  <2> QED
    BY <1>3, <2>1, <2>2, <2>3, <2>9, <2>13 DEF u, f
<1> QED
  BY <1>1, <1>2, <1>3

LEMMA NewRowsAreOK ==
    ASSUME NEW who
    PROVE  /\ \A src, rel, dst : LET l == NewLink(src, rel, dst, who) IN
                 /\ RowOK(l) /\ l.rev = 1 /\ l.by = who /\ ~l.guarded /\ l.live
                 /\ l.kind = "link" /\ l.src = src /\ l.rel = rel /\ l.dst = dst
           /\ \A kind, cites : LET o == NewObject(kind, who, cites) IN
                 /\ kind # "link" => RowOK(o)
                 /\ o.rev = 1 /\ o.by = who /\ ~o.guarded /\ o.live /\ o.kind = kind /\ o.cites = cites
  BY DEF NewLink, NewObject, RowOK, Columns

\* Nothing but Connections from o is new.
TiesOnly(u, t, o) ==
    /\ \A i \in DOMAIN t.rows : i \in DOMAIN u.rows /\ u.rows[i] = t.rows[i]
    /\ \A i \in DOMAIN u.rows \ DOMAIN t.rows :
          i \notin DOMAIN rows /\ i \in Wrote(u) /\ u.rows[i].kind = "link" /\ u.rows[i].src = o
    /\ \A i \in Wrote(u) : i \in Wrote(t) \/ i \notin DOMAIN t.rows

\* A Connection that is there, or made.
LEMMA ConnectedKeeps ==
    ASSUME NEW t, NEW b, TxOK(t, b), NEW src, NEW rel, NEW dst, NEW who, who # "owner",
           t.err = None => src \in DOMAIN t.rows /\ dst \in DOMAIN t.rows
    PROVE  /\ TxOK(Connected(t, src, rel, dst, who), b) /\ Onward(Connected(t, src, rel, dst, who), t)
           /\ TiesOnly(Connected(t, src, rel, dst, who), t, src)
           /\ \A i \in DOMAIN Connected(t, src, rel, dst, who).rows \ DOMAIN t.rows :
                 Connected(t, src, rel, dst, who).rows[i] = NewLink(src, rel, dst, who)
<1>1. CASE t.err # None \/ Same(t.rows, src, rel, dst) # {}
  <2>1. Connected(t, src, rel, dst, who) = t
    BY <1>1 DEF Connected
  <2>2. SameTx(t, t) /\ TiesOnly(t, t, src)
    BY DEF SameTx, TxOK, TiesOnly
  <2> QED
    BY <2>1, <2>2, TxSame
<1>2. CASE ~(t.err # None \/ Same(t.rows, src, rel, dst) # {})
  <2> DEFINE ok == \A l \in Same(rows, src, rel, dst) : l \in DOMAIN t.base /\ ~Moved(t, l)
             u == Check(t, ok, "database")
             new == NewLink(src, rel, dst, who)
             v == Insert(u, new)
  <2>1. Connected(t, src, rel, dst, who) = v
    BY <1>2 DEF Connected
  <2>2. SameTx(u, t) /\ TxOK(u, b) /\ Onward(u, t)
    <3>1. ok \in BOOLEAN
      OBVIOUS
    <3> HIDE DEF ok
    <3>2. SameTx(u, t)
      BY <3>1, CheckKeeps DEF TxOK
    <3> QED
      BY <3>2, TxSame
  <2>3. /\ RowOK(new) /\ new.rev = 1 /\ new.by # "owner" /\ ~new.guarded /\ new.src = src /\ new.dst = dst
        /\ new.kind = "link"
    BY NewRowsAreOK
  <2> HIDE DEF u, new
  <2>4. /\ TxOK(v, b) /\ Onward(v, u)
        /\ v.err # None => v.rows = u.rows /\ Wrote(v) = Wrote(u)
        /\ v.err = None =>
              /\ Fresh(u) \notin DOMAIN u.rows \cup DOMAIN rows
              /\ DOMAIN v.rows = DOMAIN u.rows \cup {Fresh(u)} /\ v.rows[Fresh(u)] = new
              /\ \A i \in DOMAIN u.rows : v.rows[i] = u.rows[i]
              /\ Wrote(v) = Wrote(u) \cup {Fresh(u)}
    BY <1>2, <2>2, <2>3, InsertKeeps DEF SameTx
  <2>5. u.rows = t.rows /\ Wrote(u) = Wrote(t)
    BY <2>2 DEF SameTx, Wrote
  <2>6. TiesOnly(v, t, src)
    <3>1. CASE v.err = None
      BY <2>3, <2>4, <2>5, <3>1 DEF TiesOnly
    <3>2. CASE v.err # None
      <4>1. v.rows = t.rows /\ DOMAIN v.rows = DOMAIN b \cup Wrote(v) /\ DOMAIN t.rows = DOMAIN b \cup Wrote(t)
        BY <2>4, <2>5, <3>2 DEF TxOK
      <4>2. \A i \in Wrote(v) : i \in Wrote(t)
        BY <2>4, <2>5, <3>2
      <4> QED
        BY <4>1, <4>2 DEF TiesOnly
    <3> QED
      BY <3>1, <3>2
  <2>7. \A i \in DOMAIN v.rows \ DOMAIN t.rows : v.rows[i] = new
    BY <2>4, <2>5
  <2>8. \A i \in DOMAIN v.rows \ DOMAIN t.rows : v.rows[i] = NewLink(src, rel, dst, who)
    BY <2>7 DEF new
  <2> HIDE DEF v
  <2> QED
    BY <2>1, <2>2, <2>4, <2>6, <2>8, OnwardStill
<1> QED
  BY <1>1, <1>2

(**************************** recursive functions ***************************)
\* A set of numbers has a least element.
LEMMA LeastNumber ==
    ASSUME NEW S \in SUBSET Nat, S # {} PROVE \E n \in S : \A m \in S : n <= m
<1> DEFINE Less == {ss \in Nat \X Nat : ss[1] < ss[2]}
<1>1. IsWellFoundedOn(Less, Nat)
  BY NatLessThanWellFounded DEF OpToRel
<1> HIDE DEF Less
<1>2. \E n \in S : \A m \in S : ~(<<m, n>> \in Less)
  BY <1>1, WFMin
<1>3. \A n, m \in S : ~(<<m, n>> \in Less) => n <= m
  BY DEF Less
<1> QED
  BY <1>2, <1>3

LEMMA UpTo ==
    ASSUME NEW N \in Nat, NEW S, 0 \in S, \A n \in 1..N : n - 1 \in S => n \in S
    PROVE  \A n \in 0..N : n \in S
<1> DEFINE bad == {n \in 0..N : n \notin S}
<1>1. SUFFICES ASSUME bad # {} PROVE FALSE
  OBVIOUS
<1>2. PICK n \in bad : \A m \in bad : n <= m
  <2>1. bad \in SUBSET Nat
    OBVIOUS
  <2> HIDE DEF bad
  <2> QED
    BY <1>1, <2>1, LeastNumber
<1>3. n \in 1..N /\ n - 1 \in 0..N /\ n - 1 \notin bad
  BY <1>2
<1> QED
  BY <1>2, <1>3

LEMMA OrderOfSet ==
    ASSUME NEW S, IsFiniteSet(S)
    PROVE  SetToSeq(S) \in Seq(S) /\ Len(SetToSeq(S)) \in Nat /\ \A x \in S : \E n \in 1..Len(SetToSeq(S)) : SetToSeq(S)[n] = x
<1>1. Cardinality(S) \in Nat /\ ExistsBijection(1..Cardinality(S), S)
  BY FS_CardinalityType
<1>2. PICK g : g \in Bijection(1..Cardinality(S), S)
  BY <1>1 DEF ExistsBijection
<1>3. g \in [1..Cardinality(S) -> S] /\ IsInjective(g)
  BY <1>2 DEF Bijection, Injection
<1> DEFINE s == SetToSeq(S)
<1>4. s \in [1..Cardinality(S) -> S] /\ IsInjective(s)
  BY <1>3 DEF SetToSeq
<1> HIDE DEF s
<1>5. s \in Seq(S) /\ Len(s) = Cardinality(S)
  BY <1>1, <1>4, SeqDef
<1>6. s \in Injection(1..Cardinality(S), S)
  BY <1>4 DEF Injection
<1>7. s \in Surjection(1..Cardinality(S), S)
  BY <1>1, <1>6, FS_Interval, FS_Injection
<1> QED
  BY <1>1, <1>5, <1>7 DEF s, Surjection


\* connect(), one Object after another.
LEMMA TiedUnfolds ==
    ASSUME NEW t, NEW o, NEW from, NEW who, Len(SetToSeq(from)) \in Nat
    PROVE  \E f : /\ f[0] = t
                  /\ \A n \in 1..Len(SetToSeq(from)) : f[n] = Connected(f[n - 1], o, "derived_from", SetToSeq(from)[n], who)
                  /\ Tied(t, o, from, who) = f[Len(SetToSeq(from))]
<1> DEFINE N == Len(SetToSeq(from))
           Follows(f, k) == f = [n \in 0..k |-> IF n = 0 THEN t ELSE Connected(f[n - 1], o, "derived_from", SetToSeq(from)[n], who)]
           Defined == {k \in 0..N : \E f : Follows(f, k)}
<1>1. 0 \in Defined
  <2> DEFINE first == t
             f == [n \in 0..0 |-> first]
  <2>1. \A n \in 0..0 : n = 0
    OBVIOUS
  <2>2. Follows(f, 0)
    BY <2>1
  <2> HIDE DEF Follows, f
  <2> QED
    BY <2>2
<1>2. ASSUME NEW k \in 1..N, k - 1 \in Defined PROVE k \in Defined
  <2>1. PICK g : Follows(g, k - 1)
    BY <1>2
  <2> DEFINE last == Connected(g[k - 1], o, "derived_from", SetToSeq(from)[k], who)
             f == [n \in 0..k |-> IF n = k THEN last ELSE g[n]]
  <2>2. ASSUME NEW n \in 0..k
        PROVE  f[n] = IF n = 0 THEN t ELSE Connected(f[n - 1], o, "derived_from", SetToSeq(from)[n], who)
    <3>1. CASE n = k
      <4>1. n # 0 /\ n - 1 \in 0..k /\ n - 1 # k /\ f[n - 1] = g[n - 1]
        BY <3>1
      <4> QED
        BY <3>1, <4>1
    <3>2. CASE n # k
      <4>1. n \in 0..(k - 1) /\ f[n] = g[n]
        BY <3>2
      <4>2. g[n] = IF n = 0 THEN t ELSE Connected(g[n - 1], o, "derived_from", SetToSeq(from)[n], who)
        BY <2>1, <4>1
      <4>3. n # 0 => n - 1 \in 0..k /\ n - 1 # k /\ f[n - 1] = g[n - 1]
        BY <4>1
      <4> QED
        BY <4>1, <4>2, <4>3
    <3> QED
      BY <3>1, <3>2
  <2>3. f = [n \in 0..k |-> f[n]]
    OBVIOUS
  <2> HIDE DEF f, last
  <2>4. Follows(f, k)
    BY <2>2, <2>3
  <2> HIDE DEF Follows
  <2> QED
    BY <2>4
<1>3. N \in Defined
  <2> HIDE DEF Defined
  <2>1. N \in Nat /\ 0 \in Defined /\ \A m \in 1..N : m - 1 \in Defined => m \in Defined
    BY <1>1, <1>2
  <2> HIDE DEF N
  <2>2. \A m \in 0..N : m \in Defined
    BY <2>1, UpTo
  <2> QED
    BY <2>1, <2>2
<1>4. PICK g : g = CHOOSE f : Follows(f, N)
  OBVIOUS
<1>5. Follows(g, N)
  <2> HIDE DEF Follows
  <2> QED
    BY <1>3, <1>4
<1>6. Tied(t, o, from, who) = g[N]
  BY <1>4 DEF Tied
<1>7. g[0] = t
  BY <1>5
<1>8. ASSUME NEW n \in 1..N PROVE g[n] = Connected(g[n - 1], o, "derived_from", SetToSeq(from)[n], who)
  <2>1. n \in 0..N /\ n # 0
    OBVIOUS
  <2>2. g[n] = IF n = 0 THEN t ELSE Connected(g[n - 1], o, "derived_from", SetToSeq(from)[n], who)
    BY <1>5, <2>1
  <2> QED
    BY <2>1, <2>2
<1> QED
  BY <1>6, <1>7, <1>8

\* The Connections of a Memory that is retired, one after another.
LEMMA RetiredUnfolds ==
    ASSUME NEW t, NEW b, NEW m, NEW into, Len(SetToSeq(LinksOf(t.rows, m))) \in Nat
    PROVE  \E f : /\ f[0] = t
                  /\ \A n \in 1..Len(SetToSeq(LinksOf(t.rows, m))) : f[n] = Moves(f[n - 1], b, SetToSeq(LinksOf(t.rows, m))[n], m, into)
                  /\ Retired(t, b, m, into) = Archive(f[Len(SetToSeq(LinksOf(t.rows, m)))], m)
<1> DEFINE N == Len(SetToSeq(LinksOf(t.rows, m)))
           Follows(f, k) == f = [n \in 0..k |-> IF n = 0 THEN t ELSE Moves(f[n - 1], b, SetToSeq(LinksOf(t.rows, m))[n], m, into)]
           Defined == {k \in 0..N : \E f : Follows(f, k)}
<1>1. 0 \in Defined
  <2> DEFINE first == t
             f == [n \in 0..0 |-> first]
  <2>1. \A n \in 0..0 : n = 0
    OBVIOUS
  <2>2. Follows(f, 0)
    BY <2>1
  <2> HIDE DEF Follows, f
  <2> QED
    BY <2>2
<1>2. ASSUME NEW k \in 1..N, k - 1 \in Defined PROVE k \in Defined
  <2>1. PICK g : Follows(g, k - 1)
    BY <1>2
  <2> DEFINE last == Moves(g[k - 1], b, SetToSeq(LinksOf(t.rows, m))[k], m, into)
             f == [n \in 0..k |-> IF n = k THEN last ELSE g[n]]
  <2>2. ASSUME NEW n \in 0..k
        PROVE  f[n] = IF n = 0 THEN t ELSE Moves(f[n - 1], b, SetToSeq(LinksOf(t.rows, m))[n], m, into)
    <3>1. CASE n = k
      <4>1. n # 0 /\ n - 1 \in 0..k /\ n - 1 # k /\ f[n - 1] = g[n - 1]
        BY <3>1
      <4> QED
        BY <3>1, <4>1
    <3>2. CASE n # k
      <4>1. n \in 0..(k - 1) /\ f[n] = g[n]
        BY <3>2
      <4>2. g[n] = IF n = 0 THEN t ELSE Moves(g[n - 1], b, SetToSeq(LinksOf(t.rows, m))[n], m, into)
        BY <2>1, <4>1
      <4>3. n # 0 => n - 1 \in 0..k /\ n - 1 # k /\ f[n - 1] = g[n - 1]
        BY <4>1
      <4> QED
        BY <4>1, <4>2, <4>3
    <3> QED
      BY <3>1, <3>2
  <2>3. f = [n \in 0..k |-> f[n]]
    OBVIOUS
  <2> HIDE DEF f, last
  <2>4. Follows(f, k)
    BY <2>2, <2>3
  <2> HIDE DEF Follows
  <2> QED
    BY <2>4
<1>3. N \in Defined
  <2> HIDE DEF Defined
  <2>1. N \in Nat /\ 0 \in Defined /\ \A n \in 1..N : n - 1 \in Defined => n \in Defined
    BY <1>1, <1>2
  <2> HIDE DEF N
  <2>2. \A n \in 0..N : n \in Defined
    BY <2>1, UpTo
  <2> QED
    BY <2>1, <2>2
<1>4. PICK g : g = CHOOSE f : Follows(f, N)
  OBVIOUS
<1>5. Follows(g, N)
  <2> HIDE DEF Follows
  <2> QED
    BY <1>3, <1>4
<1>6. Retired(t, b, m, into) = Archive(g[N], m)
  BY <1>4 DEF Retired
<1>7. g[0] = t
  BY <1>5
<1>8. ASSUME NEW n \in 1..N PROVE g[n] = Moves(g[n - 1], b, SetToSeq(LinksOf(t.rows, m))[n], m, into)
  <2>1. n \in 0..N /\ n # 0
    OBVIOUS
  <2>2. g[n] = IF n = 0 THEN t ELSE Moves(g[n - 1], b, SetToSeq(LinksOf(t.rows, m))[n], m, into)
    BY <1>5, <2>1
  <2> QED
    BY <2>1, <2>2
<1> QED
  BY <1>6, <1>7, <1>8

\* The changes of a plan, one after another.
LEMMA PlannedUnfolds ==
    ASSUME NEW base, NEW b, NEW plan, Len(plan) \in Nat
    PROVE  \E f : /\ f[0] = Revalidated(Check(Begun(base.rows), ~base.cut.done, "invalid"), b)
                  /\ \A n \in 1..Len(plan) : f[n] = Change(f[n - 1], b, plan[n])
                  /\ Planned(base, b, plan) = f[Len(plan)]
<1> DEFINE N == Len(plan)
           Follows(f, k) == f = [n \in 0..k |-> IF n = 0 THEN Revalidated(Check(Begun(base.rows), ~base.cut.done, "invalid"), b) ELSE Change(f[n - 1], b, plan[n])]
           Defined == {k \in 0..N : \E f : Follows(f, k)}
<1>1. 0 \in Defined
  <2> DEFINE first == Revalidated(Check(Begun(base.rows), ~base.cut.done, "invalid"), b)
             f == [n \in 0..0 |-> first]
  <2>1. \A n \in 0..0 : n = 0
    OBVIOUS
  <2>2. Follows(f, 0)
    BY <2>1
  <2> HIDE DEF Follows, f
  <2> QED
    BY <2>2
<1>2. ASSUME NEW k \in 1..N, k - 1 \in Defined PROVE k \in Defined
  <2>1. PICK g : Follows(g, k - 1)
    BY <1>2
  <2> DEFINE last == Change(g[k - 1], b, plan[k])
             f == [n \in 0..k |-> IF n = k THEN last ELSE g[n]]
  <2>2. ASSUME NEW n \in 0..k
        PROVE  f[n] = IF n = 0 THEN Revalidated(Check(Begun(base.rows), ~base.cut.done, "invalid"), b) ELSE Change(f[n - 1], b, plan[n])
    <3>1. CASE n = k
      <4>1. n # 0 /\ n - 1 \in 0..k /\ n - 1 # k /\ f[n - 1] = g[n - 1]
        BY <3>1
      <4> QED
        BY <3>1, <4>1
    <3>2. CASE n # k
      <4>1. n \in 0..(k - 1) /\ f[n] = g[n]
        BY <3>2
      <4>2. g[n] = IF n = 0 THEN Revalidated(Check(Begun(base.rows), ~base.cut.done, "invalid"), b) ELSE Change(g[n - 1], b, plan[n])
        BY <2>1, <4>1
      <4>3. n # 0 => n - 1 \in 0..k /\ n - 1 # k /\ f[n - 1] = g[n - 1]
        BY <4>1
      <4> QED
        BY <4>1, <4>2, <4>3
    <3> QED
      BY <3>1, <3>2
  <2>3. f = [n \in 0..k |-> f[n]]
    OBVIOUS
  <2> HIDE DEF f, last
  <2>4. Follows(f, k)
    BY <2>2, <2>3
  <2> HIDE DEF Follows
  <2> QED
    BY <2>4
<1>3. N \in Defined
  <2> HIDE DEF Defined
  <2>1. N \in Nat /\ 0 \in Defined /\ \A m \in 1..N : m - 1 \in Defined => m \in Defined
    BY <1>1, <1>2
  <2> HIDE DEF N
  <2>2. \A m \in 0..N : m \in Defined
    BY <2>1, UpTo
  <2> QED
    BY <2>1, <2>2
<1>4. PICK g : g = CHOOSE f : Follows(f, N)
  OBVIOUS
<1>5. Follows(g, N)
  <2> HIDE DEF Follows
  <2> QED
    BY <1>3, <1>4
<1>6. Planned(base, b, plan) = g[N]
  BY <1>4 DEF Planned
<1>7. g[0] = Revalidated(Check(Begun(base.rows), ~base.cut.done, "invalid"), b)
  BY <1>5
<1>8. ASSUME NEW n \in 1..N PROVE g[n] = Change(g[n - 1], b, plan[n])
  <2>1. n \in 0..N /\ n # 0
    OBVIOUS
  <2>2. g[n] = IF n = 0 THEN Revalidated(Check(Begun(base.rows), ~base.cut.done, "invalid"), b) ELSE Change(g[n - 1], b, plan[n])
    BY <1>5, <2>1
  <2> QED
    BY <2>1, <2>2
<1> QED
  BY <1>6, <1>7, <1>8

\* The Events of an extraction.
LEMMA ExtractedUnfolds ==
    ASSUME NEW base, NEW b, NEW plan, Len(plan) \in Nat
    PROVE  \E f : /\ f[0] = Grounded(Begun(base.rows), base, b)
                  /\ \A n \in 1..Len(plan) : f[n] = TellEvent(f[n - 1], b, plan[n])
                  /\ Extracted(base, b, plan) = f[Len(plan)]
<1> DEFINE N == Len(plan)
           Follows(f, k) == f = [n \in 0..k |-> IF n = 0 THEN Grounded(Begun(base.rows), base, b) ELSE TellEvent(f[n - 1], b, plan[n])]
           Defined == {k \in 0..N : \E f : Follows(f, k)}
<1>1. 0 \in Defined
  <2> DEFINE first == Grounded(Begun(base.rows), base, b)
             f == [n \in 0..0 |-> first]
  <2>1. \A n \in 0..0 : n = 0
    OBVIOUS
  <2>2. Follows(f, 0)
    BY <2>1
  <2> HIDE DEF Follows, f
  <2> QED
    BY <2>2
<1>2. ASSUME NEW k \in 1..N, k - 1 \in Defined PROVE k \in Defined
  <2>1. PICK g : Follows(g, k - 1)
    BY <1>2
  <2> DEFINE last == TellEvent(g[k - 1], b, plan[k])
             f == [n \in 0..k |-> IF n = k THEN last ELSE g[n]]
  <2>2. ASSUME NEW n \in 0..k
        PROVE  f[n] = IF n = 0 THEN Grounded(Begun(base.rows), base, b) ELSE TellEvent(f[n - 1], b, plan[n])
    <3>1. CASE n = k
      <4>1. n # 0 /\ n - 1 \in 0..k /\ n - 1 # k /\ f[n - 1] = g[n - 1]
        BY <3>1
      <4> QED
        BY <3>1, <4>1
    <3>2. CASE n # k
      <4>1. n \in 0..(k - 1) /\ f[n] = g[n]
        BY <3>2
      <4>2. g[n] = IF n = 0 THEN Grounded(Begun(base.rows), base, b) ELSE TellEvent(g[n - 1], b, plan[n])
        BY <2>1, <4>1
      <4>3. n # 0 => n - 1 \in 0..k /\ n - 1 # k /\ f[n - 1] = g[n - 1]
        BY <4>1
      <4> QED
        BY <4>1, <4>2, <4>3
    <3> QED
      BY <3>1, <3>2
  <2>3. f = [n \in 0..k |-> f[n]]
    OBVIOUS
  <2> HIDE DEF f, last
  <2>4. Follows(f, k)
    BY <2>2, <2>3
  <2> HIDE DEF Follows
  <2> QED
    BY <2>4
<1>3. N \in Defined
  <2> HIDE DEF Defined
  <2>1. N \in Nat /\ 0 \in Defined /\ \A m \in 1..N : m - 1 \in Defined => m \in Defined
    BY <1>1, <1>2
  <2> HIDE DEF N
  <2>2. \A m \in 0..N : m \in Defined
    BY <2>1, UpTo
  <2> QED
    BY <2>1, <2>2
<1>4. PICK g : g = CHOOSE f : Follows(f, N)
  OBVIOUS
<1>5. Follows(g, N)
  <2> HIDE DEF Follows
  <2> QED
    BY <1>3, <1>4
<1>6. Extracted(base, b, plan) = g[N]
  BY <1>4 DEF Extracted
<1>7. g[0] = Grounded(Begun(base.rows), base, b)
  BY <1>5
<1>8. ASSUME NEW n \in 1..N PROVE g[n] = TellEvent(g[n - 1], b, plan[n])
  <2>1. n \in 0..N /\ n # 0
    OBVIOUS
  <2>2. g[n] = IF n = 0 THEN Grounded(Begun(base.rows), base, b) ELSE TellEvent(g[n - 1], b, plan[n])
    BY <1>5, <2>1
  <2> QED
    BY <2>1, <2>2
<1> QED
  BY <1>6, <1>7, <1>8

\* The Memories of a synthesis.
LEMMA SynthesisedUnfolds ==
    ASSUME NEW w, Len(at[w].plan) \in Nat
    PROVE  \E f : /\ f[0] = Reviewable(w, at[w].base, at[w].batch)
                  /\ \A n \in 1..Len(at[w].plan) : f[n] = Remember(f[n - 1], at[w].plan[n])
                  /\ Synthesised(w) = f[Len(at[w].plan)]
<1> DEFINE N == Len(at[w].plan)
           Follows(f, k) == f = [n \in 0..k |-> IF n = 0 THEN Reviewable(w, at[w].base, at[w].batch) ELSE Remember(f[n - 1], at[w].plan[n])]
           Defined == {k \in 0..N : \E f : Follows(f, k)}
<1>1. 0 \in Defined
  <2> DEFINE first == Reviewable(w, at[w].base, at[w].batch)
             f == [n \in 0..0 |-> first]
  <2>1. \A n \in 0..0 : n = 0
    OBVIOUS
  <2>2. Follows(f, 0)
    BY <2>1
  <2> HIDE DEF Follows, f
  <2> QED
    BY <2>2
<1>2. ASSUME NEW k \in 1..N, k - 1 \in Defined PROVE k \in Defined
  <2>1. PICK g : Follows(g, k - 1)
    BY <1>2
  <2> DEFINE last == Remember(g[k - 1], at[w].plan[k])
             f == [n \in 0..k |-> IF n = k THEN last ELSE g[n]]
  <2>2. ASSUME NEW n \in 0..k
        PROVE  f[n] = IF n = 0 THEN Reviewable(w, at[w].base, at[w].batch) ELSE Remember(f[n - 1], at[w].plan[n])
    <3>1. CASE n = k
      <4>1. n # 0 /\ n - 1 \in 0..k /\ n - 1 # k /\ f[n - 1] = g[n - 1]
        BY <3>1
      <4> QED
        BY <3>1, <4>1
    <3>2. CASE n # k
      <4>1. n \in 0..(k - 1) /\ f[n] = g[n]
        BY <3>2
      <4>2. g[n] = IF n = 0 THEN Reviewable(w, at[w].base, at[w].batch) ELSE Remember(g[n - 1], at[w].plan[n])
        BY <2>1, <4>1
      <4>3. n # 0 => n - 1 \in 0..k /\ n - 1 # k /\ f[n - 1] = g[n - 1]
        BY <4>1
      <4> QED
        BY <4>1, <4>2, <4>3
    <3> QED
      BY <3>1, <3>2
  <2>3. f = [n \in 0..k |-> f[n]]
    OBVIOUS
  <2> HIDE DEF f, last
  <2>4. Follows(f, k)
    BY <2>2, <2>3
  <2> HIDE DEF Follows
  <2> QED
    BY <2>4
<1>3. N \in Defined
  <2> HIDE DEF Defined
  <2>1. N \in Nat /\ 0 \in Defined /\ \A m \in 1..N : m - 1 \in Defined => m \in Defined
    BY <1>1, <1>2
  <2> HIDE DEF N
  <2>2. \A m \in 0..N : m \in Defined
    BY <2>1, UpTo
  <2> QED
    BY <2>1, <2>2
<1>4. PICK g : g = CHOOSE f : Follows(f, N)
  OBVIOUS
<1>5. Follows(g, N)
  <2> HIDE DEF Follows
  <2> QED
    BY <1>3, <1>4
<1>6. Synthesised(w) = g[N]
  BY <1>4 DEF Synthesised
<1>7. g[0] = Reviewable(w, at[w].base, at[w].batch)
  BY <1>5
<1>8. ASSUME NEW n \in 1..N PROVE g[n] = Remember(g[n - 1], at[w].plan[n])
  <2>1. n \in 0..N /\ n # 0
    OBVIOUS
  <2>2. g[n] = IF n = 0 THEN Reviewable(w, at[w].base, at[w].batch) ELSE Remember(g[n - 1], at[w].plan[n])
    BY <1>5, <2>1
  <2> QED
    BY <2>1, <2>2
<1> QED
  BY <1>6, <1>7, <1>8

\* The journal of a Run, from its last entry to its first.
LEMMA UndoneUnfolds ==
    ASSUME NEW r, Len(runs[r].log) \in Nat
    PROVE  \E f : /\ f[0] = Begun(rows)
                  /\ \A n \in 1..Len(runs[r].log) : f[n] = Unwound(f[n - 1], runs[r].log[Len(runs[r].log) + 1 - n])
                  /\ Undone(r) = f[Len(runs[r].log)]
<1> DEFINE N == Len(runs[r].log)
           Follows(f, k) == f = [n \in 0..k |-> IF n = 0 THEN Begun(rows) ELSE Unwound(f[n - 1], runs[r].log[Len(runs[r].log) + 1 - n])]
           Defined == {k \in 0..N : \E f : Follows(f, k)}
<1>1. 0 \in Defined
  <2> DEFINE first == Begun(rows)
             f == [n \in 0..0 |-> first]
  <2>1. \A n \in 0..0 : n = 0
    OBVIOUS
  <2>2. Follows(f, 0)
    BY <2>1
  <2> HIDE DEF Follows, f
  <2> QED
    BY <2>2
<1>2. ASSUME NEW k \in 1..N, k - 1 \in Defined PROVE k \in Defined
  <2>1. PICK g : Follows(g, k - 1)
    BY <1>2
  <2> DEFINE last == Unwound(g[k - 1], runs[r].log[Len(runs[r].log) + 1 - k])
             f == [n \in 0..k |-> IF n = k THEN last ELSE g[n]]
  <2>2. ASSUME NEW n \in 0..k
        PROVE  f[n] = IF n = 0 THEN Begun(rows) ELSE Unwound(f[n - 1], runs[r].log[Len(runs[r].log) + 1 - n])
    <3>1. CASE n = k
      <4>1. n # 0 /\ n - 1 \in 0..k /\ n - 1 # k /\ f[n - 1] = g[n - 1]
        BY <3>1
      <4> QED
        BY <3>1, <4>1
    <3>2. CASE n # k
      <4>1. n \in 0..(k - 1) /\ f[n] = g[n]
        BY <3>2
      <4>2. g[n] = IF n = 0 THEN Begun(rows) ELSE Unwound(g[n - 1], runs[r].log[Len(runs[r].log) + 1 - n])
        BY <2>1, <4>1
      <4>3. n # 0 => n - 1 \in 0..k /\ n - 1 # k /\ f[n - 1] = g[n - 1]
        BY <4>1
      <4> QED
        BY <4>1, <4>2, <4>3
    <3> QED
      BY <3>1, <3>2
  <2>3. f = [n \in 0..k |-> f[n]]
    OBVIOUS
  <2> HIDE DEF f, last
  <2>4. Follows(f, k)
    BY <2>2, <2>3
  <2> HIDE DEF Follows
  <2> QED
    BY <2>4
<1>3. N \in Defined
  <2> HIDE DEF Defined
  <2>1. N \in Nat /\ 0 \in Defined /\ \A m \in 1..N : m - 1 \in Defined => m \in Defined
    BY <1>1, <1>2
  <2> HIDE DEF N
  <2>2. \A m \in 0..N : m \in Defined
    BY <2>1, UpTo
  <2> QED
    BY <2>1, <2>2
<1>4. PICK g : g = CHOOSE f : Follows(f, N)
  OBVIOUS
<1>5. Follows(g, N)
  <2> HIDE DEF Follows
  <2> QED
    BY <1>3, <1>4
<1>6. Undone(r) = g[N]
  BY <1>4 DEF Undone
<1>7. g[0] = Begun(rows)
  BY <1>5
<1>8. ASSUME NEW n \in 1..N PROVE g[n] = Unwound(g[n - 1], runs[r].log[Len(runs[r].log) + 1 - n])
  <2>1. n \in 0..N /\ n # 0
    OBVIOUS
  <2>2. g[n] = IF n = 0 THEN Begun(rows) ELSE Unwound(g[n - 1], runs[r].log[Len(runs[r].log) + 1 - n])
    BY <1>5, <2>1
  <2> QED
    BY <2>1, <2>2
<1> QED
  BY <1>6, <1>7, <1>8

(************************ what the changes of a plan keep *******************)
LEMMA TiesStill ==
    ASSUME NEW t, NEW u, NEW v, NEW o, TiesOnly(u, t, o), TiesOnly(v, u, o), Wrote(u) \subseteq Wrote(v)
    PROVE  TiesOnly(v, t, o)
  BY DEF TiesOnly

LEMMA TiedKeeps ==
    ASSUME NEW t, NEW b, TxOK(t, b), NEW o, NEW from, IsFiniteSet(from), NEW who, who # "owner",
           t.err = None => o \in DOMAIN t.rows /\ from \subseteq DOMAIN t.rows
    PROVE  /\ TxOK(Tied(t, o, from, who), b) /\ Onward(Tied(t, o, from, who), t)
           /\ TiesOnly(Tied(t, o, from, who), t, o)
<1> DEFINE s == SetToSeq(from)  N == Len(s)
<1>1. s \in Seq(from) /\ N \in Nat
  BY OrderOfSet
<1>2. PICK f : /\ f[0] = t /\ Tied(t, o, from, who) = f[N]
               /\ \A n \in 1..N : f[n] = Connected(f[n - 1], o, "derived_from", s[n], who)
  BY <1>1, TiedUnfolds
<1> DEFINE kept == {n \in 0..N : TxOK(f[n], b) /\ Onward(f[n], t) /\ TiesOnly(f[n], t, o)}
<1> HIDE DEF s, N
<1>3. 0 \in kept
  <2>1. SameTx(t, t) /\ TiesOnly(t, t, o)
    BY DEF SameTx, TxOK, TiesOnly
  <2>2. Onward(t, t)
    BY <2>1, TxSame
  <2> QED
    BY <1>1, <1>2, <2>1, <2>2
<1>4. ASSUME NEW n \in 1..N, n - 1 \in kept PROVE n \in kept
  <2> DEFINE u == f[n - 1]
  <2>1. TxOK(u, b) /\ Onward(u, t) /\ TiesOnly(u, t, o)
    BY <1>4
  <2>2. f[n] = Connected(u, o, "derived_from", s[n], who) /\ s[n] \in from
    BY <1>1, <1>2 DEF N
  <2> HIDE DEF u
  <2>3. u.err = None => o \in DOMAIN u.rows /\ s[n] \in DOMAIN u.rows
    BY <2>1, <2>2 DEF Onward
  <2>4. TxOK(f[n], b) /\ Onward(f[n], u) /\ TiesOnly(f[n], u, o)
    BY <2>1, <2>2, <2>3, ConnectedKeeps
  <2>5. Wrote(u) \subseteq Wrote(f[n])
    BY <2>4 DEF Onward
  <2> QED
    BY <2>1, <2>4, <2>5, OnwardStill, TiesStill
<1>5. N \in kept
  <2> HIDE DEF kept
  <2>1. \A n \in 1..N : n - 1 \in kept => n \in kept
    BY <1>4
  <2>2. \A n \in 0..N : n \in kept
    BY <1>1, <1>3, <2>1, UpTo
  <2> QED
    BY <1>1, <2>2
<1> QED
  BY <1>2, <1>5

LEMMA SameStill ==
    ASSUME NEW t, NEW u, NEW v, SameTx(u, t), SameTx(v, u) PROVE SameTx(v, t) /\ DOMAIN v = TxFields
  BY DEF SameTx

LEMMA CheckStays ==
    ASSUME NEW t, NEW u, SameTx(u, t), NEW ok \in BOOLEAN, NEW e \in {"database", "conflict", "invalid"}
    PROVE  /\ SameTx(Check(u, ok, e), t) /\ Check(u, ok, e).touched = u.touched
           /\ Check(u, ok, e).err = None <=> u.err = None /\ ok
<1> DEFINE v == Check(u, ok, e)
<1>1. DOMAIN u = TxFields
  BY DEF SameTx
<1>2. SameTx(v, u) /\ v.touched = u.touched /\ (v.err = None <=> u.err = None /\ ok)
  BY <1>1, CheckKeeps
<1> HIDE DEF v
<1>3. SameTx(v, t)
  BY <1>2, SameStill
<1> QED
  BY <1>2, <1>3 DEF v

LEMMA LockStays ==
    ASSUME NEW t, NEW u, SameTx(u, t), NEW i
    PROVE  /\ SameTx(Lock(u, i), t) /\ Lock(u, i).touched = u.touched
           /\ Lock(u, i).err = None <=> u.err = None /\ ~Moved(t, i)
<1> DEFINE v == Lock(u, i)
<1>1. DOMAIN u = TxFields /\ (Moved(u, i) <=> Moved(t, i))
  BY DEF SameTx, Moved
<1>2. SameTx(v, u) /\ v.touched = u.touched /\ (v.err = None <=> u.err = None /\ ~Moved(u, i))
  BY <1>1, LockKeeps
<1> HIDE DEF v
<1>3. SameTx(v, t)
  BY <1>2, SameStill
<1> QED
  BY <1>1, <1>2, <1>3 DEF v

LEMMA EligibleIsSpared == ASSUME NEW row, Eligible(row) PROVE Spared(row) /\ row.kind = "memory" /\ row.live
  BY DEF Eligible, Spared

LEMMA LockMemoryKeeps ==
    ASSUME NEW t, DOMAIN t = TxFields, NEW batch, NEW m
    PROVE  LET u == LockMemory(t, batch, m) IN
           /\ SameTx(u, t) /\ u.touched = t.touched
           /\ u.err = None => /\ t.err = None /\ m \in DOMAIN batch.memories /\ ~Moved(t, m)
                              /\ Eligible(t.rows[m]) /\ t.rows[m].rev = batch.memories[m].rev
<1> DEFINE t1 == Check(t, m \in DOMAIN batch.memories, "invalid")
           t2 == Lock(t1, m)
           t3 == Check(t2, Eligible(t.rows[m]), "invalid")
           t4 == Check(t3, t.rows[m].rev = batch.memories[m].rev, "conflict")
<1>1. /\ SameTx(t1, t) /\ t1.touched = t.touched
      /\ t1.err = None <=> t.err = None /\ m \in DOMAIN batch.memories
  <2> DEFINE known == m \in DOMAIN batch.memories
  <2>1. known \in BOOLEAN
    OBVIOUS
  <2> HIDE DEF known
  <2>2. t1 = Check(t, known, "invalid")
    BY DEF known
  <2>3. /\ SameTx(Check(t, known, "invalid"), t) /\ Check(t, known, "invalid").touched = t.touched
        /\ Check(t, known, "invalid").err = None <=> t.err = None /\ known
    BY <2>1, CheckKeeps
  <2> QED
    BY <2>2, <2>3 DEF known
<1> HIDE DEF t1
<1>2. /\ SameTx(t2, t1) /\ t2.touched = t1.touched
      /\ t2.err = None <=> t1.err = None /\ ~Moved(t1, m)
  BY <1>1, LockKeeps DEF SameTx
<1>3. Moved(t1, m) <=> Moved(t, m)
  BY <1>1 DEF SameTx, Moved
<1> HIDE DEF t2
<1>4. /\ SameTx(t3, t2) /\ t3.touched = t2.touched
      /\ t3.err = None <=> t2.err = None /\ Eligible(t.rows[m])
  <2>1. Eligible(t.rows[m]) \in BOOLEAN
    BY DEF Eligible
  <2>2. DOMAIN t2 = TxFields
    BY <1>2 DEF SameTx
  <2> QED
    BY <2>1, <2>2, CheckKeeps
<1> HIDE DEF t3
<1>5. /\ SameTx(t4, t3) /\ t4.touched = t3.touched
      /\ t4.err = None <=> t3.err = None /\ t.rows[m].rev = batch.memories[m].rev
  BY <1>4, CheckKeeps DEF SameTx
<1> HIDE DEF t4
<1>6. SameTx(t4, t) /\ t4.touched = t.touched
  <2>1. SameTx(t2, t)
    BY <1>1, <1>2, SameStill
  <2>2. SameTx(t3, t)
    BY <1>4, <2>1, SameStill
  <2> QED
    BY <1>1, <1>2, <1>4, <1>5, <2>2, SameStill
<1>7. t4 = LockMemory(t, batch, m)
  BY DEF t4, t3, t2, t1, LockMemory
<1> QED
  BY <1>1, <1>2, <1>3, <1>4, <1>5, <1>6, <1>7

LEMMA LockLinkKeeps ==
    ASSUME NEW t, DOMAIN t = TxFields, NEW batch, NEW l
    PROVE  LET u == LockLink(t, batch, l) IN
           /\ SameTx(u, t) /\ u.touched = t.touched
           /\ u.err = None => /\ t.err = None /\ l \in DOMAIN batch.links /\ ~Moved(t, l)
                              /\ t.rows[l].live /\ ~t.rows[l].guarded /\ t.rows[l].by \in {"capture", "dream"}
                              /\ t.rows[l].rev = batch.links[l]
<1> DEFINE now == t.rows[l]
           ours == now.live /\ ~now.guarded /\ now.by \in {"capture", "dream"}
           t1 == Check(t, l \in DOMAIN batch.links, "invalid")
           t2 == Lock(t1, l)
           t3 == Check(t2, ours, "invalid")
           t4 == Check(t3, now.rev = batch.links[l], "conflict")
<1>1. /\ SameTx(t1, t) /\ t1.touched = t.touched
      /\ t1.err = None <=> t.err = None /\ l \in DOMAIN batch.links
  <2> DEFINE known == l \in DOMAIN batch.links
  <2>1. known \in BOOLEAN
    OBVIOUS
  <2> HIDE DEF known
  <2>2. t1 = Check(t, known, "invalid")
    BY DEF known
  <2>3. /\ SameTx(Check(t, known, "invalid"), t) /\ Check(t, known, "invalid").touched = t.touched
        /\ Check(t, known, "invalid").err = None <=> t.err = None /\ known
    BY <2>1, CheckKeeps
  <2> QED
    BY <2>2, <2>3 DEF known
<1> HIDE DEF t1
<1>2. /\ SameTx(t2, t1) /\ t2.touched = t1.touched
      /\ t2.err = None <=> t1.err = None /\ ~Moved(t1, l)
  BY <1>1, LockKeeps DEF SameTx
<1>3. Moved(t1, l) <=> Moved(t, l)
  BY <1>1 DEF SameTx, Moved
<1> HIDE DEF t2
<1>4. /\ SameTx(t3, t2) /\ t3.touched = t2.touched
      /\ t3.err = None <=> t2.err = None /\ ours
  <2>1. ours \in BOOLEAN
    OBVIOUS
  <2>2. DOMAIN t2 = TxFields
    BY <1>2 DEF SameTx
  <2> HIDE DEF ours
  <2> QED
    BY <2>1, <2>2, CheckKeeps
<1> HIDE DEF t3
<1>5. /\ SameTx(t4, t3) /\ t4.touched = t3.touched
      /\ t4.err = None <=> t3.err = None /\ now.rev = batch.links[l]
  BY <1>4, CheckKeeps DEF SameTx
<1> HIDE DEF t4
<1>6. SameTx(t4, t) /\ t4.touched = t.touched
  <2>1. SameTx(t2, t)
    BY <1>1, <1>2, SameStill
  <2>2. SameTx(t3, t)
    BY <1>4, <2>1, SameStill
  <2> QED
    BY <1>1, <1>2, <1>4, <1>5, <2>2, SameStill
<1>7. t4 = LockLink(t, batch, l)
  BY DEF t4, t3, t2, t1, LockLink
<1> QED
  BY <1>1, <1>2, <1>3, <1>4, <1>5, <1>6, <1>7

LEMMA TouchKeeps ==
    ASSUME NEW t, DOMAIN t = TxFields, NEW ms
    PROVE  /\ SameTx(Touch(t, ms), t) /\ Touch(t, ms).touched = t.touched \cup ms
           /\ Touch(t, ms).err = None <=> t.err = None /\ ms \cap t.touched = {}
<1> DEFINE t1 == Check(t, ms \cap t.touched = {}, "invalid")
<1>1. /\ SameTx(t1, t) /\ t1.touched = t.touched
      /\ t1.err = None <=> t.err = None /\ ms \cap t.touched = {}
  BY CheckKeeps
<1>2. Touch(t, ms) = [t1 EXCEPT !.touched = @ \cup ms]
  BY DEF Touch
<1> HIDE DEF t1
<1> QED
  BY <1>1, <1>2 DEF SameTx, TxFields

\* A row that was locked, and that no person protects or wrote last, is writable.
LEMMA LockedIsWritable ==
    ASSUME NEW t, NEW b, TxOK(t, b), NEW i \in DOMAIN t.rows, ~Moved(t, i), Spared(t.rows[i])
    PROVE  Writable(t, b, i)
  BY DEF Writable, TxOK, Moved

LEMMA WritableIsUnguarded ==
    ASSUME NEW t, NEW b, TxOK(t, b), NEW i, Writable(t, b, i) PROVE ~t.rows[i].guarded
  BY DEF Writable, TxOK, Spared

LEMMA WritableStill ==
    ASSUME NEW t, NEW u, NEW b, NEW i, Writable(t, b, i), Onward(u, t) PROVE Writable(u, b, i)
  BY DEF Writable, Onward

LEMMA ArchiveKeeps ==
    ASSUME NEW t, NEW b, TxOK(t, b), NEW i, t.err = None => Writable(t, b, i)
    PROVE  /\ TxOK(Archive(t, i), b) /\ Onward(Archive(t, i), t) /\ PutsAt(Archive(t, i), t, i)
<1> DEFINE new == [t.rows[i] EXCEPT !.live = FALSE]
<1>1. ASSUME t.err = None
      PROVE  /\ Writable(t, b, i) /\ RowOK(new) /\ Alike(t.rows[i], new)
             /\ new.rev = t.rows[i].rev /\ ~new.guarded
  <2>1. i \in DOMAIN t.rows /\ RowOK(t.rows[i])
    BY <1>1 DEF Writable, TxOK, StoreOK
  <2>2. ~t.rows[i].guarded
    BY <1>1, WritableIsUnguarded
  <2> QED
    BY <1>1, <2>1, <2>2 DEF RowOK, Columns, Alike
<1>2. Archive(t, i) = Put(t, "dream", i, new)
  BY DEF Archive
<1> DEFINE u == Put(t, "dream", i, new)
<1> HIDE DEF new
<1>3. t.err = None => /\ Writable(t, b, i) /\ RowOK(new) /\ Alike(t.rows[i], new)
                      /\ new.rev = t.rows[i].rev /\ ~new.guarded
  BY <1>1
<1>4. TxOK(u, b) /\ Onward(u, t) /\ PutsAt(u, t, i)
  BY <1>3, PutKeeps
<1> QED
  BY <1>2, <1>4

LEMMA RewrittenKeeps ==
    ASSUME NEW t, NEW b, TxOK(t, b), NEW i, t.err = None => Writable(t, b, i)
    PROVE  /\ TxOK(Rewritten(t, i), b) /\ Onward(Rewritten(t, i), t) /\ PutsAt(Rewritten(t, i), t, i)
<1> DEFINE new == [t.rows[i] EXCEPT !.text = "dream"]
<1>1. ASSUME t.err = None
      PROVE  /\ Writable(t, b, i) /\ RowOK(new) /\ Alike(t.rows[i], new)
             /\ new.rev = t.rows[i].rev /\ ~new.guarded
  <2>1. i \in DOMAIN t.rows /\ RowOK(t.rows[i])
    BY <1>1 DEF Writable, TxOK, StoreOK
  <2>2. ~t.rows[i].guarded
    BY <1>1, WritableIsUnguarded
  <2> QED
    BY <1>1, <2>1, <2>2 DEF RowOK, Columns, Alike
<1>2. Rewritten(t, i) = Put(t, "dream", i, new)
  BY DEF Rewritten
<1> DEFINE u == Put(t, "dream", i, new)
<1> HIDE DEF new
<1>3. t.err = None => /\ Writable(t, b, i) /\ RowOK(new) /\ Alike(t.rows[i], new)
                      /\ new.rev = t.rows[i].rev /\ ~new.guarded
  BY <1>1
<1>4. TxOK(u, b) /\ Onward(u, t) /\ PutsAt(u, t, i)
  BY <1>3, PutKeeps
<1> QED
  BY <1>2, <1>4

LEMMA AddEdgeKeeps ==
    ASSUME NEW t, NEW b, TxOK(t, b), NEW src, NEW rel, NEW dst,
           t.err = None => src \in DOMAIN t.rows /\ dst \in DOMAIN t.rows
    PROVE  LET u == AddEdge(t, src, rel, dst) IN TxOK(u, b) /\ Onward(u, t) /\ TiesOnly(u, t, src)
<1> DEFINE open == t.rows[src].live /\ t.rows[dst].live
           apart == src # dst
           t1 == Check(t, apart, "invalid")
           t2 == Lock(t1, src)
           t3 == Lock(t2, dst)
           t4 == Check(t3, open, "conflict")
           u == Connected(t4, src, rel, dst, "dream")
<1>1. open \in BOOLEAN /\ apart \in BOOLEAN
  OBVIOUS
<1> HIDE DEF open, apart
<1>2. SameTx(t1, t)
  BY <1>1, CheckKeeps DEF TxOK
<1> HIDE DEF t1
<1>3. SameTx(t2, t)
  BY <1>2, LockStays
<1> HIDE DEF t2
<1>4. SameTx(t3, t)
  BY <1>3, LockStays
<1> HIDE DEF t3
<1>5. SameTx(t4, t)
  BY <1>1, <1>4, CheckStays
<1> HIDE DEF t4
<1>6. TxOK(t4, b) /\ Onward(t4, t)
  BY <1>5, TxSame
<1>7. t4.err = None => src \in DOMAIN t4.rows /\ dst \in DOMAIN t4.rows
  BY <1>5 DEF SameTx
<1>8. TxOK(u, b) /\ Onward(u, t4) /\ TiesOnly(u, t4, src)
  BY <1>6, <1>7, ConnectedKeeps
<1> HIDE DEF u
<1>9. Onward(u, t)
  BY <1>6, <1>8, OnwardStill
<1>10. TiesOnly(u, t, src)
  <2>1. t4.rows = t.rows /\ Wrote(t4) = Wrote(t)
    BY <1>5 DEF SameTx, Wrote
  <2> QED
    BY <1>8, <2>1 DEF TiesOnly
<1>11. u = AddEdge(t, src, rel, dst)
  BY DEF u, t4, t3, t2, t1, open, apart, AddEdge
<1> QED
  BY <1>8, <1>9, <1>10, <1>11

LEMMA TransferredKeeps ==
    ASSUME NEW t, NEW b, TxOK(t, b), NEW l, NEW m, NEW into,
           t.err = None => l \in Links(t.rows) /\ (into # None => into \in DOMAIN t.rows)
    PROVE  LET u == Transferred(t, l, m, into) IN
           TxOK(u, b) /\ Onward(u, t) /\ TiesOnly(u, t, Redirect(t.rows[l].src, m, into))
<1> DEFINE src == Redirect(t.rows[l].src, m, into)  dst == Redirect(t.rows[l].dst, m, into)
           u == Transferred(t, l, m, into)
<1>1. CASE into = None \/ src = dst
  <2>1. u = t
    BY <1>1 DEF Transferred
  <2>2. SameTx(t, t) /\ TiesOnly(t, t, src)
    BY DEF SameTx, TxOK, TiesOnly
  <2> HIDE DEF src, u
  <2>3. TxOK(u, b) /\ Onward(u, t) /\ TiesOnly(u, t, src)
    BY <2>1, <2>2, TxSame
  <2> QED
    BY <2>3 DEF src, u
<1>2. CASE ~(into = None \/ src = dst)
  <2>1. u = AddEdge(t, src, t.rows[l].rel, dst)
    BY <1>2 DEF Transferred
  <2>2. t.err = None => src \in DOMAIN t.rows /\ dst \in DOMAIN t.rows
    BY <1>2 DEF TxOK, StoreOK, Redirect
  <2> HIDE DEF src, dst, u
  <2>3. TxOK(u, b) /\ Onward(u, t) /\ TiesOnly(u, t, src)
    BY <2>1, <2>2, AddEdgeKeeps
  <2> QED
    BY <2>3 DEF src, u
<1> QED
  BY <1>1, <1>2

LEMMA MovesKeeps ==
    ASSUME NEW t, NEW b, TxOK(t, b), NEW batch, NEW l, NEW m, NEW into,
           t.err = None => l \in Links(t.rows) /\ (into # None => into \in DOMAIN t.rows)
    PROVE  LET u == Moves(t, batch, l, m, into) IN TxOK(u, b) /\ Onward(u, t)
<1> DEFINE t1 == LockLink(t, batch, l)
           t2 == Transferred(t1, l, m, into)
           t3 == Archive(t2, l)
<1>1. /\ SameTx(t1, t)
      /\ t1.err = None => /\ t.err = None /\ ~Moved(t, l)
                          /\ ~t.rows[l].guarded /\ t.rows[l].by \in {"capture", "dream"}
  BY LockLinkKeeps DEF TxOK
<1>2. TxOK(t1, b) /\ Onward(t1, t)
  BY <1>1, TxSame
<1>3. t1.err = None => Writable(t1, b, l)
  <2> SUFFICES ASSUME t1.err = None PROVE Writable(t1, b, l)
    OBVIOUS
  <2>1. l \in DOMAIN t1.rows /\ ~Moved(t1, l) /\ Spared(t1.rows[l])
    BY <1>1 DEF SameTx, Moved, Links, Spared
  <2> QED
    BY <1>2, <2>1, LockedIsWritable
<1>4. t1.err = None => l \in Links(t1.rows) /\ (into # None => into \in DOMAIN t1.rows)
  BY <1>1 DEF SameTx
<1> HIDE DEF t1
<1>5. TxOK(t2, b) /\ Onward(t2, t1)
  BY <1>2, <1>4, TransferredKeeps
<1> HIDE DEF t2
<1>6. t2.err = None => Writable(t2, b, l)
  <2>1. t2.err = None => t1.err = None
    BY <1>5 DEF Onward
  <2> QED
    BY <1>3, <1>5, <2>1, WritableStill
<1>7. TxOK(t3, b) /\ Onward(t3, t2)
  BY <1>5, <1>6, ArchiveKeeps
<1> HIDE DEF t3
<1>8. Onward(t3, t)
  <2>1. Onward(t2, t)
    BY <1>2, <1>5, OnwardStill
  <2> QED
    BY <1>5, <1>7, <2>1, OnwardStill
<1>9. t3 = Moves(t, batch, l, m, into)
  BY DEF t3, t2, t1, Moves
<1> QED
  BY <1>7, <1>8, <1>9

LEMMA RetiredKeeps ==
    ASSUME NEW t, NEW b, TxOK(t, b), NEW batch, NEW m, NEW into,
           t.err = None => Writable(t, b, m) /\ (into # None => into \in DOMAIN t.rows)
    PROVE  LET u == Retired(t, batch, m, into) IN TxOK(u, b) /\ Onward(u, t)
<1> DEFINE links == LinksOf(t.rows, m)  s == SetToSeq(links)  N == Len(s)
           u == Retired(t, batch, m, into)
<1>1. links \subseteq Links(t.rows) /\ IsFiniteSet(links)
  <2>1. links \subseteq Links(t.rows) /\ links \in SUBSET Ids
    BY DEF LinksOf, Links, TxOK, StoreOK
  <2> HIDE DEF links
  <2> QED
    BY <2>1, FS_Subset, IdsAssumption
<1>2. s \in Seq(links) /\ N \in Nat
  <2> HIDE DEF links
  <2> QED
    BY <1>1, OrderOfSet
<1>3. PICK f : /\ f[0] = t /\ u = Archive(f[N], m)
               /\ \A n \in 1..N : f[n] = Moves(f[n - 1], batch, s[n], m, into)
  BY <1>2, RetiredUnfolds
<1> DEFINE kept == {n \in 0..N : TxOK(f[n], b) /\ Onward(f[n], t)}
<1> HIDE DEF links, s, N, u
<1>4. 0 \in kept
  <2>1. SameTx(t, t)
    BY DEF SameTx, TxOK
  <2> QED
    BY <1>2, <1>3, <2>1, TxSame
<1>5. ASSUME NEW n \in 1..N, n - 1 \in kept PROVE n \in kept
  <2> DEFINE v == f[n - 1]
  <2>1. TxOK(v, b) /\ Onward(v, t)
    BY <1>5
  <2>2. f[n] = Moves(v, batch, s[n], m, into) /\ s[n] \in Links(t.rows)
    BY <1>1, <1>2, <1>3 DEF N
  <2> HIDE DEF v
  <2>3. v.err = None => s[n] \in Links(v.rows) /\ (into # None => into \in DOMAIN v.rows)
    BY <2>1, <2>2 DEF Onward, Links, Later, Alike
  <2>4. TxOK(f[n], b) /\ Onward(f[n], v)
    BY <2>1, <2>2, <2>3, MovesKeeps
  <2> QED
    BY <2>1, <2>4, OnwardStill
<1>6. N \in kept
  <2> HIDE DEF kept
  <2>1. \A n \in 1..N : n - 1 \in kept => n \in kept
    BY <1>5
  <2>2. \A n \in 0..N : n \in kept
    BY <1>2, <1>4, <2>1, UpTo
  <2> QED
    BY <1>2, <2>2
<1> DEFINE v == f[N]
<1>7. TxOK(v, b) /\ Onward(v, t) /\ u = Archive(v, m)
  BY <1>3, <1>6
<1> HIDE DEF v
<1>8. v.err = None => Writable(v, b, m)
  <2>1. v.err = None => t.err = None
    BY <1>7 DEF Onward
  <2> QED
    BY <1>7, <2>1, WritableStill
<1>9. TxOK(u, b) /\ Onward(u, v)
  BY <1>7, <1>8, ArchiveKeeps
<1>10. Onward(u, t)
  BY <1>7, <1>9, OnwardStill
<1> QED
  BY <1>9, <1>10 DEF u

\* The rows a batch names are those of the snapshot.
BatchIn(batch, b) ==
    /\ DOMAIN batch.memories \subseteq DOMAIN b /\ DOMAIN batch.targets \subseteq DOMAIN b
    /\ DOMAIN batch.links \subseteq Links(b)

LEMMA LockMemoryAllows ==
    ASSUME NEW t, NEW b, TxOK(t, b), NEW batch, BatchIn(batch, b), NEW m
    PROVE  LET u == LockMemory(t, batch, m) IN
           /\ TxOK(u, b) /\ Onward(u, t) /\ SameTx(u, t)
           /\ u.err = None => Writable(u, b, m)
<1> DEFINE u == LockMemory(t, batch, m)
<1>1. /\ SameTx(u, t)
      /\ u.err = None => /\ m \in DOMAIN batch.memories /\ ~Moved(t, m) /\ Eligible(t.rows[m])
  BY LockMemoryKeeps DEF TxOK
<1> HIDE DEF u
<1>2. TxOK(u, b) /\ Onward(u, t)
  BY <1>1, TxSame
<1>3. u.err = None => Writable(u, b, m)
  <2> SUFFICES ASSUME u.err = None PROVE Writable(u, b, m)
    OBVIOUS
  <2>1. m \in DOMAIN u.rows /\ ~Moved(u, m) /\ Eligible(u.rows[m])
    BY <1>1, <1>2 DEF SameTx, Moved, BatchIn, TxOK
  <2>2. Spared(u.rows[m])
    BY <2>1, EligibleIsSpared
  <2> QED
    BY <1>2, <2>1, <2>2, LockedIsWritable
<1> QED
  BY <1>1, <1>2, <1>3 DEF u

LEMMA LockLinkAllows ==
    ASSUME NEW t, NEW b, TxOK(t, b), NEW batch, BatchIn(batch, b), NEW l
    PROVE  LET u == LockLink(t, batch, l) IN
           /\ TxOK(u, b) /\ Onward(u, t) /\ SameTx(u, t)
           /\ u.err = None => Writable(u, b, l)
<1> DEFINE u == LockLink(t, batch, l)
<1>1. /\ SameTx(u, t)
      /\ u.err = None => /\ l \in DOMAIN batch.links /\ ~Moved(t, l)
                         /\ ~t.rows[l].guarded /\ t.rows[l].by \in {"capture", "dream"}
  BY LockLinkKeeps DEF TxOK
<1> HIDE DEF u
<1>2. TxOK(u, b) /\ Onward(u, t)
  BY <1>1, TxSame
<1>3. u.err = None => Writable(u, b, l)
  <2> SUFFICES ASSUME u.err = None PROVE Writable(u, b, l)
    OBVIOUS
  <2>1. l \in DOMAIN u.rows /\ ~Moved(u, l) /\ Spared(u.rows[l])
    BY <1>1, <1>2 DEF SameTx, Moved, BatchIn, TxOK, Links, Spared
  <2> QED
    BY <1>2, <2>1, LockedIsWritable
<1> QED
  BY <1>1, <1>2, <1>3 DEF u

LEMMA RewriteKeeps ==
    ASSUME NEW t, NEW b, TxOK(t, b), NEW batch, BatchIn(batch, b), NEW c
    PROVE  TxOK(Rewrite(t, batch, c), b) /\ Onward(Rewrite(t, batch, c), t)
<1> DEFINE t1 == Touch(t, {c.on})
           t2 == LockMemory(t1, batch, c.on)
           u == Rewritten(t2, c.on)
<1>1. TxOK(t1, b) /\ Onward(t1, t)
  <2>1. SameTx(t1, t)
    BY TouchKeeps DEF TxOK
  <2> QED
    BY <2>1, TxSame
<1> HIDE DEF t1
<1>2. TxOK(t2, b) /\ Onward(t2, t1) /\ (t2.err = None => Writable(t2, b, c.on))
  BY <1>1, LockMemoryAllows
<1> HIDE DEF t2
<1>3. TxOK(u, b) /\ Onward(u, t2)
  BY <1>2, RewrittenKeeps
<1> HIDE DEF u
<1>4. Onward(u, t)
  <2>1. Onward(t2, t)
    BY <1>1, <1>2, OnwardStill
  <2> QED
    BY <1>2, <1>3, <2>1, OnwardStill
<1>5. u = Rewrite(t, batch, c)
  BY DEF u, t2, t1, Rewrite
<1> QED
  BY <1>3, <1>4, <1>5

LEMMA RetireKeeps ==
    ASSUME NEW t, NEW b, TxOK(t, b), NEW batch, BatchIn(batch, b), NEW c
    PROVE  TxOK(Retire(t, batch, c), b) /\ Onward(Retire(t, batch, c), t)
<1> DEFINE t1 == Touch(t, {c.on})
           t2 == LockMemory(t1, batch, c.on)
           u == Retired(t2, batch, c.on, None)
<1>1. TxOK(t1, b) /\ Onward(t1, t)
  <2>1. SameTx(t1, t)
    BY TouchKeeps DEF TxOK
  <2> QED
    BY <2>1, TxSame
<1> HIDE DEF t1
<1>2. TxOK(t2, b) /\ Onward(t2, t1) /\ (t2.err = None => Writable(t2, b, c.on))
  BY <1>1, LockMemoryAllows
<1> HIDE DEF t2
<1>3. TxOK(u, b) /\ Onward(u, t2)
  BY <1>2, RetiredKeeps
<1> HIDE DEF u
<1>4. Onward(u, t)
  <2>1. Onward(t2, t)
    BY <1>1, <1>2, OnwardStill
  <2> QED
    BY <1>2, <1>3, <2>1, OnwardStill
<1>5. u = Retire(t, batch, c)
  BY DEF u, t2, t1, Retire
<1> QED
  BY <1>3, <1>4, <1>5

LEMMA MergeKeeps ==
    ASSUME NEW t, NEW b, TxOK(t, b), NEW batch, BatchIn(batch, b), NEW c
    PROVE  TxOK(Merge(t, batch, c), b) /\ Onward(Merge(t, batch, c), t)
<1> DEFINE ok == (t.rows[c.on].cites # {} /\ t.rows[c.on].cites = t.rows[c.into].cites) /\ c.on # c.into
           t1 == Touch(t, {c.on, c.into})
           t2 == LockMemory(t1, batch, c.on)
           t3 == LockMemory(t2, batch, c.into)
           t4 == Check(t3, ok, "invalid")
           t5 == Rewritten(t4, c.into)
           u == Retired(t5, batch, c.on, c.into)
<1>0. ok \in BOOLEAN
  OBVIOUS
<1> HIDE DEF ok
<1>1. TxOK(t1, b) /\ Onward(t1, t)
  <2>1. SameTx(t1, t)
    BY TouchKeeps DEF TxOK
  <2> QED
    BY <2>1, TxSame
<1> HIDE DEF t1
<1>2. TxOK(t2, b) /\ Onward(t2, t1) /\ (t2.err = None => Writable(t2, b, c.on))
  BY <1>1, LockMemoryAllows
<1> HIDE DEF t2
<1>3. TxOK(t3, b) /\ Onward(t3, t2) /\ (t3.err = None => Writable(t3, b, c.into))
  BY <1>2, LockMemoryAllows
<1> HIDE DEF t3
<1>4. TxOK(t4, b) /\ Onward(t4, t3)
  <2>1. SameTx(t4, t3)
    BY <1>0, <1>3, CheckKeeps DEF TxOK
  <2> QED
    BY <1>3, <2>1, TxSame
<1> HIDE DEF t4
<1>5. t4.err = None => Writable(t4, b, c.into) /\ Writable(t4, b, c.on)
  <2>1. t4.err = None => t3.err = None /\ t2.err = None
    BY <1>3, <1>4 DEF Onward
  <2>2. Onward(t4, t2)
    BY <1>2, <1>3, <1>4, OnwardStill
  <2> QED
    BY <1>2, <1>3, <1>4, <2>1, <2>2, WritableStill
<1>6. TxOK(t5, b) /\ Onward(t5, t4)
  BY <1>4, <1>5, RewrittenKeeps
<1> HIDE DEF t5
<1>7. t5.err = None => Writable(t5, b, c.on) /\ c.into \in DOMAIN t5.rows
  <2>1. t5.err = None => t4.err = None
    BY <1>6 DEF Onward
  <2>2. t5.err = None => Writable(t5, b, c.on) /\ Writable(t5, b, c.into)
    BY <1>5, <1>6, <2>1, WritableStill
  <2> QED
    BY <2>2 DEF Writable
<1>8. TxOK(u, b) /\ Onward(u, t5)
  BY <1>6, <1>7, RetiredKeeps
<1> HIDE DEF u
<1>9. Onward(u, t)
  <2>1. Onward(t2, t)
    BY <1>1, <1>2, OnwardStill
  <2>2. Onward(t3, t)
    BY <1>2, <1>3, <2>1, OnwardStill
  <2>3. Onward(t4, t)
    BY <1>3, <1>4, <2>2, OnwardStill
  <2>4. Onward(t5, t)
    BY <1>4, <1>6, <2>3, OnwardStill
  <2> QED
    BY <1>6, <1>8, <2>4, OnwardStill
<1>10. u = Merge(t, batch, c)
  BY DEF u, t5, t4, t3, t2, t1, ok, Merge
<1> QED
  BY <1>8, <1>9, <1>10

LEMMA DisconnectKeeps ==
    ASSUME NEW t, NEW b, TxOK(t, b), NEW batch, BatchIn(batch, b), NEW c
    PROVE  TxOK(Disconnect(t, batch, c), b) /\ Onward(Disconnect(t, batch, c), t)
<1> DEFINE ok == ~Provenance(t, batch, c.on)
           t1 == LockLink(t, batch, c.on)
           t2 == Check(t1, ok, "invalid")
           u == Archive(t2, c.on)
<1>0. ok \in BOOLEAN
  OBVIOUS
<1> HIDE DEF ok
<1>1. TxOK(t1, b) /\ Onward(t1, t) /\ (t1.err = None => Writable(t1, b, c.on))
  BY LockLinkAllows
<1> HIDE DEF t1
<1>2. TxOK(t2, b) /\ Onward(t2, t1)
  <2>1. SameTx(t2, t1)
    BY <1>0, <1>1, CheckKeeps DEF TxOK
  <2> QED
    BY <1>1, <2>1, TxSame
<1> HIDE DEF t2
<1>3. t2.err = None => Writable(t2, b, c.on)
  <2>1. t2.err = None => t1.err = None
    BY <1>2 DEF Onward
  <2> QED
    BY <1>1, <1>2, <2>1, WritableStill
<1>4. TxOK(u, b) /\ Onward(u, t2)
  BY <1>2, <1>3, ArchiveKeeps
<1> HIDE DEF u
<1>5. Onward(u, t)
  <2>1. Onward(t2, t)
    BY <1>1, <1>2, OnwardStill
  <2> QED
    BY <1>2, <1>4, <2>1, OnwardStill
<1>6. u = Disconnect(t, batch, c)
  BY DEF u, t2, t1, ok, Disconnect
<1> QED
  BY <1>4, <1>5, <1>6

LEMMA ConnectKeeps ==
    ASSUME NEW t, NEW b, TxOK(t, b), NEW batch, BatchIn(batch, b), NEW c
    PROVE  TxOK(Connect(t, batch, c), b) /\ Onward(Connect(t, batch, c), t)
<1> DEFINE old == Same(t.rows, c.on, c.rel, c.to)
           known == IF c.to \in DOMAIN batch.targets THEN batch.targets[c.to] ELSE batch.memories[c.to].rev
           mine == c.on \in DOMAIN batch.memories /\ Eligible(batch.memories[c.on])
           there == c.to \in DOMAIN batch.targets \cup DOMAIN batch.memories
           fresh == c.to \in t.touched \/ (t.rows[c.to].live /\ t.rows[c.to].rev = known)
           fits == t.rows[c.to].kind = "memory" => c.rel = "related_to"
           t1 == Check(t, mine, "invalid")
           t2 == Check(t1, there, "invalid")
           t3 == Lock(t2, c.to)
           t4 == Check(t3, fresh, "conflict")
           t5 == Check(t4, fits, "invalid")
           u == Connect(t, batch, c)
<1>1. mine \in BOOLEAN /\ there \in BOOLEAN /\ fresh \in BOOLEAN /\ fits \in BOOLEAN
  OBVIOUS
<1>2. mine /\ there => c.on \in DOMAIN t.rows /\ c.to \in DOMAIN t.rows
  BY DEF BatchIn, TxOK
<1>3. u = IF old = {} THEN AddEdge(t5, c.on, c.rel, c.to)
          ELSE LET l == CHOOSE l \in old : TRUE IN Rewritten(LockLink(t5, batch, l), l)
  BY DEF Connect
<1> HIDE DEF known, mine, there, fresh, fits, u
<1>4. SameTx(t1, t) /\ (t1.err = None => mine)
  BY <1>1, CheckKeeps DEF TxOK
<1> HIDE DEF t1
<1>5. SameTx(t2, t) /\ (t2.err = None => t1.err = None /\ there)
  BY <1>1, <1>4, CheckStays
<1> HIDE DEF t2
<1>6. SameTx(t3, t) /\ (t3.err = None => t2.err = None)
  BY <1>5, LockStays
<1> HIDE DEF t3
<1>7. SameTx(t4, t) /\ (t4.err = None => t3.err = None)
  BY <1>1, <1>6, CheckStays
<1> HIDE DEF t4
<1>8. SameTx(t5, t) /\ (t5.err = None => t4.err = None)
  BY <1>1, <1>7, CheckStays
<1> HIDE DEF t5
<1>9. TxOK(t5, b) /\ Onward(t5, t)
  BY <1>8, TxSame
<1>10. CASE old = {}
  <2>1. t5.err = None => c.on \in DOMAIN t5.rows /\ c.to \in DOMAIN t5.rows
    BY <1>2, <1>4, <1>5, <1>6, <1>7, <1>8 DEF SameTx
  <2>2. TxOK(AddEdge(t5, c.on, c.rel, c.to), b) /\ Onward(AddEdge(t5, c.on, c.rel, c.to), t5)
    BY <1>9, <2>1, AddEdgeKeeps
  <2>3. u = AddEdge(t5, c.on, c.rel, c.to)
    BY <1>3, <1>10
  <2> QED
    BY <1>9, <2>2, <2>3, OnwardStill DEF u
<1>11. CASE old # {}
  <2> DEFINE l == CHOOSE l \in old : TRUE
             v == LockLink(t5, batch, l)
  <2>1. u = Rewritten(v, l)
    BY <1>3, <1>11
  <2> HIDE DEF l
  <2>2. TxOK(v, b) /\ Onward(v, t5) /\ (v.err = None => Writable(v, b, l))
    BY <1>9, LockLinkAllows
  <2> HIDE DEF v
  <2>3. TxOK(u, b) /\ Onward(u, v)
    BY <2>1, <2>2, RewrittenKeeps
  <2>4. Onward(v, t)
    BY <1>9, <2>2, OnwardStill
  <2> QED
    BY <2>2, <2>3, <2>4, OnwardStill DEF u
<1> QED
  BY <1>10, <1>11

LEMMA ChangeKeeps ==
    ASSUME NEW t, NEW b, TxOK(t, b), NEW batch, BatchIn(batch, b), NEW c,
           c.do \in {"rewrite", "retire", "merge", "disconnect", "connect"}
    PROVE  TxOK(Change(t, batch, c), b) /\ Onward(Change(t, batch, c), t)
<1>1. CASE t.err # None
  <2>1. Change(t, batch, c) = t
    BY <1>1 DEF Change
  <2>2. SameTx(t, t)
    BY DEF SameTx, TxOK
  <2> QED
    BY <2>1, <2>2, TxSame
<1>2. CASE t.err = None
  <2>1. CASE c.do = "rewrite"
    <3>1. Change(t, batch, c) = Rewrite(t, batch, c)
      BY <1>2, <2>1 DEF Change
    <3> QED
      BY <3>1, RewriteKeeps
  <2>2. CASE c.do = "retire"
    <3>1. Change(t, batch, c) = Retire(t, batch, c)
      BY <1>2, <2>2 DEF Change
    <3> QED
      BY <3>1, RetireKeeps
  <2>3. CASE c.do = "merge"
    <3>1. Change(t, batch, c) = Merge(t, batch, c)
      BY <1>2, <2>3 DEF Change
    <3> QED
      BY <3>1, MergeKeeps
  <2>4. CASE c.do = "disconnect"
    <3>1. Change(t, batch, c) = Disconnect(t, batch, c)
      BY <1>2, <2>4 DEF Change
    <3> QED
      BY <3>1, DisconnectKeeps
  <2>5. CASE c.do = "connect"
    <3>1. Change(t, batch, c) = Connect(t, batch, c)
      BY <1>2, <2>5 DEF Change
    <3> QED
      BY <3>1, ConnectKeeps
  <2> QED
    BY <2>1, <2>2, <2>3, <2>4, <2>5
<1> QED
  BY <1>1, <1>2

LEMMA HeldToKeeps ==
    ASSUME NEW t, DOMAIN t = TxFields, NEW versions
    PROVE  SameTx(HeldTo(t, versions), t) /\ (HeldTo(t, versions).err = None => t.err = None)
<1> DEFINE why == [i \in DOMAIN versions |-> Check(Lock(t, i), LiveAt(t, i, versions[i]), "conflict").err]
<1>1. HeldTo(t, versions) = Reject(t, why)
  BY DEF HeldTo
<1> HIDE DEF why
<1>2. SameTx(Reject(t, why), t) /\ (Reject(t, why).err = None => t.err = None)
  BY RejectKeeps
<1> QED
  BY <1>1, <1>2

LEMMA RevalidatedKeeps ==
    ASSUME NEW t, DOMAIN t = TxFields, NEW batch
    PROVE  SameTx(Revalidated(t, batch), t) /\ (Revalidated(t, batch).err = None => t.err = None)
<1> DEFINE InputOf(m) ==
               Check(Check(LockMemory(t, batch, m), batch.approved => Incident(t, m) = Approved(batch, t, m), "conflict"),
                     ReviewPrint(t.rows, m) = batch.prints[m], "conflict")
           why == [m \in DOMAIN batch.memories |-> InputOf(m).err]
           t1 == Reject(t, why)
           t2 == HeldTo(t1, batch.links)
           t3 == HeldTo(t2, batch.around)
           t4 == HeldTo(t3, batch.targets)
<1>1. Revalidated(t, batch) = IF batch.approved THEN t4 ELSE t2
  BY DEF Revalidated
<1> HIDE DEF why
<1>2. SameTx(t1, t) /\ (t1.err = None => t.err = None)
  BY RejectKeeps
<1> HIDE DEF t1
<1>3. DOMAIN t1 = TxFields
  BY <1>2 DEF SameTx
<1>4. SameTx(t2, t1) /\ (t2.err = None => t1.err = None)
  BY <1>3, HeldToKeeps
<1> HIDE DEF t2
<1>5. SameTx(t2, t) /\ DOMAIN t2 = TxFields
  BY <1>2, <1>4, SameStill
<1>6. SameTx(t3, t2) /\ (t3.err = None => t2.err = None)
  BY <1>5, HeldToKeeps
<1> HIDE DEF t3
<1>7. SameTx(t3, t) /\ DOMAIN t3 = TxFields
  BY <1>5, <1>6, SameStill
<1>8. SameTx(t4, t3) /\ (t4.err = None => t3.err = None)
  BY <1>7, HeldToKeeps
<1> HIDE DEF t4
<1>9. SameTx(t4, t)
  BY <1>7, <1>8, SameStill
<1> QED
  BY <1>1, <1>2, <1>4, <1>5, <1>6, <1>8, <1>9

\* A plan, applied to the store as its transaction read it.
LEMMA PlannedKeeps ==
    ASSUME NEW base, StoreOK(base.rows), Later(base.rows, rows), NEW batch, NEW plan, DreamOK(batch, plan, base.rows)
    PROVE  LET t == Planned(base, batch, plan) IN
           /\ TxOK(t, base.rows)
           /\ t.err = None => ~base.cut.done
<1> DEFINE b == base.rows  N == Len(plan)
           legacy == ~base.cut.done
           t0 == Check(Begun(b), legacy, "invalid")
           t1 == Revalidated(t0, batch)
<1>1. N \in Nat /\ BatchIn(batch, b)
  BY SeqFacts DEF DreamOK, BatchIn
<1>2. PICK f : /\ f[0] = t1 /\ Planned(base, batch, plan) = f[N]
               /\ \A n \in 1..N : f[n] = Change(f[n - 1], batch, plan[n])
  <2>1. PICK f : /\ f[0] = Revalidated(Check(Begun(base.rows), ~base.cut.done, "invalid"), batch)
                 /\ \A n \in 1..Len(plan) : f[n] = Change(f[n - 1], batch, plan[n])
                 /\ Planned(base, batch, plan) = f[Len(plan)]
    BY <1>1, PlannedUnfolds
  <2> QED
    BY <2>1
<1>3. TxOK(Begun(b), b)
  BY TxBegins
<1>4. SameTx(t0, Begun(b)) /\ (t0.err = None => legacy)
  <2>1. legacy \in BOOLEAN
    OBVIOUS
  <2> HIDE DEF legacy
  <2> QED
    BY <1>3, <2>1, CheckKeeps DEF TxOK
<1>5. TxOK(t0, b)
  BY <1>3, <1>4, TxSame
<1> HIDE DEF t0
<1>6. SameTx(t1, t0) /\ (t1.err = None => t0.err = None)
  BY <1>5, RevalidatedKeeps DEF TxOK
<1> HIDE DEF t1
<1>7. TxOK(t1, b) /\ Onward(t1, t1)
  <2>1. TxOK(t1, b)
    BY <1>5, <1>6, TxSame
  <2>2. SameTx(t1, t1)
    BY <1>6 DEF SameTx
  <2> QED
    BY <2>1, <2>2, TxSame
<1> DEFINE kept == {n \in 0..N : TxOK(f[n], b) /\ Onward(f[n], t1)}
<1> HIDE DEF N, b
<1>8. 0 \in kept
  BY <1>1, <1>2, <1>7
<1>9. ASSUME NEW n \in 1..N, n - 1 \in kept PROVE n \in kept
  <2> DEFINE v == f[n - 1]
  <2>1. TxOK(v, b) /\ Onward(v, t1)
    BY <1>9
  <2>2. f[n] = Change(v, batch, plan[n])
    BY <1>2
  <2>3. plan[n].do \in {"rewrite", "retire", "merge", "disconnect", "connect"}
    BY DEF DreamOK, N
  <2> HIDE DEF v
  <2>4. TxOK(f[n], b) /\ Onward(f[n], v)
    BY <1>1, <2>1, <2>2, <2>3, ChangeKeeps
  <2> QED
    BY <1>7, <2>1, <2>4, OnwardStill
<1>10. N \in kept
  <2> HIDE DEF kept
  <2>1. \A n \in 1..N : n - 1 \in kept => n \in kept
    BY <1>9
  <2>2. \A n \in 0..N : n \in kept
    BY <1>1, <1>8, <2>1, UpTo
  <2> QED
    BY <1>1, <2>2
<1>11. TxOK(f[N], b) /\ (f[N].err = None => t1.err = None)
  BY <1>10 DEF Onward
<1> QED
  BY <1>2, <1>4, <1>6, <1>11 DEF b

(****************************** extraction **********************************)
\* The Events an extraction tells: it enriches those that it was shown, and tells
\* nothing that another extraction told in an Event it was not shown.
Tells(t, b, batch) ==
    /\ Wrote(t) \cap DOMAIN b \subseteq DOMAIN batch.candidates
    /\ \A e \in Wrote(t) \ DOMAIN b : t.rows[e].kind = "event" =>
          \A d \in Overlaps(rows, t.rows[e].cites) : rows[d].by = "extract" => d \in DOMAIN batch.candidates

\* What an Event derives from, connected to it.
LEMMA DerivedKeeps ==
    ASSUME NEW t, NEW b, TxOK(t, b), NEW batch, NEW o, NEW cites,
           IsFiniteSet(DOMAIN b), \A c \in cites : scenario.on[c] \in DOMAIN b,
           t.err = None => o \in DOMAIN t.rows /\ Tells(t, b, batch)
    PROVE  LET u == Derived(t, o, cites) IN
           TxOK(u, b) /\ Onward(u, t) /\ (u.err = None => Tells(u, b, batch))
<1> DEFINE from == {scenario.on[c] : c \in cites}
           u == Tied(t, o, from, "extract")
<1>1. from \in SUBSET DOMAIN b
  OBVIOUS
<1>2. Derived(t, o, cites) = u
  BY DEF Derived
<1> HIDE DEF from
<1>3. IsFiniteSet(from)
  BY <1>1, FS_Subset
<1>4. t.err = None => o \in DOMAIN t.rows /\ from \subseteq DOMAIN t.rows
  BY <1>1 DEF TxOK
<1>5. TxOK(u, b) /\ Onward(u, t) /\ TiesOnly(u, t, o)
  BY <1>3, <1>4, TiedKeeps
<1> HIDE DEF u
<1>6. u.err = None => Tells(u, b, batch)
  <2> SUFFICES ASSUME u.err = None PROVE Tells(u, b, batch)
    OBVIOUS
  <2>1. Tells(t, b, batch)
    BY <1>5 DEF Onward
  <2>2. DOMAIN b \subseteq DOMAIN t.rows /\ \A i \in Wrote(t) : i \in DOMAIN t.rows
    BY DEF TxOK
  <2>3. \A i \in Wrote(u) : \/ i \in Wrote(t) /\ u.rows[i] = t.rows[i]
                            \/ i \notin DOMAIN b /\ u.rows[i].kind = "link"
    BY <1>5, <2>2 DEF TiesOnly, TxOK
  <2> QED
    BY <2>1, <2>3 DEF Tells
<1> QED
  BY <1>2, <1>5, <1>6

LEMMA TellEventKeeps ==
    ASSUME NEW t, NEW b, TxOK(t, b), StoreOK(rows), NEW batch, NEW p,
           IsFiniteSet(DOMAIN b), \A c \in p.cites : scenario.on[c] \in DOMAIN b,
           p.on # None => p.on \in DOMAIN batch.candidates \cap OfKind(b, "event"),
           t.err = None => Tells(t, b, batch)
    PROVE  LET u == TellEvent(t, batch, p) IN
           TxOK(u, b) /\ Onward(u, t) /\ (u.err = None => Tells(u, b, batch))
<1> DEFINE t1 == Check(t, Unshown(t, batch, p) = {}, "conflict")
           t2 == Check(t1, Rivals(t, p) = {}, "database")
           u == TellEvent(t, batch, p)
<1>1. CASE t.err # None
  <2>1. u = t
    BY <1>1 DEF TellEvent
  <2>2. SameTx(t, t)
    BY DEF SameTx, TxOK
  <2> QED
    BY <1>1, <2>1, <2>2, TxSame
<1>2. SameTx(t1, t) /\ (t1.err = None => t.err = None /\ Unshown(t, batch, p) = {})
  <2> DEFINE ok == Unshown(t, batch, p) = {}
  <2>1. ok \in BOOLEAN
    OBVIOUS
  <2> HIDE DEF ok
  <2>2. SameTx(Check(t, ok, "conflict"), t) /\ (Check(t, ok, "conflict").err = None => t.err = None /\ ok)
    BY <2>1, CheckKeeps DEF TxOK
  <2> QED
    BY <2>2 DEF ok
<1>3. SameTx(t2, t) /\ (t2.err = None => t1.err = None /\ Rivals(t, p) = {})
  <2> HIDE DEF t1
  <2> DEFINE ok == Rivals(t, p) = {}
  <2>1. ok \in BOOLEAN
    OBVIOUS
  <2> HIDE DEF ok
  <2>2. SameTx(Check(t1, ok, "database"), t) /\ (Check(t1, ok, "database").err = None => t1.err = None /\ ok)
    BY <1>2, <2>1, CheckStays
  <2> QED
    BY <2>2 DEF ok
<1>4. u = IF t.err # None THEN t
          ELSE IF p.on = None THEN Derived(Insert(t2, NewObject("event", "extract", p.cites)), Fresh(t), p.cites)
          ELSE Derived(Put(Check(Enrichable(t2, p.on), t.rows[p.on].rev = batch.candidates[p.on], "conflict"),
                           "extract", p.on, [t.rows[p.on] EXCEPT !.text = "extract", !.cites = @ \cup p.cites]), p.on, p.cites)
  BY DEF TellEvent
<1> HIDE DEF t1, t2, u
<1>5. TxOK(t2, b) /\ Onward(t2, t) /\ t2.rows = t.rows /\ Wrote(t2) = Wrote(t)
  BY <1>3, TxSame DEF SameTx, Wrote
<1>6. CASE t.err = None /\ p.on = None
  <2> DEFINE new == NewObject("event", "extract", p.cites)
             e == Fresh(t)
             v == Insert(t2, new)
  <2>1. /\ RowOK(new) /\ new.rev = 1 /\ new.by # "owner" /\ ~new.guarded
        /\ new.kind = "event" /\ new.kind # "link" /\ new.cites = p.cites
    BY NewRowsAreOK
  <2>2. Fresh(t2) = e
    BY <1>5 DEF Fresh, Free
  <2> HIDE DEF new, e
  <2>3. /\ TxOK(v, b) /\ Onward(v, t2)
        /\ v.err = None =>
              /\ t2.err = None
              /\ e \in Ids /\ e \notin DOMAIN t.rows \cup DOMAIN rows
              /\ DOMAIN v.rows = DOMAIN t.rows \cup {e} /\ v.rows[e] = new
              /\ \A i \in DOMAIN t.rows : v.rows[i] = t.rows[i]
              /\ Wrote(v) = Wrote(t) \cup {e}
    <3>1. t2.err = None => /\ RowOK(new) /\ new.rev = 1 /\ new.by # "owner" /\ ~new.guarded
                           /\ new.kind = "link" => new.src \in DOMAIN t2.rows /\ new.dst \in DOMAIN t2.rows
      BY <2>1
    <3>2. /\ TxOK(v, b) /\ Onward(v, t2)
          /\ v.err = None =>
                /\ t2.err = None
                /\ Fresh(t2) \in Ids /\ Fresh(t2) \notin DOMAIN t2.rows \cup DOMAIN rows
                /\ DOMAIN v.rows = DOMAIN t2.rows \cup {Fresh(t2)} /\ v.rows[Fresh(t2)] = new
                /\ \A i \in DOMAIN t2.rows : v.rows[i] = t2.rows[i]
                /\ Wrote(v) = Wrote(t2) \cup {Fresh(t2)}
      BY <1>5, <3>1, InsertKeeps
    <3> HIDE DEF v
    <3> QED
      BY <1>5, <2>2, <3>2
  <2> HIDE DEF v
  <2>4. ASSUME v.err = None PROVE e \in DOMAIN v.rows /\ Tells(v, b, batch)
    <3>1. Tells(t, b, batch) /\ DOMAIN b \subseteq DOMAIN t.rows /\ Wrote(t) \subseteq DOMAIN t.rows
      BY <1>6 DEF TxOK
    <3>2. e \notin DOMAIN b
      BY <2>3, <2>4, <3>1
    <3>3. ASSUME NEW d \in Overlaps(rows, p.cites), rows[d].by = "extract" PROVE d \in DOMAIN batch.candidates
      <4>1. Unshown(t, batch, p) = {} /\ Rivals(t, p) = {}
        BY <1>2, <1>3, <2>3, <2>4
      <4>2. d \in DOMAIN t.base /\ ~Moved(t, d)
        BY <3>3, <4>1 DEF Rivals
      <4>3. d \in DOMAIN b /\ rows[d] = b[d]
        BY <4>2 DEF Moved, TxOK
      <4>4. CASE d \in Wrote(t)
        BY <3>1, <4>3, <4>4 DEF Tells
      <4>5. CASE d \notin Wrote(t)
        <5>1. t.rows[d] = rows[d] /\ d \in DOMAIN t.rows
          BY <4>3, <4>5, <3>1 DEF TxOK
        <5>2. d \in Overlaps(t.rows, p.cites)
          BY <5>1 DEF Overlaps, OfKind
        <5>3. d # p.on
          BY <1>6, IdsAssumption DEF StoreOK, Overlaps, OfKind
        <5> QED
          BY <4>1, <4>5, <5>2, <5>3 DEF Unshown
      <4> QED
        BY <4>4, <4>5
    <3> QED
      BY <2>1, <2>3, <2>4, <3>1, <3>2, <3>3 DEF Tells
  <2>5. TxOK(Derived(v, e, p.cites), b) /\ Onward(Derived(v, e, p.cites), v)
        /\ (Derived(v, e, p.cites).err = None => Tells(Derived(v, e, p.cites), b, batch))
    BY <2>3, <2>4, DerivedKeeps
  <2>6. u = Derived(v, e, p.cites)
    BY <1>4, <1>6 DEF v, e, new
  <2>7. Onward(v, t)
    BY <1>5, <2>3, OnwardStill
  <2> QED
    BY <2>3, <2>5, <2>6, <2>7, OnwardStill DEF u
<1>7. CASE t.err = None /\ p.on # None
  <2> DEFINE o == p.on
             right == t.rows[o].rev = batch.candidates[o]
             open == t.rows[o].live /\ ~t.rows[o].guarded
             t3 == Lock(t2, o)
             t4 == Check(t3, open, "invalid")
             t5 == Check(t4, right, "conflict")
             new == [t.rows[o] EXCEPT !.text = "extract", !.cites = @ \cup p.cites]
             v == Put(t5, "extract", o, new)
  <2>1. open \in BOOLEAN /\ right \in BOOLEAN
    OBVIOUS
  <2>2. Enrichable(t2, o) = t4
    BY <1>5 DEF Enrichable
  <2>3. u = Derived(v, o, p.cites)
    BY <1>4, <1>7, <2>2
  <2>4. o \in DOMAIN batch.candidates /\ o \in DOMAIN b /\ b[o].kind = "event"
    BY <1>7 DEF OfKind
  <2>5. RowOK(t.rows[o]) /\ t.rows[o].kind = "event" /\ o \in DOMAIN t.rows
    BY <2>4 DEF TxOK, StoreOK, Later, Alike
  <2>6. RowOK(new) /\ Alike(t.rows[o], new) /\ new.rev = t.rows[o].rev /\ new.guarded = t.rows[o].guarded
    BY <2>5 DEF RowOK, Columns, Alike
  <2> HIDE DEF right, new, o
  <2>7. SameTx(t3, t) /\ (t3.err = None => t2.err = None /\ ~Moved(t, o))
    BY <1>3, LockStays
  <2> HIDE DEF t3
  <2>8. SameTx(t4, t) /\ (t4.err = None => t3.err = None /\ open)
    <3> HIDE DEF open
    <3> QED
      BY <2>1, <2>7, CheckStays
  <2> HIDE DEF t4
  <2>9. SameTx(t5, t) /\ (t5.err = None => t4.err = None)
    BY <2>1, <2>8, CheckStays
  <2> HIDE DEF t5
  <2>10. TxOK(t5, b) /\ Onward(t5, t) /\ t5.rows = t.rows /\ Wrote(t5) = Wrote(t) /\ t5.base = t.base
    BY <2>9, TxSame DEF SameTx, Wrote
  <2>11. ASSUME t5.err = None PROVE Writable(t5, b, o) /\ ~new.guarded
    <3>1. ~Moved(t5, o) /\ Spared(t5.rows[o]) /\ ~t.rows[o].guarded
      BY <2>5, <2>7, <2>8, <2>9, <2>10, <2>11 DEF Spared, Moved
    <3> QED
      BY <2>5, <2>6, <2>10, <3>1, LockedIsWritable
  <2>12. t5.err = None => /\ Writable(t5, b, o) /\ RowOK(new) /\ Alike(t5.rows[o], new)
                          /\ new.rev = t5.rows[o].rev /\ ~new.guarded
    BY <2>6, <2>10, <2>11
  <2>13. TxOK(v, b) /\ Onward(v, t5) /\ PutsAt(v, t5, o)
    BY <2>10, <2>12, PutKeeps
  <2> HIDE DEF v
  <2>14. ASSUME v.err = None PROVE o \in DOMAIN v.rows /\ Tells(v, b, batch)
    <3>1. Tells(t, b, batch)
      BY <1>7
    <3>2. /\ Wrote(v) = Wrote(t) \cup {o} /\ DOMAIN v.rows = DOMAIN t.rows
          /\ \A j \in DOMAIN t.rows \ {o} : v.rows[j] = t.rows[j]
      BY <2>10, <2>13, <2>14 DEF PutsAt
    <3>3. Wrote(t) \subseteq DOMAIN t.rows
      BY DEF TxOK
    <3> QED
      BY <2>4, <2>5, <3>1, <3>2, <3>3 DEF Tells
  <2>15. TxOK(Derived(v, o, p.cites), b) /\ Onward(Derived(v, o, p.cites), v)
        /\ (Derived(v, o, p.cites).err = None => Tells(Derived(v, o, p.cites), b, batch))
    BY <2>13, <2>14, DerivedKeeps
  <2>16. Onward(v, t)
    BY <2>10, <2>13, OnwardStill
  <2> QED
    BY <2>3, <2>13, <2>15, <2>16, OnwardStill DEF u
<1> QED
  BY <1>1, <1>6, <1>7

LEMMA ExtractedKeeps ==
    ASSUME NEW base, StoreOK(base.rows), StoreOK(rows), Later(base.rows, rows),
           NEW batch, NEW plan, EventsOK(batch, plan, base.rows),
           \A o \in DOMAIN batch.evidence : scenario.on[o] \in DOMAIN base.rows
    PROVE  LET t == Extracted(base, batch, plan) IN
           TxOK(t, base.rows) /\ (t.err = None => Tells(t, base.rows, batch))
<1> DEFINE b == base.rows  N == Len(plan)
           ok == \A o \in DOMAIN batch.evidence : base.facts[o] = batch.evidence[o]
           t1 == Check(Begun(b), ok, "conflict")
<1>1. N \in Nat
  BY SeqFacts DEF EventsOK
<1>2. Grounded(Begun(b), base, batch) = t1
  BY DEF Grounded
<1>3. PICK f : /\ f[0] = t1 /\ Extracted(base, batch, plan) = f[N]
               /\ \A n \in 1..N : f[n] = TellEvent(f[n - 1], batch, plan[n])
  <2>1. PICK f : /\ f[0] = Grounded(Begun(base.rows), base, batch)
                 /\ \A n \in 1..Len(plan) : f[n] = TellEvent(f[n - 1], batch, plan[n])
                 /\ Extracted(base, batch, plan) = f[Len(plan)]
    BY <1>1, ExtractedUnfolds
  <2> QED
    BY <1>2, <2>1
<1>4. TxOK(Begun(b), b) /\ Wrote(Begun(b)) = {}
  BY TxBegins DEF Begun, Wrote
<1>5. SameTx(t1, Begun(b))
  <2>1. ok \in BOOLEAN
    OBVIOUS
  <2> HIDE DEF ok
  <2> QED
    BY <1>4, <2>1, CheckKeeps DEF TxOK
<1>6. TxOK(t1, b)
  BY <1>4, <1>5, TxSame
<1>7. Tells(t1, b, batch)
  <2>1. Wrote(t1) = {}
    BY <1>4, <1>5 DEF SameTx, Wrote
  <2> QED
    BY <2>1 DEF Tells
<1>8. IsFiniteSet(DOMAIN b)
  BY FS_Subset, IdsAssumption DEF StoreOK
<1> DEFINE kept == {n \in 0..N : TxOK(f[n], b) /\ (f[n].err = None => Tells(f[n], b, batch))}
<1> HIDE DEF t1
<1>9. 0 \in kept
  BY <1>1, <1>3, <1>6, <1>7
<1>10. ASSUME NEW n \in 1..N, n - 1 \in kept PROVE n \in kept
  <2> DEFINE v == f[n - 1]  p == plan[n]
  <2>1. TxOK(v, b) /\ (v.err = None => Tells(v, b, batch))
    BY <1>10
  <2>2. f[n] = TellEvent(v, batch, p)
    BY <1>3
  <2>3. /\ \A c \in p.cites : scenario.on[c] \in DOMAIN b
        /\ p.on # None => p.on \in DOMAIN batch.candidates \cap OfKind(b, "event")
    BY DEF EventsOK
  <2> HIDE DEF v, p, b
  <2>4. TxOK(f[n], b) /\ (f[n].err = None => Tells(f[n], b, batch))
    BY <1>8, <2>1, <2>2, <2>3, TellEventKeeps
  <2> QED
    BY <2>4
<1>11. N \in kept
  <2> HIDE DEF kept, N
  <2>1. \A n \in 1..N : n - 1 \in kept => n \in kept
    BY <1>10
  <2>2. \A n \in 0..N : n \in kept
    BY <1>1, <1>9, <2>1, UpTo
  <2> QED
    BY <1>1, <2>2
<1> QED
  BY <1>3, <1>11

(******************************* synthesis **********************************)
\* A synthesis writes Memories, and Connections from them.
Recalls(t, b) ==
    \A i \in Wrote(t) :
        \/ t.rows[i].kind = "memory"
        \/ /\ i \notin DOMAIN b /\ t.rows[i].kind = "link"
           /\ t.rows[i].src \in DOMAIN t.rows /\ t.rows[t.rows[i].src].kind = "memory"

LEMMA SupportedKeeps ==
    ASSUME NEW t, NEW b, TxOK(t, b), NEW m, NEW events \in SUBSET DOMAIN b, IsFiniteSet(DOMAIN b),
           t.err = None => m \in DOMAIN t.rows /\ t.rows[m].kind = "memory" /\ Recalls(t, b)
    PROVE  LET u == Supported(t, m, events) IN
           TxOK(u, b) /\ Onward(u, t) /\ (u.err = None => Recalls(u, b))
<1> DEFINE u == Tied(t, m, events, "synthesis")
<1>1. Supported(t, m, events) = u
  BY DEF Supported
<1>2. IsFiniteSet(events)
  BY FS_Subset
<1>3. t.err = None => m \in DOMAIN t.rows /\ events \subseteq DOMAIN t.rows
  BY DEF TxOK
<1>4. TxOK(u, b) /\ Onward(u, t) /\ TiesOnly(u, t, m)
  BY <1>2, <1>3, TiedKeeps
<1> HIDE DEF u
<1>5. u.err = None => Recalls(u, b)
  <2> SUFFICES ASSUME u.err = None PROVE Recalls(u, b)
    OBVIOUS
  <2>1. Recalls(t, b) /\ m \in DOMAIN t.rows /\ t.rows[m].kind = "memory"
    BY <1>4 DEF Onward
  <2>2. DOMAIN b \subseteq DOMAIN t.rows /\ (\A i \in Wrote(t) : i \in DOMAIN t.rows)
        /\ (\A i \in Wrote(u) : i \in DOMAIN u.rows)
    BY <1>4 DEF TxOK
  <2>3. \A i \in DOMAIN t.rows : i \in DOMAIN u.rows /\ u.rows[i] = t.rows[i]
    BY <1>4 DEF TiesOnly
  <2>4. ASSUME NEW i \in Wrote(u)
        PROVE  \/ u.rows[i].kind = "memory"
               \/ /\ i \notin DOMAIN b /\ u.rows[i].kind = "link"
                  /\ u.rows[i].src \in DOMAIN u.rows /\ u.rows[u.rows[i].src].kind = "memory"
    <3>1. CASE i \in DOMAIN t.rows
      <4>1. i \in Wrote(t) /\ u.rows[i] = t.rows[i]
        BY <1>4, <2>3, <3>1 DEF TiesOnly
      <4> QED
        BY <2>1, <2>3, <4>1 DEF Recalls
    <3>2. CASE i \notin DOMAIN t.rows
      <4>1. u.rows[i].kind = "link" /\ u.rows[i].src = m
        BY <1>4, <2>2, <3>2 DEF TiesOnly
      <4>2. m \in DOMAIN u.rows /\ u.rows[m].kind = "memory"
        BY <2>1, <2>3
      <4> QED
        BY <2>2, <3>2, <4>1, <4>2
    <3> QED
      BY <3>1, <3>2
  <2> QED
    BY <2>4 DEF Recalls
<1> QED
  BY <1>1, <1>4, <1>5

LEMMA RememberKeeps ==
    ASSUME NEW t, NEW b, TxOK(t, b), NEW p, p.from \in SUBSET DOMAIN b, IsFiniteSet(DOMAIN b),
           p.do \in {"create", "update", "retire"},
           t.err = None => Recalls(t, b),
           t.err = None /\ p.do # "create" =>
               /\ p.on \in DOMAIN b /\ rows[p.on] = b[p.on] /\ Spared(b[p.on]) /\ b[p.on].kind = "memory"
    PROVE  LET u == Remember(t, p) IN
           TxOK(u, b) /\ Onward(u, t) /\ (u.err = None => Recalls(u, b))
<1> DEFINE u == Remember(t, p)
           text == [t.rows[p.on] EXCEPT !.text = "synthesis"]
           gone == [t.rows[p.on] EXCEPT !.live = FALSE]
           new == IF p.do = "update" THEN text ELSE gone
<1>1. u = IF t.err # None THEN t
          ELSE IF p.do = "create" THEN Supported(Insert(t, NewObject("memory", "synthesis", {})), Fresh(t), p.from)
          ELSE Supported(Put(t, "synthesis", p.on, new), p.on, p.from)
  BY DEF Remember
<1> HIDE DEF u
<1>2. CASE t.err # None
  <2>1. u = t
    BY <1>1, <1>2
  <2>2. SameTx(t, t)
    BY DEF SameTx, TxOK
  <2>3. Onward(t, t)
    BY <2>2, TxSame
  <2> QED
    BY <1>2, <2>1, <2>3 DEF u
<1>3. CASE t.err = None /\ p.do = "create"
  <2> DEFINE memory == NewObject("memory", "synthesis", {})
             m == Fresh(t)
             v == Insert(t, memory)
  <2>1. /\ RowOK(memory) /\ memory.rev = 1 /\ memory.by # "owner" /\ ~memory.guarded
        /\ memory.kind = "memory" /\ memory.kind # "link"
    BY NewRowsAreOK
  <2> HIDE DEF memory, m
  <2>2. /\ TxOK(v, b) /\ Onward(v, t)
        /\ v.err = None =>
              /\ m \notin DOMAIN t.rows
              /\ DOMAIN v.rows = DOMAIN t.rows \cup {m} /\ v.rows[m] = memory
              /\ \A i \in DOMAIN t.rows : v.rows[i] = t.rows[i]
              /\ Wrote(v) = Wrote(t) \cup {m}
    BY <2>1, InsertKeeps DEF m
  <2> HIDE DEF v
  <2>3. ASSUME v.err = None PROVE m \in DOMAIN v.rows /\ v.rows[m].kind = "memory" /\ Recalls(v, b)
    <3>1. Wrote(t) \subseteq DOMAIN t.rows /\ Recalls(t, b)
      BY <1>3 DEF TxOK
    <3> QED
      BY <2>1, <2>2, <2>3, <3>1 DEF Recalls
  <2>4. /\ TxOK(Supported(v, m, p.from), b) /\ Onward(Supported(v, m, p.from), v)
        /\ Supported(v, m, p.from).err = None => Recalls(Supported(v, m, p.from), b)
    BY <2>2, <2>3, SupportedKeeps
  <2>5. u = Supported(v, m, p.from)
    BY <1>1, <1>3 DEF v, m, memory
  <2> QED
    BY <2>2, <2>4, <2>5, OnwardStill DEF u
<1>4. CASE t.err = None /\ p.do # "create"
  <2> DEFINE m == p.on
             v == Put(t, "synthesis", m, new)
  <2>1. m \in DOMAIN b /\ rows[m] = b[m] /\ Spared(b[m]) /\ b[m].kind = "memory"
    BY <1>4
  <2>2. Writable(t, b, m) /\ RowOK(t.rows[m]) /\ t.rows[m].kind = "memory"
    BY <2>1 DEF Writable, TxOK, StoreOK, Later, Alike
  <2>3. ~t.rows[m].guarded
    BY <2>2, WritableIsUnguarded
  <2>4. /\ RowOK(text) /\ Alike(t.rows[m], text) /\ text.rev = t.rows[m].rev /\ ~text.guarded
        /\ RowOK(gone) /\ Alike(t.rows[m], gone) /\ gone.rev = t.rows[m].rev /\ ~gone.guarded
    BY <2>2, <2>3 DEF RowOK, Columns, Alike
  <2> HIDE DEF text, gone
  <2>5. RowOK(new) /\ Alike(t.rows[m], new) /\ new.rev = t.rows[m].rev /\ ~new.guarded
    BY <2>4
  <2> HIDE DEF new, m
  <2>6. TxOK(v, b) /\ Onward(v, t) /\ PutsAt(v, t, m)
    BY <2>2, <2>5, PutKeeps
  <2> HIDE DEF v
  <2>7. ASSUME v.err = None PROVE m \in DOMAIN v.rows /\ v.rows[m].kind = "memory" /\ Recalls(v, b)
    <3>1. Wrote(t) \subseteq DOMAIN t.rows /\ Recalls(t, b) /\ m \in DOMAIN t.rows
      BY <1>4, <2>2 DEF TxOK, Writable
    <3>2. /\ Wrote(v) = Wrote(t) \cup {m} /\ DOMAIN v.rows = DOMAIN t.rows
          /\ \A j \in DOMAIN t.rows \ {m} : v.rows[j] = t.rows[j]
      BY <1>4, <2>6 DEF PutsAt
    <3>3. v.rows[m].kind = "memory"
      BY <2>2, <2>6, <3>1 DEF Onward, Later, Alike
    <3> QED
      BY <3>1, <3>2, <3>3 DEF Recalls
  <2>8. /\ TxOK(Supported(v, m, p.from), b) /\ Onward(Supported(v, m, p.from), v)
        /\ Supported(v, m, p.from).err = None => Recalls(Supported(v, m, p.from), b)
    BY <2>6, <2>7, SupportedKeeps
  <2>9. u = Supported(v, m, p.from)
    BY <1>1, <1>4 DEF v, m
  <2> QED
    BY <2>6, <2>8, <2>9, OnwardStill DEF u
<1> QED
  BY <1>2, <1>3, <1>4

LEMMA AtRevisionKeeps ==
    ASSUME NEW t, DOMAIN t = TxFields, NEW revs
    PROVE  LET u == AtRevision(t, revs) IN
           /\ SameTx(u, t)
           /\ u.err = None => t.err = None /\ \A i \in DOMAIN revs : ~Moved(t, i) /\ t.rows[i].rev = revs[i]
<1> DEFINE check(i) == Check(Lock(t, i), t.rows[i].rev = revs[i], "conflict")
           why == [i \in DOMAIN revs |-> check(i).err]
           u == Reject(t, why)
<1>1. AtRevision(t, revs) = u
  BY DEF AtRevision
<1>2. DOMAIN why = DOMAIN revs /\ \A i \in DOMAIN revs : why[i] = check(i).err
  OBVIOUS
<1>3. ASSUME NEW i PROVE check(i).err = None => ~Moved(t, i) /\ t.rows[i].rev = revs[i]
  <2> DEFINE v == Lock(t, i)  ok == t.rows[i].rev = revs[i]
  <2>1. SameTx(v, t) /\ (v.err = None => ~Moved(t, i)) /\ ok \in BOOLEAN
    BY LockKeeps
  <2>2. check(i) = Check(v, ok, "conflict")
    OBVIOUS
  <2> HIDE DEF v, ok, check
  <2>3. Check(v, ok, "conflict").err = None => v.err = None /\ ok
    BY <2>1, CheckStays
  <2> QED
    BY <2>1, <2>2, <2>3 DEF ok
<1> HIDE DEF why, check
<1>4. SameTx(u, t) /\ (u.err = None => t.err = None /\ \A i \in DOMAIN why : why[i] = None)
  BY RejectKeeps
<1> QED
  BY <1>1, <1>2, <1>3, <1>4

LEMMA ReviewableKeeps ==
    ASSUME NEW w, NEW base, StoreOK(base.rows), Later(base.rows, rows), NEW batch
    PROVE  LET t == Reviewable(w, base, batch) IN
           /\ TxOK(t, base.rows) /\ Wrote(t) = {} /\ SameTx(t, Begun(base.rows))
           /\ t.err = None =>
                 /\ Unseen(w, batch)
                 /\ \A i \in DOMAIN batch.memories :
                       ~Moved(Begun(base.rows), i) /\ base.rows[i].rev = batch.memories[i]
<1> DEFINE b == base.rows
           same == \A e \in DOMAIN batch.prints : Version(base.rows, base.facts, e) = batch.prints[e]
           unseen == Unseen(w, batch)
           known == \A c \in DOMAIN batch.evidence : base.facts[c] = batch.evidence[c]
           t0 == Begun(b)
           t1 == AtRevision(t0, batch.events)
           t2 == AtRevision(t1, batch.memories)
           t3 == Check(t2, same, "conflict")
           t4 == Check(t3, unseen, "conflict")
           t5 == Check(t4, known, "conflict")
<1>1. Reviewable(w, base, batch) = t5
  BY DEF Reviewable
<1>2. same \in BOOLEAN /\ unseen \in BOOLEAN /\ known \in BOOLEAN
  BY DEF Unseen
<1> HIDE DEF same, unseen, known
<1>3. TxOK(t0, b) /\ t0.rows = b /\ Wrote(t0) = {}
  BY TxBegins DEF Begun, Wrote
<1> HIDE DEF t0
<1>4. SameTx(t1, t0)
  BY <1>3, AtRevisionKeeps DEF TxOK
<1> HIDE DEF t1
<1>5. /\ SameTx(t2, t1)
      /\ t2.err = None => \A i \in DOMAIN batch.memories : ~Moved(t1, i) /\ t1.rows[i].rev = batch.memories[i]
  BY <1>4, AtRevisionKeeps DEF SameTx
<1> HIDE DEF t2
<1>6. SameTx(t2, t0)
  BY <1>4, <1>5, SameStill
<1>7. SameTx(t3, t0) /\ (t3.err = None => t2.err = None)
  BY <1>2, <1>6, CheckStays
<1> HIDE DEF t3
<1>8. SameTx(t4, t0) /\ (t4.err = None => t3.err = None /\ unseen)
  BY <1>2, <1>7, CheckStays
<1> HIDE DEF t4
<1>9. SameTx(t5, t0) /\ (t5.err = None => t4.err = None)
  BY <1>2, <1>8, CheckStays
<1> HIDE DEF t5
<1>10. TxOK(t5, b) /\ Wrote(t5) = {}
  BY <1>3, <1>9, TxSame DEF SameTx, Wrote
<1>11. t5.err = None => /\ unseen
                        /\ \A i \in DOMAIN batch.memories : ~Moved(t0, i) /\ b[i].rev = batch.memories[i]
  BY <1>3, <1>4, <1>5, <1>7, <1>8, <1>9 DEF SameTx, Moved
<1> QED
  BY <1>1, <1>9, <1>10, <1>11 DEF unseen, t0

LEMMA SynthesisedKeeps ==
    ASSUME NEW w, NEW base, base = at[w].base, StoreOK(base.rows), Later(base.rows, rows),
           IdeasOK(at[w].batch, at[w].plan, base.rows)
    PROVE  LET t == Synthesised(w) IN
           TxOK(t, base.rows) /\ (t.err = None => Recalls(t, base.rows) /\ Unseen(w, at[w].batch))
<1> DEFINE b == base.rows  plan == at[w].plan  batch == at[w].batch  N == Len(plan)
           t0 == Reviewable(w, base, batch)
<1>1. N \in Nat
  BY SeqFacts DEF IdeasOK
<1>2. PICK f : /\ f[0] = t0 /\ Synthesised(w) = f[N]
               /\ \A n \in 1..N : f[n] = Remember(f[n - 1], plan[n])
  <2>1. PICK f : /\ f[0] = Reviewable(w, at[w].base, at[w].batch)
                 /\ \A n \in 1..Len(at[w].plan) : f[n] = Remember(f[n - 1], at[w].plan[n])
                 /\ Synthesised(w) = f[Len(at[w].plan)]
    BY <1>1, SynthesisedUnfolds
  <2> QED
    BY <2>1
<1>3. IdeasOK(batch, plan, b)
  OBVIOUS
<1> HIDE DEF b, plan, batch
<1>4. /\ TxOK(t0, b) /\ Wrote(t0) = {}
      /\ t0.err = None =>
            /\ Unseen(w, batch)
            /\ \A i \in DOMAIN batch.memories : ~Moved(Begun(b), i) /\ b[i].rev = batch.memories[i]
  <2>1. TxOK(t0, b) /\ Wrote(t0) = {}
    BY ReviewableKeeps DEF b
  <2>2. t0.err = None =>
            /\ Unseen(w, batch)
            /\ \A i \in DOMAIN batch.memories : ~Moved(Begun(b), i) /\ b[i].rev = batch.memories[i]
    BY ReviewableKeeps DEF b
  <2> QED
    BY <2>1, <2>2
<1> HIDE DEF t0
<1>5. Recalls(t0, b) /\ Onward(t0, t0)
  <2>1. SameTx(t0, t0)
    BY <1>4 DEF SameTx, TxOK
  <2> QED
    BY <1>4, <2>1, TxSame DEF Recalls
<1>6. IsFiniteSet(DOMAIN b)
  BY FS_Subset, IdsAssumption DEF StoreOK, b
<1> DEFINE kept == {n \in 0..N : TxOK(f[n], b) /\ Onward(f[n], t0) /\ (f[n].err = None => Recalls(f[n], b))}
<1>7. 0 \in kept
  BY <1>1, <1>2, <1>4, <1>5
<1>8. ASSUME NEW n \in 1..N, n - 1 \in kept PROVE n \in kept
  <2> DEFINE v == f[n - 1]  p == plan[n]
  <2>1. TxOK(v, b) /\ Onward(v, t0) /\ (v.err = None => Recalls(v, b))
    BY <1>8
  <2>2. f[n] = Remember(v, p)
    BY <1>2
  <2>3. /\ p.do \in {"create", "update", "retire"} /\ p.from = DOMAIN batch.prints /\ DOMAIN batch.prints \subseteq DOMAIN b
        /\ p.do # "create" => /\ p.on \in DOMAIN batch.memories
                              /\ b[p.on].rev = batch.memories[p.on] => Editable(b[p.on])
        /\ DOMAIN batch.memories \subseteq DOMAIN b
    BY <1>3 DEF IdeasOK, OfKind
  <2> HIDE DEF v, p
  <2>4. ASSUME v.err = None, p.do # "create"
        PROVE  p.on \in DOMAIN b /\ rows[p.on] = b[p.on] /\ Spared(b[p.on]) /\ b[p.on].kind = "memory"
    <3>1. t0.err = None
      BY <2>1, <2>4 DEF Onward
    <3>2. p.on \in DOMAIN batch.memories /\ p.on \in DOMAIN b
      BY <2>3, <2>4
    <3>3. ~Moved(Begun(b), p.on) /\ b[p.on].rev = batch.memories[p.on]
      BY <1>4, <3>1, <3>2
    <3>4. rows[p.on] = b[p.on]
      BY <3>2, <3>3 DEF Moved, Begun
    <3>5. Editable(b[p.on])
      BY <2>3, <2>4, <3>3
    <3> QED
      BY <3>2, <3>4, <3>5 DEF Editable, Spared
  <2>5. p.from \in SUBSET DOMAIN b
    BY <2>3
  <2>6. TxOK(f[n], b) /\ Onward(f[n], v) /\ (f[n].err = None => Recalls(f[n], b))
    BY <1>6, <2>1, <2>2, <2>3, <2>4, <2>5, RememberKeeps
  <2> QED
    BY <1>4, <2>1, <2>6, OnwardStill
<1>9. N \in kept
  <2> HIDE DEF kept, N
  <2>1. \A n \in 1..N : n - 1 \in kept => n \in kept
    BY <1>8
  <2>2. \A n \in 0..N : n \in kept
    BY <1>1, <1>7, <2>1, UpTo
  <2> QED
    BY <1>1, <2>2
<1>10. TxOK(f[N], b) /\ (f[N].err = None => Recalls(f[N], b) /\ t0.err = None)
  BY <1>9 DEF Onward
<1> QED
  BY <1>2, <1>4, <1>10 DEF b, batch

(********************************* undo *************************************)
\* An entry that nothing is in the way of ...
CanTakeBack(t, e) ==
    /\ Stays(e, t.rows)
    /\ Revived(e, t.rows) =>
          /\ \A o \in EndsOf(t.rows[e.on]) : t.rows[o].live
          /\ Same(t.rows, t.rows[e.on].src, t.rows[e.on].rel, t.rows[e.on].dst) \subseteq {e.on}
    /\ ~IsLink(e, t.rows) => /\ t.rows[e.on].kind \in {"memory", "event"}
                             /\ e.made => LinksOf(t.rows, e.on) = {}
\* ... is taken back; otherwise nothing is written.
TakesBack(u, t, e) ==
    IF u.err # None THEN u.rows = t.rows /\ Wrote(u) = Wrote(t)
    ELSE /\ t.err = None /\ Wrote(u) = Wrote(t) \cup {e.on}
         /\ DOMAIN u.rows = DOMAIN t.rows /\ \A j \in DOMAIN t.rows \ {e.on} : u.rows[j] = t.rows[j]
         /\ u.rows[e.on].live <=> ~e.made /\ e.was.live
         /\ CanTakeBack(t, e)

\* One entry, of a journal that tells what happened to the rows there are.
LEMMA UnwoundKeeps ==
    ASSUME NEW t, TxOK(t, rows), NEW e, EntryOK(e, rows)
    PROVE  LET u == Unwound(t, e) IN
           /\ TxOK(u, rows) /\ Onward(u, t) /\ TakesBack(u, t, e)
           /\ t.err = None /\ CanTakeBack(t, e) => u.err = None
<1> DEFINE u == Unwound(t, e)
<1>1. CASE t.err # None
  <2>1. u = t
    BY <1>1 DEF Unwound
  <2>2. SameTx(t, t)
    BY DEF SameTx, TxOK
  <2> HIDE DEF u
  <2>3. TxOK(u, rows) /\ Onward(u, t) /\ TakesBack(u, t, e)
    BY <1>1, <2>1, <2>2, TxSame DEF TakesBack
  <2> QED
    BY <1>1, <2>3 DEF u
<1>2. CASE t.err = None /\ t.rows[e.on].rev # e.rev
  <2>1. u = Fail(t, "conflict")
    BY <1>2 DEF Unwound
  <2>2. SameTx(Fail(t, "conflict"), t) /\ Fail(t, "conflict").err # None
    BY <1>2, NoneAssumption DEF Fail, SameTx, TxOK, TxFields
  <2> HIDE DEF u
  <2>3. TxOK(u, rows) /\ Onward(u, t) /\ TakesBack(u, t, e) /\ ~CanTakeBack(t, e)
    BY <1>2, <2>1, <2>2, TxSame DEF TakesBack, SameTx, Wrote, CanTakeBack, Stays
  <2> QED
    BY <2>3 DEF u
<1>3. CASE t.err = None /\ t.rows[e.on].rev = e.rev
  <2> DEFINE now == t.rows[e.on]
             back == IF e.made THEN [now EXCEPT !.live = FALSE]
                     ELSE [e.was EXCEPT !.rev = now.rev, !.guarded = now.guarded]
             ends == back.live => \A o \in {now.src, now.dst} : t.rows[o].live
             alone == back.live => Same(t.rows, back.src, back.rel, back.dst) \subseteq {e.on}
             ofKind == now.kind \in {"memory", "event"}
             bare == e.made => LinksOf(t.rows, e.on) = {}
             l1 == Check(t, ends, "conflict")
             l2 == Check(l1, alone, "database")
             o1 == Check(t, ofKind, "invalid")
             o2 == Check(o1, bare, "conflict")
             v == IF now.kind = "link" THEN l2 ELSE o2
  <2>1. u = Put(v, "dream", e.on, back)
    BY <1>3 DEF Unwound
  <2>2. ends \in BOOLEAN /\ alone \in BOOLEAN /\ ofKind \in BOOLEAN /\ bare \in BOOLEAN
    OBVIOUS
  <2>3. EntryOK(e, t.rows)
    BY EntryAges DEF TxOK
  <2>4. e.on \in DOMAIN t.rows /\ e.on \in DOMAIN rows /\ now.by # "owner" /\ ~now.guarded /\ RowOK(now)
    BY <1>3, <2>3 DEF EntryOK, TxOK, StoreOK
  <2>5. Writable(t, rows, e.on)
    BY <2>4 DEF Writable, TxOK, Spared
  <2>6. RowOK(back) /\ Alike(now, back) /\ back.rev = now.rev /\ ~back.guarded /\ (back.live <=> ~e.made /\ e.was.live)
    <3>1. CASE e.made
      BY <2>4, <3>1 DEF RowOK, Columns, Alike
    <3>2. CASE ~e.made
      <4>1. RowOK(e.was) /\ Alike(e.was, now)
        BY <2>3, <3>2 DEF EntryOK
      <4> QED
        BY <2>4, <3>2, <4>1 DEF RowOK, Columns, Alike
    <3> QED
      BY <2>3, <3>1, <3>2 DEF EntryOK
  <2>10. CanTakeBack(t, e) <=> IF now.kind = "link" THEN ends /\ alone ELSE ofKind /\ bare
    <3> DEFINE revives == back.live
    <3>1. revives <=> ~e.made /\ e.was.live
      BY <2>6
    <3>2. now.kind = "link" => back.src = now.src /\ back.rel = now.rel /\ back.dst = now.dst
      BY <2>6 DEF Alike
    <3> HIDE DEF back
    <3> QED
      BY <1>3, <3>1, <3>2 DEF CanTakeBack, Stays, Revived, IsLink, EndsOf
  <2> HIDE DEF ends, alone, ofKind, bare, back
  <2>7. SameTx(l1, t) /\ SameTx(o1, t) /\ (l1.err = None <=> ends) /\ (o1.err = None <=> ofKind)
    BY <1>3, <2>2, CheckKeeps DEF TxOK
  <2>8. SameTx(l2, t) /\ SameTx(o2, t) /\ (l2.err = None <=> ends /\ alone) /\ (o2.err = None <=> ofKind /\ bare)
    <3>1. DOMAIN l1 = TxFields /\ DOMAIN o1 = TxFields
      BY <2>7 DEF SameTx
    <3> HIDE DEF l1, o1
    <3>2. SameTx(l2, l1) /\ (l2.err = None <=> l1.err = None /\ alone)
      BY <2>2, <3>1, CheckKeeps
    <3>3. SameTx(o2, o1) /\ (o2.err = None <=> o1.err = None /\ bare)
      BY <2>2, <3>1, CheckKeeps
    <3> HIDE DEF l2, o2
    <3> QED
      BY <2>7, <3>2, <3>3 DEF SameTx
  <2> HIDE DEF l2, o2
  <2>9. SameTx(v, t) /\ (v.err = None <=> CanTakeBack(t, e))
    BY <2>8, <2>10
  <2> HIDE DEF v, u
  <2>11. TxOK(v, rows) /\ Onward(v, t) /\ v.rows = t.rows /\ Wrote(v) = Wrote(t)
    BY <2>9, TxSame DEF SameTx, Wrote
  <2>12. Writable(v, rows, e.on)
    BY <2>5, <2>11, WritableStill
  <2>13. TxOK(u, rows) /\ Onward(u, v) /\ PutsAt(u, v, e.on)
    BY <2>1, <2>6, <2>11, <2>12, PutKeeps
  <2>14. u.err = None => (u.rows[e.on].live <=> back.live)
    <3> SUFFICES ASSUME u.err = None PROVE u.rows[e.on].live <=> back.live
      OBVIOUS
    <3>1. v.err = None /\ e.on \in DOMAIN v.rows /\ RowOK(back) /\ TxOK(v, rows)
      BY <2>4, <2>6, <2>11, <2>13 DEF PutsAt
    <3>2. Journals(u, v, e.on, back)
      BY <2>1, <3>1, PutWrites
    <3> QED
      BY <3>2 DEF Journals
  <2>15. TakesBack(u, t, e)
    BY <1>3, <2>6, <2>9, <2>11, <2>13, <2>14 DEF TakesBack, PutsAt
  <2>16. Onward(u, t) /\ (CanTakeBack(t, e) => u.err = None)
    BY <2>9, <2>11, <2>13, OnwardStill DEF PutsAt
  <2> QED
    BY <2>13, <2>15, <2>16 DEF u
<1> QED
  BY <1>1, <1>2, <1>3

\* No Connection is made active beside another one like it.
LEMMA UnwoundIsWhole ==
    ASSUME NEW t, TxOK(t, rows), NEW e, EntryOK(e, rows), Whole(t.rows)
    PROVE  Whole(Unwound(t, e).rows)
<1> DEFINE u == Unwound(t, e)
<1>1. TxOK(u, rows) /\ Onward(u, t) /\ TakesBack(u, t, e)
  BY UnwoundKeeps
<1> HIDE DEF u
<1>2. CASE u.err # None
  BY <1>1, <1>2 DEF TakesBack, u
<1>3. CASE u.err = None
  <2>1. /\ DOMAIN u.rows = DOMAIN t.rows /\ \A j \in DOMAIN t.rows \ {e.on} : u.rows[j] = t.rows[j]
        /\ u.rows[e.on].live <=> ~e.made /\ e.was.live
        /\ CanTakeBack(t, e)
    BY <1>1, <1>3 DEF TakesBack
  <2>2. Links(u.rows) = Links(t.rows) /\ \A l \in Links(u.rows) : Alike(t.rows[l], u.rows[l]) /\ t.rows[l].kind = "link"
    BY <1>1, <2>1 DEF Onward, Later, Alike, Links
  <2>3. ASSUME NEW l \in Links(u.rows), NEW m \in Links(u.rows), u.rows[l].live, u.rows[m].live, Parallel(u.rows[l], u.rows[m])
        PROVE  l = m \/ l # e.on
    <3> SUFFICES ASSUME l = e.on, m # e.on PROVE FALSE
      OBVIOUS
    <3>1. Revived(e, t.rows)
      BY <2>1, <2>2, <2>3 DEF Revived, IsLink
    <3>2. m \in Same(t.rows, t.rows[e.on].src, t.rows[e.on].rel, t.rows[e.on].dst)
      BY <2>1, <2>2, <2>3 DEF Same, Parallel, Links, Alike
    <3> QED
      BY <2>1, <3>1, <3>2 DEF CanTakeBack
  <2>4. ASSUME NEW l \in Links(u.rows), NEW m \in Links(u.rows), u.rows[l].live, u.rows[m].live, Parallel(u.rows[l], u.rows[m])
        PROVE  l = m
    <3>1. Parallel(u.rows[m], u.rows[l])
      BY <2>4 DEF Parallel
    <3>2. CASE l # e.on /\ m # e.on
      BY <2>1, <2>2, <2>4, <3>2 DEF Whole, Links
    <3> QED
      BY <2>3, <2>4, <3>1, <3>2
  <2>5. \A l \in Links(u.rows) : EndsOf(u.rows[l]) \cap Links(u.rows) = {}
    BY <2>2 DEF Whole, EndsOf, Alike
  <2> QED
    BY <2>4, <2>5 DEF Whole, u
<1> QED
  BY <1>2, <1>3

\* The whole journal.
LEMMA UndoneKeeps ==
    ASSUME NEW r, StoreOK(rows), JournalOK(runs[r].log, rows)
    PROVE  TxOK(Undone(r), rows)
<1> DEFINE log == runs[r].log  N == Len(log)
<1>1. N \in Nat
  BY SeqFacts DEF JournalOK
<1>2. PICK f : /\ f[0] = Begun(rows) /\ Undone(r) = f[N]
               /\ \A n \in 1..N : f[n] = Unwound(f[n - 1], log[N + 1 - n])
  <2>1. PICK f : /\ f[0] = Begun(rows)
                 /\ \A n \in 1..Len(runs[r].log) : f[n] = Unwound(f[n - 1], runs[r].log[Len(runs[r].log) + 1 - n])
                 /\ Undone(r) = f[Len(runs[r].log)]
    BY <1>1, UndoneUnfolds
  <2> QED
    BY <2>1
<1>3. TxOK(Begun(rows), rows)
  BY TxBegins, LaterItself
<1>4. \A k \in 1..N : EntryOK(log[k], rows)
  BY DEF JournalOK
<1> DEFINE kept == {n \in 0..N : TxOK(f[n], rows)}
<1> HIDE DEF N, log
<1>5. 0 \in kept
  BY <1>1, <1>2, <1>3
<1>6. ASSUME NEW n \in 1..N, n - 1 \in kept PROVE n \in kept
  <2>1. TxOK(f[n - 1], rows) /\ f[n] = Unwound(f[n - 1], log[N + 1 - n])
    BY <1>2, <1>6
  <2>2. N + 1 - n \in 1..N
    BY <1>1
  <2>3. EntryOK(log[N + 1 - n], rows)
    BY <1>4, <2>2
  <2>4. TxOK(f[n], rows)
    BY <2>1, <2>3, UnwoundKeeps
  <2> QED
    BY <2>4
<1>7. N \in kept
  <2> HIDE DEF kept
  <2>1. \A n \in 1..N : n - 1 \in kept => n \in kept
    BY <1>6
  <2>2. \A n \in 0..N : n \in kept
    BY <1>1, <1>5, <2>1, UpTo
  <2> QED
    BY <1>1, <2>2
<1> QED
  BY <1>2, <1>7

LEMMA UndoneIsWhole ==
    ASSUME NEW r, StoreOK(rows), Whole(rows), JournalOK(runs[r].log, rows)
    PROVE  Whole(Committed(Undone(r)))
<1> DEFINE log == runs[r].log  N == Len(log)
<1>1. N \in Nat
  BY SeqFacts DEF JournalOK
<1>2. PICK f : /\ f[0] = Begun(rows) /\ Undone(r) = f[N]
               /\ \A n \in 1..N : f[n] = Unwound(f[n - 1], log[N + 1 - n])
  <2>1. PICK f : /\ f[0] = Begun(rows)
                 /\ \A n \in 1..Len(runs[r].log) : f[n] = Unwound(f[n - 1], runs[r].log[Len(runs[r].log) + 1 - n])
                 /\ Undone(r) = f[Len(runs[r].log)]
    BY <1>1, UndoneUnfolds
  <2> QED
    BY <2>1
<1>3. TxOK(Begun(rows), rows) /\ Whole(Begun(rows).rows)
  BY TxBegins, LaterItself DEF Begun
<1>4. \A k \in 1..N : EntryOK(log[k], rows)
  BY DEF JournalOK
<1> DEFINE kept == {n \in 0..N : TxOK(f[n], rows) /\ Whole(f[n].rows)}
<1> HIDE DEF N, log
<1>5. 0 \in kept
  BY <1>1, <1>2, <1>3
<1>6. ASSUME NEW n \in 1..N, n - 1 \in kept PROVE n \in kept
  <2>1. TxOK(f[n - 1], rows) /\ Whole(f[n - 1].rows) /\ f[n] = Unwound(f[n - 1], log[N + 1 - n])
    BY <1>2, <1>6
  <2>2. N + 1 - n \in 1..N
    BY <1>1
  <2>3. EntryOK(log[N + 1 - n], rows)
    BY <1>4, <2>2
  <2>4. TxOK(f[n], rows) /\ Whole(f[n].rows)
    BY <2>1, <2>3, UnwoundKeeps, UnwoundIsWhole
  <2> QED
    BY <2>4
<1>7. N \in kept
  <2> HIDE DEF kept
  <2>1. \A n \in 1..N : n - 1 \in kept => n \in kept
    BY <1>6
  <2>2. \A n \in 0..N : n \in kept
    BY <1>1, <1>5, <2>1, UpTo
  <2> QED
    BY <1>1, <2>2
<1> DEFINE t == Undone(r)  s == Committed(t)
<1>8. TxOK(t, rows) /\ Whole(t.rows)
  BY <1>2, <1>7
<1> HIDE DEF t
<1>9. DOMAIN s = DOMAIN t.rows /\ \A i \in DOMAIN s : s[i] = t.rows[i]
  BY <1>8 DEF Committed, TxOK
<1> HIDE DEF s
<1>10. Links(s) = Links(t.rows) /\ \A l \in Links(s) : s[l] = t.rows[l]
  BY <1>9 DEF Links
<1>11. Whole(s)
  BY <1>8, <1>10, WholeStill
<1> QED
  BY <1>11 DEF s, t

(************************** journals that unwind ****************************)
\* An entry tells of the last version of its row: one the transaction made, or an
\* active one of its snapshot b, written once.
Recounts(e, t, b) ==
    /\ Stays(e, t.rows)
    /\ e.made => e.on \notin DOMAIN b
    /\ ~e.made => e.on \in DOMAIN b /\ e.was = b[e.on] /\ b[e.on].live /\ e.rev = b[e.on].rev + 1
\* A transaction whose journal can be unwound: it makes no Connection active again,
\* and the index lets its new ones stand beside what others have committed.
Retraces(t, b) ==
    /\ Whole(t.rows) /\ Unwinds(t.log, t.rows)
    /\ \A k \in 1..Len(t.log) : Recounts(t.log[k], t, b)
    /\ \A l \in Links(b) : t.rows[l].live => b[l].live
    /\ \A l \in Links(t.rows) \ DOMAIN b : Same(rows, t.rows[l].src, t.rows[l].rel, t.rows[l].dst) \subseteq Wrote(t)

LEMMA RetracesSame ==
    ASSUME NEW t, NEW u, NEW b, SameTx(u, t), Retraces(t, b) PROVE Retraces(u, b)
<1>1. u.rows = t.rows /\ u.log = t.log /\ Wrote(u) = Wrote(t)
  BY DEF SameTx, Wrote
<1>2. \A e : Recounts(e, t, b) => Recounts(e, u, b)
  BY <1>1 DEF Recounts
<1> QED
  BY <1>1, <1>2 DEF Retraces

LEMMA RetracingBegins ==
    ASSUME NEW b, StoreOK(b), Whole(b) PROVE Retraces(Begun(b), b)
<1> DEFINE t == Begun(b)
<1>1. t.rows = b /\ t.log = << >> /\ Len(t.log) = 0
  BY DEF Begun
<1> HIDE DEF t
<1>2. Unwinds(t.log, t.rows) /\ \A k \in 1..Len(t.log) : Recounts(t.log[k], t, b)
  BY <1>1 DEF Unwinds
<1>3. Links(t.rows) \ DOMAIN b = {}
  BY <1>1 DEF Links
<1>4. Retraces(t, b)
  BY <1>1, <1>2, <1>3 DEF Retraces
<1> QED
  BY <1>4 DEF t

\* What a transaction wrote is in its journal.
LEMMA WroteRecounted ==
    ASSUME NEW t, NEW b, TxOK(t, b), Retraces(t, b), NEW i \in Wrote(t)
    PROVE  /\ i \in DOMAIN t.rows
           /\ \E k \in 1..Len(t.log) : t.log[k].on = i /\ Recounts(t.log[k], t, b)
           /\ i \in DOMAIN b => t.rows[i].rev = b[i].rev + 1 /\ b[i].live
<1>1. DOMAIN t.log = 1..Len(t.log)
  BY SeqFacts DEF TxOK, JournalOK
<1>2. PICK k \in 1..Len(t.log) : t.log[k].on = i
  BY <1>1 DEF Wrote
<1>3. Recounts(t.log[k], t, b)
  BY DEF Retraces
<1> QED
  BY <1>2, <1>3 DEF Recounts, Stays, TxOK

LEMMA UnwindsGrows ==
    ASSUME NEW log, IsSeq(log), NEW r, Unwinds(log, r), NEW e, r[e.on].kind \in {"memory", "event", "link"},
           \A k \in 1..Len(log) : Ordered(log[k], e, r)
    PROVE  Unwinds(Append(log, e), r)
<1> DEFINE new == Append(log, e)  N == Len(log)
<1>1. /\ N \in Nat /\ Len(new) = N + 1 /\ new[N + 1] = e
      /\ \A k \in 1..N : new[k] = log[k]
  BY SeqFacts
<1> HIDE DEF new, N
<1>2. \A k \in 1..Len(new) : k \in 1..N \/ k = N + 1
  BY <1>1
<1>3. \A k \in 1..Len(new) : r[new[k].on].kind \in {"memory", "event", "link"}
  BY <1>1, <1>2 DEF Unwinds, N
<1>4. ASSUME NEW k \in 1..Len(new), NEW j \in 1..(k - 1) PROVE Ordered(new[j], new[k], r)
  <2>1. j \in 1..N /\ new[j] = log[j]
    BY <1>1, <1>2
  <2>2. CASE k \in 1..N
    BY <1>1, <2>1, <2>2 DEF Unwinds, N
  <2>3. CASE k = N + 1
    BY <1>1, <2>1, <2>3 DEF N
  <2> QED
    BY <1>2, <2>2, <2>3
<1> QED
  BY <1>3, <1>4 DEF Unwinds, new

\* An active row of the snapshot, not written before; of a Connection, the ends
\* that were written are active.
Rewritable(t, b, i) ==
    /\ i \in DOMAIN b \ Wrote(t) /\ t.rows[i].live
    /\ t.rows[i].kind \in {"memory", "event", "link"}
    /\ t.rows[i].kind = "link" => \A o \in EndsOf(t.rows[i]) \cap Wrote(t) : t.rows[o].live

LEMMA PutRetraces ==
    ASSUME NEW t, NEW b, TxOK(t, b), Whole(b), Retraces(t, b), t.err = None, NEW who, who # "owner",
           NEW i, Rewritable(t, b, i), Writable(t, b, i), NEW new, RowOK(new), Alike(t.rows[i], new),
           new.rev = t.rows[i].rev, ~new.guarded
    PROVE  Retraces(Put(t, who, i, new), b)
<1> DEFINE e == Entry(i, FALSE, t.rows[i], t.rows[i].rev + 1)
           u == Put(t, who, i, new)
<1>1. TxOK(u, b) /\ Onward(u, t) /\ PutsAt(u, t, i)
  BY PutKeeps
<1>2. i \in DOMAIN t.rows /\ i \notin Wrote(t) /\ i \in DOMAIN b /\ t.rows[i] = b[i]
  BY DEF Rewritable, TxOK, Writable
<1>3. Journals(u, t, i, new)
  BY <1>2, PutWrites
<1>4. u.log = Append(t.log, e) /\ u.rows[i].rev = t.rows[i].rev + 1
  BY <1>3 DEF Journals
<1>5. e.on = i /\ ~e.made /\ e.made = FALSE /\ e.was = b[i] /\ e.rev = b[i].rev + 1
  BY <1>2 DEF Entry
<1> HIDE DEF u, e
<1>6. /\ DOMAIN u.rows = DOMAIN t.rows /\ Wrote(u) = Wrote(t) \cup {i}
      /\ \A j \in DOMAIN t.rows \ {i} : u.rows[j] = t.rows[j]
  BY <1>1 DEF PutsAt
<1>7. /\ StoreOK(t.rows) /\ StoreOK(u.rows) /\ Later(t.rows, u.rows) /\ StoreOK(b)
      /\ JournalOK(t.log, t.rows) /\ IsSeq(t.log) /\ Len(t.log) \in Nat /\ DOMAIN t.log = 1..Len(t.log)
  BY <1>1, SeqFacts DEF TxOK, Onward, JournalOK
<1>8. /\ Alike(t.rows[i], u.rows[i]) /\ b[i].live
      /\ Links(u.rows) = Links(t.rows) /\ \A l \in Links(t.rows) : Alike(t.rows[l], u.rows[l]) /\ t.rows[l].kind = "link"
  BY <1>2, <1>6, <1>7 DEF Later, Alike, Links, Rewritable
<1>9. Whole(u.rows)
  <2>1. \A l \in Links(u.rows) : u.rows[l].live => t.rows[l].live
    BY <1>2, <1>6, <1>8 DEF Links
  <2>2. \A l \in Links(u.rows) : u.rows[l].src = t.rows[l].src /\ u.rows[l].rel = t.rows[l].rel /\ u.rows[l].dst = t.rows[l].dst
    BY <1>8 DEF Alike
  <2>3. Whole(t.rows)
    BY DEF Retraces
  <2> QED
    BY <1>8, <2>1, <2>2, <2>3, WholeStill
<1>10. ASSUME NEW k \in 1..Len(t.log)
       PROVE  /\ Recounts(t.log[k], t, b) /\ t.log[k].on \in Wrote(t) /\ t.log[k].on \in DOMAIN t.rows \ {i}
              /\ u.rows[t.log[k].on] = t.rows[t.log[k].on]
  <2>1. t.log[k].on \in Wrote(t)
    BY <1>7 DEF Wrote
  <2> QED
    BY <1>2, <1>6, <2>1 DEF Retraces, TxOK
<1>11. Unwinds(u.log, u.rows)
  <2>1. Unwinds(t.log, u.rows)
    BY <1>7, UnwindsAges DEF Retraces
  <2>2. ASSUME NEW k \in 1..Len(t.log) PROVE Ordered(t.log[k], e, u.rows)
    <3> DEFINE d == t.log[k]
    <3>1. /\ Recounts(d, t, b) /\ d.on \in Wrote(t) /\ d.on \in DOMAIN t.rows /\ d.on # i
          /\ u.rows[d.on] = t.rows[d.on]
      BY <1>10
    <3> HIDE DEF d
    <3>2. IsLink(e, u.rows) => /\ t.rows[i].kind = "link" /\ EndsOf(u.rows[i]) = EndsOf(t.rows[i])
                               /\ EndsOf(t.rows[i]) = EndsOf(b[i]) /\ EndsOf(b[i]) \subseteq DOMAIN b
                               /\ i \in Links(b) /\ i \in Links(t.rows)
      BY <1>2, <1>5, <1>7, <1>8 DEF IsLink, EndsOf, Alike, StoreOK, Links
    <3>3. IsLink(e, u.rows) => \A r : Parallel(r, u.rows[i]) <=> Parallel(r, b[i])
      BY <1>2, <1>5, <1>8 DEF IsLink, Parallel, Alike
    <3>4. ASSUME IsLink(e, u.rows), d.on \in EndsOf(u.rows[i]) PROVE u.rows[d.on].live /\ ~d.made
      BY <3>1, <3>2, <3>4 DEF Rewritable, Recounts
    <3>5. ASSUME IsLink(d, u.rows), IsLink(e, u.rows), Parallel(u.rows[d.on], u.rows[i]) PROVE ~u.rows[d.on].live
      <4>1. d.on \in Links(t.rows) /\ i \in Links(t.rows) /\ Parallel(t.rows[d.on], t.rows[i])
        BY <1>2, <3>1, <3>2, <3>3, <3>5 DEF IsLink, Links
      <4> QED
        BY <1>2, <1>8, <3>1, <4>1 DEF Whole, Retraces
    <3>6. ASSUME Revived(d, u.rows), IsLink(e, u.rows), Parallel(u.rows[d.on], u.rows[i]) PROVE FALSE
      <4>1. IsLink(d, u.rows) /\ ~d.made /\ d.was.live
        BY <3>6 DEF Revived
      <4>2. d.on \in DOMAIN b /\ b[d.on].live /\ Alike(b[d.on], t.rows[d.on]) /\ t.rows[d.on].kind = "link"
        BY <3>1, <4>1 DEF Recounts, TxOK, Later, IsLink
      <4>3. d.on \in Links(b) /\ Parallel(b[d.on], b[i])
        BY <3>1, <3>3, <3>6, <4>2 DEF Links, Parallel, Alike
      <4> QED
        BY <1>8, <3>1, <3>2, <3>6, <4>2, <4>3 DEF Whole
    <3>7. Revived(e, u.rows) => IsLink(e, u.rows)
      BY DEF Revived
    <3>8. e.was.live
      BY <1>5, <1>8
    <3>9. Ordered(d, e, u.rows)
      BY <1>5, <3>1, <3>4, <3>5, <3>6, <3>7, <3>8 DEF Ordered
    <3> QED
      BY <3>9 DEF d
  <2>3. u.rows[e.on].kind \in {"memory", "event", "link"}
    BY <1>5, <1>8 DEF Rewritable, Alike
  <2> QED
    BY <1>4, <1>7, <2>1, <2>2, <2>3, UnwindsGrows
<1>12. \A k \in 1..Len(u.log) : Recounts(u.log[k], u, b)
  <2>1. /\ Len(u.log) = Len(t.log) + 1 /\ u.log[Len(t.log) + 1] = e
        /\ \A k \in 1..Len(t.log) : u.log[k] = t.log[k]
    BY <1>4, <1>7, SeqFacts
  <2>2. \A k \in 1..Len(u.log) : k \in 1..Len(t.log) \/ k = Len(t.log) + 1
    BY <1>7, <2>1
  <2>3. Recounts(e, u, b)
    BY <1>2, <1>4, <1>5, <1>8 DEF Recounts, Stays
  <2>4. \A k \in 1..Len(t.log) : Recounts(t.log[k], u, b)
    BY <1>10 DEF Recounts, Stays
  <2> QED
    BY <2>1, <2>2, <2>3, <2>4
<1>13. \A l \in Links(b) : u.rows[l].live => b[l].live
  BY <1>2, <1>6, <1>8 DEF Retraces, Links, TxOK
<1>14. \A l \in Links(u.rows) \ DOMAIN b : Same(rows, u.rows[l].src, u.rows[l].rel, u.rows[l].dst) \subseteq Wrote(u)
  BY <1>2, <1>6, <1>8 DEF Retraces, Links
<1> QED
  BY <1>9, <1>11, <1>12, <1>13, <1>14 DEF Retraces, u

\* A new row: an Object, or a Connection between Objects that no other one is like.
Insertable(t, new) ==
    /\ RowOK(new) /\ new.rev = 1 /\ new.by # "owner" /\ ~new.guarded
    /\ new.kind \in {"memory", "event", "link"}
    /\ new.kind = "link" =>
          /\ EndsOf(new) \subseteq DOMAIN t.rows \ Links(t.rows)
          /\ Same(t.rows, new.src, new.rel, new.dst) = {}
          /\ Same(rows, new.src, new.rel, new.dst) \subseteq Wrote(t)

LEMMA InsertRetraces ==
    ASSUME NEW t, NEW b, TxOK(t, b), Retraces(t, b), NEW new, Insertable(t, new), Insert(t, new).err = None
    PROVE  Retraces(Insert(t, new), b)
<1> DEFINE f == Fresh(t)
           e == Entry(f, TRUE, None, 1)
           u == Insert(t, new)
<1>0. /\ RowOK(new) /\ new.rev = 1 /\ new.by # "owner" /\ ~new.guarded
      /\ new.kind = "link" => new.src \in DOMAIN t.rows /\ new.dst \in DOMAIN t.rows
  BY DEF Insertable, EndsOf
<1>1. TxOK(u, b) /\ Onward(u, t)
      /\ (u.err = None => /\ t.err = None /\ f \notin DOMAIN t.rows \cup DOMAIN rows
                          /\ DOMAIN u.rows = DOMAIN t.rows \cup {f} /\ u.rows[f] = new
                          /\ \A j \in DOMAIN t.rows : u.rows[j] = t.rows[j]
                          /\ Wrote(u) = Wrote(t) \cup {f})
  BY <1>0, InsertKeeps
<1>2. u.log = Append(t.log, e)
  <2>1. t.err = None /\ Free(t) # {}
    BY <1>1, NoneAssumption DEF Insert, Fail
  <2> QED
    BY <2>1 DEF Insert, Inserted, TxOK, TxFields
<1>3. e.on = f /\ e.made /\ e.rev = 1
  BY DEF Entry
<1>4. u.err = None
  OBVIOUS
<1> HIDE DEF u, e, f
<1>5. /\ f \notin DOMAIN t.rows \cup DOMAIN rows
      /\ DOMAIN u.rows = DOMAIN t.rows \cup {f} /\ u.rows[f] = new
      /\ \A j \in DOMAIN t.rows : u.rows[j] = t.rows[j]
      /\ Wrote(u) = Wrote(t) \cup {f}
  BY <1>1, <1>4
<1>6. /\ StoreOK(t.rows) /\ StoreOK(u.rows) /\ Later(t.rows, u.rows) /\ DOMAIN b \subseteq DOMAIN t.rows
      /\ JournalOK(t.log, t.rows) /\ IsSeq(t.log) /\ Len(t.log) \in Nat /\ DOMAIN t.log = 1..Len(t.log)
  BY <1>1, SeqFacts DEF TxOK, Onward, JournalOK
<1>7. \A l \in Links(u.rows) : \/ l = f /\ new.kind = "link" /\ u.rows[l] = new
                               \/ l # f /\ l \in Links(t.rows) /\ l \in DOMAIN t.rows /\ u.rows[l] = t.rows[l]
  BY <1>5 DEF Links
<1>8. \A l \in Links(t.rows) : EndsOf(t.rows[l]) \subseteq DOMAIN t.rows
  BY <1>6 DEF StoreOK, EndsOf
<1>9. Whole(u.rows)
  <2>1. ASSUME NEW l \in Links(u.rows) PROVE EndsOf(u.rows[l]) \cap Links(u.rows) = {}
    <3>1. EndsOf(u.rows[l]) \subseteq DOMAIN t.rows /\ EndsOf(u.rows[l]) \cap Links(t.rows) = {}
      BY <1>7, <1>8 DEF Insertable, Retraces, Whole
    <3>2. \A m \in Links(u.rows) : m \in DOMAIN t.rows => m \in Links(t.rows)
      BY <1>5, <1>7
    <3> QED
      BY <3>1, <3>2
  <2>2. ASSUME NEW l \in Links(t.rows), t.rows[l].live, new.kind = "link" PROVE ~Parallel(t.rows[l], new)
    BY <2>2 DEF Insertable, Same, Parallel
  <2>3. ASSUME NEW l \in Links(u.rows), NEW m \in Links(u.rows), u.rows[l].live, u.rows[m].live, Parallel(u.rows[l], u.rows[m])
        PROVE  l = m
    <3>1. Parallel(u.rows[m], u.rows[l])
      BY <2>3 DEF Parallel
    <3>2. CASE l # f /\ m # f
      BY <1>7, <2>3, <3>2 DEF Whole, Retraces
    <3> QED
      BY <1>7, <2>2, <2>3, <3>1, <3>2
  <2> QED
    BY <2>1, <2>3 DEF Whole
<1>10. ASSUME NEW k \in 1..Len(t.log)
       PROVE  /\ Recounts(t.log[k], t, b) /\ t.log[k].on \in DOMAIN t.rows /\ t.log[k].on # f
              /\ u.rows[t.log[k].on] = t.rows[t.log[k].on]
  <2>1. t.log[k].on \in Wrote(t)
    BY <1>6 DEF Wrote
  <2> QED
    BY <1>5, <2>1 DEF Retraces, TxOK
<1>11. Unwinds(u.log, u.rows)
  <2>1. Unwinds(t.log, u.rows)
    BY <1>6, UnwindsAges DEF Retraces
  <2>2. ASSUME NEW k \in 1..Len(t.log) PROVE Ordered(t.log[k], e, u.rows)
    <3> DEFINE d == t.log[k]
    <3>1. d.on \in DOMAIN t.rows /\ d.on # f /\ u.rows[d.on] = t.rows[d.on]
      BY <1>10
    <3> HIDE DEF d
    <3>2. IsLink(d, u.rows) => f \notin EndsOf(u.rows[d.on])
      BY <1>5, <1>8, <3>1 DEF IsLink, Links
    <3>3. ~Revived(e, u.rows) /\ (Revived(d, u.rows) => IsLink(d, u.rows))
      BY <1>3 DEF Revived
    <3>4. Ordered(d, e, u.rows)
      BY <1>3, <3>1, <3>2, <3>3 DEF Ordered
    <3> QED
      BY <3>4 DEF d
  <2>3. u.rows[e.on].kind \in {"memory", "event", "link"}
    BY <1>3, <1>5 DEF Insertable
  <2> QED
    BY <1>2, <1>6, <2>1, <2>2, <2>3, UnwindsGrows
<1>12. \A k \in 1..Len(u.log) : Recounts(u.log[k], u, b)
  <2>1. /\ Len(u.log) = Len(t.log) + 1 /\ u.log[Len(t.log) + 1] = e
        /\ \A k \in 1..Len(t.log) : u.log[k] = t.log[k]
    BY <1>2, <1>6, SeqFacts
  <2>2. \A k \in 1..Len(u.log) : k \in 1..Len(t.log) \/ k = Len(t.log) + 1
    BY <1>6, <2>1
  <2>3. Recounts(e, u, b)
    BY <1>0, <1>3, <1>5, <1>6 DEF Recounts, Stays
  <2>4. \A k \in 1..Len(t.log) : Recounts(t.log[k], u, b)
    BY <1>10 DEF Recounts, Stays
  <2> QED
    BY <2>1, <2>2, <2>3, <2>4
<1>13. \A l \in Links(b) : u.rows[l].live => b[l].live
  BY <1>5, <1>6 DEF Retraces, Links
<1>14. \A l \in Links(u.rows) \ DOMAIN b : Same(rows, u.rows[l].src, u.rows[l].rel, u.rows[l].dst) \subseteq Wrote(u)
  BY <1>5, <1>7 DEF Retraces, Insertable
<1> QED
  BY <1>9, <1>11, <1>12, <1>13, <1>14 DEF Retraces, u

LEMMA ConnectedRetraces ==
    ASSUME NEW t, NEW b, TxOK(t, b), Retraces(t, b), NEW src, NEW rel, NEW dst, NEW who, who # "owner",
           {src, dst} \subseteq DOMAIN t.rows \ Links(t.rows), Connected(t, src, rel, dst, who).err = None
    PROVE  Retraces(Connected(t, src, rel, dst, who), b)
<1>1. CASE t.err # None \/ Same(t.rows, src, rel, dst) # {}
  <2>1. Connected(t, src, rel, dst, who) = t
    BY <1>1 DEF Connected
  <2> QED
    BY <2>1
<1>2. CASE ~(t.err # None \/ Same(t.rows, src, rel, dst) # {})
  <2> DEFINE ok == \A l \in Same(rows, src, rel, dst) : l \in DOMAIN t.base /\ ~Moved(t, l)
             u == Check(t, ok, "database")
             new == NewLink(src, rel, dst, who)
             v == Insert(u, new)
  <2>1. Connected(t, src, rel, dst, who) = v
    BY <1>2 DEF Connected
  <2>2. SameTx(u, t) /\ TxOK(u, b) /\ (u.err = None => ok)
    <3>1. ok \in BOOLEAN
      OBVIOUS
    <3> HIDE DEF ok
    <3>2. SameTx(u, t) /\ (u.err = None => ok)
      BY <3>1, CheckKeeps DEF TxOK
    <3> QED
      BY <3>2, TxSame
  <2>3. /\ RowOK(new) /\ new.rev = 1 /\ new.by # "owner" /\ ~new.guarded /\ new.kind = "link"
        /\ new.src = src /\ new.rel = rel /\ new.dst = dst
    BY NewRowsAreOK
  <2>4. v.err = None => u.err = None
    <3> HIDE DEF u, new
    <3>1. u.err = None /\ new.kind = "link" => new.src \in DOMAIN u.rows /\ new.dst \in DOMAIN u.rows
      BY <2>2, <2>3 DEF SameTx
    <3>2. v.err = None => u.err = None
      BY <2>2, <2>3, <3>1, InsertKeeps
    <3> QED
      BY <3>2
  <2>5. ok /\ u.rows = t.rows /\ Wrote(u) = Wrote(t) /\ t.base = b /\ v.err = None
    <3> HIDE DEF ok, u, v
    <3> QED
      BY <2>1, <2>2, <2>4 DEF SameTx, Wrote, TxOK
  <2>6. Same(rows, src, rel, dst) \subseteq Wrote(t)
    <3> SUFFICES ASSUME NEW l \in Same(rows, src, rel, dst), l \notin Wrote(t) PROVE FALSE
      OBVIOUS
    <3>1. l \in DOMAIN b /\ rows[l] = b[l] /\ t.rows[l] = b[l] /\ l \in DOMAIN t.rows
      BY <2>5 DEF Moved, TxOK
    <3>2. l \in Same(t.rows, src, rel, dst)
      BY <3>1 DEF Same, Links
    <3> QED
      BY <1>2, <3>2
  <2> HIDE DEF u, new, ok
  <2>7. Insertable(u, new)
    BY <1>2, <2>3, <2>5, <2>6 DEF Insertable, EndsOf
  <2>8. Retraces(u, b)
    BY <2>2, RetracesSame
  <2>9. Retraces(v, b)
    BY <2>2, <2>5, <2>7, <2>8, InsertRetraces
  <2> QED
    BY <2>1, <2>9
<1> QED
  BY <1>1, <1>2

\* In a review, what a transaction archived has lost its Connections before.
Unravels(t, b) == Retraces(t, b) /\ \A o \in Wrote(t) : ~t.rows[o].live => LinksOf(t.rows, o) = {}
\* The snapshot has the versions that the plan was made for.
Current(batch, b) ==
    /\ \A m \in DOMAIN batch.memories : b[m].rev = batch.memories[m].rev /\ b[m].kind = "memory"
    /\ \A l \in DOMAIN batch.links : b[l].rev = batch.links[l]
    /\ DOMAIN batch.targets \cap Links(b) = {}
Allows(u, b, i) == u.err = None /\ TxOK(u, b) /\ Unravels(u, b) /\ Writable(u, b, i) /\ Rewritable(u, b, i)

LEMMA UnravelsSame ==
    ASSUME NEW t, NEW u, NEW b, SameTx(u, t), Unravels(t, b) PROVE Unravels(u, b)
<1>1. Retraces(u, b)
  BY RetracesSame DEF Unravels
<1>2. u.rows = t.rows /\ Wrote(u) = Wrote(t)
  BY DEF SameTx, Wrote
<1> QED
  BY <1>1, <1>2 DEF Unravels

LEMMA FirstVersion ==
    ASSUME NEW t, NEW b, TxOK(t, b), Retraces(t, b), NEW i \in DOMAIN b, t.rows[i].rev = b[i].rev
    PROVE  i \notin Wrote(t)
<1> SUFFICES ASSUME i \in Wrote(t) PROVE FALSE
  OBVIOUS
<1>1. t.rows[i].rev = b[i].rev + 1
  BY WroteRecounted
<1>2. b[i].rev \in Nat
  BY DEF TxOK, StoreOK, RowOK
<1> QED
  BY <1>1, <1>2

LEMMA LockMemoryUnravels ==
    ASSUME NEW t, NEW b, TxOK(t, b), Unravels(t, b), NEW batch, BatchIn(batch, b), Current(batch, b),
           NEW m, LockMemory(t, batch, m).err = None
    PROVE  LET u == LockMemory(t, batch, m) IN
           Allows(u, b, m) /\ SameTx(u, t) /\ m \in DOMAIN u.rows \ Links(u.rows) /\ t.err = None
<1> DEFINE u == LockMemory(t, batch, m)
<1>1. /\ SameTx(u, t)
      /\ t.err = None /\ m \in DOMAIN batch.memories
      /\ Eligible(t.rows[m]) /\ t.rows[m].rev = batch.memories[m].rev
  BY LockMemoryKeeps DEF TxOK
<1>2. TxOK(u, b) /\ (u.err = None => Writable(u, b, m))
  BY LockMemoryAllows
<1>3. u.err = None
  OBVIOUS
<1> HIDE DEF u
<1>4. Unravels(u, b)
  BY <1>1, UnravelsSame
<1>5. m \in DOMAIN b /\ t.rows[m].rev = b[m].rev /\ t.rows[m].kind = "memory" /\ t.rows[m].live
  BY <1>1, EligibleIsSpared DEF BatchIn, Current
<1>6. m \notin Wrote(t) /\ m \in DOMAIN t.rows
  BY <1>5, FirstVersion DEF Unravels, TxOK
<1>7. u.rows = t.rows /\ Wrote(u) = Wrote(t)
  BY <1>1 DEF SameTx, Wrote
<1>8. Allows(u, b, m)
  BY <1>2, <1>3, <1>4, <1>5, <1>6, <1>7 DEF Allows, Rewritable
<1> QED
  BY <1>1, <1>5, <1>6, <1>7, <1>8 DEF u, Links

LEMMA LockLinkUnravels ==
    ASSUME NEW t, NEW b, TxOK(t, b), Unravels(t, b), NEW batch, BatchIn(batch, b), Current(batch, b),
           NEW l, LockLink(t, batch, l).err = None
    PROVE  LET u == LockLink(t, batch, l) IN Allows(u, b, l) /\ SameTx(u, t) /\ l \in Links(u.rows) /\ t.err = None
<1> DEFINE u == LockLink(t, batch, l)
<1>1. /\ SameTx(u, t)
      /\ t.err = None /\ l \in DOMAIN batch.links /\ t.rows[l].live /\ t.rows[l].rev = batch.links[l]
  BY LockLinkKeeps DEF TxOK
<1>2. TxOK(u, b) /\ (u.err = None => Writable(u, b, l))
  BY LockLinkAllows
<1>3. u.err = None
  OBVIOUS
<1> HIDE DEF u
<1>4. Unravels(u, b)
  BY <1>1, UnravelsSame
<1>5. l \in Links(b) /\ l \in DOMAIN b /\ t.rows[l].rev = b[l].rev
  BY <1>1 DEF BatchIn, Current, Links
<1>6. l \notin Wrote(t) /\ l \in DOMAIN t.rows /\ t.rows[l].kind = "link" /\ l \in Links(t.rows)
  BY <1>5, FirstVersion DEF Unravels, TxOK, Links
<1>7. u.rows = t.rows /\ Wrote(u) = Wrote(t)
  BY <1>1 DEF SameTx, Wrote
<1>8. ASSUME NEW o \in EndsOf(t.rows[l]) \cap Wrote(t) PROVE t.rows[o].live
  <2>1. l \in LinksOf(t.rows, o)
    BY <1>1, <1>6, <1>8 DEF LinksOf, EndsOf
  <2> QED
    BY <1>8, <2>1 DEF Unravels
<1>9. Allows(u, b, l)
  BY <1>1, <1>2, <1>3, <1>4, <1>5, <1>6, <1>7, <1>8 DEF Allows, Rewritable
<1> QED
  BY <1>1, <1>6, <1>7, <1>9 DEF u

LEMMA PutUnravels ==
    ASSUME NEW t, NEW b, Whole(b), NEW i, Allows(t, b, i), NEW new, RowOK(new), Alike(t.rows[i], new),
           new.rev = t.rows[i].rev, ~new.guarded,
           new.live \/ t.rows[i].kind = "link" \/ LinksOf(t.rows, i) = {}
    PROVE  Unravels(Put(t, "dream", i, new), b)
<1> DEFINE u == Put(t, "dream", i, new)
<1>1. t.err = None /\ TxOK(t, b) /\ Writable(t, b, i) /\ Rewritable(t, b, i) /\ Retraces(t, b) /\ i \in DOMAIN t.rows
  BY DEF Allows, Unravels, Writable
<1>2. Retraces(u, b)
  BY <1>1, PutRetraces
<1>3. Onward(u, t) /\ PutsAt(u, t, i) /\ TxOK(u, b)
  BY <1>1, PutKeeps
<1>4. Journals(u, t, i, new)
  BY <1>1, PutWrites
<1> HIDE DEF u
<1>5. /\ DOMAIN u.rows = DOMAIN t.rows /\ Wrote(u) = Wrote(t) \cup {i} /\ (u.rows[i].live = new.live)
      /\ \A j \in DOMAIN t.rows \ {i} : u.rows[j] = t.rows[j]
  BY <1>1, <1>3, <1>4 DEF PutsAt, Journals
<1>6. \A l \in Links(u.rows) : l \in Links(t.rows) /\ l \in DOMAIN t.rows /\ Alike(t.rows[l], u.rows[l]) /\ t.rows[l].kind = "link"
  BY <1>3, <1>5 DEF Onward, Later, Alike, Links
<1>7. \A o : LinksOf(u.rows, o) \subseteq LinksOf(t.rows, o)
  <2> SUFFICES ASSUME NEW o, NEW l \in LinksOf(u.rows, o) PROVE l \in LinksOf(t.rows, o)
    OBVIOUS
  <2>1. l \in Links(u.rows) /\ u.rows[l].live /\ o \in {u.rows[l].src, u.rows[l].dst}
    BY DEF LinksOf
  <2>2. l \in Links(t.rows) /\ o \in {t.rows[l].src, t.rows[l].dst}
    BY <1>6, <2>1 DEF Alike
  <2>3. t.rows[l].live
    BY <1>1, <1>5, <1>6, <2>1 DEF Rewritable
  <2> QED
    BY <2>2, <2>3 DEF LinksOf
<1>8. ASSUME NEW o \in Wrote(u), ~u.rows[o].live PROVE LinksOf(u.rows, o) = {}
  <2>1. CASE o # i
    <3>1. o \in Wrote(t) /\ o \in DOMAIN t.rows
      BY <1>1, <1>5, <1>8, <2>1 DEF TxOK
    <3>2. ~t.rows[o].live
      BY <1>5, <1>8, <2>1, <3>1
    <3>3. LinksOf(t.rows, o) = {}
      BY <3>1, <3>2 DEF Allows, Unravels
    <3> QED
      BY <1>7, <3>3
  <2>2. CASE o = i /\ t.rows[i].kind = "link"
    <3>1. i \in Links(u.rows)
      BY <1>1, <1>3, <1>5, <2>2 DEF Onward, Later, Alike, Links
    <3> QED
      BY <1>2, <2>2, <3>1 DEF Retraces, Whole, LinksOf, EndsOf
  <2>3. CASE o = i /\ t.rows[i].kind # "link"
    BY <1>5, <1>7, <1>8, <2>3
  <2> QED
    BY <2>1, <2>2, <2>3
<1>9. Unravels(u, b)
  BY <1>2, <1>8 DEF Unravels
<1> QED
  BY <1>9 DEF u

LEMMA ArchiveUnravels ==
    ASSUME NEW t, NEW b, Whole(b), NEW i, Allows(t, b, i), t.rows[i].kind = "link" \/ LinksOf(t.rows, i) = {}
    PROVE  /\ Unravels(Archive(t, i), b)
           /\ t.rows[i].kind = "link" => \A o : LinksOf(Archive(t, i).rows, o) \subseteq LinksOf(t.rows, o) \ {i}
<1> DEFINE new == [t.rows[i] EXCEPT !.live = FALSE]
           u == Put(t, "dream", i, new)
<1>1. t.err = None /\ TxOK(t, b) /\ Writable(t, b, i) /\ i \in DOMAIN t.rows /\ RowOK(t.rows[i])
  BY DEF Allows, Writable, TxOK, StoreOK
<1>2. ~t.rows[i].guarded
  BY <1>1, WritableIsUnguarded
<1>3. RowOK(new) /\ Alike(t.rows[i], new) /\ new.rev = t.rows[i].rev /\ ~new.guarded /\ ~new.live
  BY <1>1, <1>2 DEF RowOK, Columns, Alike
<1>4. Archive(t, i) = u
  BY DEF Archive
<1> HIDE DEF new
<1>5. Unravels(u, b)
  BY <1>3, PutUnravels
<1>6. Onward(u, t) /\ PutsAt(u, t, i)
  BY <1>1, <1>3, PutKeeps
<1>7. Journals(u, t, i, new)
  BY <1>1, <1>3, PutWrites
<1> HIDE DEF u
<1>8. ~u.rows[i].live
  BY <1>3, <1>7 DEF Journals
<1>9. \A l \in Links(u.rows) : l \in Links(t.rows) /\ Alike(t.rows[l], u.rows[l]) /\ (l # i => u.rows[l] = t.rows[l])
  BY <1>1, <1>6 DEF Onward, Later, Alike, Links, PutsAt
<1>10. \A o : LinksOf(u.rows, o) \subseteq LinksOf(t.rows, o) \ {i}
  BY <1>8, <1>9 DEF LinksOf
<1> QED
  BY <1>4, <1>5, <1>10

LEMMA RewrittenUnravels ==
    ASSUME NEW t, NEW b, Whole(b), NEW i, Allows(t, b, i) PROVE Unravels(Rewritten(t, i), b)
<1> DEFINE new == [t.rows[i] EXCEPT !.text = "dream"]
<1>1. t.err = None /\ TxOK(t, b) /\ Writable(t, b, i) /\ i \in DOMAIN t.rows /\ RowOK(t.rows[i]) /\ t.rows[i].live
  BY DEF Allows, Writable, TxOK, StoreOK, Rewritable
<1>2. ~t.rows[i].guarded
  BY <1>1, WritableIsUnguarded
<1>3. RowOK(new) /\ Alike(t.rows[i], new) /\ new.rev = t.rows[i].rev /\ ~new.guarded /\ new.live
  BY <1>1, <1>2 DEF RowOK, Columns, Alike
<1>4. Rewritten(t, i) = Put(t, "dream", i, new)
  BY DEF Rewritten
<1> HIDE DEF new
<1>5. Unravels(Put(t, "dream", i, new), b)
  BY <1>3, PutUnravels
<1> QED
  BY <1>4, <1>5

\* An edge between active Objects: it is all that is new.
Edges(u, t, src, dst) ==
    /\ \A i \in DOMAIN t.rows : i \in DOMAIN u.rows /\ u.rows[i] = t.rows[i]
    /\ \A i \in DOMAIN u.rows \ DOMAIN t.rows : u.rows[i].kind = "link" /\ EndsOf(u.rows[i]) = {src, dst} /\ u.rows[i].live
    /\ \A i \in Wrote(u) : i \in Wrote(t) \/ i \notin DOMAIN t.rows

LEMMA AddEdgeUnravels ==
    ASSUME NEW t, NEW b, TxOK(t, b), Unravels(t, b), NEW src, NEW rel, NEW dst,
           {src, dst} \subseteq DOMAIN t.rows \ Links(t.rows), AddEdge(t, src, rel, dst).err = None
    PROVE  LET u == AddEdge(t, src, rel, dst) IN Unravels(u, b) /\ Edges(u, t, src, dst)
<1> DEFINE open == t.rows[src].live /\ t.rows[dst].live
           apart == src # dst
           t1 == Check(t, apart, "invalid")
           t2 == Lock(t1, src)
           t3 == Lock(t2, dst)
           t4 == Check(t3, open, "conflict")
           u == Connected(t4, src, rel, dst, "dream")
<1>0. u = AddEdge(t, src, rel, dst)
  BY DEF AddEdge
<1>1. open \in BOOLEAN /\ apart \in BOOLEAN
  OBVIOUS
<1> HIDE DEF open, apart
<1>2. SameTx(t1, t)
  BY <1>1, CheckKeeps DEF TxOK
<1> HIDE DEF t1
<1>3. SameTx(t2, t)
  BY <1>2, LockStays
<1> HIDE DEF t2
<1>4. SameTx(t3, t)
  BY <1>3, LockStays
<1> HIDE DEF t3
<1>5. SameTx(t4, t) /\ (t4.err = None => open)
  BY <1>1, <1>4, CheckStays
<1> HIDE DEF t4
<1>6. TxOK(t4, b) /\ Retraces(t4, b) /\ t4.rows = t.rows /\ Wrote(t4) = Wrote(t)
  BY <1>5, TxSame, RetracesSame DEF SameTx, Wrote, Unravels
<1>7. /\ TxOK(u, b) /\ Onward(u, t4) /\ TiesOnly(u, t4, src)
      /\ \A i \in DOMAIN u.rows \ DOMAIN t4.rows : u.rows[i] = NewLink(src, rel, dst, "dream")
  BY <1>6, ConnectedKeeps
<1>8. Retraces(u, b)
  BY <1>0, <1>6, ConnectedRetraces
<1>9. u.err = None
  BY <1>0
<1> HIDE DEF u
<1>10. t.rows[src].live /\ t.rows[dst].live
  BY <1>5, <1>7, <1>9 DEF Onward, open
<1>11. Edges(u, t, src, dst)
  <2>1. \A i \in DOMAIN u.rows \ DOMAIN t.rows : u.rows[i].kind = "link" /\ EndsOf(u.rows[i]) = {src, dst} /\ u.rows[i].live
    BY <1>6, <1>7, NewRowsAreOK DEF EndsOf
  <2> QED
    BY <1>6, <1>7, <2>1 DEF Edges, TiesOnly
<1>12. ASSUME NEW o \in Wrote(u), ~u.rows[o].live PROVE LinksOf(u.rows, o) = {}
  <2>0. o \in DOMAIN u.rows
    BY <1>7, <1>12 DEF TxOK
  <2>1. o \in DOMAIN t.rows /\ o \in Wrote(t) /\ ~t.rows[o].live
    BY <1>11, <1>12, <2>0 DEF Edges
  <2>2. LinksOf(t.rows, o) = {}
    BY <2>1 DEF Unravels
  <2>3. o \notin {src, dst}
    BY <1>10, <2>1
  <2> SUFFICES ASSUME NEW l \in LinksOf(u.rows, o) PROVE FALSE
    OBVIOUS
  <2>4. l \in DOMAIN u.rows /\ u.rows[l].kind = "link" /\ u.rows[l].live /\ o \in EndsOf(u.rows[l])
    BY DEF LinksOf, Links, EndsOf
  <2>5. l \in DOMAIN t.rows /\ u.rows[l] = t.rows[l]
    BY <1>11, <2>3, <2>4 DEF Edges
  <2>6. l \in LinksOf(t.rows, o)
    BY <2>4, <2>5 DEF LinksOf, Links, EndsOf
  <2> QED
    BY <2>2, <2>6
<1>13. Unravels(u, b)
  BY <1>8, <1>12 DEF Unravels
<1> QED
  BY <1>0, <1>11, <1>13

\* Nothing that was there changes, and what is new has no end at m.
Avoids(u, t, m) ==
    /\ \A i \in DOMAIN t.rows : i \in DOMAIN u.rows /\ u.rows[i] = t.rows[i]
    /\ \A i \in DOMAIN u.rows \ DOMAIN t.rows : u.rows[i].kind = "link" /\ m \notin EndsOf(u.rows[i])
    /\ \A i \in Wrote(u) : i \in Wrote(t) \/ i \notin DOMAIN t.rows
\* The Connection l of m is gone, and no other came.
Loses(u, t, m, l) ==
    /\ LinksOf(u.rows, m) \subseteq LinksOf(t.rows, m) \ {l}
    /\ m \in DOMAIN u.rows \ Links(u.rows) /\ u.rows[m] = t.rows[m]
    /\ m \in Wrote(u) => m \in Wrote(t)

LEMMA AllowsStill ==
    ASSUME NEW t, NEW u, NEW b, NEW i, Allows(t, b, i), TxOK(u, b), Onward(u, t), u.err = None, Unravels(u, b),
           NEW m, Avoids(u, t, m)
    PROVE  Allows(u, b, i)
<1>1. Writable(u, b, i)
  BY WritableStill DEF Allows
<1>2. /\ i \in DOMAIN b \ Wrote(t) /\ t.rows[i].live /\ t.rows[i].kind \in {"memory", "event", "link"}
      /\ t.rows[i].kind = "link" => \A o \in EndsOf(t.rows[i]) \cap Wrote(t) : t.rows[o].live
  BY DEF Allows, Rewritable
<1>3. i \in DOMAIN t.rows /\ i \notin Wrote(u) /\ u.rows[i] = t.rows[i]
  BY <1>2 DEF Avoids, Allows, TxOK
<1>4. ASSUME t.rows[i].kind = "link", NEW o \in EndsOf(t.rows[i]) \cap Wrote(u) PROVE u.rows[o].live
  <2>1. o \in DOMAIN t.rows
    BY <1>3, <1>4 DEF Allows, TxOK, StoreOK, Links, EndsOf
  <2> QED
    BY <1>2, <1>4, <2>1 DEF Avoids
<1> QED
  BY <1>1, <1>2, <1>3, <1>4 DEF Allows, Rewritable

LEMMA TransferredUnravels ==
    ASSUME NEW t, NEW b, TxOK(t, b), Unravels(t, b), NEW m, NEW into, NEW l \in Links(t.rows),
           into # None => into \in DOMAIN t.rows \ Links(t.rows) /\ into # m,
           Transferred(t, l, m, into).err = None
    PROVE  Unravels(Transferred(t, l, m, into), b) /\ Avoids(Transferred(t, l, m, into), t, m)
<1> DEFINE src == Redirect(t.rows[l].src, m, into)  dst == Redirect(t.rows[l].dst, m, into)
           u == Transferred(t, l, m, into)
<1>1. CASE into = None \/ src = dst
  <2>1. u = t
    BY <1>1 DEF Transferred
  <2>2. Avoids(t, t, m)
    BY DEF Avoids
  <2> QED
    BY <2>1, <2>2
<1>2. CASE ~(into = None \/ src = dst)
  <2>1. u = AddEdge(t, src, t.rows[l].rel, dst)
    BY <1>2 DEF Transferred
  <2>2. {src, dst} \subseteq DOMAIN t.rows \ Links(t.rows) /\ m \notin {src, dst}
    <3>1. {t.rows[l].src, t.rows[l].dst} \subseteq DOMAIN t.rows \ Links(t.rows)
      BY DEF TxOK, StoreOK, Unravels, Retraces, Whole, EndsOf
    <3> QED
      BY <1>2, <3>1 DEF Redirect
  <2>3. u.err = None
    OBVIOUS
  <2> HIDE DEF src, dst, u
  <2>4. Unravels(u, b) /\ Edges(u, t, src, dst)
    BY <2>1, <2>2, <2>3, AddEdgeUnravels
  <2>5. Avoids(u, t, m)
    BY <2>2, <2>4 DEF Edges, Avoids
  <2> QED
    BY <2>4, <2>5 DEF u
<1> QED
  BY <1>1, <1>2

LEMMA ErrOfPut == ASSUME NEW t, DOMAIN t = TxFields, NEW who, NEW i, NEW new PROVE Put(t, who, i, new).err = t.err
  BY DEF Put, TxFields

LEMMA MovesUnravels ==
    ASSUME NEW t, NEW b, Whole(b), TxOK(t, b), Unravels(t, b), NEW batch, BatchIn(batch, b), Current(batch, b),
           NEW m \in DOMAIN t.rows \ Links(t.rows), NEW into, NEW l \in Links(t.rows),
           into # None => into \in DOMAIN t.rows \ Links(t.rows) /\ into # m,
           Moves(t, batch, l, m, into).err = None
    PROVE  Unravels(Moves(t, batch, l, m, into), b) /\ Loses(Moves(t, batch, l, m, into), t, m, l)
<1> DEFINE t1 == LockLink(t, batch, l)
           t2 == Transferred(t1, l, m, into)
           t3 == Archive(t2, l)
<1>0. t3 = Moves(t, batch, l, m, into)
  BY DEF Moves
<1>1. SameTx(t1, t)
  BY LockLinkKeeps DEF TxOK
<1>2. TxOK(t1, b) /\ t1.rows = t.rows /\ Wrote(t1) = Wrote(t)
  BY <1>1, TxSame DEF SameTx, Wrote
<1>3. TxOK(t2, b) /\ Onward(t2, t1)
  <2> HIDE DEF t1
  <2>1. t1.err = None => l \in Links(t1.rows) /\ (into # None => into \in DOMAIN t1.rows)
    BY <1>2
  <2> QED
    BY <1>2, <2>1, TransferredKeeps
<1>4. t3.err = t2.err
  <2> HIDE DEF t2
  <2> QED
    BY <1>3, ErrOfPut DEF Archive, TxOK
<1>5. t3.err = None
  BY <1>0
<1>6. t2.err = None /\ t1.err = None
  <2> HIDE DEF t1, t2, t3
  <2> QED
    BY <1>3, <1>4, <1>5 DEF Onward
<1>7. Allows(t1, b, l) /\ Unravels(t1, b)
  <2>1. Allows(t1, b, l)
    BY <1>6, LockLinkUnravels
  <2> QED
    BY <2>1 DEF Allows
<1> HIDE DEF t1
<1>8. Unravels(t2, b) /\ Avoids(t2, t1, m)
  BY <1>2, <1>6, <1>7, TransferredUnravels
<1> HIDE DEF t2
<1>9. Allows(t2, b, l)
  BY <1>3, <1>6, <1>7, <1>8, AllowsStill
<1>10. l \in DOMAIN t.rows /\ t2.rows[l] = t.rows[l] /\ t2.rows[l].kind = "link"
  BY <1>2, <1>8 DEF Avoids, Links
<1>11. Unravels(t3, b) /\ \A o : LinksOf(t3.rows, o) \subseteq LinksOf(t2.rows, o) \ {l}
  BY <1>9, <1>10, ArchiveUnravels
<1>12. PutsAt(t3, t2, l) /\ Onward(t3, t2)
  BY <1>3, <1>9, ArchiveKeeps DEF Allows
<1> HIDE DEF t3
<1>13. LinksOf(t2.rows, m) \subseteq LinksOf(t.rows, m)
  BY <1>2, <1>8 DEF LinksOf, Links, Avoids, EndsOf
<1>14. m # l /\ m \in DOMAIN t3.rows \ Links(t3.rows) /\ t3.rows[m] = t.rows[m]
  BY <1>2, <1>6, <1>8, <1>12 DEF Avoids, PutsAt, Links
<1>15. m \in Wrote(t3) => m \in Wrote(t)
  BY <1>2, <1>6, <1>8, <1>12, <1>14 DEF Avoids, PutsAt
<1>16. Loses(t3, t, m, l)
  BY <1>11, <1>13, <1>14, <1>15 DEF Loses
<1> QED
  BY <1>0, <1>11, <1>16

\* What is left of a Memory that is being retired: it, and the rest of its Connections.
Remains(u, t, b, m, rest) ==
    /\ Unravels(u, b) /\ LinksOf(u.rows, m) \subseteq rest
    /\ m \in DOMAIN u.rows \ Links(u.rows) /\ u.rows[m] = t.rows[m] /\ m \notin Wrote(u)

LEMMA RetiredUnravels ==
    ASSUME NEW t, NEW b, Whole(b), NEW m, Allows(t, b, m), m \in DOMAIN t.rows \ Links(t.rows),
           NEW batch, BatchIn(batch, b), Current(batch, b),
           NEW into, into # None => into \in DOMAIN t.rows \ Links(t.rows) /\ into # m,
           Retired(t, batch, m, into).err = None
    PROVE  Unravels(Retired(t, batch, m, into), b)
<1> DEFINE links == LinksOf(t.rows, m)  s == SetToSeq(links)  N == Len(s)
           u == Retired(t, batch, m, into)
<1>0. TxOK(t, b) /\ Unravels(t, b) /\ t.err = None /\ u.err = None
  BY DEF Allows
<1>1. links \subseteq Links(t.rows) /\ IsFiniteSet(links)
  <2>1. links \subseteq Links(t.rows) /\ links \in SUBSET Ids
    BY <1>0 DEF LinksOf, Links, TxOK, StoreOK
  <2> HIDE DEF links
  <2> QED
    BY <2>1, FS_Subset, IdsAssumption
<1>2. s \in Seq(links) /\ N \in Nat /\ \A l \in links : \E n \in 1..N : s[n] = l
  <2> HIDE DEF links
  <2> QED
    BY <1>1, OrderOfSet
<1>3. PICK f : /\ f[0] = t /\ u = Archive(f[N], m)
               /\ \A n \in 1..N : f[n] = Moves(f[n - 1], batch, s[n], m, into)
  BY <1>2, RetiredUnfolds
<1> DEFINE rest(n) == {s[k] : k \in (n + 1)..N}
           kept == {n \in 0..N : /\ TxOK(f[n], b) /\ Onward(f[n], t)
                                 /\ f[n].err = None => Remains(f[n], t, b, m, rest(n))}
<1>4. \A n \in 1..N : s[n] \in Links(t.rows)
  BY <1>1, <1>2
<1>5. links \subseteq rest(0)
  <2> HIDE DEF links, s, N
  <2>1. \A n \in 1..N : n \in (0 + 1)..N
    BY <1>2
  <2> QED
    BY <1>2, <2>1
<1>6. LinksOf(t.rows, m) = links
  OBVIOUS
<1> HIDE DEF links, s, N, u, rest
<1>7. 0 \in kept
  <2>1. SameTx(t, t)
    BY <1>0 DEF SameTx, TxOK
  <2>2. Onward(t, t)
    BY <1>0, <2>1, TxSame
  <2>3. m \notin Wrote(t)
    BY DEF Allows, Rewritable
  <2>4. Remains(t, t, b, m, rest(0))
    BY <1>0, <1>5, <1>6, <2>3 DEF Remains
  <2> QED
    BY <1>0, <1>2, <1>3, <2>2, <2>4
<1>8. ASSUME NEW n \in 1..N, n - 1 \in kept PROVE n \in kept
  <2> DEFINE v == f[n - 1]
  <2>1. TxOK(v, b) /\ Onward(v, t) /\ (v.err = None => Remains(v, t, b, m, rest(n - 1)))
    BY <1>8
  <2>2. f[n] = Moves(v, batch, s[n], m, into) /\ s[n] \in Links(t.rows)
    BY <1>3, <1>4
  <2> HIDE DEF v
  <2>3. /\ s[n] \in Links(v.rows)
        /\ into # None => into \in DOMAIN v.rows \ Links(v.rows) /\ into # m
    BY <2>1, <2>2 DEF Onward, Links, Later, Alike
  <2>4. TxOK(f[n], b) /\ Onward(f[n], v)
    BY <2>1, <2>2, <2>3, MovesKeeps
  <2>5. ASSUME f[n].err = None PROVE Remains(f[n], t, b, m, rest(n))
    <3>1. v.err = None
      BY <2>4, <2>5 DEF Onward
    <3>2. Remains(v, t, b, m, rest(n - 1))
      BY <2>1, <3>1
    <3>3. Unravels(v, b) /\ m \in DOMAIN v.rows \ Links(v.rows)
      BY <3>2 DEF Remains
    <3>4. Unravels(f[n], b) /\ Loses(f[n], v, m, s[n])
      BY <2>1, <2>2, <2>3, <2>5, <3>3, MovesUnravels
    <3>5. rest(n - 1) \ {s[n]} \subseteq rest(n)
      <4>1. \A k \in ((n - 1) + 1)..N : k = n \/ k \in (n + 1)..N
        BY <1>2
      <4> QED
        BY <4>1 DEF rest
    <3> QED
      BY <3>2, <3>4, <3>5 DEF Remains, Loses
  <2>6. Onward(f[n], t)
    BY <1>0, <2>1, <2>4, OnwardStill
  <2> QED
    BY <2>4, <2>5, <2>6
<1>9. N \in kept
  <2> HIDE DEF kept
  <2>1. \A n \in 1..N : n - 1 \in kept => n \in kept
    BY <1>8
  <2>2. \A n \in 0..N : n \in kept
    BY <1>2, <1>7, <2>1, UpTo
  <2> QED
    BY <1>2, <2>2
<1> DEFINE v == f[N]
<1>10. TxOK(v, b) /\ Onward(v, t) /\ u = Archive(v, m) /\ (v.err = None => Remains(v, t, b, m, rest(N)))
  BY <1>3, <1>9
<1> HIDE DEF v
<1>11. rest(N) = {}
  <2>1. (N + 1)..N = {}
    BY <1>2
  <2> QED
    BY <2>1 DEF rest
<1>12. v.err = None
  BY <1>0, <1>10, ErrOfPut DEF Archive, TxOK
<1>13. /\ Unravels(v, b) /\ LinksOf(v.rows, m) = {} /\ m \in DOMAIN v.rows \ Links(v.rows)
       /\ v.rows[m] = t.rows[m] /\ m \notin Wrote(v)
  BY <1>10, <1>11, <1>12 DEF Remains
<1>14. Writable(v, b, m)
  BY <1>10, WritableStill DEF Allows
<1>15. Rewritable(v, b, m)
  BY <1>13 DEF Allows, Rewritable, Links
<1>16. Allows(v, b, m)
  BY <1>10, <1>12, <1>13, <1>14, <1>15 DEF Allows
<1>17. Unravels(Archive(v, m), b)
  BY <1>13, <1>16, ArchiveUnravels
<1> QED
  BY <1>10, <1>17 DEF u

LEMMA RewriteUnravels ==
    ASSUME NEW t, NEW b, Whole(b), TxOK(t, b), Unravels(t, b), NEW batch, BatchIn(batch, b), Current(batch, b),
           NEW c, Rewrite(t, batch, c).err = None
    PROVE  Unravels(Rewrite(t, batch, c), b)
<1> DEFINE t1 == Touch(t, {c.on})
           t2 == LockMemory(t1, batch, c.on)
           u == Rewritten(t2, c.on)
<1>1. SameTx(t1, t)
  BY TouchKeeps DEF TxOK
<1>2. TxOK(t1, b) /\ Unravels(t1, b)
  BY <1>1, TxSame, UnravelsSame
<1> HIDE DEF t1
<1>3. TxOK(t2, b)
  BY <1>2, LockMemoryAllows
<1>4. u = Rewrite(t, batch, c)
  BY DEF t1, Rewrite
<1>5. u.err = t2.err
  <2> HIDE DEF t2
  <2> QED
    BY <1>3, ErrOfPut DEF Rewritten, TxOK
<1>6. t2.err = None
  BY <1>4, <1>5
<1>7. Allows(t2, b, c.on)
  BY <1>2, <1>6, LockMemoryUnravels
<1> HIDE DEF t2
<1>8. Unravels(u, b)
  BY <1>7, RewrittenUnravels
<1> QED
  BY <1>4, <1>8

LEMMA RetireUnravels ==
    ASSUME NEW t, NEW b, Whole(b), TxOK(t, b), Unravels(t, b), NEW batch, BatchIn(batch, b), Current(batch, b),
           NEW c, Retire(t, batch, c).err = None
    PROVE  Unravels(Retire(t, batch, c), b)
<1> DEFINE t1 == Touch(t, {c.on})
           t2 == LockMemory(t1, batch, c.on)
           u == Retired(t2, batch, c.on, None)
<1>1. SameTx(t1, t)
  BY TouchKeeps DEF TxOK
<1>2. TxOK(t1, b) /\ Unravels(t1, b)
  BY <1>1, TxSame, UnravelsSame
<1> HIDE DEF t1
<1>3. TxOK(t2, b) /\ (t2.err = None => Writable(t2, b, c.on))
  BY <1>2, LockMemoryAllows
<1>4. u = Retire(t, batch, c)
  BY DEF t1, Retire
<1>5. Onward(u, t2)
  <2> HIDE DEF t2
  <2> QED
    BY <1>3, RetiredKeeps
<1>6. t2.err = None
  BY <1>4, <1>5 DEF Onward
<1>7. Allows(t2, b, c.on) /\ c.on \in DOMAIN t2.rows \ Links(t2.rows)
  BY <1>2, <1>6, LockMemoryUnravels
<1>8. u.err = None
  BY <1>4
<1> HIDE DEF t2
<1>9. Unravels(u, b)
  BY <1>7, <1>8, RetiredUnravels
<1> QED
  BY <1>4, <1>9

LEMMA DisconnectUnravels ==
    ASSUME NEW t, NEW b, Whole(b), TxOK(t, b), Unravels(t, b), NEW batch, BatchIn(batch, b), Current(batch, b),
           NEW c, Disconnect(t, batch, c).err = None
    PROVE  Unravels(Disconnect(t, batch, c), b)
<1> DEFINE ok == ~Provenance(t, batch, c.on)
           t1 == LockLink(t, batch, c.on)
           t2 == Check(t1, ok, "invalid")
           u == Archive(t2, c.on)
<1>1. u = Disconnect(t, batch, c)
  BY DEF Disconnect
<1>2. ok \in BOOLEAN
  OBVIOUS
<1> HIDE DEF ok
<1>3. TxOK(t1, b) /\ DOMAIN t1 = TxFields
  BY LockLinkAllows DEF TxOK
<1>4. SameTx(t2, t1) /\ (t2.err = None => t1.err = None)
  BY <1>2, <1>3, CheckKeeps
<1>5. u.err = t2.err
  <2> HIDE DEF t2
  <2> QED
    BY <1>4, ErrOfPut DEF Archive, SameTx
<1>6. t2.err = None /\ t1.err = None
  BY <1>1, <1>4, <1>5
<1>7. Allows(t1, b, c.on) /\ c.on \in Links(t1.rows)
  BY <1>6, LockLinkUnravels
<1> HIDE DEF t1
<1>8. t2.rows = t1.rows /\ Wrote(t2) = Wrote(t1) /\ TxOK(t2, b) /\ Unravels(t2, b)
  BY <1>3, <1>4, <1>7, TxSame, UnravelsSame DEF SameTx, Wrote, Allows
<1> HIDE DEF t2
<1>9. Allows(t2, b, c.on)
  BY <1>6, <1>7, <1>8 DEF Allows, Writable, Rewritable
<1>10. t2.rows[c.on].kind = "link"
  BY <1>7, <1>8 DEF Links
<1>11. Unravels(u, b)
  BY <1>9, <1>10, ArchiveUnravels
<1> QED
  BY <1>1, <1>11

LEMMA AllowsSame ==
    ASSUME NEW t, NEW u, NEW b, NEW i, Allows(t, b, i), SameTx(u, t), u.err = None PROVE Allows(u, b, i)
<1>1. TxOK(u, b) /\ Unravels(u, b)
  BY TxSame, UnravelsSame DEF Allows
<1>2. u.rows = t.rows /\ Wrote(u) = Wrote(t)
  BY DEF SameTx, Wrote
<1> QED
  BY <1>1, <1>2 DEF Allows, Writable, Rewritable

LEMMA MergeUnravels ==
    ASSUME NEW t, NEW b, Whole(b), TxOK(t, b), Unravels(t, b), NEW batch, BatchIn(batch, b), Current(batch, b),
           NEW c, Merge(t, batch, c).err = None
    PROVE  Unravels(Merge(t, batch, c), b)
<1> DEFINE same == t.rows[c.on].cites # {} /\ t.rows[c.on].cites = t.rows[c.into].cites
           ok == same /\ c.on # c.into
           t1 == Touch(t, {c.on, c.into})
           t2 == LockMemory(t1, batch, c.on)
           t3 == LockMemory(t2, batch, c.into)
           t4 == Check(t3, ok, "invalid")
           t5 == Rewritten(t4, c.into)
           u == Retired(t5, batch, c.on, c.into)
<1>1. u = Merge(t, batch, c)
  BY DEF Merge
<1>2. ok \in BOOLEAN /\ (ok => c.on # c.into)
  OBVIOUS
<1> HIDE DEF same, ok
<1>3. TxOK(t1, b) /\ Unravels(t1, b)
  <2>1. SameTx(t1, t)
    BY TouchKeeps DEF TxOK
  <2> QED
    BY <2>1, TxSame, UnravelsSame
<1> HIDE DEF t1
<1>4. TxOK(t2, b) /\ (t2.err = None => Writable(t2, b, c.on))
  BY <1>3, LockMemoryAllows
<1>5. TxOK(t3, b) /\ Onward(t3, t2) /\ SameTx(t3, t2) /\ (t3.err = None => Writable(t3, b, c.into))
  <2> HIDE DEF t2
  <2> QED
    BY <1>4, LockMemoryAllows
<1>6. SameTx(t4, t3) /\ (t4.err = None => t3.err = None /\ ok)
  <2> HIDE DEF t3
  <2> QED
    BY <1>2, <1>5, CheckKeeps DEF TxOK
<1>7. TxOK(t4, b) /\ Onward(t4, t3)
  <2> HIDE DEF t3, t4
  <2> QED
    BY <1>5, <1>6, TxSame
<1>8. t4.err = None => Writable(t4, b, c.into) /\ Writable(t4, b, c.on)
  <2> HIDE DEF t2, t3, t4
  <2>1. t4.err = None => t3.err = None /\ t2.err = None
    BY <1>5, <1>7 DEF Onward
  <2>2. Onward(t4, t2)
    BY <1>4, <1>5, <1>7, OnwardStill
  <2> QED
    BY <1>4, <1>5, <1>7, <2>1, <2>2, WritableStill
<1>9. TxOK(t5, b) /\ Onward(t5, t4) /\ PutsAt(t5, t4, c.into)
  <2> HIDE DEF t4
  <2> QED
    BY <1>7, <1>8, RewrittenKeeps
<1>10. Onward(u, t5)
  <2> HIDE DEF t4
  <2>1. t5.err = None => Writable(t5, b, c.on) /\ Writable(t5, b, c.into)
    <3>1. t5.err = None => t4.err = None
      BY <1>9 DEF Onward
    <3> HIDE DEF t5
    <3> QED
      BY <1>8, <1>9, <3>1, WritableStill
  <2>2. t5.err = None => c.into \in DOMAIN t5.rows
    BY <2>1 DEF Writable
  <2> HIDE DEF t5
  <2> QED
    BY <1>9, <2>1, <2>2, RetiredKeeps
<1>11. u.err = None
  BY <1>1
<1>12. t5.err = None /\ t4.err = None /\ t3.err = None /\ t2.err = None /\ c.on # c.into
  <2> HIDE DEF t2, t3, t4, t5, u
  <2> QED
    BY <1>2, <1>5, <1>6, <1>9, <1>10, <1>11 DEF Onward
<1>13. Allows(t2, b, c.on) /\ c.on \in DOMAIN t2.rows \ Links(t2.rows)
  BY <1>3, <1>12, LockMemoryUnravels
<1> HIDE DEF t2
<1>14. Allows(t3, b, c.into) /\ c.into \in DOMAIN t3.rows \ Links(t3.rows)
  BY <1>4, <1>12, <1>13, LockMemoryUnravels DEF Allows
<1> HIDE DEF t3
<1>15. Allows(t3, b, c.on)
  BY <1>5, <1>12, <1>13, AllowsSame
<1>16. Allows(t4, b, c.into) /\ Allows(t4, b, c.on) /\ {c.on, c.into} \subseteq DOMAIN t4.rows \ Links(t4.rows)
  <2>1. t4.rows = t3.rows /\ t3.rows = t2.rows
    BY <1>5, <1>6 DEF SameTx
  <2> HIDE DEF t4
  <2> QED
    BY <1>6, <1>12, <1>13, <1>14, <1>15, <2>1, AllowsSame
<1> HIDE DEF t4
<1>17. Unravels(t5, b)
  BY <1>16, RewrittenUnravels
<1> HIDE DEF t5, u
<1>18. {c.on, c.into} \subseteq DOMAIN t5.rows \ Links(t5.rows)
  BY <1>9, <1>16 DEF Onward, Later, Alike, Links
<1>19. Allows(t5, b, c.on)
  <2>1. Writable(t5, b, c.on)
    BY <1>9, <1>16, WritableStill DEF Allows
  <2>2. /\ c.on \in DOMAIN b \ Wrote(t4) /\ t4.rows[c.on].live /\ t4.rows[c.on].kind \in {"memory", "event", "link"}
        /\ t4.rows[c.on].kind # "link"
    BY <1>16 DEF Allows, Rewritable, Links
  <2>3. t5.rows[c.on] = t4.rows[c.on] /\ Wrote(t5) = Wrote(t4) \cup {c.into}
    BY <1>9, <1>12, <1>16 DEF PutsAt
  <2>4. Rewritable(t5, b, c.on)
    BY <1>12, <2>2, <2>3 DEF Rewritable
  <2> QED
    BY <1>9, <1>12, <1>17, <2>1, <2>4 DEF Allows
<1>20. Unravels(u, b)
  BY <1>11, <1>12, <1>18, <1>19, RetiredUnravels DEF u
<1> QED
  BY <1>1, <1>20

LEMMA ConnectUnravels ==
    ASSUME NEW t, NEW b, Whole(b), TxOK(t, b), Unravels(t, b), NEW batch, BatchIn(batch, b), Current(batch, b),
           NEW c, Connect(t, batch, c).err = None
    PROVE  Unravels(Connect(t, batch, c), b)
<1> DEFINE old == Same(t.rows, c.on, c.rel, c.to)
           known == IF c.to \in DOMAIN batch.targets THEN batch.targets[c.to] ELSE batch.memories[c.to].rev
           mine == c.on \in DOMAIN batch.memories /\ Eligible(batch.memories[c.on])
           there == c.to \in DOMAIN batch.targets \cup DOMAIN batch.memories
           fresh == c.to \in t.touched \/ (t.rows[c.to].live /\ t.rows[c.to].rev = known)
           fits == t.rows[c.to].kind = "memory" => c.rel = "related_to"
           t1 == Check(t, mine, "invalid")
           t2 == Check(t1, there, "invalid")
           t3 == Lock(t2, c.to)
           t4 == Check(t3, fresh, "conflict")
           t5 == Check(t4, fits, "invalid")
           u == Connect(t, batch, c)
<1>1. mine \in BOOLEAN /\ there \in BOOLEAN /\ fresh \in BOOLEAN /\ fits \in BOOLEAN
  OBVIOUS
<1>2. mine /\ there => {c.on, c.to} \subseteq DOMAIN t.rows \ Links(t.rows)
  BY DEF BatchIn, Current, TxOK, Later, Alike, Links
<1>3. u = IF old = {} THEN AddEdge(t5, c.on, c.rel, c.to)
          ELSE LET l == CHOOSE l \in old : TRUE IN Rewritten(LockLink(t5, batch, l), l)
  BY DEF Connect
<1>0. u.err = None
  OBVIOUS
<1> HIDE DEF known, mine, there, fresh, fits, u
<1>4. SameTx(t1, t) /\ (t1.err = None => mine)
  BY <1>1, CheckKeeps DEF TxOK
<1> HIDE DEF t1
<1>5. SameTx(t2, t) /\ (t2.err = None => t1.err = None /\ there)
  BY <1>1, <1>4, CheckStays
<1> HIDE DEF t2
<1>6. SameTx(t3, t) /\ (t3.err = None => t2.err = None)
  BY <1>5, LockStays
<1> HIDE DEF t3
<1>7. SameTx(t4, t) /\ (t4.err = None => t3.err = None)
  BY <1>1, <1>6, CheckStays
<1> HIDE DEF t4
<1>8. SameTx(t5, t) /\ (t5.err = None => t4.err = None)
  BY <1>1, <1>7, CheckStays
<1> HIDE DEF t5
<1>9. TxOK(t5, b) /\ Unravels(t5, b) /\ t5.rows = t.rows
  BY <1>8, TxSame, UnravelsSame DEF SameTx
<1>10. CASE old = {}
  <2>1. u = AddEdge(t5, c.on, c.rel, c.to)
    BY <1>3, <1>10
  <2>2. t5.err = None => {c.on, c.to} \subseteq DOMAIN t5.rows \ Links(t5.rows)
    BY <1>2, <1>4, <1>5, <1>6, <1>7, <1>8, <1>9
  <2>3. t5.err = None
    <3>1. t5.err = None => c.on \in DOMAIN t5.rows /\ c.to \in DOMAIN t5.rows
      BY <2>2
    <3>2. Onward(u, t5)
      BY <1>9, <2>1, <3>1, AddEdgeKeeps
    <3> QED
      BY <1>0, <3>2 DEF Onward
  <2>4. {c.on, c.to} \subseteq DOMAIN t5.rows \ Links(t5.rows)
    BY <2>2, <2>3
  <2>5. Unravels(u, b)
    BY <1>0, <1>9, <2>1, <2>4, AddEdgeUnravels
  <2> QED
    BY <2>5 DEF u
<1>11. CASE old # {}
  <2> DEFINE l == CHOOSE l \in old : TRUE
             v == LockLink(t5, batch, l)
  <2>1. u = Rewritten(v, l)
    BY <1>3, <1>11
  <2> HIDE DEF l
  <2>2. TxOK(v, b)
    BY <1>9, LockLinkAllows
  <2>3. v.err = None
    <3> HIDE DEF v
    <3> QED
      BY <1>0, <2>1, <2>2, ErrOfPut DEF Rewritten, TxOK
  <2>4. Allows(v, b, l)
    BY <1>9, <2>3, LockLinkUnravels
  <2> HIDE DEF v
  <2>5. Unravels(u, b)
    BY <2>1, <2>4, RewrittenUnravels
  <2> QED
    BY <2>5 DEF u
<1> QED
  BY <1>10, <1>11

LEMMA ChangeUnravels ==
    ASSUME NEW t, NEW b, Whole(b), TxOK(t, b), Unravels(t, b), NEW batch, BatchIn(batch, b), Current(batch, b),
           NEW c, c.do \in {"rewrite", "retire", "merge", "disconnect", "connect"}, Change(t, batch, c).err = None
    PROVE  Unravels(Change(t, batch, c), b)
<1>1. CASE t.err # None
  <2>1. Change(t, batch, c) = t
    BY <1>1 DEF Change
  <2> QED
    BY <2>1
<1>2. CASE t.err = None
  <2>1. CASE c.do = "rewrite"
    <3>1. Change(t, batch, c) = Rewrite(t, batch, c)
      BY <1>2, <2>1 DEF Change
    <3>2. Rewrite(t, batch, c).err = None
      BY <3>1
    <3> QED
      BY <3>1, <3>2, RewriteUnravels
  <2>2. CASE c.do = "retire"
    <3>1. Change(t, batch, c) = Retire(t, batch, c)
      BY <1>2, <2>2 DEF Change
    <3>2. Retire(t, batch, c).err = None
      BY <3>1
    <3> QED
      BY <3>1, <3>2, RetireUnravels
  <2>3. CASE c.do = "merge"
    <3>1. Change(t, batch, c) = Merge(t, batch, c)
      BY <1>2, <2>3 DEF Change
    <3>2. Merge(t, batch, c).err = None
      BY <3>1
    <3> QED
      BY <3>1, <3>2, MergeUnravels
  <2>4. CASE c.do = "disconnect"
    <3>1. Change(t, batch, c) = Disconnect(t, batch, c)
      BY <1>2, <2>4 DEF Change
    <3>2. Disconnect(t, batch, c).err = None
      BY <3>1
    <3> QED
      BY <3>1, <3>2, DisconnectUnravels
  <2>5. CASE c.do = "connect"
    <3>1. Change(t, batch, c) = Connect(t, batch, c)
      BY <1>2, <2>5 DEF Change
    <3>2. Connect(t, batch, c).err = None
      BY <3>1
    <3> QED
      BY <3>1, <3>2, ConnectUnravels
  <2> QED
    BY <2>1, <2>2, <2>3, <2>4, <2>5
<1> QED
  BY <1>1, <1>2

LEMMA HeldToHolds ==
    ASSUME NEW t, DOMAIN t = TxFields, NEW versions, HeldTo(t, versions).err = None, NEW i \in DOMAIN versions
    PROVE  t.rows[i].live /\ t.rows[i].rev = versions[i]
<1> DEFINE why == [j \in DOMAIN versions |-> Check(Lock(t, j), LiveAt(t, j, versions[j]), "conflict").err]
<1>1. HeldTo(t, versions) = Reject(t, why) /\ DOMAIN why = DOMAIN versions
  BY DEF HeldTo
<1>2. why[i] = Check(Lock(t, i), LiveAt(t, i, versions[i]), "conflict").err
  OBVIOUS
<1> HIDE DEF why
<1>3. Reject(t, why).err = None => \A j \in DOMAIN why : why[j] = None
  BY RejectKeeps
<1>4. why[i] = None
  BY <1>1, <1>3
<1>5. DOMAIN Lock(t, i) = TxFields /\ LiveAt(t, i, versions[i]) \in BOOLEAN
  BY LockKeeps DEF SameTx, LiveAt
<1> DEFINE u == Lock(t, i)  ok == LiveAt(t, i, versions[i])
<1>6. Check(u, ok, "conflict").err = None
  BY <1>2, <1>4
<1>7. u.err = None /\ ok
  <2>1. DOMAIN u = TxFields /\ ok \in BOOLEAN
    BY <1>5
  <2> HIDE DEF u, ok
  <2> QED
    BY <1>6, <2>1, CheckKeeps
<1> QED
  BY <1>7 DEF LiveAt

LEMMA RevalidatedHolds ==
    ASSUME NEW t, DOMAIN t = TxFields, NEW batch, Revalidated(t, batch).err = None
    PROVE  /\ \A m \in DOMAIN batch.memories : Eligible(t.rows[m]) /\ t.rows[m].rev = batch.memories[m].rev
           /\ \A l \in DOMAIN batch.links : t.rows[l].rev = batch.links[l]
<1> DEFINE First(m) == Check(LockMemory(t, batch, m), batch.approved => Incident(t, m) = Approved(batch, t, m), "conflict")
           InputOf(m) == Check(First(m), ReviewPrint(t.rows, m) = batch.prints[m], "conflict")
           why == [m \in DOMAIN batch.memories |-> InputOf(m).err]
           t1 == Reject(t, why)
           t2 == HeldTo(t1, batch.links)
           t3 == HeldTo(t2, batch.around)
           t4 == HeldTo(t3, batch.targets)
           u == Revalidated(t, batch)
<1>1. u = IF batch.approved THEN t4 ELSE t2
  BY DEF Revalidated
<1>2. \A m \in DOMAIN batch.memories : why[m] = InputOf(m).err
  OBVIOUS
<1>3. DOMAIN why = DOMAIN batch.memories /\ u.err = None
  OBVIOUS
<1> HIDE DEF why, InputOf, u
<1>4. SameTx(t1, t) /\ (t1.err = None => \A m \in DOMAIN why : why[m] = None)
  BY RejectKeeps
<1> HIDE DEF t1
<1>5. DOMAIN t1 = TxFields /\ t1.rows = t.rows
  BY <1>4 DEF SameTx
<1>6. SameTx(t2, t1) /\ (t2.err = None => t1.err = None)
  BY <1>5, HeldToKeeps
<1>7. t2.err = None
  <2> HIDE DEF t2
  <2>1. DOMAIN t2 = TxFields
    BY <1>6 DEF SameTx
  <2>2. SameTx(t3, t2) /\ (t3.err = None => t2.err = None)
    BY <2>1, HeldToKeeps
  <2> HIDE DEF t3
  <2>3. DOMAIN t3 = TxFields
    BY <2>2 DEF SameTx
  <2>4. t4.err = None => t3.err = None
    BY <2>3, HeldToKeeps
  <2> HIDE DEF t4
  <2> QED
    BY <1>1, <1>3, <2>2, <2>4
<1>8. \A l \in DOMAIN batch.links : t.rows[l].rev = batch.links[l]
  BY <1>5, <1>7, HeldToHolds
<1>9. ASSUME NEW m \in DOMAIN batch.memories
      PROVE  Eligible(t.rows[m]) /\ t.rows[m].rev = batch.memories[m].rev
  <2> DEFINE v == LockMemory(t, batch, m)
             held == batch.approved => Incident(t, m) = Approved(batch, t, m)
             seen == ReviewPrint(t.rows, m) = batch.prints[m]
             v1 == Check(v, held, "conflict")
             v2 == Check(v1, seen, "conflict")
  <2>1. v2.err = None
    <3> HIDE DEF t2
    <3>1. why[m] = None
      BY <1>3, <1>4, <1>6, <1>7
    <3> QED
      BY <1>2, <3>1 DEF InputOf
  <2>2. held \in BOOLEAN /\ seen \in BOOLEAN
    OBVIOUS
  <2>3. /\ DOMAIN v = TxFields
        /\ v.err = None => Eligible(t.rows[m]) /\ t.rows[m].rev = batch.memories[m].rev
    BY LockMemoryKeeps DEF SameTx
  <2> HIDE DEF v, held, seen
  <2>4. DOMAIN v1 = TxFields /\ (v1.err = None => v.err = None)
    BY <2>2, <2>3, CheckKeeps DEF SameTx
  <2> HIDE DEF v1
  <2>5. v2.err = None => v1.err = None
    BY <2>2, <2>4, CheckKeeps
  <2> QED
    BY <2>1, <2>3, <2>4, <2>5
<1> QED
  BY <1>8, <1>9

LEMMA PlannedRetraces ==
    ASSUME NEW base, StoreOK(base.rows), Whole(base.rows), Later(base.rows, rows), NEW batch, NEW plan,
           DreamOK(batch, plan, base.rows), Planned(base, batch, plan).err = None
    PROVE  Retraces(Planned(base, batch, plan), base.rows)
<1> DEFINE b == base.rows  N == Len(plan)
           legacy == ~base.cut.done
           t0 == Check(Begun(b), legacy, "invalid")
           t1 == Revalidated(t0, batch)
           u == Planned(base, batch, plan)
<1>0. u.err = None
  OBVIOUS
<1>1. N \in Nat /\ BatchIn(batch, b)
  BY SeqFacts DEF DreamOK, BatchIn
<1>2. PICK f : /\ f[0] = t1 /\ u = f[N]
               /\ \A n \in 1..N : f[n] = Change(f[n - 1], batch, plan[n])
  <2>1. PICK f : /\ f[0] = Revalidated(Check(Begun(base.rows), ~base.cut.done, "invalid"), batch)
                 /\ \A n \in 1..Len(plan) : f[n] = Change(f[n - 1], batch, plan[n])
                 /\ Planned(base, batch, plan) = f[Len(plan)]
    BY <1>1, PlannedUnfolds
  <2> QED
    BY <2>1
<1> HIDE DEF u
<1>3. TxOK(Begun(b), b) /\ Begun(b).rows = b
  BY TxBegins DEF Begun
<1>4. Unravels(Begun(b), b)
  <2>1. Retraces(Begun(b), b)
    BY RetracingBegins
  <2>2. Wrote(Begun(b)) = {}
    BY DEF Begun, Wrote
  <2> QED
    BY <2>1, <2>2 DEF Unravels
<1>5. SameTx(t0, Begun(b))
  <2>1. legacy \in BOOLEAN
    OBVIOUS
  <2> HIDE DEF legacy
  <2> QED
    BY <1>3, <2>1, CheckKeeps DEF TxOK
<1> HIDE DEF t0
<1>6. TxOK(t0, b) /\ Unravels(t0, b) /\ t0.rows = b /\ DOMAIN t0 = TxFields
  BY <1>3, <1>4, <1>5, TxSame, UnravelsSame DEF SameTx
<1>7. SameTx(t1, t0)
  BY <1>6, RevalidatedKeeps
<1>8. t1.err = None => Current(batch, b)
  <2> SUFFICES ASSUME t1.err = None PROVE Current(batch, b)
    OBVIOUS
  <2>1. /\ \A m \in DOMAIN batch.memories : Eligible(b[m]) /\ b[m].rev = batch.memories[m].rev
        /\ \A l \in DOMAIN batch.links : b[l].rev = batch.links[l]
    BY <1>6, RevalidatedHolds
  <2>2. \A m \in DOMAIN batch.memories : b[m].kind = "memory"
    BY <2>1, EligibleIsSpared
  <2>3. DOMAIN batch.targets \cap Links(b) = {}
    BY DEF DreamOK
  <2> QED
    BY <2>1, <2>2, <2>3 DEF Current
<1> HIDE DEF t1
<1>9. TxOK(t1, b) /\ Unravels(t1, b) /\ Onward(t1, t1)
  <2>1. TxOK(t1, b) /\ Unravels(t1, b)
    BY <1>6, <1>7, TxSame, UnravelsSame
  <2>2. SameTx(t1, t1)
    BY <1>7 DEF SameTx
  <2> QED
    BY <2>1, <2>2, TxSame
<1> DEFINE kept == {n \in 0..N : TxOK(f[n], b) /\ Onward(f[n], t1) /\ (f[n].err = None => Unravels(f[n], b))}
<1>10. Whole(b)
  OBVIOUS
<1> HIDE DEF N, b
<1>11. 0 \in kept
  BY <1>1, <1>2, <1>9
<1>12. ASSUME NEW n \in 1..N, n - 1 \in kept PROVE n \in kept
  <2> DEFINE v == f[n - 1]
  <2>1. TxOK(v, b) /\ Onward(v, t1) /\ (v.err = None => Unravels(v, b))
    BY <1>12
  <2>2. f[n] = Change(v, batch, plan[n])
    BY <1>2
  <2>3. plan[n].do \in {"rewrite", "retire", "merge", "disconnect", "connect"}
    BY DEF DreamOK, N
  <2> HIDE DEF v
  <2>4. TxOK(f[n], b) /\ Onward(f[n], v)
    BY <1>1, <2>1, <2>2, <2>3, ChangeKeeps
  <2>5. ASSUME f[n].err = None PROVE Unravels(f[n], b)
    <3>1. v.err = None /\ t1.err = None
      BY <2>1, <2>4, <2>5 DEF Onward
    <3>2. Current(batch, b) /\ Unravels(v, b)
      BY <1>8, <2>1, <3>1
    <3> QED
      BY <1>1, <1>10, <2>1, <2>2, <2>3, <2>5, <3>2, ChangeUnravels
  <2>6. Onward(f[n], t1)
    BY <1>9, <2>1, <2>4, OnwardStill
  <2> QED
    BY <2>4, <2>5, <2>6
<1>13. N \in kept
  <2> HIDE DEF kept
  <2>1. \A n \in 1..N : n - 1 \in kept => n \in kept
    BY <1>12
  <2>2. \A n \in 0..N : n \in kept
    BY <1>1, <1>11, <2>1, UpTo
  <2> QED
    BY <1>1, <2>2
<1>14. Unravels(u, b)
  BY <1>0, <1>2, <1>13
<1> QED
  BY <1>14 DEF Unravels, b, u

\* connect(), for each of the Objects.
LEMMA TiedRetraces ==
    ASSUME NEW t, NEW b, TxOK(t, b), NEW o, NEW from, IsFiniteSet(from), NEW who, who # "owner",
           t.err = None => Retraces(t, b) /\ o \in DOMAIN t.rows \ Links(t.rows) /\ from \subseteq DOMAIN t.rows \ Links(t.rows),
           Tied(t, o, from, who).err = None
    PROVE  Retraces(Tied(t, o, from, who), b)
<1> DEFINE s == SetToSeq(from)  N == Len(s)
           u == Tied(t, o, from, who)
<1>0. u.err = None
  OBVIOUS
<1>1. s \in Seq(from) /\ N \in Nat
  BY OrderOfSet
<1>2. PICK f : /\ f[0] = t /\ u = f[N]
               /\ \A n \in 1..N : f[n] = Connected(f[n - 1], o, "derived_from", s[n], who)
  BY <1>1, TiedUnfolds
<1> HIDE DEF u
<1> DEFINE kept == {n \in 0..N : TxOK(f[n], b) /\ Onward(f[n], t) /\ (f[n].err = None => Retraces(f[n], b))}
<1> HIDE DEF s, N
<1>3. 0 \in kept
  <2>1. SameTx(t, t)
    BY DEF SameTx, TxOK
  <2>2. Onward(t, t)
    BY <2>1, TxSame
  <2> QED
    BY <1>1, <1>2, <2>2
<1>4. ASSUME NEW n \in 1..N, n - 1 \in kept PROVE n \in kept
  <2> DEFINE v == f[n - 1]
  <2>1. TxOK(v, b) /\ Onward(v, t) /\ (v.err = None => Retraces(v, b))
    BY <1>4
  <2>2. f[n] = Connected(v, o, "derived_from", s[n], who) /\ s[n] \in from
    BY <1>1, <1>2 DEF N
  <2> HIDE DEF v
  <2>3. v.err = None => t.err = None
    BY <2>1 DEF Onward
  <2>4. v.err = None => {o, s[n]} \subseteq DOMAIN v.rows \ Links(v.rows)
    BY <2>1, <2>2, <2>3 DEF Onward, Links, Later, Alike
  <2>5. TxOK(f[n], b) /\ Onward(f[n], v)
    <3>1. v.err = None => o \in DOMAIN v.rows /\ s[n] \in DOMAIN v.rows
      BY <2>4
    <3> QED
      BY <2>1, <2>2, <3>1, ConnectedKeeps
  <2>6. ASSUME f[n].err = None PROVE Retraces(f[n], b)
    <3>1. v.err = None
      BY <2>5, <2>6 DEF Onward
    <3> QED
      BY <2>1, <2>2, <2>4, <2>6, <3>1, ConnectedRetraces
  <2> QED
    BY <2>1, <2>5, <2>6, OnwardStill
<1>5. N \in kept
  <2> HIDE DEF kept
  <2>1. \A n \in 1..N : n - 1 \in kept => n \in kept
    BY <1>4
  <2>2. \A n \in 0..N : n \in kept
    BY <1>1, <1>3, <2>1, UpTo
  <2> QED
    BY <1>1, <2>2
<1>6. Retraces(u, b)
  BY <1>0, <1>2, <1>5
<1> QED
  BY <1>6 DEF u

LEMMA NonLinksStill ==
    ASSUME NEW r, NEW s, Later(r, s) PROVE DOMAIN r \ Links(r) \subseteq DOMAIN s \ Links(s)
  BY DEF Later, Links, Alike

LEMMA TellEventRetraces ==
    ASSUME NEW t, NEW b, TxOK(t, b), Whole(b), Retraces(t, b), NEW batch, NEW p,
           IsFiniteSet(DOMAIN b), \A c \in p.cites : scenario.on[c] \in DOMAIN b \ Links(b),
           p.on # None => p.on \in DOMAIN batch.candidates \cap OfKind(b, "event"),
           \A e \in DOMAIN batch.candidates : batch.candidates[e] \in Nat /\ batch.candidates[e] <= b[e].rev,
           TellEvent(t, batch, p).err = None
    PROVE  Retraces(TellEvent(t, batch, p), b)
<1> DEFINE from == {scenario.on[c] : c \in p.cites}
           t1 == Check(t, Unshown(t, batch, p) = {}, "conflict")
           t2 == Check(t1, Rivals(t, p) = {}, "database")
           u == TellEvent(t, batch, p)
<1>0. u.err = None
  OBVIOUS
<1>1. CASE t.err # None
  <2>1. u = t
    BY <1>1 DEF TellEvent
  <2> QED
    BY <1>1, <2>1
<1>2. SameTx(t1, t)
  <2> DEFINE ok == Unshown(t, batch, p) = {}
  <2>1. ok \in BOOLEAN
    OBVIOUS
  <2> HIDE DEF ok
  <2>2. SameTx(Check(t, ok, "conflict"), t)
    BY <2>1, CheckKeeps DEF TxOK
  <2> QED
    BY <2>2 DEF ok
<1>3. SameTx(t2, t)
  <2> HIDE DEF t1
  <2> DEFINE ok == Rivals(t, p) = {}
  <2>1. ok \in BOOLEAN
    OBVIOUS
  <2> HIDE DEF ok
  <2>2. SameTx(Check(t1, ok, "database"), t)
    BY <1>2, <2>1, CheckStays
  <2> QED
    BY <2>2 DEF ok
<1>4. u = IF t.err # None THEN t
          ELSE IF p.on = None THEN Derived(Insert(t2, NewObject("event", "extract", p.cites)), Fresh(t), p.cites)
          ELSE Derived(Put(Check(Enrichable(t2, p.on), t.rows[p.on].rev = batch.candidates[p.on], "conflict"),
                           "extract", p.on, [t.rows[p.on] EXCEPT !.text = "extract", !.cites = @ \cup p.cites]), p.on, p.cites)
  BY DEF TellEvent
<1> HIDE DEF t1, t2, u
<1>5. /\ TxOK(t2, b) /\ Onward(t2, t) /\ t2.rows = t.rows /\ Wrote(t2) = Wrote(t) /\ Retraces(t2, b)
  BY <1>3, TxSame, RetracesSame DEF SameTx, Wrote
<1>6. IsFiniteSet(from) /\ from \subseteq DOMAIN b \ Links(b) /\ \A v, o : Derived(v, o, p.cites) = Tied(v, o, from, "extract")
  <2>1. from \in SUBSET DOMAIN b /\ from \subseteq DOMAIN b \ Links(b)
    OBVIOUS
  <2>2. \A v, o : Derived(v, o, p.cites) = Tied(v, o, from, "extract")
    BY DEF Derived
  <2> HIDE DEF from
  <2> QED
    BY <2>1, <2>2, FS_Subset
<1> HIDE DEF from
<1>7. CASE t.err = None /\ p.on = None
  <2> DEFINE new == NewObject("event", "extract", p.cites)
             e == Fresh(t)
             v == Insert(t2, new)
  <2>1. /\ RowOK(new) /\ new.rev = 1 /\ new.by # "owner" /\ ~new.guarded
        /\ new.kind = "event" /\ new.kind # "link"
    BY NewRowsAreOK
  <2>2. Fresh(t2) = e
    BY <1>5 DEF Fresh, Free
  <2>3. u = Tied(v, e, from, "extract")
    BY <1>4, <1>6, <1>7
  <2> HIDE DEF new, e
  <2>4. Insertable(t2, new)
    BY <2>1 DEF Insertable
  <2>5. /\ TxOK(v, b) /\ Onward(v, t2)
        /\ v.err = None => DOMAIN v.rows = DOMAIN t2.rows \cup {Fresh(t2)} /\ v.rows[Fresh(t2)] = new
    <3>1. t2.err = None => /\ RowOK(new) /\ new.rev = 1 /\ new.by # "owner" /\ ~new.guarded
                           /\ new.kind = "link" => new.src \in DOMAIN t2.rows /\ new.dst \in DOMAIN t2.rows
      BY <2>1
    <3> QED
      BY <1>5, <3>1, InsertKeeps
  <2>6. v.err = None => Retraces(v, b)
    BY <1>5, <2>4, InsertRetraces
  <2> HIDE DEF v
  <2>7. v.err = None => e \in DOMAIN v.rows \ Links(v.rows)
    BY <2>1, <2>2, <2>5 DEF Links
  <2>8. from \subseteq DOMAIN v.rows \ Links(v.rows)
    BY <1>6, <2>5, NonLinksStill DEF TxOK
  <2>9. v.err = None => Retraces(v, b) /\ e \in DOMAIN v.rows \ Links(v.rows) /\ from \subseteq DOMAIN v.rows \ Links(v.rows)
    BY <2>6, <2>7, <2>8
  <2>10. Retraces(u, b)
    BY <1>0, <1>6, <2>3, <2>5, <2>9, TiedRetraces
  <2> QED
    BY <2>10 DEF u
<1>8. CASE t.err = None /\ p.on # None
  <2> DEFINE o == p.on
             right == t.rows[o].rev = batch.candidates[o]
             open == t.rows[o].live /\ ~t.rows[o].guarded
             t3 == Lock(t2, o)
             t4 == Check(t3, open, "invalid")
             t5 == Check(t4, right, "conflict")
             new == [t.rows[o] EXCEPT !.text = "extract", !.cites = @ \cup p.cites]
             v == Put(t5, "extract", o, new)
  <2>1. open \in BOOLEAN /\ right \in BOOLEAN
    OBVIOUS
  <2>2. Enrichable(t2, o) = t4
    BY <1>5 DEF Enrichable
  <2>3. u = Tied(v, o, from, "extract")
    BY <1>4, <1>6, <1>8, <2>2
  <2>4. o \in DOMAIN batch.candidates /\ o \in DOMAIN b /\ b[o].kind = "event"
    BY <1>8 DEF OfKind
  <2>5. RowOK(t.rows[o]) /\ RowOK(b[o]) /\ b[o].rev <= t.rows[o].rev /\ t.rows[o].kind = "event" /\ o \in DOMAIN t.rows
    BY <2>4 DEF TxOK, StoreOK, Later, Alike
  <2>6. RowOK(new) /\ Alike(t.rows[o], new) /\ new.rev = t.rows[o].rev /\ new.guarded = t.rows[o].guarded
    BY <2>5 DEF RowOK, Columns, Alike
  <2>7. right => t.rows[o].rev = b[o].rev
    <3>1. batch.candidates[o] \in Nat /\ batch.candidates[o] <= b[o].rev /\ b[o].rev \in Nat /\ t.rows[o].rev \in Nat
      BY <2>4, <2>5 DEF RowOK
    <3> QED
      BY <2>5, <3>1
  <2> HIDE DEF right, new, o
  <2>8. SameTx(t3, t) /\ (t3.err = None => t2.err = None /\ ~Moved(t, o))
    BY <1>3, LockStays
  <2> HIDE DEF t3
  <2>9. SameTx(t4, t) /\ (t4.err = None => t3.err = None /\ open)
    <3> HIDE DEF open
    <3> QED
      BY <2>1, <2>8, CheckStays
  <2> HIDE DEF t4
  <2>10. SameTx(t5, t) /\ (t5.err = None => t4.err = None /\ right)
    BY <2>1, <2>9, CheckStays
  <2> HIDE DEF t5
  <2>11. /\ TxOK(t5, b) /\ Retraces(t5, b) /\ t5.rows = t.rows /\ Wrote(t5) = Wrote(t) /\ t5.base = t.base
    BY <2>10, TxSame, RetracesSame DEF SameTx, Wrote
  <2>12. ASSUME t5.err = None PROVE Writable(t5, b, o) /\ ~new.guarded /\ Rewritable(t5, b, o)
    <3>1. ~Moved(t5, o) /\ Spared(t5.rows[o]) /\ ~t.rows[o].guarded /\ t5.rows[o].live
      BY <2>5, <2>8, <2>9, <2>10, <2>11, <2>12 DEF Spared, Moved
    <3>2. Writable(t5, b, o) /\ ~new.guarded
      BY <2>5, <2>6, <2>11, <3>1, LockedIsWritable
    <3>3. t5.rows[o].rev = b[o].rev
      BY <2>7, <2>10, <2>11, <2>12
    <3>4. o \notin Wrote(t5)
      BY <2>4, <2>11, <3>3, FirstVersion
    <3>5. t5.rows[o].kind = "event"
      BY <2>5, <2>11
    <3> QED
      BY <2>4, <3>1, <3>2, <3>4, <3>5 DEF Rewritable
  <2>13. t5.err = None => /\ Writable(t5, b, o) /\ RowOK(new) /\ Alike(t5.rows[o], new)
                          /\ new.rev = t5.rows[o].rev /\ ~new.guarded
    BY <2>6, <2>11, <2>12
  <2>14. TxOK(v, b) /\ Onward(v, t5)
    BY <2>11, <2>13, PutKeeps
  <2>15. ASSUME v.err = None PROVE Retraces(v, b)
    <3>1. t5.err = None
      <4> HIDE DEF v
      <4> QED
        BY <2>14, <2>15 DEF Onward
    <3>2. Rewritable(t5, b, o) /\ Writable(t5, b, o)
      BY <2>12, <3>1
    <3> QED
      BY <2>11, <2>13, <3>1, <3>2, PutRetraces
  <2> HIDE DEF v
  <2>16. {o} \cup from \subseteq DOMAIN v.rows \ Links(v.rows)
    <3>1. o \in DOMAIN b \ Links(b)
      BY <2>4 DEF Links
    <3> QED
      BY <1>6, <2>14, <3>1, NonLinksStill DEF TxOK
  <2>17. v.err = None => Retraces(v, b) /\ o \in DOMAIN v.rows \ Links(v.rows) /\ from \subseteq DOMAIN v.rows \ Links(v.rows)
    BY <2>15, <2>16
  <2>18. Retraces(u, b)
    BY <1>0, <1>6, <2>3, <2>14, <2>17, TiedRetraces
  <2> QED
    BY <2>18 DEF u
<1> QED
  BY <1>1, <1>7, <1>8

LEMMA ExtractedRetraces ==
    ASSUME NEW base, StoreOK(base.rows), Whole(base.rows), StoreOK(rows), Later(base.rows, rows),
           NEW batch, NEW plan, EventsOK(batch, plan, base.rows),
           \A o \in DOMAIN batch.evidence : scenario.on[o] \in DOMAIN base.rows \ Links(base.rows),
           Extracted(base, batch, plan).err = None
    PROVE  Retraces(Extracted(base, batch, plan), base.rows)
<1> DEFINE b == base.rows  N == Len(plan)
           ok == \A o \in DOMAIN batch.evidence : base.facts[o] = batch.evidence[o]
           t1 == Check(Begun(b), ok, "conflict")
           u == Extracted(base, batch, plan)
<1>0. u.err = None
  OBVIOUS
<1>1. N \in Nat
  BY SeqFacts DEF EventsOK
<1>2. Grounded(Begun(b), base, batch) = t1
  BY DEF Grounded
<1>3. PICK f : /\ f[0] = t1 /\ u = f[N]
               /\ \A n \in 1..N : f[n] = TellEvent(f[n - 1], batch, plan[n])
  <2>1. PICK f : /\ f[0] = Grounded(Begun(base.rows), base, batch)
                 /\ \A n \in 1..Len(plan) : f[n] = TellEvent(f[n - 1], batch, plan[n])
                 /\ Extracted(base, batch, plan) = f[Len(plan)]
    BY <1>1, ExtractedUnfolds
  <2> QED
    BY <1>2, <2>1
<1> HIDE DEF u
<1>4. TxOK(Begun(b), b) /\ Wrote(Begun(b)) = {}
  BY TxBegins DEF Begun, Wrote
<1>5. SameTx(t1, Begun(b))
  <2>1. ok \in BOOLEAN
    OBVIOUS
  <2> HIDE DEF ok
  <2> QED
    BY <1>4, <2>1, CheckKeeps DEF TxOK
<1>6. TxOK(t1, b) /\ Retraces(t1, b) /\ Wrote(t1) = {}
  <2>1. Retraces(Begun(b), b)
    BY RetracingBegins
  <2> HIDE DEF t1, b
  <2> QED
    BY <1>4, <1>5, <2>1, TxSame, RetracesSame DEF SameTx, Wrote
<1>7. Tells(t1, b, batch)
  BY <1>6 DEF Tells
<1>8. IsFiniteSet(DOMAIN b)
  BY FS_Subset, IdsAssumption DEF StoreOK
<1>9. \A e \in DOMAIN batch.candidates : batch.candidates[e] \in Nat /\ batch.candidates[e] <= b[e].rev
  BY DEF EventsOK
<1>10. Whole(b)
  OBVIOUS
<1> DEFINE kept == {n \in 0..N : TxOK(f[n], b) /\ (f[n].err = None => Retraces(f[n], b) /\ Tells(f[n], b, batch))}
<1> HIDE DEF t1
<1>11. 0 \in kept
  BY <1>1, <1>3, <1>6, <1>7
<1>12. ASSUME NEW n \in 1..N, n - 1 \in kept PROVE n \in kept
  <2> DEFINE v == f[n - 1]  p == plan[n]
  <2>1. TxOK(v, b) /\ (v.err = None => Retraces(v, b) /\ Tells(v, b, batch))
    BY <1>12
  <2>2. f[n] = TellEvent(v, batch, p)
    BY <1>3
  <2>3. /\ \A c \in p.cites : scenario.on[c] \in DOMAIN b \ Links(b)
        /\ p.on # None => p.on \in DOMAIN batch.candidates \cap OfKind(b, "event")
    BY DEF EventsOK
  <2> HIDE DEF v, p, b
  <2>4. TxOK(f[n], b) /\ Onward(f[n], v) /\ (f[n].err = None => Tells(f[n], b, batch))
    <3>1. \A c \in p.cites : scenario.on[c] \in DOMAIN b
      BY <2>3
    <3>2. v.err = None => Tells(v, b, batch)
      BY <2>1
    <3> QED
      BY <1>8, <2>1, <2>2, <2>3, <3>1, <3>2, TellEventKeeps
  <2>5. ASSUME f[n].err = None PROVE Retraces(f[n], b)
    <3>1. v.err = None
      BY <2>4, <2>5 DEF Onward
    <3>2. Retraces(v, b)
      BY <2>1, <3>1
    <3>3. TellEvent(v, batch, p).err = None
      BY <2>2, <2>5
    <3> QED
      BY <1>8, <1>9, <1>10, <2>1, <2>2, <2>3, <3>2, <3>3, TellEventRetraces
  <2> QED
    BY <2>4, <2>5
<1>13. N \in kept
  <2> HIDE DEF kept, N
  <2>1. \A n \in 1..N : n - 1 \in kept => n \in kept
    BY <1>12
  <2>2. \A n \in 0..N : n \in kept
    BY <1>1, <1>11, <2>1, UpTo
  <2> QED
    BY <1>1, <2>2
<1>14. Retraces(u, b)
  BY <1>0, <1>3, <1>13
<1> QED
  BY <1>14 DEF u


LEMMA TiesWriteNothing ==
    ASSUME NEW t, NEW u, NEW b, NEW o, TxOK(t, b), TiesOnly(u, t, o) PROVE \A i \in Wrote(u) \cap DOMAIN b : i \in Wrote(t)
  BY DEF TxOK, TiesOnly

LEMMA RememberRetraces ==
    ASSUME NEW t, NEW b, TxOK(t, b), Whole(b), Retraces(t, b), NEW p, p.from \in SUBSET OfKind(b, "event"), IsFiniteSet(DOMAIN b),
           p.do \in {"create", "update", "retire"},
           p.do # "create" =>
               /\ p.on \in DOMAIN b /\ rows[p.on] = b[p.on] /\ Spared(b[p.on]) /\ b[p.on].kind = "memory" /\ b[p.on].live
               /\ p.on \notin Wrote(t),
           Remember(t, p).err = None
    PROVE  /\ Retraces(Remember(t, p), b)
           /\ \A i \in Wrote(Remember(t, p)) \cap DOMAIN b : i \in Wrote(t) \/ (p.do # "create" /\ i = p.on)
<1> DEFINE u == Remember(t, p)
           text == [t.rows[p.on] EXCEPT !.text = "synthesis"]
           gone == [t.rows[p.on] EXCEPT !.live = FALSE]
           new == IF p.do = "update" THEN text ELSE gone
<1>0. u.err = None
  OBVIOUS
<1>1. u = IF t.err # None THEN t
          ELSE IF p.do = "create" THEN Tied(Insert(t, NewObject("memory", "synthesis", {})), Fresh(t), p.from, "synthesis")
          ELSE Tied(Put(t, "synthesis", p.on, new), p.on, p.from, "synthesis")
  BY DEF Remember, Supported
<1> HIDE DEF u
<1>2. IsFiniteSet(p.from) /\ p.from \subseteq DOMAIN b \ Links(b)
  <2>1. p.from \in SUBSET DOMAIN b /\ p.from \subseteq DOMAIN b \ Links(b)
    BY DEF OfKind, Links
  <2> QED
    BY <2>1, FS_Subset
<1>3. CASE t.err # None
  BY <1>0, <1>1, <1>3
<1>4. CASE t.err = None /\ p.do = "create"
  <2> DEFINE memory == NewObject("memory", "synthesis", {})
             m == Fresh(t)
             v == Insert(t, memory)
  <2>1. /\ RowOK(memory) /\ memory.rev = 1 /\ memory.by # "owner" /\ ~memory.guarded
        /\ memory.kind = "memory" /\ memory.kind # "link"
    BY NewRowsAreOK
  <2>2. u = Tied(v, m, p.from, "synthesis")
    BY <1>1, <1>4
  <2> HIDE DEF memory, m
  <2>3. Insertable(t, memory)
    BY <2>1 DEF Insertable
  <2>4. /\ TxOK(v, b) /\ Onward(v, t)
        /\ v.err = None =>
              /\ m \notin DOMAIN t.rows /\ DOMAIN v.rows = DOMAIN t.rows \cup {m} /\ v.rows[m] = memory
              /\ Wrote(v) = Wrote(t) \cup {m}
    BY <2>1, InsertKeeps DEF m
  <2>5. v.err = None => Retraces(v, b)
    BY <2>3, InsertRetraces
  <2> HIDE DEF v
  <2>6. v.err = None => m \in DOMAIN v.rows \ Links(v.rows)
    BY <2>1, <2>4 DEF Links
  <2>7. p.from \subseteq DOMAIN v.rows \ Links(v.rows)
    BY <1>2, <2>4, NonLinksStill DEF TxOK
  <2>8. v.err = None => Retraces(v, b) /\ m \in DOMAIN v.rows \ Links(v.rows) /\ p.from \subseteq DOMAIN v.rows \ Links(v.rows)
    BY <2>5, <2>6, <2>7
  <2>9. Retraces(u, b)
    BY <1>0, <1>2, <2>2, <2>4, <2>8, TiedRetraces
  <2>10. Onward(u, v) /\ TiesOnly(u, v, m)
    <3>1. v.err = None => m \in DOMAIN v.rows /\ p.from \subseteq DOMAIN v.rows
      BY <2>8
    <3> QED
      BY <1>2, <2>2, <2>4, <3>1, TiedKeeps
  <2>11. \A i \in Wrote(u) \cap DOMAIN b : i \in Wrote(t)
    <3>1. v.err = None
      BY <1>0, <2>10 DEF Onward
    <3>2. m \notin DOMAIN b
      BY <2>4, <3>1 DEF TxOK
    <3>3. \A i \in Wrote(u) \cap DOMAIN b : i \in Wrote(v)
      BY <2>4, <2>10, TiesWriteNothing
    <3> QED
      BY <2>4, <3>1, <3>2, <3>3
  <2> QED
    BY <2>9, <2>11 DEF u
<1>5. CASE t.err = None /\ p.do # "create"
  <2> DEFINE m == p.on
             v == Put(t, "synthesis", m, new)
  <2>1. m \in DOMAIN b /\ rows[m] = b[m] /\ Spared(b[m]) /\ b[m].kind = "memory" /\ b[m].live /\ m \notin Wrote(t)
    BY <1>5
  <2>2. Writable(t, b, m) /\ RowOK(t.rows[m]) /\ t.rows[m] = b[m] /\ m \in DOMAIN t.rows
    BY <2>1 DEF Writable, TxOK, StoreOK
  <2>3. ~t.rows[m].guarded
    BY <2>2, WritableIsUnguarded
  <2>4. /\ RowOK(text) /\ Alike(t.rows[m], text) /\ text.rev = t.rows[m].rev /\ ~text.guarded
        /\ RowOK(gone) /\ Alike(t.rows[m], gone) /\ gone.rev = t.rows[m].rev /\ ~gone.guarded
    BY <2>2, <2>3 DEF RowOK, Columns, Alike
  <2> HIDE DEF text, gone
  <2>5. RowOK(new) /\ Alike(t.rows[m], new) /\ new.rev = t.rows[m].rev /\ ~new.guarded
    BY <2>4
  <2>6. u = Tied(v, m, p.from, "synthesis")
    BY <1>1, <1>5
  <2> HIDE DEF new, m
  <2>7. TxOK(v, b) /\ Onward(v, t) /\ PutsAt(v, t, m)
    BY <2>2, <2>5, PutKeeps
  <2>8. Retraces(v, b)
    <3>1. Rewritable(t, b, m)
      BY <2>1, <2>2 DEF Rewritable
    <3> QED
      BY <1>5, <2>2, <2>5, <3>1, PutRetraces
  <2> HIDE DEF v
  <2>9. {m} \cup p.from \subseteq DOMAIN v.rows \ Links(v.rows)
    <3>1. m \in DOMAIN b \ Links(b)
      BY <2>1 DEF Links
    <3> QED
      BY <1>2, <2>7, <3>1, NonLinksStill DEF TxOK
  <2>10. v.err = None => Retraces(v, b) /\ m \in DOMAIN v.rows \ Links(v.rows) /\ p.from \subseteq DOMAIN v.rows \ Links(v.rows)
    BY <2>8, <2>9
  <2>11. Retraces(u, b)
    BY <1>0, <1>2, <2>6, <2>7, <2>10, TiedRetraces
  <2>12. TiesOnly(u, v, m)
    <3>1. v.err = None => m \in DOMAIN v.rows /\ p.from \subseteq DOMAIN v.rows
      BY <2>10
    <3> QED
      BY <1>2, <2>6, <2>7, <3>1, TiedKeeps
  <2>13. \A i \in Wrote(u) \cap DOMAIN b : i \in Wrote(t) \/ i = m
    <3>1. \A i \in Wrote(u) \cap DOMAIN b : i \in Wrote(v)
      BY <2>7, <2>12, TiesWriteNothing
    <3> QED
      BY <1>5, <2>7, <3>1 DEF PutsAt
  <2> QED
    BY <1>5, <2>11, <2>13 DEF u, m
<1> QED
  BY <1>3, <1>4, <1>5

\* A synthesis writes each Memory it was shown once.
LEMMA SynthesisedRetraces ==
    ASSUME NEW w, NEW base, base = at[w].base, StoreOK(base.rows), Whole(base.rows), Later(base.rows, rows),
           IdeasOK(at[w].batch, at[w].plan, base.rows), Synthesised(w).err = None
    PROVE  Retraces(Synthesised(w), base.rows)
<1> DEFINE b == base.rows  plan == at[w].plan  batch == at[w].batch  N == Len(plan)
           t0 == Reviewable(w, base, batch)
           u == Synthesised(w)
<1>0. u.err = None
  OBVIOUS
<1>1. N \in Nat
  BY SeqFacts DEF IdeasOK
<1>2. PICK f : /\ f[0] = t0 /\ u = f[N]
               /\ \A n \in 1..N : f[n] = Remember(f[n - 1], plan[n])
  <2>1. PICK f : /\ f[0] = Reviewable(w, at[w].base, at[w].batch)
                 /\ \A n \in 1..Len(at[w].plan) : f[n] = Remember(f[n - 1], at[w].plan[n])
                 /\ Synthesised(w) = f[Len(at[w].plan)]
    BY <1>1, SynthesisedUnfolds
  <2> QED
    BY <2>1
<1>3. IdeasOK(batch, plan, b) /\ Whole(b)
  OBVIOUS
<1> HIDE DEF b, plan, batch, u
<1>4. /\ TxOK(t0, b) /\ Wrote(t0) = {} /\ SameTx(t0, Begun(b))
      /\ t0.err = None => \A i \in DOMAIN batch.memories : ~Moved(Begun(b), i) /\ b[i].rev = batch.memories[i]
  BY ReviewableKeeps DEF b
<1> HIDE DEF t0
<1>5. Retraces(t0, b)
  <2>1. Retraces(Begun(b), b)
    BY <1>3, RetracingBegins DEF b
  <2> QED
    BY <1>4, <2>1, RetracesSame
<1>6. Recalls(t0, b) /\ Onward(t0, t0)
  <2>1. SameTx(t0, t0)
    BY <1>4 DEF SameTx, TxOK
  <2> QED
    BY <1>4, <2>1, TxSame DEF Recalls
<1>7. IsFiniteSet(DOMAIN b)
  BY FS_Subset, IdsAssumption DEF StoreOK, b
<1> DEFINE Done(n) == \A i \in Wrote(f[n]) \cap DOMAIN b : \E k \in 1..n : plan[k].do # "create" /\ plan[k].on = i
           kept == {n \in 0..N : /\ TxOK(f[n], b) /\ Onward(f[n], t0)
                                 /\ f[n].err = None => Recalls(f[n], b) /\ Retraces(f[n], b) /\ Done(n)}
<1>8. 0 \in kept
  BY <1>1, <1>2, <1>4, <1>5, <1>6
<1>9. ASSUME NEW n \in 1..N, n - 1 \in kept PROVE n \in kept
  <2> DEFINE v == f[n - 1]  p == plan[n]
  <2>1. TxOK(v, b) /\ Onward(v, t0) /\ (v.err = None => Recalls(v, b) /\ Retraces(v, b) /\ Done(n - 1))
    BY <1>9
  <2>2. f[n] = Remember(v, p)
    BY <1>2
  <2>3. /\ p.do \in {"create", "update", "retire"} /\ p.from = DOMAIN batch.prints /\ DOMAIN batch.prints \subseteq OfKind(b, "event")
        /\ p.do # "create" => /\ p.on \in DOMAIN batch.memories
                              /\ b[p.on].rev = batch.memories[p.on] => Editable(b[p.on])
        /\ DOMAIN batch.memories \subseteq DOMAIN b
    BY <1>3 DEF IdeasOK, OfKind
  <2>4. p.do # "create" => \A k \in 1..(n - 1) : ~(plan[k].do # "create" /\ plan[k].on = p.on)
    <3>1. \A k \in 1..(n - 1) : k \in 1..N /\ k # n
      BY <1>1
    <3> QED
      BY <1>3, <3>1 DEF IdeasOK
  <2>10. v.err = None => \A i \in Wrote(v) \cap DOMAIN b : \E k \in 1..(n - 1) : plan[k].do # "create" /\ plan[k].on = i
    BY <2>1
  <2> HIDE DEF v, p
  <2>5. ASSUME v.err = None, p.do # "create"
        PROVE  /\ p.on \in DOMAIN b /\ rows[p.on] = b[p.on] /\ Spared(b[p.on]) /\ b[p.on].kind = "memory" /\ b[p.on].live
               /\ p.on \notin Wrote(v)
    <3>1. t0.err = None
      BY <2>1, <2>5 DEF Onward
    <3>2. p.on \in DOMAIN batch.memories /\ p.on \in DOMAIN b
      BY <2>3, <2>5
    <3>3. ~Moved(Begun(b), p.on) /\ b[p.on].rev = batch.memories[p.on]
      BY <1>4, <3>1, <3>2
    <3>4. rows[p.on] = b[p.on]
      BY <3>2, <3>3 DEF Moved, Begun
    <3>5. Editable(b[p.on])
      BY <2>3, <2>5, <3>3
    <3>6. p.on \notin Wrote(v)
      BY <2>4, <2>5, <2>10, <3>2
    <3> QED
      BY <3>2, <3>4, <3>5, <3>6 DEF Editable, Spared
  <2>6. p.from \in SUBSET DOMAIN b /\ p.from \in SUBSET OfKind(b, "event")
    BY <2>3 DEF OfKind
  <2>7. TxOK(f[n], b) /\ Onward(f[n], v) /\ (f[n].err = None => Recalls(f[n], b))
    <3>1. v.err = None /\ p.do # "create" =>
             p.on \in DOMAIN b /\ rows[p.on] = b[p.on] /\ Spared(b[p.on]) /\ b[p.on].kind = "memory"
      BY <2>5
    <3>2. v.err = None => Recalls(v, b)
      BY <2>1
    <3> QED
      BY <1>7, <2>1, <2>2, <2>3, <2>6, <3>1, <3>2, RememberKeeps
  <2>8. ASSUME f[n].err = None PROVE Retraces(f[n], b) /\ Done(n)
    <3>1. v.err = None
      BY <2>7, <2>8 DEF Onward
    <3>2. Retraces(v, b) /\ Done(n - 1)
      BY <2>1, <3>1
    <3>3. Remember(v, p).err = None
      BY <2>2, <2>8
    <3>4. /\ Retraces(f[n], b)
          /\ \A i \in Wrote(f[n]) \cap DOMAIN b : i \in Wrote(v) \/ (p.do # "create" /\ i = p.on)
      <4> HIDE DEF Done
      <4>1. p.do # "create" =>
               /\ p.on \in DOMAIN b /\ rows[p.on] = b[p.on] /\ Spared(b[p.on]) /\ b[p.on].kind = "memory" /\ b[p.on].live
               /\ p.on \notin Wrote(v)
        BY <2>5, <3>1
      <4> QED
        BY <1>3, <1>7, <2>1, <2>2, <2>3, <2>6, <3>2, <3>3, <4>1, RememberRetraces
    <3>5. Done(n)
      <4>1. \A k \in 1..(n - 1) : k \in 1..n
        OBVIOUS
      <4>2. n \in 1..n
        OBVIOUS
      <4> QED
        BY <3>2, <3>4, <4>1, <4>2 DEF v, p
    <3> QED
      BY <3>4, <3>5
  <2>9. Onward(f[n], t0)
    BY <1>4, <2>1, <2>7, OnwardStill
  <2> QED
    BY <2>7, <2>8, <2>9
<1>10. N \in kept
  <2> HIDE DEF kept, N
  <2>1. \A n \in 1..N : n - 1 \in kept => n \in kept
    BY <1>9
  <2>2. \A n \in 0..N : n \in kept
    BY <1>1, <1>8, <2>1, UpTo
  <2> QED
    BY <1>1, <2>2
<1>11. Retraces(u, b)
  BY <1>0, <1>2, <1>10
<1> QED
  BY <1>11 DEF u, b

(****************************** commits *************************************)
\* The rows a person protected, or wrote last, stay as they are.
Spares(r, s) == \A i \in DOMAIN r : s[i] # r[i] => Spared(r[i])

LEMMA CommittedKeeps ==
    ASSUME NEW t, NEW b, TxOK(t, b), StoreOK(rows), Later(b, rows)
    PROVE  LET s == Committed(t) IN
           /\ StoreOK(s) /\ Later(rows, s) /\ JournalOK(t.log, s) /\ Spares(rows, s)
           /\ DOMAIN s = DOMAIN rows \cup Wrote(t)
           /\ \A i \in Wrote(t) : s[i] = t.rows[i]
           /\ \A i \in DOMAIN rows \ Wrote(t) : s[i] = rows[i]
           /\ Wrote(t) \ DOMAIN rows = Wrote(t) \ DOMAIN b
<1> DEFINE s == Committed(t)
<1>1. /\ DOMAIN s = DOMAIN rows \cup Wrote(t)
      /\ \A i \in Wrote(t) : s[i] = t.rows[i]
      /\ \A i \in DOMAIN rows \ Wrote(t) : s[i] = rows[i]
  BY DEF Committed
<1> HIDE DEF s
<1>2. /\ DOMAIN b \subseteq DOMAIN rows /\ Wrote(t) \cap DOMAIN rows \subseteq DOMAIN b
      /\ DOMAIN t.rows = DOMAIN b \cup Wrote(t)
      /\ StoreOK(t.rows) /\ Later(b, t.rows) /\ StoreOK(b)
  BY DEF TxOK, Later
<1>3. \A i \in DOMAIN s : RowOK(s[i])
  BY <1>1, <1>2 DEF StoreOK
<1>4. StoreOK(s)
  <2>1. ASSUME NEW l \in Links(s) PROVE s[l].src \in DOMAIN s /\ s[l].dst \in DOMAIN s
    <3>1. CASE l \in Wrote(t)
      <4>1. l \in Links(t.rows) /\ s[l] = t.rows[l]
        BY <1>1, <1>2, <2>1, <3>1 DEF Links
      <4>2. t.rows[l].src \in DOMAIN t.rows /\ t.rows[l].dst \in DOMAIN t.rows
        BY <1>2, <4>1 DEF StoreOK
      <4> QED
        BY <1>1, <1>2, <4>1, <4>2
    <3>2. CASE l \notin Wrote(t)
      <4>1. l \in Links(rows) /\ s[l] = rows[l]
        BY <1>1, <2>1, <3>2 DEF Links
      <4>2. rows[l].src \in DOMAIN rows /\ rows[l].dst \in DOMAIN rows
        BY <4>1 DEF StoreOK
      <4> QED
        BY <1>1, <4>1, <4>2
    <3> QED
      BY <3>1, <3>2
  <2> QED
    BY <1>1, <1>2, <1>3, <2>1 DEF StoreOK
<1>5. Later(rows, s) /\ Spares(rows, s)
  <2>1. ASSUME NEW i \in DOMAIN rows
        PROVE  /\ Alike(rows[i], s[i]) /\ rows[i].rev <= s[i].rev
               /\ rows[i].rev = s[i].rev => rows[i] = s[i]
               /\ s[i] # rows[i] => Spared(rows[i])
    <3>1. CASE i \in Wrote(t)
      <4>1. i \in DOMAIN b /\ rows[i] = b[i] /\ s[i] = t.rows[i] /\ Spared(b[i])
        BY <1>1, <1>2, <3>1 DEF TxOK
      <4> QED
        BY <1>2, <4>1 DEF Later
    <3>2. CASE i \notin Wrote(t)
      <4>1. s[i] = rows[i] /\ rows[i].rev \in Nat
        BY <1>1, <3>2 DEF StoreOK, RowOK
      <4> QED
        BY <4>1 DEF Alike
    <3> QED
      BY <3>1, <3>2
  <2> QED
    BY <1>1, <2>1 DEF Later, Spares
<1>6. JournalOK(t.log, s)
  <2>1. JournalOK(t.log, t.rows) /\ DOMAIN t.log = 1..Len(t.log)
    BY SeqFacts DEF TxOK, JournalOK
  <2>2. ASSUME NEW k \in 1..Len(t.log) PROVE EntryOK(t.log[k], s)
    <3>1. t.log[k].on \in Wrote(t)
      BY <2>1, <2>2 DEF Wrote
    <3>2. s[t.log[k].on] = t.rows[t.log[k].on] /\ t.log[k].on \in DOMAIN s
      BY <1>1, <3>1
    <3> QED
      BY <2>1, <2>2, <3>2 DEF JournalOK, EntryOK
  <2> QED
    BY <2>1, <2>2 DEF JournalOK
<1> QED
  BY <1>1, <1>2, <1>4, <1>5, <1>6 DEF s

\* Committed, such a transaction leaves a store that is whole, and can be undone.
LEMMA CommittedIsWhole ==
    ASSUME NEW t, NEW b, TxOK(t, b), Retraces(t, b), StoreOK(rows), Whole(rows), Later(b, rows)
    PROVE  Whole(Committed(t)) /\ Unwinds(t.log, Committed(t))
<1> DEFINE s == Committed(t)
<1>1. /\ StoreOK(s) /\ Later(rows, s)
      /\ DOMAIN s = DOMAIN rows \cup Wrote(t)
      /\ \A i \in Wrote(t) : s[i] = t.rows[i]
      /\ \A i \in DOMAIN rows \ Wrote(t) : s[i] = rows[i]
  BY CommittedKeeps
<1> HIDE DEF s
<1>2. /\ StoreOK(t.rows) /\ Whole(t.rows) /\ DOMAIN t.rows = DOMAIN b \cup Wrote(t) /\ DOMAIN b \subseteq DOMAIN rows
      /\ Wrote(t) \cap DOMAIN rows \subseteq DOMAIN b /\ Later(b, t.rows)
  BY DEF TxOK, Retraces, Later
<1>3. \A l \in Links(s) : \/ l \in Wrote(t) /\ l \in Links(t.rows) /\ s[l] = t.rows[l]
                          \/ l \notin Wrote(t) /\ l \in Links(rows) /\ s[l] = rows[l]
  BY <1>1, <1>2 DEF Links
<1>4. \A i \in DOMAIN t.rows : i \in DOMAIN s /\ s[i].kind = t.rows[i].kind
  BY <1>1, <1>2 DEF Later, Alike
<1>5. \A i \in DOMAIN rows : i \in DOMAIN s /\ s[i].kind = rows[i].kind
  BY <1>1 DEF Later, Alike
<1>6. ASSUME NEW l \in Links(s) PROVE EndsOf(s[l]) \cap Links(s) = {}
  <2>1. CASE l \in Wrote(t)
    <3>1. EndsOf(s[l]) \subseteq DOMAIN t.rows /\ EndsOf(s[l]) \cap Links(t.rows) = {}
      BY <1>2, <1>3, <2>1 DEF StoreOK, Whole, EndsOf
    <3> QED
      BY <1>4, <3>1 DEF Links
  <2>2. CASE l \notin Wrote(t)
    <3>1. EndsOf(s[l]) \subseteq DOMAIN rows /\ EndsOf(s[l]) \cap Links(rows) = {}
      BY <1>3, <2>2 DEF StoreOK, Whole, EndsOf
    <3> QED
      BY <1>5, <3>1 DEF Links
  <2> QED
    BY <2>1, <2>2
<1>7. ASSUME NEW l \in Links(s), NEW m \in Links(s), s[l].live, s[m].live, Parallel(s[l], s[m]),
             l \in Wrote(t), m \notin Wrote(t)
      PROVE  FALSE
  <2>1. l \in Links(t.rows) /\ s[l] = t.rows[l] /\ m \in Links(rows) /\ s[m] = rows[m]
    BY <1>3, <1>7
  <2>2. CASE l \in DOMAIN b
    <3>1. rows[l] = b[l] /\ Alike(b[l], t.rows[l])
      BY <1>2, <1>7, <2>2 DEF TxOK, Later
    <3>2. l \in Links(b) /\ b[l].live
      BY <1>7, <2>1, <2>2, <3>1 DEF Links, Alike, Retraces
    <3>3. l \in Links(rows) /\ rows[l].live /\ Parallel(rows[l], rows[m])
      BY <1>2, <1>7, <2>1, <2>2, <3>1, <3>2 DEF Links, Alike, Parallel
    <3>4. l = m
      BY <1>7, <2>1, <3>3 DEF Whole
    <3> QED
      BY <1>7, <3>4
  <2>3. CASE l \notin DOMAIN b
    <3>1. m \in Same(rows, t.rows[l].src, t.rows[l].rel, t.rows[l].dst)
      BY <1>7, <2>1 DEF Same, Parallel
    <3> QED
      BY <1>7, <2>1, <2>3, <3>1 DEF Retraces
  <2> QED
    BY <2>2, <2>3
<1>8. ASSUME NEW l \in Links(s), NEW m \in Links(s), s[l].live, s[m].live, Parallel(s[l], s[m])
      PROVE  l = m
  <2>1. Parallel(s[m], s[l])
    BY <1>8 DEF Parallel
  <2>2. (l \in Wrote(t)) = (m \in Wrote(t))
    BY <1>7, <1>8, <2>1
  <2>3. CASE l \in Wrote(t) /\ m \in Wrote(t)
    BY <1>2, <1>3, <1>8, <2>3 DEF Whole
  <2>4. CASE l \notin Wrote(t) /\ m \notin Wrote(t)
    BY <1>3, <1>8, <2>4 DEF Whole
  <2> QED
    BY <2>2, <2>3, <2>4
<1>9. Whole(s)
  BY <1>6, <1>8 DEF Whole
<1>10. Unwinds(t.log, s)
  <2>1. DOMAIN t.log = 1..Len(t.log) /\ Len(t.log) \in Nat
    BY SeqFacts DEF TxOK, JournalOK
  <2>2. \A k \in 1..Len(t.log) : s[t.log[k].on] = t.rows[t.log[k].on]
    BY <1>1, <2>1 DEF Wrote
  <2>3. \A k \in 1..Len(t.log) : \A j \in 1..(k - 1) : j \in 1..Len(t.log)
    BY <2>1
  <2>4. Unwinds(t.log, t.rows)
    BY DEF Retraces
  <2>5. \A k \in 1..Len(t.log) : s[t.log[k].on].kind \in {"memory", "event", "link"}
    BY <2>2, <2>4 DEF Unwinds
  <2>6. ASSUME NEW k \in 1..Len(t.log), NEW j \in 1..(k - 1) PROVE Ordered(t.log[j], t.log[k], s)
    <3> DEFINE d == t.log[j]  e == t.log[k]
    <3>1. s[d.on] = t.rows[d.on] /\ s[e.on] = t.rows[e.on]
      BY <2>2, <2>3
    <3>2. Ordered(d, e, t.rows)
      BY <2>4 DEF Unwinds
    <3> HIDE DEF d, e
    <3>3. Ordered(d, e, s)
      BY <3>1, <3>2 DEF Ordered, Revived, IsLink, Stays
    <3> QED
      BY <3>3 DEF d, e
  <2> QED
    BY <2>5, <2>6 DEF Unwinds
<1> QED
  BY <1>9, <1>10 DEF s

(****************************** steps ***************************************)
\* The Runs go on: each keeps its kind, its versions and its preview.
RunsAge(q, s) ==
    /\ IsSeq(q) /\ IsSeq(s) /\ Len(q) <= Len(s)
    /\ \A k \in 1..Len(q) : s[k].kind = q[k].kind /\ s[k].prints = q[k].prints /\ s[k].parent = q[k].parent
\* An extraction that failed stays so, and none starts again.
Tame(q, s) ==
    \A k \in 1..Len(q) : q[k].kind = "event_capture" =>
        /\ q[k].status = "failed" => s[k].status = "failed"
        /\ s[k].status = "running" => q[k].status = "running"
NoOutcome(q, s) == \A k \in 1..Len(s) : s[k].kind \in {"memory_capture", "event_capture"} => k <= Len(q)
NoReview(q, s) == \A k \in 1..Len(s) : ReviewsOf(s[k]) => k <= Len(q) /\ ReviewsOf(q[k])
RunsGo(q, s) == RunsAge(q, s) /\ Tame(q, s) /\ NoOutcome(q, s) /\ NoReview(q, s)

LEMMA RunsStill == ASSUME NEW q, IsSeq(q) PROVE RunsGo(q, q)
<1>1. Len(q) \in Nat
  BY SeqFacts
<1> QED
  BY <1>1 DEF RunsGo, RunsAge, Tame, NoOutcome, NoReview

LEMMA RunAges ==
    ASSUME NEW r, NEW s, StoreOK(r), StoreOK(s), Later(r, s), NEW n \in Nat, NEW m \in Nat, n <= m,
           NEW run, RunOK(run, n, r)
    PROVE  RunOK(run, m, s)
<1>1. JournalOK(run.log, s) /\ Unwinds(run.log, s)
  BY JournalAges, UnwindsAges DEF RunOK
<1>2. run.status = "preview" => PlanOK(run.kind, run.saved.batch, run.saved.plan, s)
  BY PlanAges DEF RunOK
<1> QED
  BY <1>1, <1>2 DEF RunOK

LEMMA RunsAgeRows ==
    ASSUME NEW r, NEW s, StoreOK(r), StoreOK(s), Later(r, s), NEW q, RunsOK(q, r)
    PROVE  RunsOK(q, s)
<1>1. Len(q) \in Nat
  BY SeqFacts DEF RunsOK
<1> QED
  BY <1>1, RunAges DEF RunsOK

\* Functions on 1..n are sequences.
LEMMA NumberedIsSeq ==
    ASSUME NEW n \in Nat, NEW f, DOMAIN f = 1..n, f = [k \in 1..n |-> f[k]]
    PROVE  IsSeq(f) /\ Len(f) = n
<1>1. f \in [1..n -> Range(f)]
  BY DEF Range
<1> QED
  BY <1>1 DEF IsSeq

\* Some of the Runs change their status or what they keep.
LEMMA SomeRunsChange ==
    ASSUME NEW q, NEW r, RunsOK(q, r), NEW s, DOMAIN s = DOMAIN q, s = [k \in DOMAIN q |-> s[k]],
           \A k \in DOMAIN q : /\ RunOK(s[k], Len(q), r)
                               /\ s[k].kind = q[k].kind /\ s[k].prints = q[k].prints /\ s[k].parent = q[k].parent
    PROVE  /\ RunsOK(s, r) /\ RunsAge(q, s) /\ NoOutcome(q, s)
           /\ Len(s) = Len(q) /\ DOMAIN s = 1..Len(s) /\ Len(q) \in Nat
<1>1. IsSeq(q) /\ Len(q) \in Nat /\ DOMAIN q = 1..Len(q)
  BY SeqFacts DEF RunsOK
<1>2. IsSeq(s) /\ Len(s) = Len(q)
  BY <1>1, NumberedIsSeq
<1> QED
  BY <1>1, <1>2 DEF RunsOK, RunsAge, NoOutcome

\* One more Run.
LEMMA OneMoreRun ==
    ASSUME NEW q, NEW r, StoreOK(r), RunsOK(q, r), NEW run, RunOK(run, Len(q) + 1, r)
    PROVE  LET s == Append(q, run) IN
           /\ RunsOK(s, r) /\ RunsAge(q, s) /\ Tame(q, s)
           /\ Len(q) \in Nat /\ Len(s) = Len(q) + 1 /\ s[Len(q) + 1] = run /\ \A k \in 1..Len(q) : s[k] = q[k]
           /\ run.kind \notin {"memory_capture", "event_capture"} => NoOutcome(q, s)
           /\ ~ReviewsOf(run) => NoReview(q, s)
<1> DEFINE s == Append(q, run)
<1>1. /\ IsSeq(q) /\ Len(q) \in Nat /\ IsSeq(s) /\ Len(s) = Len(q) + 1 /\ s[Len(q) + 1] = run
      /\ \A k \in 1..Len(q) : s[k] = q[k]
  BY SeqFacts DEF RunsOK
<1>2. \A k \in 1..Len(s) : k \in 1..Len(q) \/ k = Len(q) + 1
  BY <1>1
<1>3. \A k \in 1..Len(q) : RunOK(q[k], Len(q) + 1, r)
  BY <1>1, RunAges, LaterItself DEF RunsOK
<1> HIDE DEF s
<1>4. RunsOK(s, r)
  BY <1>1, <1>2, <1>3 DEF RunsOK
<1>5. RunsAge(q, s) /\ Tame(q, s)
  BY <1>1 DEF RunsAge, Tame
<1>6. run.kind \notin {"memory_capture", "event_capture"} => NoOutcome(q, s)
  BY <1>1, <1>2 DEF NoOutcome
<1>7. ~ReviewsOf(run) => NoReview(q, s)
  BY <1>1, <1>2 DEF NoReview
<1> QED
  BY <1>1, <1>4, <1>5, <1>6, <1>7 DEF s

\* A pass that stays where it is.
LEMMA PassAges ==
    ASSUME NEW w, NEW a, NEW q, NEW r, NEW c, NEW q2, NEW r2,
           PassOK(w, a, q, r, c), RunsAge(q, q2), StoreOK(r), StoreOK(r2), Later(r, r2)
    PROVE  PassOK(w, a, q2, r2, c)
<1>1. Len(q) \in Nat /\ Len(q2) \in Nat /\ Len(q) <= Len(q2)
  BY SeqFacts DEF RunsAge
<1>2. a.pc \in Steps_ => /\ a.run \in 1..Len(q) /\ a.run \in 1..Len(q2)
                         /\ q2[a.run].kind = q[a.run].kind /\ q2[a.run].prints = q[a.run].prints
  BY <1>1 DEF PassOK, RunsAge
<1>3. a.pc = "model" => PlanOK(q2[a.run].kind, a.batch, << >>, r2)
  BY <1>2, PlanAges DEF PassOK, Steps_
<1>4. a.pc = "begin" => PlanOK(q2[a.run].kind, a.batch, a.plan, r2)
  BY <1>2, PlanAges DEF PassOK, Steps_
<1>5. a.pc = "commit" =>
        /\ StoreOK(a.base.rows) /\ Whole(a.base.rows) /\ Later(a.base.rows, r2)
        /\ PlanOK(q2[a.run].kind, a.batch, a.plan, a.base.rows)
  BY <1>2, LaterStill DEF PassOK, Steps_
<1> QED
  BY <1>2, <1>3, <1>4, <1>5 DEF PassOK

\* An extraction runs only if it ran before.
NoneStarts(q, s) ==
    \A k \in 1..Len(s) : s[k].kind = "event_capture" /\ s[k].status = "running" => k <= Len(q) /\ q[k].status = "running"

\* A step of the process p: the others stay where they are, and keep their leases.
Frame(p) ==
    /\ scenario' = scenario /\ todo' \subseteq todo
    /\ armed' \cup timing' \subseteq Reviewers /\ woken' \subseteq Reviewers /\ LeaseType(lease')
    /\ DOMAIN at' = Processes
    /\ \A w \in Processes \ {p} : at'[w] = at[w] /\ (lease[LeaseOf(w)] = w => lease'[LeaseOf(w)] = w)
\* What it does to the store, and to what it leaves alone of the rest.
StoreGoes == StoreOK(rows') /\ Whole(rows') /\ Later(rows, rows') /\ RunsOK(runs', rows')

LEMMA GoneNoneStarts == ASSUME NEW q, NEW s, RunsAge(q, s), Tame(q, s), NoOutcome(q, s) PROVE NoneStarts(q, s)
<1>1. Len(q) \in Nat /\ Len(s) \in Nat
  BY SeqFacts DEF RunsAge
<1>2. ASSUME NEW k \in 1..Len(s), s[k].kind = "event_capture", s[k].status = "running"
      PROVE  k <= Len(q) /\ q[k].status = "running"
  <2>1. k <= Len(q)
    BY <1>2 DEF NoOutcome
  <2>2. k \in 1..Len(q) /\ q[k].kind = "event_capture"
    BY <1>1, <1>2, <2>1 DEF RunsAge
  <2> QED
    BY <1>2, <2>1, <2>2 DEF Tame
<1> QED
  BY <1>2 DEF NoneStarts

LEMMA LeaseAges ==
    ASSUME NEW w, NEW a, NEW q, NEW r, NEW z, PassOK(w, a, q, r, z), NEW l, NEW c, NEW s, NEW m,
           LeaseOK(w, a, q, l, c), RunsAge(q, s), NoneStarts(q, s), l[LeaseOf(w)] = w => m[LeaseOf(w)] = w
    PROVE  LeaseOK(w, a, s, m, c)
<1>1. Len(q) \in Nat /\ Len(s) \in Nat /\ Len(q) <= Len(s)
  BY SeqFacts DEF RunsAge
<1>2. (w = Operator /\ a.pc # "idle") \/ a.pc = "commit" => s[a.run].kind = q[a.run].kind
  BY DEF RunsAge, PassOK, Steps_
<1>3. w \in Capturers /\ a.pc = "event_capture" =>
         \A k \in 1..Len(s) : s[k].kind = "event_capture" => s[k].status # "running"
  <2>1. ASSUME w \in Capturers, a.pc = "event_capture", NEW k \in 1..Len(s), s[k].kind = "event_capture", s[k].status = "running"
        PROVE  FALSE
    <3>1. k \in 1..Len(q) /\ q[k].status = "running"
      BY <1>1, <2>1 DEF NoneStarts
    <3>2. q[k].kind = "event_capture"
      BY <2>1, <3>1 DEF RunsAge
    <3> QED
      BY <2>1, <3>1, <3>2 DEF LeaseOK
  <2> QED
    BY <2>1
<1> QED
  BY <1>2, <1>3 DEF LeaseOK

LEMMA UndisturbedStill ==
    ASSUME scenario' = scenario, todo' \subseteq todo, Undisturbed' PROVE Undisturbed
  BY DEF Undisturbed

LEMMA StepKeeps ==
    ASSUME IInv, NEW p \in Processes, Frame(p), StoreGoes, RunsAge(runs, runs'),
           PassOK(p, at'[p], runs', rows', scenario)
    PROVE  /\ StoreInv' /\ RunsInv' /\ PassInv' /\ WaitInv'
           /\ cut' = cut /\ NoneStarts(runs, runs') /\ (Undisturbed' => LeaseOK(p, at'[p], runs', lease', cut)) => LeaseInv'
<1>1. StoreInv'
  <2>1. DOMAIN rows \ Links(rows) \subseteq DOMAIN rows' \ Links(rows')
    BY DEF StoreGoes, Later, Alike, Links
  <2> QED
    BY <2>1 DEF IInv, StoreInv, StoreGoes, Frame, Later
<1>2. RunsInv'
  BY DEF RunsInv, StoreGoes
<1>3. WaitInv'
  BY DEF IInv, WaitInv, Frame
<1>4. StoreOK(rows) /\ StoreOK(rows') /\ Later(rows, rows') /\ scenario' = scenario
  BY DEF IInv, StoreInv, StoreGoes, Frame
<1>5. ASSUME NEW w \in Processes \ {p} PROVE PassOK(w, at'[w], runs', rows', scenario')
  <2>1. PassOK(w, at[w], runs, rows, scenario) /\ at'[w] = at[w]
    BY DEF IInv, PassInv, Frame
  <2> QED
    BY <1>4, <2>1, PassAges
<1>6. PassInv'
  BY <1>4, <1>5 DEF PassInv, Frame
<1>7. ASSUME cut' = cut, NoneStarts(runs, runs'), Undisturbed' => LeaseOK(p, at'[p], runs', lease', cut)
      PROVE  LeaseInv'
  <2>1. SUFFICES ASSUME Undisturbed', NEW w \in Processes PROVE LeaseOK(w, at'[w], runs', lease', cut)
    BY <1>7 DEF LeaseInv
  <2>2. CASE w = p
    BY <1>7, <2>1, <2>2
  <2>3. CASE w # p
    <3>1. Undisturbed
      BY <2>1, UndisturbedStill DEF Frame
    <3>2. LeaseOK(w, at[w], runs, lease, cut) /\ PassOK(w, at[w], runs, rows, scenario)
      BY <3>1 DEF IInv, LeaseInv, PassInv
    <3>3. at'[w] = at[w] /\ (lease[LeaseOf(w)] = w => lease'[LeaseOf(w)] = w)
      BY <2>3 DEF Frame
    <3> QED
      BY <1>7, <3>2, <3>3, LeaseAges
  <2> QED
    BY <2>2, <2>3
<1> QED
  BY <1>1, <1>2, <1>3, <1>6, <1>7

LEMMA OutcomesStill ==
    ASSUME NEW q, NEW s, RunsAge(q, s), NoOutcome(q, s), Tame(q, s), NEW u, NEW v, v => u, OutcomesOK(q, u)
    PROVE  OutcomesOK(s, v)
<1>1. Len(q) \in Nat /\ Len(s) \in Nat
  BY SeqFacts DEF RunsAge
<1>2. ASSUME NEW k \in 1..Len(s), s[k].kind \in {"memory_capture", "event_capture"}
      PROVE  /\ k \in 1..Len(q) /\ s[k].kind = q[k].kind /\ s[k].prints = q[k].prints
             /\ s[k].kind = "event_capture" /\ s[k].status # "failed" => q[k].status # "failed"
  <2>1. k \in 1..Len(q)
    BY <1>1, <1>2 DEF NoOutcome
  <2> QED
    BY <1>2, <2>1 DEF RunsAge, Tame
<1> QED
  BY <1>2 DEF OutcomesOK

LEMMA SynthesesStill ==
    ASSUME NEW q, NEW s, RunsAge(q, s), NoReview(q, s), SynthesesOK(q) PROVE SynthesesOK(s)
<1>1. Len(q) \in Nat /\ Len(s) \in Nat
  BY SeqFacts DEF RunsAge
<1>2. ASSUME NEW k \in 1..Len(s), ReviewsOf(s[k])
      PROVE  k \in 1..Len(q) /\ s[k].prints = q[k].prints /\ ReviewsOf(q[k])
  <2>1. k \in 1..Len(q) /\ ReviewsOf(q[k])
    BY <1>1, <1>2 DEF NoReview
  <2> QED
    BY <2>1 DEF RunsAge
<1> QED
  BY <1>2 DEF SynthesesOK

LEMMA LegacyStill ==
    ASSUME LegacyOK(cut, runs, at), NEW p \in Processes, Frame(p), RunsAge(runs, runs'), NoOutcome(runs, runs'),
           cut.done => cut'.done, at'[p].pc = "event_capture" => cut.done
    PROVE  LegacyOK(cut', runs', at')
<1>1. Len(runs) \in Nat /\ Len(runs') \in Nat
  BY SeqFacts DEF RunsAge
<1>2. ASSUME ~cut'.done, NEW k \in 1..Len(runs'), runs'[k].kind = "event_capture" PROVE FALSE
  <2>1. k \in 1..Len(runs)
    BY <1>1, <1>2 DEF NoOutcome
  <2> QED
    BY <1>2, <2>1 DEF RunsAge, LegacyOK
<1>3. ASSUME ~cut'.done, NEW w \in Processes, at'[w].pc = "event_capture" PROVE FALSE
  BY <1>3 DEF LegacyOK, Frame
<1> QED
  BY <1>2, <1>3 DEF LegacyOK

\* Most steps start no extraction, capture nothing and review nothing.
LEMMA OrdinaryStep ==
    ASSUME IInv, NEW p \in Processes, Frame(p), StoreGoes, RunsGo(runs, runs'), cut' = cut,
           PassOK(p, at'[p], runs', rows', scenario),
           at'[p].pc = "event_capture" => cut.done,
           Undisturbed' => LeaseOK(p, at'[p], runs', lease', cut)
    PROVE  IInv'
<1>1. StoreInv' /\ RunsInv' /\ PassInv' /\ WaitInv' /\ LeaseInv'
  BY StepKeeps, GoneNoneStarts DEF RunsGo
<1>2. OutcomesOK(runs', Undisturbed')
  <2>1. Undisturbed' => Undisturbed
    BY UndisturbedStill DEF Frame
  <2>2. OutcomesOK(runs, Undisturbed)
    BY DEF IInv, OutcomesInv
  <2> HIDE DEF Undisturbed
  <2> QED
    BY <2>1, <2>2, OutcomesStill DEF RunsGo
<1>3. LegacyOK(cut', runs', at')
  BY LegacyStill DEF IInv, OutcomesInv, RunsGo
<1>4. SynthesesInv'
  BY SynthesesStill DEF IInv, SynthesesInv, RunsGo
<1>5. OutcomesInv'
  BY <1>2, <1>3 DEF OutcomesInv
<1> QED
  BY <1>1, <1>4, <1>5 DEF IInv

\* The rest of a step: who else is where, and what there is still to come.
Around_(p) ==
    /\ scenario' = scenario /\ todo' \subseteq todo
    /\ armed' \cup timing' \subseteq Reviewers /\ woken' \subseteq Reviewers
    /\ DOMAIN at' = Processes /\ \A w \in Processes \ {p} : at'[w] = at[w]

LEMMA ReleasedKeeps ==
    ASSUME NEW p \in Processes, LeaseType(lease)
    PROVE  /\ LeaseType(Released(p))
           /\ \A w \in Processes \ {p} : lease[LeaseOf(w)] = w => Released(p)[LeaseOf(w)] = w
  BY DEF Released, LeaseType, LeaseOf

LEMMA ClaimedKeeps ==
    ASSUME NEW p \in Processes, LeaseType(lease), lease[LeaseOf(p)] = None, Claimed(p)
    PROVE  /\ LeaseType(lease') /\ lease'[LeaseOf(p)] = p
           /\ \A w \in Processes \ {p} : lease[LeaseOf(w)] = w => lease'[LeaseOf(w)] = w
<1>1. \A w \in Processes : w # None
  BY NoneAssumption
<1>2. /\ DOMAIN lease = {"capture", "review"} /\ LeaseOf(p) \in DOMAIN lease
      /\ lease' = [lease EXCEPT ![LeaseOf(p)] = p]
  BY DEF Claimed, LeaseType, LeaseOf
<1>3. lease'[LeaseOf(p)] = p /\ \A l \in {"capture", "review"} \ {LeaseOf(p)} : lease'[l] = lease[l]
  BY <1>2
<1>4. LeaseOf(p) = "capture" => p \in Capturers
  BY DEF LeaseOf
<1>5. LeaseOf(p) = "review" => p \in Reviewers \cup {Operator}
  BY DEF LeaseOf, Processes
<1>6. \A w \in Processes : LeaseOf(w) \in {"capture", "review"}
  BY DEF LeaseOf
<1>7. LeaseType(lease')
  BY <1>2, <1>3, <1>4, <1>5 DEF LeaseType
<1> QED
  BY <1>1, <1>3, <1>6, <1>7

LEMMA IdleIsOK == ASSUME NEW w, NEW q, NEW r, NEW s PROVE PassOK(w, Idle, q, r, s) /\ Idle.pc = "idle"
  BY DEF PassOK, Idle, PassFields, Kinds, Steps_

\* A pass ends.
LEMMA PassEnds ==
    ASSUME IInv, NEW p \in Processes, Around_(p), StoreGoes, RunsGo(runs, runs'), cut' = cut,
           at'[p] = Idle, lease' = Released(p)
    PROVE  IInv'
<1>1. Frame(p)
  BY ReleasedKeeps DEF Frame, Around_, IInv, WaitInv
<1>2. PassOK(p, at'[p], runs', rows', scenario) /\ at'[p].pc = "idle"
  BY IdleIsOK
<1>3. LeaseOK(p, at'[p], runs', lease', cut)
  BY <1>2 DEF LeaseOK
<1> QED
  BY <1>1, <1>2, <1>3, OrdinaryStep

\* A pass goes on.
LEMMA PassGoesOn ==
    ASSUME IInv, NEW p \in Processes, Around_(p), StoreGoes, RunsGo(runs, runs'), cut' = cut, lease' = lease,
           at[p].pc \in Steps_, at'[p].pc \in Steps_, at'[p].run = at[p].run,
           PassOK(p, at'[p], runs', rows', scenario),
           at'[p].pc = "commit" /\ runs[at[p].run].kind = "memory_dream" => at'[p].base.cut = cut
    PROVE  IInv'
<1>1. Frame(p)
  BY DEF Frame, Around_, IInv, WaitInv
<1>2. at[p].pc # "idle" /\ at'[p].pc # "idle" /\ at'[p].pc # "event_capture"
  BY DEF Steps_
<1>3. at[p].run \in 1..Len(runs) /\ runs'[at[p].run].kind = runs[at[p].run].kind
  BY DEF IInv, PassInv, PassOK, RunsGo, RunsAge
<1>4. ASSUME Undisturbed' PROVE LeaseOK(p, at'[p], runs', lease', cut)
  <2>1. LeaseOK(p, at[p], runs, lease, cut)
    BY <1>1, <1>4, UndisturbedStill DEF IInv, LeaseInv, Frame
  <2> QED
    BY <1>2, <1>3, <2>1 DEF LeaseOK
<1> QED
  BY <1>1, <1>2, <1>4, OrdinaryStep

\* Nobody moves.
LEMMA NobodyMoves ==
    ASSUME IInv, scenario' = scenario, todo' \subseteq todo, armed' \cup timing' \subseteq Reviewers, woken' \subseteq Reviewers,
           StoreGoes, RunsGo(runs, runs'), cut' = cut, at' = at, lease' = lease
    PROVE  IInv'
<1>1. Operator \in Processes
  BY DEF Processes
<1>2. Frame(Operator)
  BY DEF Frame, IInv, PassInv, WaitInv
<1>3. PassOK(Operator, at[Operator], runs, rows, scenario)
  BY <1>1 DEF IInv, PassInv
<1>4. PassOK(Operator, at'[Operator], runs', rows', scenario)
  BY <1>3, PassAges DEF IInv, StoreInv, StoreGoes, RunsGo
<1>5. ASSUME Undisturbed' PROVE LeaseOK(Operator, at'[Operator], runs', lease', cut)
  <2>1. LeaseOK(Operator, at[Operator], runs, lease, cut)
    BY <1>1, <1>5, UndisturbedStill DEF IInv, LeaseInv
  <2>2. NoneStarts(runs, runs')
    BY GoneNoneStarts DEF RunsGo
  <2> QED
    BY <1>3, <2>1, <2>2, LeaseAges DEF RunsGo
<1>6. at'[Operator].pc = "event_capture" => cut.done
  BY <1>1, <1>3 DEF PassOK, Kinds
<1> QED
  BY <1>1, <1>2, <1>4, <1>5, <1>6, OrdinaryStep

\* The store stays as it is.
LEMMA NothingWritten ==
    ASSUME IInv, rows' = rows, runs' = runs PROVE StoreGoes /\ RunsGo(runs, runs')
  BY LaterItself, RunsStill DEF IInv, StoreInv, RunsInv, RunsOK, StoreGoes
LEMMA NoRowWritten ==
    ASSUME IInv, rows' = rows, RunsOK(runs', rows) PROVE StoreGoes
  BY LaterItself DEF IInv, StoreInv, StoreGoes

\* What no step may do, of OwnerRowsKept, LegacySilent, ExtractionsNeverOverlap and
\* SynthesisNeverRequeues.
OwnerStep ==
    \A i \in DOMAIN rows :
        (rows[i].guarded \/ (rows[i].by = "owner" /\ rows[i].kind # "event")) /\ rows'[i] # rows[i]
           => rows'[i].by = "owner"
LegacyStep ==
    cut.done /\ Undisturbed /\ rows' # rows =>
        \A w \in Processes : at[w].pc = "commit" /\ at'[w].pc # "commit" => runs[at[w].run].kind # "memory_dream"
OverlapStep ==
    \A w \in Capturers :
        at[w].pc = "commit" /\ at'[w].pc # "commit" =>
           \A e \in DOMAIN rows' \ DOMAIN rows : rows'[e].kind = "event" /\ rows'[e].by = "extract" =>
              \A d \in Overlaps(rows, rows'[e].cites) :
                 rows[d].by = "extract" => d \in DOMAIN at[w].batch.candidates
RequeueStep ==
    \A w \in Processes :
        Synthesising(w) /\ at[w].pc = "commit" /\ at'[w].pc # "commit" =>
           \A e \in OfKind(rows, "event") : Version(rows', facts', e) = Version(rows, facts, e)
StepOK == OwnerStep /\ LegacyStep /\ OverlapStep /\ RequeueStep

LEMMA NoRowIsNoStep == ASSUME rows' = rows, at' = at \/ facts' = facts PROVE StepOK
<1>1. OwnerStep /\ LegacyStep /\ OverlapStep
  BY DEF OwnerStep, LegacyStep, OverlapStep
<1>2. RequeueStep
  BY DEF RequeueStep, Version
<1> QED
  BY <1>1, <1>2 DEF StepOK

\* Outside of a commit, what people keep is all there is to keep.
LEMMA NobodyCommits == ASSUME at' = at, OwnerStep PROVE StepOK
<1>1. OverlapStep /\ RequeueStep /\ LegacyStep
  BY DEF OverlapStep, RequeueStep, LegacyStep
<1> QED
  BY <1>1 DEF StepOK

LEMMA SparesIsOwnerStep == ASSUME Spares(rows, rows') PROVE OwnerStep
  BY DEF Spares, Spared, OwnerStep

(***************************** who moves when *******************************)
LEMMA ProcessKinds ==
    /\ \A w \in Reviewers : w \in Processes /\ w \notin Capturers /\ w # Operator
    /\ \A w \in Capturers : w \in Processes /\ w \notin Reviewers /\ w # Operator
    /\ Operator \in Processes /\ Operator \notin Reviewers /\ Operator \notin Capturers
    /\ Active \subseteq Reviewers /\ Active \subseteq Processes
    /\ \A w \in Processes : w # None
  BY ProcessesDisjoint, NoneAssumption DEF Processes, Active

LEMMA TimerKeeps == ASSUME IInv, NEW w \in Active, SetTimer(w) \/ Timer(w) PROVE IInv' /\ StepOK
<1>1. /\ scenario' = scenario /\ rows' = rows /\ runs' = runs /\ cut' = cut /\ facts' = facts
      /\ at' = at /\ lease' = lease /\ todo' = todo
      /\ woken' \subseteq Reviewers /\ armed' \cup timing' \subseteq Reviewers
  BY ProcessKinds DEF SetTimer, Waits, Timer, store, IInv, WaitInv
<1>2. StoreGoes /\ RunsGo(runs, runs')
  BY <1>1, NothingWritten
<1> QED
  BY <1>1, <1>2, NobodyMoves, NoRowIsNoStep

LEMMA OutcomeKeeps ==
    ASSUME IInv, (\E a \in todo : BeginOutcome(a) \/ CorrectFact(a)) \/ (\E o \in capture.open : CommitOutcome(o))
    PROVE  IInv' /\ StepOK
<1>1. /\ scenario' = scenario /\ rows' = rows /\ runs' = runs /\ cut' = cut
      /\ at' = at /\ lease' = lease /\ todo' \subseteq todo
      /\ woken' \subseteq Reviewers /\ armed' \cup timing' \subseteq Reviewers
  BY ProcessKinds DEF BeginOutcome, CorrectFact, CommitOutcome, External, Notified, IInv, WaitInv
<1>2. StoreGoes /\ RunsGo(runs, runs')
  BY <1>1, NothingWritten
<1> QED
  BY <1>1, <1>2, NobodyMoves, NoRowIsNoStep

LEMMA CrashKeeps == ASSUME IInv, NEW w \in Processes, Crash(w) PROVE IInv' /\ StepOK
<1>1. /\ scenario' = scenario /\ rows' = rows /\ runs' = runs /\ cut' = cut /\ facts' = facts
      /\ todo' \subseteq todo /\ lease' = Released(w)
      /\ woken' \subseteq Reviewers /\ armed' \cup timing' \subseteq Reviewers
  BY DEF Crash, GoesOn, Takes, store, IInv, WaitInv
<1>2. DOMAIN at' = Processes /\ at'[w] = Idle /\ \A v \in Processes \ {w} : at'[v] = at[v]
  BY DEF Crash, IInv, PassInv
<1>3. Around_(w) /\ StoreGoes /\ RunsGo(runs, runs')
  BY <1>1, <1>2, NothingWritten DEF Around_
<1> QED
  BY <1>1, <1>2, <1>3, PassEnds, NoRowIsNoStep

LEMMA LoseLeaseKeeps == ASSUME IInv, NEW w \in Processes, LoseLease(w) PROVE IInv' /\ StepOK
<1>1. /\ scenario' = scenario /\ rows' = rows /\ runs' = runs /\ cut' = cut /\ facts' = facts
      /\ at' = at /\ todo' \subseteq todo /\ lease' = Released(w) /\ woken' = woken /\ armed' = armed /\ timing' = timing
  BY DEF LoseLease, Takes, store
<1>2. ~Undisturbed'
  BY DEF LoseLease, Takes, Undisturbed, IInv, WaitInv
<1>3. Frame(w)
  BY <1>1, ReleasedKeeps DEF Frame, IInv, WaitInv, PassInv
<1>4. StoreGoes /\ RunsGo(runs, runs')
  BY <1>1, NothingWritten
<1>5. PassOK(w, at'[w], runs', rows', scenario)
  BY <1>1 DEF IInv, PassInv
<1>6. at'[w].pc = "event_capture" => cut.done
  BY <1>1 DEF IInv, OutcomesInv, LegacyOK
<1>7. IInv'
  BY <1>1, <1>2, <1>3, <1>4, <1>5, <1>6, OrdinaryStep
<1> QED
  BY <1>1, <1>7, NoRowIsNoStep

\* Steps of a pass that only move it.
LEMMA OnlyMoves ==
    ASSUME IInv, NEW w \in Processes, scenario' = scenario, rows' = rows, runs' = runs, cut' = cut, facts' = facts,
           lease' = lease, woken' = woken, armed' = armed /\ timing' = timing, todo' \subseteq todo,
           NEW new, at' = [at EXCEPT ![w] = new],
           at[w].pc \in Steps_, new.pc \in Steps_, new.run = at[w].run, PassOK(w, new, runs, rows, scenario),
           new.pc = "commit" => new.base.cut = cut
    PROVE  IInv' /\ StepOK
<1>1. DOMAIN at' = Processes /\ at'[w] = new /\ \A v \in Processes \ {w} : at'[v] = at[v]
  BY DEF IInv, PassInv
<1>2. Around_(w) /\ StoreGoes /\ RunsGo(runs, runs')
  BY <1>1, NothingWritten DEF Around_, IInv, WaitInv
<1> QED
  BY <1>1, <1>2, PassGoesOn, NoRowIsNoStep

LEMMA FailingIsOK ==
    ASSUME NEW w, NEW a, NEW q, NEW r, NEW s, PassOK(w, a, q, r, s), a.pc \in Steps_,
           NEW new, DOMAIN new = PassFields, new.pc = "failing", new.run = a.run, new.batch = a.batch
    PROVE  PassOK(w, new, q, r, s)
  BY DEF PassOK, Steps_, Kinds

LEMMA TimesOutKeeps == ASSUME IInv, NEW w \in Processes, TimesOut(w) PROVE IInv' /\ StepOK
<1> DEFINE new == [at[w] EXCEPT !.pc = "failing", !.err = "database"]
<1>1. PassOK(w, at[w], runs, rows, scenario) /\ DOMAIN at = Processes
  BY DEF IInv, PassInv
<1>2. /\ DOMAIN new = PassFields /\ new.pc = "failing" /\ new.run = at[w].run /\ new.batch = at[w].batch
      /\ at[w].pc \in Steps_
  BY <1>1 DEF PassOK, PassFields, TimesOut, Steps_
<1>3. /\ scenario' = scenario /\ rows' = rows /\ runs' = runs /\ cut' = cut /\ facts' = facts
      /\ lease' = lease /\ woken' = woken /\ armed' = armed /\ timing' = timing /\ todo' \subseteq todo
      /\ at' = [at EXCEPT ![w] = new]
  BY <1>1 DEF TimesOut, Takes, store
<1> HIDE DEF new
<1>4. PassOK(w, new, runs, rows, scenario) /\ new.pc \in Steps_
  BY <1>1, <1>2, FailingIsOK DEF Steps_
<1> QED
  BY <1>2, <1>3, <1>4, OnlyMoves

LEMMA FailsKeeps == ASSUME IInv, NEW w \in Processes, Fails(w) PROVE IInv' /\ StepOK
<1>1. PassOK(w, at[w], runs, rows, scenario) /\ DOMAIN at = Processes
  BY DEF IInv, PassInv
<1>2. PICK e \in scenario.errors : at' = [at EXCEPT ![w].pc = "failing", ![w].err = e]
  BY DEF Fails
<1> DEFINE new == [at[w] EXCEPT !.pc = "failing", !.err = e]
<1>3. /\ DOMAIN new = PassFields /\ new.pc = "failing" /\ new.run = at[w].run /\ new.batch = at[w].batch
      /\ at[w].pc \in Steps_
  BY <1>1 DEF PassOK, PassFields, Fails, Steps_
<1>4. /\ scenario' = scenario /\ rows' = rows /\ runs' = runs /\ cut' = cut /\ facts' = facts
      /\ lease' = lease /\ woken' = woken /\ armed' = armed /\ timing' = timing /\ todo' \subseteq todo
      /\ at' = [at EXCEPT ![w] = new]
  BY <1>1, <1>2 DEF Fails, store
<1> HIDE DEF new
<1>5. PassOK(w, new, runs, rows, scenario) /\ new.pc \in Steps_
  BY <1>1, <1>3, FailingIsOK DEF Steps_
<1> QED
  BY <1>3, <1>4, <1>5, OnlyMoves

LEMMA ProposesKeeps ==
    ASSUME IInv, NEW w \in Processes, NEW plan, Proposes(w, plan),
           PlanOK(runs[at[w].run].kind, at[w].batch, << >>, rows) => PlanOK(runs[at[w].run].kind, at[w].batch, plan, rows)
    PROVE  IInv' /\ StepOK
<1> DEFINE new == [at[w] EXCEPT !.pc = "begin", !.plan = plan]
<1>1. PassOK(w, at[w], runs, rows, scenario) /\ DOMAIN at = Processes
  BY DEF IInv, PassInv
<1>2. /\ DOMAIN new = PassFields /\ new.pc = "begin" /\ new.run = at[w].run /\ new.batch = at[w].batch /\ new.plan = plan
      /\ at[w].pc = "model"
  BY <1>1 DEF PassOK, PassFields, Proposes
<1>3. /\ scenario' = scenario /\ rows' = rows /\ runs' = runs /\ cut' = cut /\ facts' = facts
      /\ lease' = lease /\ woken' = woken /\ armed' = armed /\ timing' = timing /\ todo' \subseteq todo
      /\ at' = [at EXCEPT ![w] = new]
  BY <1>1 DEF Proposes, store
<1> HIDE DEF new
<1>4. PassOK(w, new, runs, rows, scenario) /\ new.pc \in Steps_ /\ at[w].pc \in Steps_
  BY <1>1, <1>2 DEF PassOK, Steps_, Kinds
<1> QED
  BY <1>2, <1>3, <1>4, OnlyMoves

LEMMA BeginKeeps == ASSUME IInv, NEW w \in Processes, Begin(w) PROVE IInv' /\ StepOK
<1> DEFINE base == [rows |-> rows, facts |-> facts, cut |-> cut]
           new == [at[w] EXCEPT !.pc = "commit", !.base = base]
<1>1. PassOK(w, at[w], runs, rows, scenario) /\ DOMAIN at = Processes
  BY DEF IInv, PassInv
<1>2. /\ DOMAIN new = PassFields /\ new.pc = "commit" /\ new.run = at[w].run /\ new.batch = at[w].batch
      /\ new.plan = at[w].plan /\ new.base.rows = rows /\ new.base.cut = cut /\ at[w].pc = "begin"
  BY <1>1 DEF PassOK, PassFields, Begin
<1>3. /\ scenario' = scenario /\ rows' = rows /\ runs' = runs /\ cut' = cut /\ facts' = facts
      /\ lease' = lease /\ woken' = woken /\ armed' = armed /\ timing' = timing /\ todo' \subseteq todo
      /\ at' = [at EXCEPT ![w] = new]
  BY <1>1 DEF Begin, store
<1> HIDE DEF new
<1>4. /\ StoreOK(rows) /\ Whole(rows) /\ Later(rows, rows) /\ DOMAIN scenario.rows \subseteq DOMAIN rows
      /\ DOMAIN scenario.rows \ Links(scenario.rows) \subseteq DOMAIN rows \ Links(rows)
  BY LaterItself DEF IInv, StoreInv
<1>5. PassOK(w, new, runs, rows, scenario) /\ new.pc \in Steps_ /\ at[w].pc \in Steps_
  BY <1>1, <1>2, <1>4 DEF PassOK, Steps_, Kinds
<1> QED
  BY <1>2, <1>3, <1>5, OnlyMoves

LEMMA EndsFacts ==
    ASSUME IInv, NEW w \in Processes, Ends(w)
    PROVE  /\ DOMAIN at' = Processes /\ at'[w] = Idle /\ \A v \in Processes \ {w} : at'[v] = at[v]
           /\ lease' = Released(w) /\ armed' \cup timing' \subseteq Reviewers /\ woken' \subseteq Reviewers
<1>1. DOMAIN at = Processes /\ armed \cup timing \subseteq Reviewers /\ woken \subseteq Reviewers
  BY DEF IInv, PassInv, WaitInv
<1>2. at' = [at EXCEPT ![w] = Idle] /\ lease' = Released(w)
  BY DEF Ends
<1>3. armed' \cup timing' \subseteq Reviewers /\ woken' \subseteq Reviewers
  <2>1. CASE w \in Reviewers /\ ~Holds(w)
    BY <1>1, <2>1 DEF Ends, GoesToWait
  <2>2. CASE ~(w \in Reviewers /\ ~Holds(w))
    BY <1>1, <2>2 DEF Ends, GoesOn
  <2> QED
    BY <2>1, <2>2
<1> QED
  BY <1>1, <1>2, <1>3

(****************************** claims and scans ****************************)
LEMMA LeftBehindKeeps ==
    ASSUME IInv, NEW kind
    PROVE  /\ RunsOK(LeftBehind(kind), rows) /\ RunsGo(runs, LeftBehind(kind))
           /\ \A k \in 1..Len(LeftBehind(kind)) :
                 LeftBehind(kind)[k].kind = kind => LeftBehind(kind)[k].status # "running"
<1> DEFINE s == LeftBehind(kind)
<1>1. RunsOK(runs, rows) /\ DOMAIN runs = 1..Len(runs) /\ Len(runs) \in Nat
  BY SeqFacts DEF IInv, RunsInv, RunsOK
<1>0. DOMAIN s = DOMAIN runs /\ s = [k \in DOMAIN runs |-> s[k]]
  BY DEF LeftBehind
<1>2. \A k \in DOMAIN runs :
            \/ s[k] = runs[k] /\ ~(runs[k].kind = kind /\ runs[k].status = "running")
            \/ runs[k].status = "running" /\ s[k] = [runs[k] EXCEPT !.status = "failed", !.retry = "later"]
  BY DEF LeftBehind, Abandoned, Runs
<1> HIDE DEF s
<1>3. ASSUME NEW k \in DOMAIN runs
      PROVE  /\ RunOK(s[k], Len(runs), rows)
             /\ s[k].kind = runs[k].kind /\ s[k].prints = runs[k].prints /\ s[k].parent = runs[k].parent
             /\ s[k].kind = kind => s[k].status # "running"
             /\ s[k] = runs[k] \/ (runs[k].status = "running" /\ s[k].status = "failed")
  <2>1. RunOK(runs[k], Len(runs), rows)
    BY <1>1 DEF RunsOK
  <2>2. CASE s[k] = runs[k] /\ ~(runs[k].kind = kind /\ runs[k].status = "running")
    BY <2>1, <2>2
  <2>3. CASE s[k] = [runs[k] EXCEPT !.status = "failed", !.retry = "later"] /\ runs[k].status = "running"
    BY <2>1, <2>3 DEF RunOK, RunFields, Statuses
  <2> QED
    BY <1>2, <2>2, <2>3
<1>4. RunsOK(s, rows) /\ RunsAge(runs, s) /\ NoOutcome(runs, s) /\ Len(s) = Len(runs) /\ DOMAIN s = 1..Len(s)
  BY <1>0, <1>1, <1>3, SomeRunsChange
<1>5. Tame(runs, s)
  BY <1>1, <1>3 DEF Tame
<1>6. NoReview(runs, s)
  <2>1. ASSUME NEW k \in 1..Len(s), ReviewsOf(s[k]) PROVE k <= Len(runs) /\ ReviewsOf(runs[k])
    <3>1. k \in DOMAIN runs /\ s[k].status # "failed"
      BY <1>1, <1>4, <2>1 DEF ReviewsOf
    <3> QED
      BY <1>1, <1>3, <2>1, <3>1
  <2> QED
    BY <2>1 DEF NoReview
<1>7. \A k \in 1..Len(s) : s[k].kind = kind => s[k].status # "running"
  BY <1>1, <1>3, <1>4
<1> QED
  BY <1>4, <1>5, <1>6, <1>7 DEF s, RunsGo

\* A worker that finds the lease free.
LEMMA ClaimsKeep ==
    ASSUME IInv, NEW w \in Reviewers \cup Capturers, NEW kind \in KindsOf(w) \cap Kinds, at[w].pc = "idle",
           lease[LeaseOf(w)] = None, Claimed(w), runs' = LeftBehind(kind), at' = [at EXCEPT ![w].pc = kind],
           scenario' = scenario, rows' = rows, cut' = cut, facts' = facts, todo' = todo,
           armed' \cup timing' \subseteq Reviewers, woken' \subseteq woken, kind = "event_capture" => cut.done
    PROVE  IInv' /\ StepOK
<1>1. w \in Processes /\ w # Operator
  BY ProcessKinds
<1>2. PassOK(w, at[w], runs, rows, scenario) /\ DOMAIN at = Processes /\ LeaseType(lease)
  BY <1>1 DEF IInv, PassInv, WaitInv
<1>3. DOMAIN at' = Processes /\ at'[w] = [at[w] EXCEPT !.pc = kind] /\ \A v \in Processes \ {w} : at'[v] = at[v]
  BY <1>1, <1>2
<1>4. DOMAIN at'[w] = PassFields /\ at'[w].pc = kind /\ at'[w].run = 0
  BY <1>2, <1>3 DEF PassOK, PassFields
<1>5. StoreGoes /\ RunsGo(runs, runs')
      /\ \A k \in 1..Len(runs') : runs'[k].kind = kind => runs'[k].status # "running"
  BY LeftBehindKeeps, NoRowWritten
<1>6. PassOK(w, at'[w], runs', rows', scenario)
  BY <1>1, <1>4 DEF PassOK, Kinds, Steps_
<1>7. lease'[LeaseOf(w)] = w /\ Frame(w)
  BY <1>1, <1>2, <1>3, ClaimedKeeps DEF Frame, IInv, WaitInv
<1>8. LeaseOK(w, at'[w], runs', lease', cut)
  BY <1>1, <1>4, <1>5, <1>7 DEF LeaseOK, Kinds, KindsOf
<1>9. IInv'
  BY <1>1, <1>4, <1>5, <1>6, <1>7, <1>8, OrdinaryStep
<1> QED
  BY <1>9, NoRowIsNoStep

LEMMA ClaimReviewKeeps ==
    ASSUME IInv, NEW w \in Reviewers, NEW kind \in {"memory_dream", "memory_synthesis"}, ClaimReview(w, kind)
    PROVE  IInv' /\ StepOK
<1>1. w \in Processes /\ w \notin Capturers /\ kind \in KindsOf(w) \cap Kinds /\ LeaseOf(w) = "review"
  BY ProcessKinds DEF KindsOf, Kinds, LeaseOf
<1>2. /\ scenario' = scenario /\ rows' = rows /\ cut' = cut /\ facts' = facts /\ todo' = todo
      /\ woken' \subseteq woken /\ at[w].pc = "idle"
  BY DEF ClaimReview
<1>3. CASE lease.review # None
  <2>1. /\ runs' = runs /\ lease' = lease /\ at' = at
        /\ armed' \subseteq armed /\ timing' = timing \cup {w}
    BY <1>3 DEF ClaimReview
  <2>2. armed' \cup timing' \subseteq Reviewers /\ woken' \subseteq Reviewers
    BY <1>2, <2>1 DEF IInv, WaitInv
  <2>3. StoreGoes /\ RunsGo(runs, runs')
    BY <1>2, <2>1, NothingWritten
  <2> QED
    BY <1>2, <2>1, <2>2, <2>3, NobodyMoves, NoRowIsNoStep
<1>4. CASE lease.review = None
  <2>1. /\ Claimed(w) /\ runs' = LeftBehind(kind) /\ at' = [at EXCEPT ![w].pc = kind]
        /\ armed' \cup timing' \subseteq Reviewers
    BY <1>4 DEF ClaimReview, IInv, WaitInv
  <2> QED
    BY <1>1, <1>2, <1>4, <2>1, ClaimsKeep
<1> QED
  BY <1>3, <1>4

LEMMA ClaimCaptureKeeps == ASSUME IInv, NEW w \in Capturers, ClaimCapture(w) PROVE IInv' /\ StepOK
<1>1. "event_capture" \in KindsOf(w) \cap Kinds /\ LeaseOf(w) = "capture"
  BY DEF KindsOf, Kinds, LeaseOf
<1>2. /\ scenario' = scenario /\ rows' = rows /\ cut' = cut /\ facts' = facts /\ todo' = todo
      /\ armed' \cup timing' \subseteq Reviewers /\ woken' \subseteq woken /\ at[w].pc = "idle" /\ lease.capture = None /\ cut.done
      /\ Claimed(w) /\ runs' = LeftBehind("event_capture") /\ at' = [at EXCEPT ![w].pc = "event_capture"]
  BY DEF ClaimCapture, IInv, WaitInv
<1> QED
  BY <1>1, <1>2, ClaimsKeep

\* The rows around a row are rows.
LEMMA NeighboursAreRows ==
    ASSUME NEW r, StoreOK(r), Whole(r), NEW o
    PROVE  \A l \in LinksOf(r, o) : l \in Links(r) /\ Other(r[l], o) \in DOMAIN r \ Links(r)
  BY DEF StoreOK, Whole, EndsOf, LinksOf, Other

LEMMA NearIsIn == ASSUME StoreOK(rows), Whole(rows), NEW ms PROVE Near(ms) \subseteq DOMAIN rows \ Links(rows)
<1> DEFINE one == UNION {{Other(rows[l], m) : l \in LinksOf(rows, m)} : m \in ms}
           two == UNION {{Other(rows[l], o) : l \in LinksOf(rows, o)} : o \in one}
<1>1. one \subseteq DOMAIN rows \ Links(rows)
  BY NeighboursAreRows
<1>2. two \subseteq DOMAIN rows \ Links(rows)
  <2> HIDE DEF one
  <2> QED
    BY NeighboursAreRows
<1>3. Near(ms) = one \cup two
  BY DEF Near
<1> QED
  BY <1>1, <1>2, <1>3

LEMMA BatchIsOK ==
    ASSUME StoreOK(rows), Whole(rows), NEW ms \in SUBSET DOMAIN rows
    PROVE  DreamOK(Batch(ms), << >>, rows)
<1> DEFINE near == {o \in Near(ms) \ ms : rows[o].live}
           links == UNION {LinksOf(rows, m) : m \in ms}
<1>1. DOMAIN Batch(ms).memories = ms /\ DOMAIN Batch(ms).links = links /\ DOMAIN Batch(ms).targets = near
  BY DEF Batch, Revisions
<1>2. links \subseteq Links(rows) /\ near \subseteq DOMAIN rows \ Links(rows)
  BY NearIsIn DEF LinksOf
<1>3. IsSeq(<< >>) /\ Len(<< >>) = 0
  BY DEF IsSeq
<1>4. {"memories", "links", "targets"} \subseteq DOMAIN Batch(ms)
  BY DEF Batch
<1> DEFINE b == Batch(ms)
<1>5. DOMAIN b.memories = ms /\ DOMAIN b.links = links /\ DOMAIN b.targets = near
  BY <1>1
<1> HIDE DEF near, links, b
<1>6. DreamOK(b, << >>, rows)
  BY <1>2, <1>3, <1>4, <1>5 DEF DreamOK, b
<1> QED
  BY <1>6 DEF b

LEMMA NewRunIsOK ==
    ASSUME NEW kind \in {"memory_dream", "memory_synthesis", "event_capture"}, NEW prints, NEW preview, NEW n \in Nat, NEW r
    PROVE  LET run == NewRun(kind, prints, preview) IN
           RunOK(run, n, r) /\ run.kind = kind /\ run.prints = prints /\ run.status = "running" /\ run.log = << >>
<1>1. JournalOK(<< >>, r) /\ Unwinds(<< >>, r)
  BY DEF JournalOK, IsSeq, Unwinds
<1> QED
  BY <1>1 DEF NewRun, RunOK, RunFields, Kinds, Statuses

\* A Run starts, by a worker that has scanned under the lease.
LEMMA StartsFacts ==
    ASSUME IInv, NEW w \in Reviewers \cup Capturers, at[w].pc \in Kinds, NEW run, NEW b, Starts(w, run, b),
           scenario' = scenario, rows' = rows, cut' = cut, facts' = facts, todo' = todo,
           RunOK(run, Len(runs) + 1, rows), run.kind \in KindsOf(w), run.status = "running",
           run.kind = "memory_synthesis" => b.prints = run.prints,
           run.kind = "event_capture" => DOMAIN b.evidence \subseteq Outcomes,
           PlanOK(run.kind, b, << >>, rows)
    PROVE  /\ Frame(w) /\ StoreGoes /\ RunsAge(runs, runs') /\ Tame(runs, runs') /\ NoReview(runs, runs')
           /\ run.kind # "event_capture" => NoOutcome(runs, runs')
           /\ PassOK(w, at'[w], runs', rows', scenario) /\ at'[w].pc = "model"
           /\ Undisturbed' => LeaseOK(w, at'[w], runs', lease', cut)
           /\ Len(runs) \in Nat /\ Len(runs') = Len(runs) + 1 /\ runs'[Len(runs) + 1] = run
           /\ \A k \in 1..Len(runs) : runs'[k] = runs[k]
<1>1. w \in Processes /\ w # Operator
  BY ProcessKinds
<1>2. PassOK(w, at[w], runs, rows, scenario) /\ DOMAIN at = Processes /\ LeaseType(lease) /\ StoreOK(rows) /\ RunsOK(runs, rows)
  BY <1>1 DEF IInv, PassInv, WaitInv, StoreInv, RunsInv
<1>3. runs' = Append(runs, run) /\ lease' = lease /\ woken' = woken /\ armed' = armed /\ timing' = timing
      /\ at' = [at EXCEPT ![w].pc = "model", ![w].run = Len(runs'), ![w].batch = b]
  BY DEF Starts
<1>4. run.kind # "memory_capture" /\ ~ReviewsOf(run)
  BY DEF KindsOf, ReviewsOf
<1>5. /\ RunsOK(runs', rows) /\ RunsAge(runs, runs') /\ Tame(runs, runs') /\ NoReview(runs, runs')
      /\ run.kind # "event_capture" => NoOutcome(runs, runs')
      /\ Len(runs) \in Nat /\ Len(runs') = Len(runs) + 1 /\ runs'[Len(runs) + 1] = run
      /\ \A k \in 1..Len(runs) : runs'[k] = runs[k]
  BY <1>2, <1>3, <1>4, OneMoreRun
<1>6. DOMAIN at' = Processes /\ at'[w] = [at[w] EXCEPT !.pc = "model", !.run = Len(runs'), !.batch = b]
      /\ \A v \in Processes \ {w} : at'[v] = at[v]
  BY <1>1, <1>2, <1>3
<1>7. DOMAIN at'[w] = PassFields /\ at'[w].pc = "model" /\ at'[w].run = Len(runs) + 1 /\ at'[w].batch = b
  BY <1>2, <1>5, <1>6 DEF PassOK, PassFields
<1>8. PassOK(w, at'[w], runs', rows', scenario)
  <2>1. Len(runs) + 1 \in 1..Len(runs')
    BY <1>5
  <2> QED
    BY <1>5, <1>7, <2>1 DEF PassOK, Kinds, Steps_, Outcomes
<1>9. Frame(w) /\ StoreGoes
  BY <1>1, <1>2, <1>3, <1>5, <1>6, NoRowWritten DEF Frame, IInv, WaitInv
<1>10. ASSUME Undisturbed' PROVE LeaseOK(w, at'[w], runs', lease', cut)
  <2>1. LeaseOK(w, at[w], runs, lease, cut) /\ at[w].pc # "idle"
    BY <1>1, <1>10, UndisturbedStill DEF IInv, LeaseInv, Kinds
  <2> QED
    BY <1>1, <1>3, <1>7, <2>1 DEF LeaseOK
<1> QED
  BY <1>5, <1>7, <1>8, <1>9, <1>10

LEMMA ScanEnds ==
    ASSUME IInv, NEW w \in Reviewers, NothingToDo(w),
           scenario' = scenario, rows' = rows, cut' = cut, facts' = facts, todo' = todo
    PROVE  IInv' /\ StepOK
<1>0. w \in Processes
  BY ProcessKinds
<1>1. /\ DOMAIN at' = Processes /\ at'[w] = Idle /\ \A v \in Processes \ {w} : at'[v] = at[v]
      /\ lease' = Released(w) /\ runs' = runs
  BY <1>0 DEF NothingToDo, IInv, PassInv
<1>2. armed' \cup timing' \subseteq Reviewers /\ woken' \subseteq Reviewers
  BY DEF NothingToDo, GoesToWait, IInv, WaitInv
<1>3. Around_(w) /\ StoreGoes /\ RunsGo(runs, runs')
  BY <1>1, <1>2, NothingWritten DEF Around_
<1> QED
  BY <1>0, <1>1, <1>3, PassEnds, NoRowIsNoStep

LEMMA ScanDreamKeeps == ASSUME IInv, NEW w \in Reviewers, ScanDream(w) PROVE IInv' /\ StepOK
<1>1. w \in Processes /\ w \notin Capturers /\ StoreOK(rows) /\ RunsOK(runs, rows) /\ Len(runs) \in Nat
  BY ProcessKinds, SeqFacts DEF IInv, StoreInv, RunsInv, RunsOK
<1>2. /\ scenario' = scenario /\ rows' = rows /\ cut' = cut /\ facts' = facts /\ todo' = todo
      /\ at[w].pc \in Kinds
  BY DEF ScanDream, Kinds
<1>3. CASE Paused \/ Selected(w) = {}
  BY <1>1, <1>2, <1>3, ScanEnds DEF ScanDream
<1>4. CASE ~(Paused \/ Selected(w) = {})
  <2>0. PICK g \in Groups(w) : \E ms \in Shrunk(g) :
            LET run == NewRun("memory_dream", Batch(ms).prints, Previews(w))
            IN IF Complete(ms) THEN Starts(w, run, Batch(ms))
               ELSE runs' = Append(runs, [run EXCEPT !.status = "failed", !.retry = "never"]) /\ Ends(w)
    BY <1>4 DEF ScanDream
  <2>1. PICK ms \in Shrunk(g) :
            LET run == NewRun("memory_dream", Batch(ms).prints, Previews(w))
            IN IF Complete(ms) THEN Starts(w, run, Batch(ms))
               ELSE runs' = Append(runs, [run EXCEPT !.status = "failed", !.retry = "never"]) /\ Ends(w)
    BY <2>0
  <2>2. g \subseteq DOMAIN rows
    BY DEF Groups, Selected, Neighbours
  <2>3. ms \in SUBSET DOMAIN rows
    BY <2>2 DEF Shrunk
  <2>4. DreamOK(Batch(ms), << >>, rows)
    <3>1. Whole(rows)
      BY DEF IInv, StoreInv
    <3> QED
      BY <1>1, <2>3, <3>1, BatchIsOK
  <2> DEFINE run == NewRun("memory_dream", Batch(ms).prints, Previews(w))
  <2>5. RunOK(run, Len(runs) + 1, rows) /\ run.kind = "memory_dream" /\ run.status = "running"
    BY <1>1, NewRunIsOK
  <2>6. CASE Complete(ms)
    <3>1. Starts(w, run, Batch(ms))
      BY <2>1, <2>6
    <3>2. run.kind \in KindsOf(w) /\ PlanOK(run.kind, Batch(ms), << >>, rows)
      BY <1>1, <2>4, <2>5 DEF KindsOf, PlanOK
    <3> HIDE DEF run
    <3>3. /\ Frame(w) /\ StoreGoes /\ RunsGo(runs, runs')
          /\ PassOK(w, at'[w], runs', rows', scenario) /\ at'[w].pc = "model"
          /\ Undisturbed' => LeaseOK(w, at'[w], runs', lease', cut)
      BY <1>2, <2>5, <3>1, <3>2, StartsFacts DEF RunsGo
    <3>4. IInv'
      BY <1>1, <1>2, <3>3, OrdinaryStep
    <3> QED
      BY <1>2, <3>4, NoRowIsNoStep
  <2>7. CASE ~Complete(ms)
    <3> DEFINE failed == [run EXCEPT !.status = "failed", !.retry = "never"]
    <3>1. runs' = Append(runs, failed) /\ Ends(w)
      BY <2>1, <2>7
    <3>2. RunOK(failed, Len(runs) + 1, rows) /\ failed.kind = "memory_dream" /\ ~ReviewsOf(failed)
      <4> HIDE DEF run
      <4> QED
        BY <2>5 DEF RunOK, RunFields, Statuses, ReviewsOf
    <3> HIDE DEF failed
    <3>3. RunsOK(runs', rows) /\ RunsGo(runs, runs')
      BY <1>1, <3>1, <3>2, OneMoreRun DEF RunsGo
    <3>4. StoreGoes
      BY <1>2, <3>3, NoRowWritten
    <3>5. Around_(w) /\ at'[w] = Idle /\ lease' = Released(w)
      BY <1>1, <1>2, <3>1, EndsFacts DEF Around_
    <3> QED
      BY <1>1, <1>2, <3>3, <3>4, <3>5, PassEnds, NoRowIsNoStep
  <2> QED
    BY <2>6, <2>7
<1> QED
  BY <1>3, <1>4

LEMMA ScanSynthesisKeeps == ASSUME IInv, NEW w \in Reviewers, ScanSynthesis(w) PROVE IInv' /\ StepOK
<1> DEFINE memories == {m \in OfKind(rows, "memory") : rows[m].live}
           related == {rows[l].dst : l \in {l \in Links(rows) : rows[l].live /\ rows[l].src \in memories /\ rows[l].rel = "derived_from"}}
           events == DueEvents(w) \cup {e \in related : rows[e].kind = "event"}
           prints == [e \in DueEvents(w) |-> Version(rows, facts, e)]
           cited == UNION {rows[e].cites : e \in events}
           batch == [events |-> Revisions(events), memories |-> Revisions(memories), prints |-> prints,
                     evidence |-> [c \in cited |-> facts[c]]]
           run == NewRun("memory_synthesis", prints, Previews(w))
<1>1. w \in Processes /\ w \notin Capturers /\ StoreOK(rows) /\ Len(runs) \in Nat
  BY ProcessKinds, SeqFacts DEF IInv, StoreInv, RunsInv, RunsOK
<1>2. /\ scenario' = scenario /\ rows' = rows /\ cut' = cut /\ facts' = facts /\ todo' = todo
      /\ at[w].pc \in Kinds
  BY DEF ScanSynthesis, Kinds
<1>3. CASE DueEvents(w) = {}
  BY <1>1, <1>2, <1>3, ScanEnds DEF ScanSynthesis
<1>4. CASE DueEvents(w) # {}
  <2>1. Starts(w, run, batch)
    BY <1>4 DEF ScanSynthesis
  <2>2. /\ DOMAIN batch.prints = DueEvents(w) /\ batch.prints = prints /\ DOMAIN batch.events = events
        /\ DOMAIN batch.memories = memories /\ \A m \in memories : batch.memories[m] = rows[m].rev
    BY DEF Revisions
  <2>3. DueEvents(w) \subseteq OfKind(rows, "event")
    BY DEF DueEvents, Unreviewed
  <2>4. related \subseteq DOMAIN rows
    BY <1>1 DEF StoreOK
  <2>5. events \subseteq OfKind(rows, "event")
    <3> HIDE DEF related
    <3> QED
      BY <2>3, <2>4 DEF OfKind
  <2>6. memories \subseteq OfKind(rows, "memory") /\ \A m \in memories : rows[m].rev \in Nat /\ rows[m].rev <= rows[m].rev
    BY <1>1 DEF OfKind, StoreOK, RowOK
  <2>7. OfKind(rows, "event") \subseteq DOMAIN rows /\ IsSeq(<< >>) /\ Len(<< >>) = 0
    BY DEF OfKind, IsSeq
  <2>8. RunOK(run, Len(runs) + 1, rows) /\ run.kind = "memory_synthesis" /\ run.status = "running" /\ run.prints = prints
    BY <1>1, NewRunIsOK
  <2> HIDE DEF memories, events, prints, batch, run
  <2>9. IdeasOK(batch, << >>, rows)
    BY <2>2, <2>3, <2>5, <2>6, <2>7 DEF IdeasOK
  <2>10. run.kind \in KindsOf(w) /\ PlanOK(run.kind, batch, << >>, rows) /\ batch.prints = run.prints
    BY <1>1, <2>2, <2>8, <2>9 DEF KindsOf, PlanOK
  <2>11. /\ Frame(w) /\ StoreGoes /\ RunsGo(runs, runs')
         /\ PassOK(w, at'[w], runs', rows', scenario) /\ at'[w].pc = "model"
         /\ Undisturbed' => LeaseOK(w, at'[w], runs', lease', cut)
    BY <1>2, <2>1, <2>8, <2>10, StartsFacts DEF RunsGo
  <2>12. IInv'
    BY <1>1, <1>2, <2>11, OrdinaryStep
  <2> QED
    BY <1>2, <2>12, NoRowIsNoStep
<1> QED
  BY <1>3, <1>4

\* A Run of extraction is about outcomes that no other Run tells, or is about to.
LEMMA ScanOutcomesKeeps == ASSUME IInv, NEW w \in Capturers, ScanOutcomes(w) PROVE IInv' /\ StepOK
<1> DEFINE targets == {scenario.on[o] : o \in Unextracted}
           related == {e \in OfKind(rows, "event") : rows[e].live /\ \E t \in targets : LinksOf(rows, e) \cap LinksOf(rows, t) # {}}
           batch == [evidence |-> [o \in Unextracted |-> facts[o]], candidates |-> Revisions(targets \cup related)]
           prints == [o \in Unextracted |-> None]
           preview == FALSE
           run == NewRun("event_capture", prints, preview)
<1>1. w \in Processes /\ w \notin Reviewers /\ w # Operator /\ StoreOK(rows) /\ Len(runs) \in Nat
  BY ProcessKinds, SeqFacts DEF IInv, StoreInv, RunsInv, RunsOK
<1>2. /\ scenario' = scenario /\ rows' = rows /\ cut' = cut /\ facts' = facts /\ todo' = todo
      /\ at[w].pc \in Kinds /\ at[w].pc = "event_capture"
  BY DEF ScanOutcomes, Kinds
<1>3. CASE Unextracted = {}
  <2>1. DOMAIN at' = Processes /\ at'[w] = Idle /\ \A v \in Processes \ {w} : at'[v] = at[v]
    BY <1>1, <1>3 DEF ScanOutcomes, IInv, PassInv
  <2>2. lease' = Released(w) /\ runs' = runs /\ armed' \cup timing' \subseteq Reviewers /\ woken' \subseteq Reviewers
    BY <1>3 DEF ScanOutcomes, IInv, WaitInv
  <2>3. Around_(w) /\ StoreGoes /\ RunsGo(runs, runs')
    BY <1>2, <2>1, <2>2, NothingWritten DEF Around_
  <2> QED
    BY <1>1, <1>2, <2>1, <2>2, <2>3, PassEnds, NoRowIsNoStep
<1>4. CASE Unextracted # {}
  <2>1. Starts(w, run, batch)
    BY <1>4 DEF ScanOutcomes
  <2>2. /\ DOMAIN batch.evidence = Unextracted /\ DOMAIN batch.candidates = targets \cup related
        /\ \A e \in DOMAIN batch.candidates : batch.candidates[e] = rows[e].rev
    BY DEF Revisions
  <2>3. Unextracted \subseteq Outcomes
    BY DEF Unextracted
  <2>4. targets \subseteq DOMAIN rows
    <3>1. \A o \in Outcomes : scenario.on[o] \in DOMAIN rows
      BY ScenariosAssumption DEF IInv, WaitInv, StoreInv, Outcomes
    <3> QED
      BY <2>3, <3>1
  <2>5. related \subseteq DOMAIN rows /\ IsSeq(<< >>) /\ Len(<< >>) = 0
    BY DEF OfKind, IsSeq
  <2>6. /\ RunOK(run, Len(runs) + 1, rows) /\ run.kind = "event_capture" /\ run.status = "running"
        /\ DOMAIN run.prints = Unextracted
    <3>1. DOMAIN prints = Unextracted
      OBVIOUS
    <3> HIDE DEF prints, preview
    <3>2. /\ RunOK(run, Len(runs) + 1, rows) /\ run.kind = "event_capture" /\ run.status = "running"
          /\ run.prints = prints
      BY <1>1, NewRunIsOK
    <3> HIDE DEF run
    <3> QED
      BY <3>1, <3>2
  <2> HIDE DEF targets, related, batch, run
  <2>7. EventsOK(batch, << >>, rows)
    <3>1. \A e \in DOMAIN rows : rows[e].rev \in Nat
      BY <1>1 DEF StoreOK, RowOK
    <3> QED
      BY <2>2, <2>4, <2>5, <3>1 DEF EventsOK
  <2>8. run.kind \in KindsOf(w) /\ PlanOK(run.kind, batch, << >>, rows)
    BY <1>1, <2>6, <2>7 DEF KindsOf, PlanOK
  <2>9. /\ Frame(w) /\ StoreGoes /\ RunsAge(runs, runs') /\ Tame(runs, runs') /\ NoReview(runs, runs')
        /\ PassOK(w, at'[w], runs', rows', scenario) /\ at'[w].pc = "model"
        /\ Undisturbed' => LeaseOK(w, at'[w], runs', lease', cut)
        /\ Len(runs') = Len(runs) + 1 /\ runs'[Len(runs) + 1] = run
        /\ \A k \in 1..Len(runs) : runs'[k] = runs[k]
    BY <1>2, <2>1, <2>2, <2>3, <2>6, <2>8, StartsFacts
  <2>10. StoreInv' /\ RunsInv' /\ PassInv' /\ WaitInv'
    BY <1>1, <2>9, StepKeeps
  <2>11. \A k \in 1..Len(runs') : k \in 1..Len(runs) \/ k = Len(runs) + 1
    BY <1>1, <2>9
  <2>12. DOMAIN runs = 1..Len(runs)
    BY SeqFacts DEF IInv, RunsInv, RunsOK
  <2>13. LeaseInv'
    <3>1. SUFFICES ASSUME Undisturbed', NEW v \in Processes PROVE LeaseOK(v, at'[v], runs', lease', cut')
      BY DEF LeaseInv
    <3>2. CASE v = w
      BY <1>2, <2>9, <3>1, <3>2
    <3>3. CASE v # w
      <4>1. Undisturbed
        BY <2>9, <3>1, UndisturbedStill DEF Frame
      <4>2. LeaseOK(v, at[v], runs, lease, cut) /\ LeaseOK(w, at[w], runs, lease, cut) /\ PassOK(v, at[v], runs, rows, scenario)
        BY <1>1, <4>1 DEF IInv, LeaseInv, PassInv
      <4>3. lease["capture"] = w
        BY <1>1, <1>2, <4>2 DEF LeaseOK, LeaseOf
      <4>4. v \in Capturers => at[v].pc = "idle"
        BY <3>3, <4>2, <4>3, ProcessKinds DEF LeaseOK, LeaseOf
      <4>5. at'[v] = at[v] /\ (lease[LeaseOf(v)] = v => lease'[LeaseOf(v)] = v)
        BY <2>9, <3>3 DEF Frame
      <4>6. at[v].pc # "idle" => (v = Operator \/ at[v].pc = "commit" => runs'[at[v].run] = runs[at[v].run])
        BY <2>9, <4>2 DEF PassOK, Steps_
      <4> QED
        BY <1>2, <4>2, <4>4, <4>5, <4>6 DEF LeaseOK
    <3> QED
      BY <3>2, <3>3
  <2>14. SynthesesInv'
    BY <2>9, SynthesesStill DEF IInv, SynthesesInv
  <2>15. LegacyOK(cut', runs', at')
    <3>1. cut.done
      BY <1>1, <1>2 DEF IInv, OutcomesInv, LegacyOK
    <3> QED
      BY <1>2, <3>1 DEF LegacyOK
  <2>16. ASSUME NEW k \in 1..Len(runs), DOMAIN runs[k].prints \cap Unextracted # {}
         PROVE  /\ runs[k].kind # "memory_capture"
                /\ Undisturbed /\ runs[k].kind = "event_capture" => runs[k].status = "failed"
    <3>1. PICK o \in Unextracted : o \in DOMAIN runs[k].prints
      BY <2>16
    <3>2. ~Told(o) /\ ~Covered(o)
      BY <3>1 DEF Unextracted
    <3>3. runs[k].kind # "memory_capture"
      BY <2>12, <3>1, <3>2 DEF Told, Runs
    <3>4. ASSUME Undisturbed, runs[k].kind = "event_capture" PROVE runs[k].status = "failed"
      <4>1. runs[k].status \notin {"completed", "reversed"}
        BY <2>12, <3>1, <3>2, <3>4 DEF Covered, Runs
      <4>2. runs[k].status # "running"
        BY <1>1, <1>2, <3>4 DEF IInv, LeaseInv, LeaseOK
      <4>3. runs[k].status # "preview" /\ runs[k].status \in Statuses
        BY <3>4 DEF IInv, RunsInv, RunsOK, RunOK
      <4> QED
        BY <4>1, <4>2, <4>3 DEF Statuses
    <3> QED
      BY <3>3, <3>4
  <2>17. OutcomesOK(runs', Undisturbed')
    <3>1. OutcomesOK(runs, Undisturbed)
      BY DEF IInv, OutcomesInv
    <3>2. Undisturbed' => Undisturbed
      BY <2>9, UndisturbedStill DEF Frame
    <3> DEFINE u == Undisturbed  v == Undisturbed'
    <3>3. OutcomesOK(runs, u) /\ (v => u)
      BY <3>1, <3>2
    <3>4. \A k \in 1..Len(runs) : DOMAIN runs[k].prints \cap Unextracted # {} =>
             runs[k].kind # "memory_capture" /\ (u /\ runs[k].kind = "event_capture" => runs[k].status = "failed")
      BY <2>16
    <3> HIDE DEF u, v
    <3>5. OutcomesOK(runs', v)
      BY <2>6, <2>9, <2>11, <3>3, <3>4 DEF OutcomesOK
    <3> QED
      BY <3>5 DEF v
  <2>18. IInv'
    BY <2>10, <2>13, <2>14, <2>15, <2>17 DEF IInv, OutcomesInv
  <2> QED
    BY <1>2, <2>18, NoRowIsNoStep
<1> QED
  BY <1>3, <1>4

(************************** proposals and approvals *************************)
LEMMA ShortPlans ==
    /\ IsSeq(<< >>) /\ Len(<< >>) = 0
    /\ \A c : IsSeq(<<c>>) /\ Len(<<c>>) = 1 /\ <<c>>[1] = c
<1>1. \A c : <<c>> \in Seq({c}) /\ Range(<<c>>) = {c}
  BY DEF Range
<1> QED
  BY <1>1 DEF IsSeq

LEMMA PassFacts ==
    ASSUME IInv, NEW w \in Processes
    PROVE  /\ PassOK(w, at[w], runs, rows, scenario) /\ DOMAIN at = Processes
           /\ RunsOK(runs, rows) /\ StoreOK(rows) /\ Whole(rows) /\ Len(runs) \in Nat /\ DOMAIN runs = 1..Len(runs)
           /\ \A k \in 1..Len(runs) : RunOK(runs[k], Len(runs), rows)
           /\ at[w].pc \in Steps_ <=> at[w].run # 0
           /\ at[w].pc \in Steps_ => at[w].run \in 1..Len(runs) /\ runs[at[w].run].kind \in KindsOf(w)
<1>1. PassOK(w, at[w], runs, rows, scenario) /\ DOMAIN at = Processes /\ RunsOK(runs, rows) /\ StoreOK(rows) /\ Whole(rows)
  BY DEF IInv, PassInv, RunsInv, StoreInv
<1>2. Len(runs) \in Nat /\ DOMAIN runs = 1..Len(runs) /\ \A k \in 1..Len(runs) : RunOK(runs[k], Len(runs), rows)
  BY <1>1, SeqFacts DEF RunsOK
<1>3. at[w].pc \in Steps_ => at[w].run \in 1..Len(runs) /\ runs[at[w].run].kind \in KindsOf(w)
  BY <1>1 DEF PassOK
<1>4. at[w].pc \in {"idle"} \cup Kinds => at[w].run = 0
  BY <1>1 DEF PassOK
<1>5. at[w].pc \in {"idle"} \cup Kinds \cup Steps_
  BY <1>1 DEF PassOK
<1> QED
  BY <1>1, <1>2, <1>3, <1>4, <1>5

LEMMA ProposeDreamKeeps == ASSUME IInv, NEW w \in Reviewers, ProposeDream(w) PROVE IInv' /\ StepOK
<1>1. w \in Processes /\ runs[at[w].run].kind = "memory_dream"
  BY ProcessKinds DEF ProposeDream, Dreaming
<1>2. PICK p \in scenario.plans : Proposes(w, p)
  BY DEF ProposeDream
<1>3. IsSeq(p) /\ \A k \in 1..Len(p) : p[k].do \in {"rewrite", "retire", "merge", "disconnect", "connect"}
  BY ScenariosAssumption DEF IInv, WaitInv
<1>4. ASSUME DreamOK(at[w].batch, << >>, rows) PROVE DreamOK(at[w].batch, p, rows)
  BY <1>3, <1>4 DEF DreamOK
<1>5. PlanOK(runs[at[w].run].kind, at[w].batch, << >>, rows) => PlanOK(runs[at[w].run].kind, at[w].batch, p, rows)
  BY <1>1, <1>4 DEF PlanOK
<1> QED
  BY <1>1, <1>2, <1>5, ProposesKeeps

LEMMA ProposeMemoriesKeeps == ASSUME IInv, NEW w \in Processes, ProposeMemories(w) PROVE IInv' /\ StepOK
<1>1. runs[at[w].run].kind = "memory_synthesis"
  BY DEF ProposeMemories, Synthesising
<1>2. PICK p \in MemoryPlans(at[w].batch) : Proposes(w, p)
  BY DEF ProposeMemories
<1> DEFINE b == at[w].batch
<1>3. ASSUME IdeasOK(b, << >>, rows) PROVE IdeasOK(b, p, rows)
  <2>1. CASE p = << >>
    BY <1>3, <2>1
  <2>2. CASE p = <<Idea("create", None, DOMAIN b.prints)>>
    <3> DEFINE c == Idea("create", None, DOMAIN b.prints)
    <3>1. c.do = "create" /\ c.from = DOMAIN b.prints
      BY DEF Idea
    <3> HIDE DEF c
    <3>2. IsSeq(p) /\ Len(p) = 1 /\ p[1] = c
      BY <2>2, ShortPlans DEF c
    <3> QED
      BY <1>3, <3>1, <3>2 DEF IdeasOK
  <2>3. CASE \E do \in {"update", "retire"}, m \in {m \in DOMAIN b.memories : Editable(rows[m])} :
                p = <<Idea(do, m, DOMAIN b.prints)>>
    <3>1. PICK do \in {"update", "retire"}, m \in DOMAIN b.memories :
             Editable(rows[m]) /\ p = <<Idea(do, m, DOMAIN b.prints)>>
      BY <2>3
    <3> DEFINE c == Idea(do, m, DOMAIN b.prints)
    <3>2. c.do = do /\ c.from = DOMAIN b.prints /\ c.on = m
      BY DEF Idea
    <3> HIDE DEF c
    <3>3. IsSeq(p) /\ Len(p) = 1 /\ p[1] = c
      BY <3>1, ShortPlans DEF c
    <3> QED
      BY <1>3, <3>1, <3>2, <3>3 DEF IdeasOK
  <2> QED
    BY <2>1, <2>2, <2>3 DEF MemoryPlans
<1>4. PlanOK(runs[at[w].run].kind, at[w].batch, << >>, rows) => PlanOK(runs[at[w].run].kind, at[w].batch, p, rows)
  BY <1>1, <1>3 DEF PlanOK
<1> QED
  BY <1>2, <1>4, ProposesKeeps

LEMMA ProposeEventsKeeps == ASSUME IInv, NEW w \in Capturers, ProposeEvents(w) PROVE IInv' /\ StepOK
<1>1. w \in Processes
  BY ProcessKinds
<1>2. PICK p \in Extractions(at[w].batch) : Proposes(w, p)
  BY DEF ProposeEvents
<1> DEFINE b == at[w].batch
           all == DOMAIN b.evidence
<1>3. PassOK(w, at[w], runs, rows, scenario) /\ at[w].pc \in Steps_ /\ at[w].pc # "failing"
  BY <1>1, <1>2, PassFacts DEF Proposes, Steps_
<1>4. runs[at[w].run].kind = "event_capture" /\ all \subseteq Outcomes
  BY <1>3 DEF PassOK, KindsOf, Outcomes
<1>5. IsFiniteSet(all)
  <2>1. IsFiniteSet(Outcomes)
    BY ScenariosAssumption DEF IInv, WaitInv, Outcomes
  <2> QED
    BY <1>4, <2>1, FS_Subset
<1>6. ASSUME EventsOK(b, << >>, rows) PROVE EventsOK(b, p, rows)
  <2>0. /\ DOMAIN b.candidates \subseteq DOMAIN rows
        /\ \A e \in DOMAIN b.candidates : b.candidates[e] \in Nat /\ b.candidates[e] <= rows[e].rev
    BY <1>6 DEF EventsOK
  <2> SUFFICES IsSeq(p) /\ \A k \in 1..Len(p) :
                  /\ p[k].cites \subseteq all
                  /\ p[k].on # None => p[k].on \in DOMAIN b.candidates \cap OfKind(rows, "event")
    BY <2>0 DEF EventsOK
  <2>1. CASE p = << >>
    BY <2>1, ShortPlans
  <2>2. CASE p = <<Fact(None, all)>>
    <3> DEFINE c == Fact(None, all)
    <3>1. c.on = None /\ c.cites = all
      BY DEF Fact
    <3> HIDE DEF c
    <3>2. IsSeq(p) /\ Len(p) = 1 /\ p[1] = c
      BY <2>2, ShortPlans DEF c
    <3> QED
      BY <3>1, <3>2
  <2>3. CASE p = SetToSeq({Fact(None, {o}) : o \in all})
    <3> DEFINE S == {Fact(None, {o}) : o \in all}
    <3>1. IsFiniteSet(S)
      <4> DEFINE f == [o \in all |-> Fact(None, {o})]
      <4>1. f \in Surjection(all, S)
        BY DEF Surjection
      <4> HIDE DEF f, S, all
      <4> QED
        BY <1>5, <4>1, FS_Surjection
    <3>2. p \in Seq(S)
      BY <2>3, <3>1, OrderOfSet
    <3>3. \A c \in S : c.on = None /\ c.cites \subseteq all
      BY DEF Fact
    <3> HIDE DEF S
    <3>4. IsSeq(p) /\ \A k \in 1..Len(p) : p[k] \in S
      <4>1. p \in [1..Len(p) -> S] /\ Len(p) \in Nat
        BY <3>2
      <4>2. p \in [1..Len(p) -> Range(p)]
        BY <4>1 DEF Range
      <4> QED
        BY <4>1, <4>2 DEF IsSeq
    <3> QED
      BY <3>3, <3>4
  <2>4. CASE \E e \in {e \in DOMAIN b.candidates : rows[e].kind = "event"} : p = <<Fact(e, all)>>
    <3>1. PICK e \in DOMAIN b.candidates : rows[e].kind = "event" /\ p = <<Fact(e, all)>>
      BY <2>4
    <3> DEFINE c == Fact(e, all)
    <3>2. c.on = e /\ c.cites = all
      BY DEF Fact
    <3> HIDE DEF c
    <3>3. IsSeq(p) /\ Len(p) = 1 /\ p[1] = c
      BY <3>1, ShortPlans DEF c
    <3> QED
      BY <2>0, <3>1, <3>2, <3>3 DEF OfKind
  <2> QED
    BY <1>2, <2>1, <2>2, <2>3, <2>4 DEF Extractions
<1>7. PlanOK(runs[at[w].run].kind, at[w].batch, << >>, rows) => PlanOK(runs[at[w].run].kind, at[w].batch, p, rows)
  BY <1>4, <1>6 DEF PlanOK
<1> QED
  BY <1>1, <1>2, <1>7, ProposesKeeps

\* A Run is refused when its transaction would begin.
LEMMA BeginDreamKeeps == ASSUME IInv, NEW w \in Processes, BeginDream(w) PROVE IInv' /\ StepOK
<1>1. CASE runs[at[w].run].status = "running"
  BY <1>1, BeginKeeps DEF BeginDream
<1>2. CASE runs[at[w].run].status # "running"
  <2> DEFINE new == [at[w] EXCEPT !.pc = "failing", !.err = "invalid"]
  <2>1. PassOK(w, at[w], runs, rows, scenario) /\ DOMAIN at = Processes
    BY DEF IInv, PassInv
  <2>2. /\ DOMAIN new = PassFields /\ new.pc = "failing" /\ new.run = at[w].run /\ new.batch = at[w].batch
        /\ at[w].pc \in Steps_
    BY <2>1 DEF PassOK, PassFields, BeginDream, Steps_
  <2>3. /\ scenario' = scenario /\ rows' = rows /\ runs' = runs /\ cut' = cut /\ facts' = facts
        /\ lease' = lease /\ woken' = woken /\ armed' = armed /\ timing' = timing /\ todo' \subseteq todo
        /\ at' = [at EXCEPT ![w] = new]
    BY <1>2, <2>1 DEF BeginDream, store
  <2> HIDE DEF new
  <2>4. PassOK(w, new, runs, rows, scenario) /\ new.pc \in Steps_
    BY <2>1, <2>2, FailingIsOK DEF Steps_
  <2> QED
    BY <2>2, <2>3, <2>4, OnlyMoves
<1> QED
  BY <1>1, <1>2

LEMMA BeginMemoriesKeeps == ASSUME IInv, NEW w \in Processes, BeginMemories(w) PROVE IInv' /\ StepOK
<1>1. CASE runs[at[w].run].status \in {"running", "preview"}
  BY <1>1, BeginKeeps DEF BeginMemories
<1>2. CASE runs[at[w].run].status \notin {"running", "preview"}
  <2> DEFINE new == [at[w] EXCEPT !.pc = "failing", !.err = "conflict"]
  <2>1. PassOK(w, at[w], runs, rows, scenario) /\ DOMAIN at = Processes
    BY DEF IInv, PassInv
  <2>2. /\ DOMAIN new = PassFields /\ new.pc = "failing" /\ new.run = at[w].run /\ new.batch = at[w].batch
        /\ at[w].pc \in Steps_
    BY <2>1 DEF PassOK, PassFields, BeginMemories, Steps_
  <2>3. /\ scenario' = scenario /\ rows' = rows /\ runs' = runs /\ cut' = cut /\ facts' = facts
        /\ lease' = lease /\ woken' = woken /\ armed' = armed /\ timing' = timing /\ todo' \subseteq todo
        /\ at' = [at EXCEPT ![w] = new]
    BY <1>2, <2>1 DEF BeginMemories, store
  <2> HIDE DEF new
  <2>4. PassOK(w, new, runs, rows, scenario) /\ new.pc \in Steps_
    BY <2>1, <2>2, FailingIsOK DEF Steps_
  <2> QED
    BY <2>2, <2>3, <2>4, OnlyMoves
<1> QED
  BY <1>1, <1>2

(************************ failures, retries, approvals **********************)
\* One Run changes its status, or what it keeps.
LEMMA OneRunChanges ==
    ASSUME NEW q, NEW r, RunsOK(q, r), NEW n \in 1..Len(q), NEW new, RunOK(new, Len(q), r),
           new.kind = q[n].kind, new.prints = q[n].prints, new.parent = q[n].parent,
           q[n].kind = "event_capture" => /\ q[n].status = "failed" => new.status = "failed"
                                          /\ new.status = "running" => q[n].status = "running"
    PROVE  LET s == [q EXCEPT ![n] = new] IN
           /\ RunsOK(s, r) /\ RunsAge(q, s) /\ NoOutcome(q, s) /\ Tame(q, s)
           /\ (ReviewsOf(new) => ReviewsOf(q[n])) => NoReview(q, s)
           /\ Len(s) = Len(q) /\ s[n] = new /\ \A k \in 1..Len(q) \ {n} : s[k] = q[k]
<1> DEFINE s == [q EXCEPT ![n] = new]
<1>1. IsSeq(q) /\ Len(q) \in Nat /\ DOMAIN q = 1..Len(q) /\ \A k \in 1..Len(q) : RunOK(q[k], Len(q), r)
  BY SeqFacts DEF RunsOK
<1>2. DOMAIN s = DOMAIN q /\ s = [k \in DOMAIN q |-> s[k]]
  OBVIOUS
<1>3. s[n] = new /\ \A k \in 1..Len(q) \ {n} : s[k] = q[k]
  BY <1>1
<1> HIDE DEF s
<1>4. \A k \in DOMAIN q : /\ RunOK(s[k], Len(q), r)
                          /\ s[k].kind = q[k].kind /\ s[k].prints = q[k].prints /\ s[k].parent = q[k].parent
  BY <1>1, <1>3
<1>5. RunsOK(s, r) /\ RunsAge(q, s) /\ NoOutcome(q, s) /\ Len(s) = Len(q)
  BY <1>1, <1>2, <1>4, SomeRunsChange
<1>6. Tame(q, s)
  BY <1>1, <1>3 DEF Tame
<1>7. (ReviewsOf(new) => ReviewsOf(q[n])) => NoReview(q, s)
  BY <1>1, <1>3, <1>5 DEF NoReview
<1> QED
  BY <1>3, <1>5, <1>6, <1>7 DEF s

\* A Run is declared failed, whatever it has become, and keeps its journal.
LEMMA RunFails ==
    ASSUME IInv, NEW n \in 1..Len(runs), NEW new, DOMAIN new = RunFields, new.status = "failed",
           new.kind = runs[n].kind, new.prints = runs[n].prints, new.parent = runs[n].parent, new.log = runs[n].log,
           runs' = [runs EXCEPT ![n] = new], rows' = rows
    PROVE  StoreGoes /\ RunsGo(runs, runs')
<1>1. RunsOK(runs, rows) /\ RunOK(runs[n], Len(runs), rows)
  BY DEF IInv, RunsInv, RunsOK
<1>2. RunOK(new, Len(runs), rows) /\ ~ReviewsOf(new)
  BY <1>1 DEF RunOK, Statuses, ReviewsOf
<1>3. RunsOK(runs', rows) /\ RunsGo(runs, runs')
  BY <1>1, <1>2, OneRunChanges DEF RunsGo
<1> QED
  BY <1>3, NoRowWritten

LEMMA RetryDueKeeps == ASSUME IInv, NEW r \in DOMAIN runs, RetryDue(r) PROVE IInv' /\ StepOK
<1> DEFINE new == [runs[r] EXCEPT !.retry = "due"]
<1>1. r \in 1..Len(runs) /\ RunOK(runs[r], Len(runs), rows)
  BY ProcessKinds, PassFacts
<1>2. /\ DOMAIN new = RunFields /\ new.status = "failed" /\ new.kind = runs[r].kind /\ new.prints = runs[r].prints
      /\ new.parent = runs[r].parent /\ new.log = runs[r].log
  BY <1>1 DEF RunOK, RunFields, RetryDue
<1>3. /\ scenario' = scenario /\ rows' = rows /\ cut' = cut /\ facts' = facts /\ todo' = todo
      /\ at' = at /\ lease' = lease /\ armed' = armed /\ timing' = timing /\ woken' = woken /\ runs' = [runs EXCEPT ![r] = new]
  BY <1>1 DEF RetryDue
<1> HIDE DEF new
<1>4. StoreGoes /\ RunsGo(runs, runs')
  BY <1>1, <1>2, <1>3, RunFails
<1>5. armed' \cup timing' \subseteq Reviewers /\ woken' \subseteq Reviewers
  BY <1>3 DEF IInv, WaitInv
<1> QED
  BY <1>3, <1>4, <1>5, NobodyMoves, NoRowIsNoStep

\* A pass fails: its Run is recorded as failed, and the lease is released.
LEMMA PassFails ==
    ASSUME IInv, NEW w \in Processes, at[w].pc = "failing", NEW new, DOMAIN new = RunFields, new.status = "failed",
           new.kind = runs[at[w].run].kind, new.prints = runs[at[w].run].prints,
           new.parent = runs[at[w].run].parent, new.log = runs[at[w].run].log,
           runs' = [runs EXCEPT ![at[w].run] = new], rows' = rows, scenario' = scenario, cut' = cut, facts' = facts,
           todo' = todo, Ends(w) \/ (at' = [at EXCEPT ![w] = Idle] /\ lease' = Released(w) /\ GoesOn(w))
    PROVE  IInv' /\ StepOK
<1>1. at[w].run \in 1..Len(runs) /\ DOMAIN at = Processes
  BY PassFacts DEF Steps_
<1>2. StoreGoes /\ RunsGo(runs, runs')
  BY <1>1, RunFails
<1>3. Around_(w) /\ at'[w] = Idle /\ lease' = Released(w)
  <2>1. CASE Ends(w)
    BY <2>1, EndsFacts DEF Around_
  <2>2. CASE at' = [at EXCEPT ![w] = Idle] /\ lease' = Released(w) /\ GoesOn(w)
    BY <1>1, <2>2 DEF GoesOn, Around_, IInv, WaitInv
  <2> QED
    BY <2>1, <2>2
<1> QED
  BY <1>2, <1>3, PassEnds, NoRowIsNoStep

LEMMA FailDreamKeeps == ASSUME IInv, NEW w \in Reviewers, FailDream(w) PROVE IInv' /\ StepOK
<1> DEFINE r == at[w].run  e == at[w].err
           content == e \in {"content", "invalid"}
           retryable == e \in {"transient", "conflict"} \/ (content /\ Cardinality(DOMAIN runs[r].prints) > 1)
           attempts == Attempts("memory_dream", runs[r].prints, runs[r].preview)
           again == IF retryable /\ attempts < 2 THEN "later" ELSE "never"
           new == [runs[r] EXCEPT !.status = "failed", !.paused = (e = "config"), !.retry = again]
<1>1. w \in Processes /\ at[w].pc = "failing"
  BY ProcessKinds DEF FailDream
<1>2. r \in 1..Len(runs) /\ RunOK(runs[r], Len(runs), rows) /\ DOMAIN runs = 1..Len(runs)
  BY <1>1, PassFacts DEF Steps_
<1>3. /\ rows' = rows /\ scenario' = scenario /\ cut' = cut /\ facts' = facts /\ todo' = todo
      /\ Ends(w) \/ (at' = [at EXCEPT ![w] = Idle] /\ lease' = Released(w) /\ GoesOn(w))
  BY DEF FailDream
<1>4. runs' = [runs EXCEPT ![r].status = "failed", ![r].paused = (e = "config"), ![r].retry = again]
  BY DEF FailDream
<1>5. runs' = [runs EXCEPT ![r] = new]
  <2> HIDE DEF r, e, again
  <2> QED
    BY <1>2, <1>4
<1>6. /\ DOMAIN new = RunFields /\ new.status = "failed" /\ new.kind = runs[r].kind /\ new.prints = runs[r].prints
      /\ new.parent = runs[r].parent /\ new.log = runs[r].log
  <2> HIDE DEF r, e, again
  <2> QED
    BY <1>2 DEF RunOK, RunFields
<1> HIDE DEF new
<1> QED
  BY <1>1, <1>3, <1>5, <1>6, PassFails

LEMMA FailEventsKeeps == ASSUME IInv, NEW w \in Capturers, FailEvents(w) PROVE IInv' /\ StepOK
<1> DEFINE r == at[w].run
           again == IF Attempts("event_capture", runs[r].prints, FALSE) < 2 /\ at[w].err # "deferred" THEN "later" ELSE "never"
           new == [runs[r] EXCEPT !.status = "failed", !.retry = again]
<1>1. w \in Processes /\ at[w].pc = "failing"
  BY ProcessKinds DEF FailEvents
<1>2. r \in 1..Len(runs) /\ RunOK(runs[r], Len(runs), rows) /\ DOMAIN runs = 1..Len(runs)
  BY <1>1, PassFacts DEF Steps_
<1>3. /\ rows' = rows /\ scenario' = scenario /\ cut' = cut /\ facts' = facts /\ todo' = todo /\ Ends(w)
  BY DEF FailEvents
<1>4. runs' = [runs EXCEPT ![r].status = "failed", ![r].retry = again]
  BY DEF FailEvents
<1>5. runs' = [runs EXCEPT ![r] = new]
  <2> HIDE DEF r, again
  <2> QED
    BY <1>2, <1>4
<1>6. /\ DOMAIN new = RunFields /\ new.status = "failed" /\ new.kind = runs[r].kind /\ new.prints = runs[r].prints
      /\ new.parent = runs[r].parent /\ new.log = runs[r].log
  <2> HIDE DEF r, again
  <2> QED
    BY <1>2 DEF RunOK, RunFields
<1> HIDE DEF new
<1> QED
  BY <1>1, <1>3, <1>5, <1>6, PassFails

LEMMA FailMemoriesKeeps == ASSUME IInv, NEW w \in Processes, FailMemories(w) PROVE IInv' /\ StepOK
<1> DEFINE r == at[w].run
           again == IF Attempts("memory_synthesis", runs[r].prints, runs[r].preview) < 2 /\ at[w].err # "deferred"
                    THEN "later" ELSE "never"
           new == [runs[r] EXCEPT !.status = "failed", !.retry = again]
<1>1. at[w].pc = "failing"
  BY DEF FailMemories
<1>2. r \in 1..Len(runs) /\ RunOK(runs[r], Len(runs), rows) /\ DOMAIN runs = 1..Len(runs)
  BY <1>1, PassFacts DEF Steps_
<1>3. /\ rows' = rows /\ scenario' = scenario /\ cut' = cut /\ facts' = facts /\ todo' = todo /\ Ends(w)
  BY DEF FailMemories
<1>4. CASE w = Operator
  <2>1. runs' = runs
    BY <1>4 DEF FailMemories
  <2>2. Around_(w) /\ at'[w] = Idle /\ lease' = Released(w)
    BY <1>3, EndsFacts DEF Around_
  <2> QED
    BY <1>3, <2>1, <2>2, NothingWritten, PassEnds, NoRowIsNoStep
<1>5. CASE w # Operator
  <2>4. runs' = [runs EXCEPT ![r].status = "failed", ![r].retry = again]
    BY <1>5 DEF FailMemories
  <2>5. runs' = [runs EXCEPT ![r] = new]
    <3> HIDE DEF r, again
    <3> QED
      BY <1>2, <2>4
  <2>6. /\ DOMAIN new = RunFields /\ new.status = "failed" /\ new.kind = runs[r].kind /\ new.prints = runs[r].prints
        /\ new.parent = runs[r].parent /\ new.log = runs[r].log
    <3> HIDE DEF r, again
    <3> QED
      BY <1>2 DEF RunOK, RunFields
  <2> HIDE DEF new
  <2> QED
    BY <1>1, <1>3, <2>5, <2>6, PassFails
<1> QED
  BY <1>4, <1>5

LEMMA FailApprovedKeeps == ASSUME IInv, FailApproved PROVE IInv' /\ StepOK
<1> DEFINE r == at[Operator].run
           new == [runs[r] EXCEPT !.status = "failed"]
<1>1. Operator \in Processes /\ at[Operator].pc = "failing"
  BY ProcessKinds DEF FailApproved
<1>2. r \in 1..Len(runs) /\ RunOK(runs[r], Len(runs), rows) /\ DOMAIN runs = 1..Len(runs)
  BY <1>1, PassFacts DEF Steps_
<1>3. /\ rows' = rows /\ scenario' = scenario /\ cut' = cut /\ facts' = facts /\ todo' = todo /\ Ends(Operator)
  BY DEF FailApproved
<1>4. runs' = [runs EXCEPT ![r].status = "failed"]
  BY DEF FailApproved
<1>5. runs' = [runs EXCEPT ![r] = new]
  BY <1>2, <1>4
<1>6. /\ DOMAIN new = RunFields /\ new.status = "failed" /\ new.kind = runs[r].kind /\ new.prints = runs[r].prints
      /\ new.parent = runs[r].parent /\ new.log = runs[r].log
  BY <1>2 DEF RunOK, RunFields
<1> HIDE DEF new
<1> QED
  BY <1>1, <1>3, <1>5, <1>6, PassFails

(* The owner applies a saved preview. *)
ChildRuns(p) ==
    IF Children(p) = {}
    THEN Append(runs, [NewRun("memory_dream", << >>, FALSE) EXCEPT !.parent = p])
    ELSE [r \in DOMAIN runs |-> IF r \in Children(p) THEN [runs[r] EXCEPT !.status = "running", !.retry = None] ELSE runs[r]]

LEMMA ChildrenRestart ==
    ASSUME IInv, NEW p \in DOMAIN runs, runs' = ChildRuns(p)
    PROVE  /\ RunsOK(runs', rows) /\ RunsGo(runs, runs')
           /\ \E r \in DOMAIN runs' : runs'[r].parent = p
           /\ \A r \in DOMAIN runs' : runs'[r].parent = p => r \in 1..Len(runs') /\ runs'[r].kind = "memory_dream"
<1>1. /\ RunsOK(runs, rows) /\ StoreOK(rows) /\ Len(runs) \in Nat /\ DOMAIN runs = 1..Len(runs)
      /\ \A k \in 1..Len(runs) : RunOK(runs[k], Len(runs), rows)
  BY ProcessKinds, PassFacts
<1>2. RunsOK(runs', rows) /\ RunsGo(runs, runs') /\ \E r \in DOMAIN runs' : runs'[r].parent = p
  <2>1. CASE Children(p) = {}
    <3> DEFINE preview == FALSE
    <3> HIDE DEF preview
    <3> DEFINE fresh == NewRun("memory_dream", << >>, preview)
               new == [fresh EXCEPT !.parent = p]
    <3>1. runs' = Append(runs, new)
      BY <2>1 DEF preview, ChildRuns
    <3>2. RunOK(fresh, Len(runs) + 1, rows) /\ fresh.kind = "memory_dream" /\ fresh.status = "running"
      BY <1>1, NewRunIsOK
    <3> HIDE DEF fresh
    <3>3. RunOK(new, Len(runs) + 1, rows) /\ new.kind = "memory_dream" /\ ~ReviewsOf(new) /\ new.parent = p
      BY <1>1, <3>2 DEF RunOK, RunFields, ReviewsOf
    <3> HIDE DEF new
    <3>4. /\ RunsOK(runs', rows) /\ RunsGo(runs, runs')
          /\ Len(runs') = Len(runs) + 1 /\ runs'[Len(runs) + 1] = new
      BY <1>1, <3>1, <3>3, OneMoreRun DEF RunsGo
    <3>5. DOMAIN runs' = 1..Len(runs')
      BY <3>4, SeqFacts DEF RunsOK
    <3>6. Len(runs) + 1 \in DOMAIN runs'
      BY <1>1, <3>4, <3>5
    <3> QED
      BY <3>3, <3>4, <3>6
  <2>2. CASE Children(p) # {}
    <3> DEFINE s == [r \in DOMAIN runs |-> IF r \in Children(p) THEN [runs[r] EXCEPT !.status = "running", !.retry = None] ELSE runs[r]]
    <3>1. runs' = s /\ DOMAIN s = DOMAIN runs /\ s = [k \in DOMAIN runs |-> s[k]]
      BY <2>2 DEF ChildRuns
    <3>2. \A k \in DOMAIN runs :
             \/ k \notin Children(p) /\ s[k] = runs[k]
             \/ k \in Children(p) /\ s[k] = [runs[k] EXCEPT !.status = "running", !.retry = None]
      OBVIOUS
    <3> HIDE DEF s
    <3>3. ASSUME NEW k \in DOMAIN runs
          PROVE  /\ RunOK(s[k], Len(runs), rows)
                 /\ s[k].kind = runs[k].kind /\ s[k].prints = runs[k].prints /\ s[k].parent = runs[k].parent
                 /\ s[k] = runs[k] \/ runs[k].kind = "memory_dream"
      <4>1. CASE k \notin Children(p) /\ s[k] = runs[k]
        BY <1>1, <4>1
      <4>2. CASE k \in Children(p) /\ s[k] = [runs[k] EXCEPT !.status = "running", !.retry = None]
        <5>1. RunOK(runs[k], Len(runs), rows) /\ runs[k].kind = "memory_dream"
          BY <1>1, <4>2 DEF Children, Dreams, Runs
        <5> QED
          BY <4>2, <5>1 DEF RunOK, RunFields, Statuses
      <4> QED
        BY <3>2, <4>1, <4>2
    <3>4. RunsOK(s, rows) /\ RunsAge(runs, s) /\ NoOutcome(runs, s) /\ Len(s) = Len(runs) /\ DOMAIN s = 1..Len(s)
      BY <1>1, <3>1, <3>3, SomeRunsChange
    <3>5. Tame(runs, s)
      BY <1>1, <3>3 DEF Tame
    <3>6. NoReview(runs, s)
      <4>1. ASSUME NEW k \in 1..Len(s), ReviewsOf(s[k]) PROVE k <= Len(runs) /\ ReviewsOf(runs[k])
        <5>1. k \in DOMAIN runs /\ s[k].kind = "memory_synthesis"
          BY <1>1, <3>4, <4>1 DEF ReviewsOf
        <5> QED
          BY <1>1, <3>3, <4>1, <5>1
      <4> QED
        BY <4>1 DEF NoReview
    <3>7. PICK r \in DOMAIN runs : runs[r].parent = p
      BY <2>2 DEF Children, Dreams, Runs
    <3> QED
      BY <1>1, <3>1, <3>3, <3>4, <3>5, <3>6, <3>7 DEF RunsGo
  <2> QED
    BY <2>1, <2>2
<1>3. p # 0
  BY <1>1
<1>4. DOMAIN runs' = 1..Len(runs') /\ \A k \in 1..Len(runs') : runs'[k].parent # 0 => runs'[k].kind = "memory_dream"
  BY <1>2, SeqFacts DEF RunsOK, RunOK
<1> QED
  BY <1>2, <1>3, <1>4

LEMMA ApproveDreamKeeps ==
    ASSUME IInv, NEW a \in todo, NEW p \in DOMAIN runs, ApproveDream(a, p) PROVE IInv' /\ StepOK
<1> DEFINE r == CHOOSE r \in DOMAIN runs' : runs'[r].parent = p
           new == [Idle EXCEPT !.pc = "begin", !.batch = runs[p].saved.batch, !.plan = runs[p].saved.plan, !.run = r]
<1>1. /\ Operator \in Processes /\ Operator \notin Capturers /\ LeaseOf(Operator) = "review"
      /\ DOMAIN at = Processes /\ RunsOK(runs, rows) /\ p \in 1..Len(runs) /\ LeaseType(lease)
  BY ProcessKinds, PassFacts DEF LeaseOf, IInv, WaitInv
<1>2. /\ scenario' = scenario /\ rows' = rows /\ cut' = cut /\ facts' = facts /\ todo' \subseteq todo
      /\ armed' = armed /\ timing' = timing /\ woken' = woken /\ at' = [at EXCEPT ![Operator] = new]
      /\ lease.review = None /\ Claimed(Operator)
      /\ runs[p].kind = "memory_dream" /\ runs[p].status = "preview"
  BY DEF ApproveDream
<1>3. /\ RunsOK(runs', rows) /\ RunsGo(runs, runs')
      /\ r \in 1..Len(runs') /\ runs'[r].kind = "memory_dream"
  <2>1. runs' = ChildRuns(p)
    BY DEF ApproveDream, ChildRuns
  <2>2. /\ RunsOK(runs', rows) /\ RunsGo(runs, runs')
        /\ \E k \in DOMAIN runs' : runs'[k].parent = p
        /\ \A k \in DOMAIN runs' : runs'[k].parent = p => k \in 1..Len(runs') /\ runs'[k].kind = "memory_dream"
    BY <2>1, ChildrenRestart
  <2> QED
    BY <2>2
<1> HIDE DEF r
<1>4. /\ DOMAIN new = PassFields /\ new.pc = "begin" /\ new.run = r
      /\ new.batch = runs[p].saved.batch /\ new.plan = runs[p].saved.plan
  BY DEF Idle, PassFields
<1> HIDE DEF new
<1>5. DOMAIN at' = Processes /\ at'[Operator] = new /\ \A v \in Processes \ {Operator} : at'[v] = at[v]
  BY <1>1, <1>2
<1>6. PlanOK("memory_dream", new.batch, new.plan, rows)
  BY <1>1, <1>2, <1>4 DEF RunsOK, RunOK
<1>7. PassOK(Operator, new, runs', rows, scenario)
  BY <1>1, <1>3, <1>4, <1>6 DEF PassOK, Steps_, Kinds, KindsOf
<1>8. StoreGoes
  BY <1>2, <1>3, NoRowWritten
<1>9. lease'[LeaseOf(Operator)] = Operator /\ Frame(Operator)
  BY <1>1, <1>2, <1>5, ClaimedKeeps DEF Frame, IInv, WaitInv
<1>10. LeaseOK(Operator, new, runs', lease', cut)
  BY <1>1, <1>4, <1>9 DEF LeaseOK
<1>11. IInv'
  BY <1>1, <1>2, <1>3, <1>4, <1>5, <1>7, <1>8, <1>9, <1>10, OrdinaryStep
<1> QED
  BY <1>2, <1>11, NoRowIsNoStep

LEMMA ApproveSynthesisKeeps ==
    ASSUME IInv, NEW a \in todo, NEW p \in DOMAIN runs, ApproveSynthesis(a, p) PROVE IInv' /\ StepOK
<1> DEFINE new == [Idle EXCEPT !.pc = "begin", !.run = p, !.batch = runs[p].saved.batch, !.plan = runs[p].saved.plan]
<1>1. /\ Operator \in Processes /\ Operator \notin Capturers
      /\ DOMAIN at = Processes /\ RunsOK(runs, rows) /\ p \in 1..Len(runs)
  BY ProcessKinds, PassFacts
<1>2. /\ scenario' = scenario /\ rows' = rows /\ runs' = runs /\ cut' = cut /\ facts' = facts /\ todo' \subseteq todo
      /\ lease' = lease /\ armed' = armed /\ timing' = timing /\ woken' = woken /\ at' = [at EXCEPT ![Operator] = new]
      /\ runs[p].kind = "memory_synthesis" /\ runs[p].status = "preview"
  BY DEF ApproveSynthesis, store
<1>3. /\ DOMAIN new = PassFields /\ new.pc = "begin" /\ new.run = p
      /\ new.batch = runs[p].saved.batch /\ new.plan = runs[p].saved.plan
  BY DEF Idle, PassFields
<1> HIDE DEF new
<1>4. DOMAIN at' = Processes /\ at'[Operator] = new /\ \A v \in Processes \ {Operator} : at'[v] = at[v]
  BY <1>1, <1>2
<1>5. PlanOK("memory_synthesis", new.batch, new.plan, rows) /\ new.batch.prints = runs[p].prints
  BY <1>1, <1>2, <1>3 DEF RunsOK, RunOK
<1>6. PassOK(Operator, new, runs, rows, scenario)
  BY <1>1, <1>2, <1>3, <1>5 DEF PassOK, Steps_, Kinds, KindsOf
<1>7. StoreGoes /\ RunsGo(runs, runs')
  BY <1>2, NothingWritten
<1>8. Frame(Operator)
  BY <1>2, <1>4 DEF Frame, IInv, WaitInv
<1>9. LeaseOK(Operator, new, runs', lease', cut)
  BY <1>1, <1>2, <1>3 DEF LeaseOK
<1>10. IInv'
  BY <1>1, <1>2, <1>3, <1>4, <1>6, <1>7, <1>8, <1>9, OrdinaryStep
<1> QED
  BY <1>2, <1>10, NoRowIsNoStep

(***************************** the cutover **********************************)
\* It waits for every lease: whoever holds one would commit what it now refuses.
LEMMA ActivateKeeps == ASSUME IInv, NEW a \in todo, Activate(a) PROVE IInv' /\ StepOK
<1>1. /\ scenario' = scenario /\ rows' = rows /\ runs' = runs /\ facts' = facts /\ todo' \subseteq todo
      /\ at' = at /\ lease' = lease /\ armed' = armed /\ timing' = timing /\ woken' = Active
      /\ lease.capture = None /\ lease.review = None /\ cut'.done
  BY DEF Activate, External, Notified
<1>2. Operator \in Processes /\ PassOK(Operator, at[Operator], runs, rows, scenario) /\ DOMAIN at = Processes
  BY ProcessKinds, PassFacts
<1>3. Frame(Operator) /\ StoreGoes /\ RunsAge(runs, runs')
  BY <1>1, <1>2, NothingWritten, ProcessKinds DEF Frame, IInv, WaitInv, RunsGo
<1>4. StoreInv' /\ RunsInv' /\ PassInv' /\ WaitInv'
  <2>1. PassOK(Operator, at'[Operator], runs', rows', scenario)
    BY <1>1, <1>2
  <2> QED
    BY <1>2, <1>3, <2>1, StepKeeps
<1>5. LeaseInv'
  <2>1. SUFFICES ASSUME Undisturbed', NEW w \in Processes PROVE LeaseOK(w, at[w], runs, lease, cut')
    BY <1>1 DEF LeaseInv
  <2>2. LeaseOK(w, at[w], runs, lease, cut)
    BY <1>1, <2>1, UndisturbedStill DEF IInv, LeaseInv
  <2>3. lease[LeaseOf(w)] # w
    BY <1>1, ProcessKinds DEF LeaseOf
  <2>4. ~(at[w].pc # "idle" /\ (w = Operator => runs[at[w].run].kind = "memory_dream"))
    BY <2>2, <2>3 DEF LeaseOK
  <2>5. w \in Capturers => w # Operator
    BY ProcessKinds
  <2> QED
    BY <2>4, <2>5 DEF LeaseOK
<1>6. OutcomesInv'
  <2>2. OutcomesOK(runs, Undisturbed)
    BY DEF IInv, OutcomesInv
  <2>3. Undisturbed' => Undisturbed
    BY <1>1, UndisturbedStill
  <2>4. OutcomesOK(runs', Undisturbed')
    <3> HIDE DEF Undisturbed
    <3> QED
      BY <1>1, <2>2, <2>3 DEF OutcomesOK
  <2> QED
    BY <1>1, <2>4 DEF OutcomesInv, LegacyOK
<1>7. SynthesesInv'
  BY <1>1 DEF IInv, SynthesesInv
<1>8. IInv'
  BY <1>4, <1>5, <1>6, <1>7 DEF IInv
<1> QED
  BY <1>1, <1>8, NoRowIsNoStep

(***************************** undo and edits *******************************)
\* Who writes rows outside of a pass, and leaves the Runs as they are.
LEMMA EditKeeps ==
    ASSUME IInv, StoreOK(rows'), Whole(rows'), Later(rows, rows'), runs' = runs, scenario' = scenario, todo' \subseteq todo,
           armed' = armed /\ timing' = timing, woken' = Active, at' = at, lease' = lease, cut' = cut, OwnerStep
    PROVE  IInv' /\ StepOK
<1>1. StoreGoes
  BY RunsAgeRows DEF StoreGoes, IInv, StoreInv, RunsInv
<1>2. RunsGo(runs, runs')
  BY RunsStill DEF IInv, RunsInv, RunsOK
<1>3. armed' \cup timing' \subseteq Reviewers /\ woken' \subseteq Reviewers
  BY ProcessKinds DEF IInv, WaitInv
<1>4. IInv'
  BY <1>1, <1>2, <1>3, NobodyMoves
<1> QED
  BY <1>4, NobodyCommits

LEMMA RowChanged ==
    ASSUME NEW r, StoreOK(r), NEW i, NEW new, i \in DOMAIN r => Columns \subseteq DOMAIN new /\ RowOK(new) /\ Alike(r[i], new),
           NEW s, s = [r EXCEPT ![i] = new], i \in DOMAIN r => new.rev = r[i].rev + 1
    PROVE  /\ StoreOK(s) /\ Later(r, s) /\ (\A j \in DOMAIN r : IF j = i THEN s[j] = new ELSE s[j] = r[j])
           /\ Whole(r) /\ (i \in DOMAIN r => (new.live => r[i].live)) => Whole(s)
<1>1. DOMAIN s = DOMAIN r /\ \A j \in DOMAIN r : IF j = i THEN s[j] = new ELSE s[j] = r[j]
  OBVIOUS
<1>2. ASSUME NEW j \in DOMAIN r
      PROVE  /\ RowOK(s[j]) /\ RowOK(r[j]) /\ Alike(r[j], s[j]) /\ r[j].rev <= s[j].rev
             /\ r[j].rev = s[j].rev => r[j] = s[j]
  <2>1. RowOK(r[j]) /\ r[j].rev \in Nat
    BY DEF StoreOK, RowOK
  <2>2. CASE j = i
    BY <1>1, <2>1, <2>2
  <2>3. CASE j # i
    BY <1>1, <2>1, <2>3 DEF Alike
  <2> QED
    BY <2>2, <2>3
<1>3. Later(r, s)
  BY <1>1, <1>2 DEF Later
<1>4. \A l \in Links(s) : l \in Links(r) /\ s[l].src = r[l].src /\ s[l].dst = r[l].dst /\ s[l].rel = r[l].rel
  BY <1>1, <1>2 DEF Links, Alike
<1>5. StoreOK(s)
  BY <1>1, <1>2, <1>4 DEF StoreOK
<1>6. ASSUME Whole(r), i \in DOMAIN r => (new.live => r[i].live) PROVE Whole(s)
  <2>1. \A j \in DOMAIN r : s[j].live => r[j].live
    BY <1>1, <1>6
  <2>2. \A l \in Links(s) : l \in DOMAIN r
    BY <1>4 DEF Links
  <2>3. Links(s) \subseteq Links(r)
    BY <1>4
  <2> QED
    BY <1>4, <1>6, <2>1, <2>2, <2>3, WholeStill
<1> QED
  BY <1>1, <1>3, <1>5, <1>6

LEMMA RowAdded ==
    ASSUME NEW r, StoreOK(r), NEW f \in Ids, f \notin DOMAIN r, NEW new, RowOK(new),
           new.kind = "link" => new.src \in DOMAIN r /\ new.dst \in DOMAIN r,
           NEW s, s = With(r, f, new)
    PROVE  /\ StoreOK(s) /\ Later(r, s) /\ \A j \in DOMAIN r : s[j] = r[j]
           /\ Whole(r) /\ (new.kind = "link" => EndsOf(new) \cap Links(r) = {} /\ Same(r, new.src, new.rel, new.dst) = {})
                => Whole(s)
<1>1. DOMAIN s = DOMAIN r \cup {f} /\ s[f] = new /\ \A j \in DOMAIN r : s[j] = r[j]
  BY DEF With
<1>2. StoreOK(s)
  BY <1>1 DEF StoreOK, Links
<1>3. Later(r, s)
  BY <1>1 DEF Later, Alike, StoreOK, RowOK
<1>4. ASSUME Whole(r), new.kind = "link" => EndsOf(new) \cap Links(r) = {} /\ Same(r, new.src, new.rel, new.dst) = {}
      PROVE  Whole(s)
  <2>1. /\ \A l \in Links(s) : (l \in Links(r) /\ s[l] = r[l]) \/ (l = f /\ s[l] = new /\ new.kind = "link")
        /\ \A l \in Links(r) : EndsOf(r[l]) \subseteq DOMAIN r
        /\ Links(s) \subseteq Links(r) \cup {f} /\ f \notin Links(r)
    BY <1>1 DEF Links, StoreOK, EndsOf
  <2>2. ASSUME NEW l \in Links(s) PROVE EndsOf(s[l]) \cap Links(s) = {}
    <3>1. CASE l \in Links(r) /\ s[l] = r[l]
      BY <1>4, <2>1, <3>1 DEF Whole
    <3>2. CASE l = f /\ s[l] = new /\ new.kind = "link"
      BY <1>4, <2>1, <3>2 DEF EndsOf
    <3> QED
      BY <2>1, <3>1, <3>2
  <2>3. \A l \in Links(r) : new.kind = "link" /\ r[l].live => ~Parallel(r[l], new)
    BY <1>4 DEF Same, Parallel
  <2>4. ASSUME NEW l \in Links(s), NEW m \in Links(s), s[l].live, s[m].live, Parallel(s[l], s[m]) PROVE l = m
    <3>1. Parallel(s[m], s[l])
      BY <2>4 DEF Parallel
    <3>3. CASE l = f /\ m # f
      <4>1. m \in Links(r) /\ s[m] = r[m] /\ s[l] = new /\ new.kind = "link"
        BY <1>1, <2>1, <3>3
      <4> QED
        BY <2>3, <2>4, <3>1, <4>1
    <3>4. CASE l # f /\ m = f
      <4>1. l \in Links(r) /\ s[l] = r[l] /\ s[m] = new /\ new.kind = "link"
        BY <1>1, <2>1, <3>4
      <4> QED
        BY <2>3, <2>4, <4>1
    <3>2. CASE l # f /\ m # f
      BY <1>4, <2>1, <2>4, <3>2 DEF Whole
    <3> QED
      BY <3>2, <3>3, <3>4
  <2> QED
    BY <2>2, <2>4 DEF Whole
<1> QED
  BY <1>1, <1>2, <1>3, <1>4

LEMMA EditRowKeeps == ASSUME IInv, NEW a \in todo, EditRow(a) PROVE IInv' /\ StepOK
<1> DEFINE i == a.on
           changed == CASE a.do = "edit" -> [rows[i] EXCEPT !.text = "owner"]
                        [] a.do = "protect" -> [rows[i] EXCEPT !.guarded = TRUE]
                        [] a.do = "unlink" -> [rows[i] EXCEPT !.live = FALSE]
           new == [changed EXCEPT !.rev = @ + 1, !.by = "owner"]
<1>1. StoreOK(rows) /\ Whole(rows)
  BY DEF IInv, StoreInv
<1>2. /\ scenario' = scenario /\ runs' = runs /\ todo' \subseteq todo /\ armed' = armed /\ timing' = timing /\ woken' = Active
      /\ at' = at /\ lease' = lease /\ cut' = cut
  BY DEF EditRow, External, Notified
<1>3. rows' = [rows EXCEPT ![i] = new] /\ a.do \in {"edit", "protect", "unlink"}
  BY DEF EditRow, Edited
<1>4. ASSUME i \in DOMAIN rows
      PROVE  RowOK(new) /\ Columns \subseteq DOMAIN new /\ Alike(rows[i], new) /\ new.rev = rows[i].rev + 1 /\ new.by = "owner"
             /\ rows[i].live
  <2> HIDE DEF i
  <2>1. RowOK(rows[i])
    BY <1>1, <1>4 DEF StoreOK
  <2>2. /\ DOMAIN changed = DOMAIN rows[i] /\ RowOK(changed) /\ Alike(rows[i], changed) /\ changed.rev = rows[i].rev
    <3>1. CASE a.do = "edit"
      <4>1. changed = [rows[i] EXCEPT !.text = "owner"]
        BY <3>1
      <4> HIDE DEF changed
      <4> QED
        BY <2>1, <4>1 DEF RowOK, Columns, Alike
    <3>2. CASE a.do = "protect"
      <4>1. changed = [rows[i] EXCEPT !.guarded = TRUE]
        BY <3>2
      <4> HIDE DEF changed
      <4> QED
        BY <2>1, <4>1 DEF RowOK, Columns, Alike
    <3>3. CASE a.do = "unlink"
      <4>1. changed = [rows[i] EXCEPT !.live = FALSE]
        BY <3>3
      <4> HIDE DEF changed
      <4> QED
        BY <2>1, <4>1 DEF RowOK, Columns, Alike
    <3> QED
      BY <1>3, <3>1, <3>2, <3>3
  <2> HIDE DEF changed
  <2>3. rows[i].live
    BY DEF EditRow, i
  <2> QED
    BY <2>1, <2>2, <2>3 DEF RowOK, Columns, Alike
<1> HIDE DEF new, i
<1>5. StoreOK(rows') /\ Whole(rows') /\ Later(rows, rows') /\ (\A j \in DOMAIN rows : IF j = i THEN rows'[j] = new ELSE rows'[j] = rows[j])
  BY <1>1, <1>3, <1>4, RowChanged
<1>6. OwnerStep
  BY <1>4, <1>5 DEF OwnerStep
<1> QED
  BY <1>2, <1>5, <1>6, EditKeeps

LEMMA AddLinkKeeps == ASSUME IInv, NEW a \in todo, AddLink(a) PROVE IInv' /\ StepOK
<1> DEFINE t == Begun(rows)  f == Fresh(t)  new == NewLink(a.src, a.rel, a.dst, "owner")
<1>1. /\ StoreOK(rows) /\ Whole(rows) /\ a.src \in DOMAIN rows /\ a.dst \in DOMAIN rows
      /\ EndsOf(a) \cap Links(rows) = {}
  <2>1. a \in scenario.todo /\ scenario \in Scenarios /\ a.do = "link" /\ DOMAIN scenario.rows \subseteq DOMAIN rows
    BY DEF IInv, WaitInv, StoreInv, AddLink
  <2>2. EndsOf(a) \subseteq DOMAIN scenario.rows \ Links(scenario.rows)
    BY <2>1, ScenariosAssumption
  <2> QED
    BY <2>2 DEF IInv, StoreInv, EndsOf
<1>2. /\ scenario' = scenario /\ runs' = runs /\ todo' \subseteq todo /\ armed' = armed /\ timing' = timing /\ woken' = Active
      /\ at' = at /\ lease' = lease /\ cut' = cut
  BY DEF AddLink, External, Notified
<1>3. Free(t) # {} /\ rows' = With(rows, f, new) /\ Same(rows, a.src, a.rel, a.dst) = {}
  BY DEF AddLink
<1>4. f \in Ids /\ f \notin DOMAIN rows
  <2>1. f \in Free(t)
    BY <1>3 DEF Fresh
  <2> QED
    BY <2>1 DEF Free
<1>5. RowOK(new) /\ new.src = a.src /\ new.dst = a.dst /\ new.rel = a.rel
  BY NewRowsAreOK DEF NewLink
<1> HIDE DEF f, new
<1>8. EndsOf(new) \cap Links(rows) = {} /\ Same(rows, new.src, new.rel, new.dst) = {}
  BY <1>1, <1>3, <1>5 DEF EndsOf
<1>6. StoreOK(rows') /\ Whole(rows') /\ Later(rows, rows') /\ \A j \in DOMAIN rows : rows'[j] = rows[j]
  BY <1>1, <1>3, <1>4, <1>5, <1>8, RowAdded
<1>7. OwnerStep
  BY <1>6 DEF OwnerStep
<1> QED
  BY <1>2, <1>6, <1>7, EditKeeps

LEMMA WriteEventKeeps == ASSUME IInv, NEW a \in todo, WriteEvent(a) PROVE IInv' /\ StepOK
<1> DEFINE t == Begun(rows)  f == Fresh(t)  new == NewObject("event", "owner", a.cites)
<1>1. StoreOK(rows) /\ Whole(rows)
  BY DEF IInv, StoreInv
<1>2. /\ scenario' = scenario /\ runs' = runs /\ todo' \subseteq todo /\ armed' = armed /\ timing' = timing /\ woken' = Active
      /\ at' = at /\ lease' = lease /\ cut' = cut
  BY DEF WriteEvent, External, Notified
<1>3. Free(t) # {} /\ rows' = With(rows, f, new)
  BY DEF WriteEvent
<1>4. f \in Ids /\ f \notin DOMAIN rows
  <2>1. f \in Free(t)
    BY <1>3 DEF Fresh
  <2> QED
    BY <2>1 DEF Free
<1>5. RowOK(new) /\ new.kind = "event"
  BY NewRowsAreOK
<1> HIDE DEF f, new
<1>6. StoreOK(rows') /\ Whole(rows') /\ Later(rows, rows') /\ \A j \in DOMAIN rows : rows'[j] = rows[j]
  BY <1>1, <1>3, <1>4, <1>5, RowAdded
<1>7. OwnerStep
  BY <1>6 DEF OwnerStep
<1> QED
  BY <1>2, <1>6, <1>7, EditKeeps

LEMMA UndoKeeps == ASSUME IInv, NEW r \in DOMAIN runs, Undo(r) PROVE IInv' /\ StepOK
<1> DEFINE t == Undone(r)  new == [runs[r] EXCEPT !.status = "reversed"]
<1>1. /\ StoreOK(rows) /\ Whole(rows) /\ RunsOK(runs, rows) /\ r \in 1..Len(runs) /\ RunOK(runs[r], Len(runs), rows)
  BY ProcessKinds, PassFacts DEF IInv, StoreInv
<1>2. /\ scenario' = scenario /\ todo' \subseteq todo /\ armed' = armed /\ timing' = timing /\ woken' = Active
      /\ at' = at /\ lease' = lease /\ cut' = cut /\ runs[r].status = "completed"
      /\ rows' = Committed(t) /\ runs' = [runs EXCEPT ![r].status = "reversed"]
  BY DEF Undo, Takes, Notified
<1>3. TxOK(t, rows)
  BY <1>1, UndoneKeeps DEF RunOK
<1>12. Whole(rows')
  BY <1>1, <1>2, <1>3, UndoneIsWhole DEF RunOK
<1> HIDE DEF t
<1>4. StoreOK(rows') /\ Later(rows, rows') /\ Spares(rows, rows')
  BY <1>1, <1>2, <1>3, CommittedKeeps, LaterItself
<1>5. runs' = [runs EXCEPT ![r] = new]
  BY <1>2
<1>6. /\ RunOK(new, Len(runs), rows) /\ new.kind = runs[r].kind /\ new.prints = runs[r].prints
      /\ new.parent = runs[r].parent /\ new.status = "reversed"
      /\ ReviewsOf(new) => ReviewsOf(runs[r])
  BY <1>1, <1>2 DEF RunOK, RunFields, Statuses, ReviewsOf
<1> HIDE DEF new
<1>7. RunsOK(runs', rows) /\ RunsGo(runs, runs')
  <2>1. runs[r].status = "completed"
    BY <1>2
  <2> QED
    BY <1>1, <1>5, <1>6, <2>1, OneRunChanges DEF RunsGo
<1>8. StoreGoes
  BY <1>1, <1>4, <1>7, <1>12, RunsAgeRows DEF StoreGoes
<1>9. armed' \cup timing' \subseteq Reviewers /\ woken' \subseteq Reviewers
  BY <1>2, ProcessKinds DEF IInv, WaitInv
<1>10. IInv'
  BY <1>2, <1>7, <1>8, <1>9, NobodyMoves
<1>11. OwnerStep
  BY <1>4, SparesIsOwnerStep
<1> QED
  BY <1>2, <1>10, <1>11, NobodyCommits

(******************************* capture ************************************)
LEMMA OrderRepeatsNothing ==
    ASSUME NEW S, IsFiniteSet(S)
    PROVE  LET s == SetToSeq(S) IN
           /\ s \in Seq(S) /\ Len(s) \in Nat /\ DOMAIN s = 1..Len(s)
           /\ \A j, k \in 1..Len(s) : s[j] = s[k] => j = k
<1>1. Cardinality(S) \in Nat /\ ExistsBijection(1..Cardinality(S), S)
  BY FS_CardinalityType
<1>2. PICK g : g \in Bijection(1..Cardinality(S), S)
  BY <1>1 DEF ExistsBijection
<1>3. g \in [1..Cardinality(S) -> S] /\ IsInjective(g)
  BY <1>2 DEF Bijection, Injection
<1> DEFINE s == SetToSeq(S)
<1>4. s \in [1..Cardinality(S) -> S] /\ IsInjective(s)
  BY <1>3 DEF SetToSeq
<1> HIDE DEF s
<1>5. s \in Seq(S) /\ Len(s) = Cardinality(S)
  BY <1>1, <1>4, SeqDef
<1>6. DOMAIN s = 1..Len(s) /\ \A j, k \in 1..Len(s) : s[j] = s[k] => j = k
  BY <1>4, <1>5 DEF IsInjective
<1> QED
  BY <1>1, <1>5, <1>6 DEF s

\* More Runs.
Joined(s, q, e) ==
    /\ IsSeq(s) /\ Len(q) \in Nat /\ Len(e) \in Nat /\ Len(s) = Len(q) + Len(e)
    /\ \A k \in 1..Len(q) : s[k] = q[k]
    /\ \A k \in 1..Len(s) : k \notin 1..Len(q) => k - Len(q) \in 1..Len(e) /\ s[k] = e[k - Len(q)]

LEMMA MoreRuns ==
    ASSUME NEW q, NEW r, StoreOK(r), RunsOK(q, r), NEW e, IsSeq(e),
           \A k \in 1..Len(e) : RunOK(e[k], 0, r)
    PROVE  LET s == q \o e IN RunsOK(s, r) /\ RunsAge(q, s) /\ Tame(q, s) /\ Joined(s, q, e)
<1> DEFINE s == q \o e  U == Range(q) \cup Range(e)
<1>1. IsSeq(q) /\ Len(q) \in Nat /\ Len(e) \in Nat /\ \A k \in 1..Len(q) : RunOK(q[k], Len(q), r)
  BY SeqFacts DEF RunsOK
<1>2. q \in Seq(U) /\ e \in Seq(U)
  BY <1>1, SeqMonotonic DEF IsSeq
<1>3. /\ s \in Seq(U) /\ Len(s) = Len(q) + Len(e)
      /\ \A k \in 1..Len(q) + Len(e) : s[k] = IF k <= Len(q) THEN q[k] ELSE e[k - Len(q)]
  BY <1>2, ConcatProperties
<1> HIDE DEF s, U
<1>4. IsSeq(s)
  <2>1. Len(s) \in Nat /\ s \in [1..Len(s) -> U]
    BY <1>3
  <2>2. s \in [1..Len(s) -> Range(s)]
    BY <2>1 DEF Range
  <2> QED
    BY <2>1, <2>2 DEF IsSeq
<1>5. \A k \in 1..Len(q) : s[k] = q[k]
  BY <1>1, <1>3
<1>6. ASSUME NEW k \in 1..Len(s), k \notin 1..Len(q)
      PROVE  k - Len(q) \in 1..Len(e) /\ s[k] = e[k - Len(q)]
  BY <1>1, <1>3, <1>6
<1>7. ASSUME NEW k \in 1..Len(s) PROVE RunOK(s[k], Len(s), r)
  <2>1. CASE k \in 1..Len(q)
    <3>1. Len(s) \in Nat /\ Len(q) <= Len(s) /\ s[k] = q[k] /\ RunOK(q[k], Len(q), r)
      BY <1>1, <1>3, <1>5, <2>1
    <3> QED
      BY <1>1, <3>1, RunAges, LaterItself
  <2>2. CASE k \notin 1..Len(q)
    <3>1. Len(s) \in Nat /\ 0 <= Len(s)
      BY <1>1, <1>3
    <3>2. RunOK(s[k], 0, r)
      BY <1>6, <2>2
    <3> QED
      BY <3>1, <3>2, RunAges, LaterItself
  <2> QED
    BY <2>1, <2>2
<1>8. RunsOK(s, r)
  BY <1>4, <1>7 DEF RunsOK
<1>9. RunsAge(q, s) /\ Tame(q, s)
  BY <1>1, <1>3, <1>4, <1>5 DEF RunsAge, Tame
<1>10. Joined(s, q, e)
  BY <1>1, <1>3, <1>4, <1>5, <1>6 DEF Joined
<1> QED
  BY <1>8, <1>9, <1>10 DEF s

\* The Memories of a pass, each with its Connection to what it is about.
LEMMA WrittenKeeps ==
    ASSUME StoreOK(rows), \A o \in Outcomes : scenario.on[o] \in DOMAIN rows,
           NEW new \in [Memorable \X {"memory", "about"} -> Ids \ DOMAIN rows]
    PROVE  LET s == Written(new) IN
           /\ StoreOK(s) /\ Later(rows, s) /\ \A i \in DOMAIN rows : s[i] = rows[i]
           /\ \A o : JournalOK(Journal(new, o), s)
<1> DEFINE s == Written(new)
<1>1. DOMAIN s = DOMAIN rows \cup Range(new) /\ \A i \in DOMAIN rows : s[i] = rows[i]
  BY DEF Written
<1>2. ASSUME NEW i \in DOMAIN s, i \notin DOMAIN rows
      PROVE  /\ RowOK(s[i]) /\ s[i].rev = 1 /\ s[i].by = "capture" /\ ~s[i].guarded
             /\ s[i].kind = "link" => s[i].src \in DOMAIN s /\ s[i].dst \in DOMAIN rows
  <2> DEFINE p == CHOOSE p \in DOMAIN new : new[p] = i
  <2>1. p \in Memorable \X {"memory", "about"} /\ new[p] = i
    <3>1. \E x \in DOMAIN new : new[x] = i
      BY <1>1, <1>2 DEF Range
    <3> QED
      BY <3>1
  <2>2. s[i] = IF p[2] = "memory" THEN NewObject("memory", "capture", {p[1]})
               ELSE NewLink(new[<<p[1], "memory">>], "about", scenario.on[p[1]], "capture")
    BY <1>1, <1>2 DEF Written
  <2> HIDE DEF p, s
  <2>3. p[1] \in Memorable
    BY <2>1
  <2>4. new[<<p[1], "memory">>] \in DOMAIN s
    BY <1>1, <2>3 DEF Range
  <2>5. scenario.on[p[1]] \in DOMAIN rows
    BY <2>3 DEF Memorable, Untold
  <2>6. CASE p[2] = "memory"
    <3>1. s[i] = NewObject("memory", "capture", {p[1]})
      BY <2>2, <2>6
    <3> QED
      BY <3>1, NewRowsAreOK
  <2>7. CASE p[2] # "memory"
    <3>1. s[i] = NewLink(new[<<p[1], "memory">>], "about", scenario.on[p[1]], "capture")
      BY <2>2, <2>7
    <3>2. /\ RowOK(s[i]) /\ s[i].rev = 1 /\ s[i].by = "capture" /\ ~s[i].guarded
          /\ s[i].src = new[<<p[1], "memory">>] /\ s[i].dst = scenario.on[p[1]]
      BY <3>1, NewRowsAreOK
    <3> QED
      BY <2>4, <2>5, <3>2
  <2> QED
    BY <2>6, <2>7
<1> HIDE DEF s
<1>3. StoreOK(s)
  <2>1. DOMAIN s \subseteq Ids
    BY <1>1 DEF StoreOK, Range
  <2>2. \A i \in DOMAIN s : RowOK(s[i])
    BY <1>1, <1>2 DEF StoreOK
  <2>3. ASSUME NEW l \in Links(s) PROVE s[l].src \in DOMAIN s /\ s[l].dst \in DOMAIN s
    <3>1. CASE l \in DOMAIN rows
      <4>1. l \in Links(rows) /\ s[l] = rows[l]
        BY <1>1, <2>3, <3>1 DEF Links
      <4> QED
        BY <1>1, <4>1 DEF StoreOK
    <3>2. CASE l \notin DOMAIN rows
      BY <1>1, <1>2, <2>3, <3>2 DEF Links
    <3> QED
      BY <3>1, <3>2
  <2> QED
    BY <2>1, <2>2, <2>3 DEF StoreOK
<1>4. Later(rows, s)
  BY <1>1, LaterItself DEF Later
<1>5. ASSUME NEW o PROVE JournalOK(Journal(new, o), s)
  <2>1. CASE o \notin Memorable
    BY <2>1 DEF Journal, JournalOK, IsSeq
  <2>2. CASE o \in Memorable
    <3> DEFINE a == Entry(new[<<o, "memory">>], TRUE, None, 1)
               b == Entry(new[<<o, "about">>], TRUE, None, 1)
    <3>1. /\ new[<<o, "memory">>] \in DOMAIN s \ DOMAIN rows
          /\ new[<<o, "about">>] \in DOMAIN s \ DOMAIN rows
      BY <1>1, <2>2 DEF Range
    <3>2. EntryOK(a, s)
      BY <1>2, <3>1 DEF Entry, EntryOK
    <3>3. EntryOK(b, s)
      BY <1>2, <3>1 DEF Entry, EntryOK
    <3>4. Journal(new, o) = <<a, b>>
      BY <2>2 DEF Journal
    <3> HIDE DEF a, b
    <3>5. IsSeq(<<a, b>>) /\ Len(<<a, b>>) = 2 /\ <<a, b>>[1] = a /\ <<a, b>>[2] = b
      <4>1. <<a, b>> \in Seq({a, b}) /\ Range(<<a, b>>) = {a, b}
        BY DEF Range
      <4> QED
        BY <4>1 DEF IsSeq
    <3> QED
      BY <3>2, <3>3, <3>4, <3>5 DEF JournalOK
  <2> QED
    BY <2>1, <2>2
<1> QED
  BY <1>1, <1>3, <1>4, <1>5 DEF s

\* Each Memory is new and so is its only Connection: the store is whole as before,
\* and a Memory is taken back after its Connection.
LEMMA WrittenIsWhole ==
    ASSUME StoreOK(rows), Whole(rows), \A o \in Outcomes : scenario.on[o] \in DOMAIN rows \ Links(rows),
           NEW new \in [Memorable \X {"memory", "about"} -> Ids \ DOMAIN rows], IsInjective(new)
    PROVE  Whole(Written(new)) /\ \A o : Unwinds(Journal(new, o), Written(new))
<1> DEFINE s == Written(new)
<1>1. DOMAIN s = DOMAIN rows \cup Range(new) /\ \A i \in DOMAIN rows : s[i] = rows[i]
  BY DEF Written
<1>2. ASSUME NEW o \in Memorable
      PROVE  LET m == new[<<o, "memory">>]  l == new[<<o, "about">>] IN
             /\ m \in DOMAIN s \ DOMAIN rows /\ l \in DOMAIN s \ DOMAIN rows /\ m # l
             /\ s[m].kind = "memory" /\ s[l].kind = "link"
             /\ s[l].src = m /\ s[l].dst = scenario.on[o] /\ scenario.on[o] \in DOMAIN rows \ Links(rows)
  <2> DEFINE pm == <<o, "memory">>  pl == <<o, "about">>  m == new[pm]  l == new[pl]
  <2>1. pm \in DOMAIN new /\ pl \in DOMAIN new /\ pm # pl
    OBVIOUS
  <2>2. m \notin DOMAIN rows /\ l \notin DOMAIN rows /\ m \in Range(new) /\ l \in Range(new)
    BY <2>1 DEF Range
  <2>3. m # l
    BY <2>1 DEF IsInjective
  <2>4. (CHOOSE p \in DOMAIN new : new[p] = m) = pm /\ (CHOOSE p \in DOMAIN new : new[p] = l) = pl
    <3>1. \A p \in DOMAIN new : new[p] = new[pm] => p = pm
      BY <2>1 DEF IsInjective
    <3>2. \A p \in DOMAIN new : new[p] = new[pl] => p = pl
      BY <2>1 DEF IsInjective
    <3> HIDE DEF pm, pl
    <3> QED
      BY <2>1, <3>1, <3>2
  <2>5. s[m] = NewObject("memory", "capture", {o})
    <3> DEFINE p == CHOOSE p \in DOMAIN new : new[p] = m
    <3>1. s[m] = IF p[2] = "memory" THEN NewObject("memory", "capture", {p[1]})
                 ELSE NewLink(new[<<p[1], "memory">>], "about", scenario.on[p[1]], "capture")
      BY <2>2 DEF Written
    <3>2. p = pm
      BY <2>4
    <3> HIDE DEF p, s, m
    <3> QED
      BY <3>1, <3>2
  <2>6. s[l] = NewLink(m, "about", scenario.on[o], "capture")
    <3> DEFINE p == CHOOSE p \in DOMAIN new : new[p] = l
    <3>1. s[l] = IF p[2] = "memory" THEN NewObject("memory", "capture", {p[1]})
                 ELSE NewLink(new[<<p[1], "memory">>], "about", scenario.on[p[1]], "capture")
      BY <2>2 DEF Written
    <3>2. p = pl
      BY <2>4
    <3> HIDE DEF p, s, l
    <3> QED
      BY <3>1, <3>2
  <2>7. scenario.on[o] \in DOMAIN rows \ Links(rows)
    BY DEF Memorable, Untold
  <2> HIDE DEF s, m, l
  <2>8. s[m].kind = "memory" /\ s[l].kind = "link" /\ s[l].src = m /\ s[l].dst = scenario.on[o]
    BY <2>5, <2>6, NewRowsAreOK
  <2>9. m \in DOMAIN s \ DOMAIN rows /\ l \in DOMAIN s \ DOMAIN rows
    BY <1>1, <2>2
  <2> QED
    BY <2>3, <2>7, <2>8, <2>9 DEF m, l, pm, pl
<1>3. ASSUME NEW l \in Links(s), l \notin DOMAIN rows
      PROVE  \E o \in Memorable : l = new[<<o, "about">>]
  <2>1. PICK x \in DOMAIN new : new[x] = l
    BY <1>1, <1>3 DEF Links, Range
  <2>2. PICK o \in Memorable : x = <<o, "memory">> \/ x = <<o, "about">>
    BY <2>1
  <2>3. s[new[<<o, "memory">>]].kind = "memory" /\ s[l].kind = "link"
    BY <1>2, <1>3 DEF Links
  <2>4. x # <<o, "memory">>
    BY <2>1, <2>3
  <2> QED
    BY <2>1, <2>2, <2>4
<1> HIDE DEF s
<1>4. /\ Links(rows) \subseteq Links(s)
      /\ \A i \in DOMAIN rows : i \in Links(s) => i \in Links(rows)
  BY <1>1 DEF Links
<1>5. \A l \in Links(s) : EndsOf(s[l]) \cap Links(s) = {}
  <2> SUFFICES ASSUME NEW l \in Links(s) PROVE EndsOf(s[l]) \cap Links(s) = {}
    OBVIOUS
  <2>1. CASE l \in DOMAIN rows
    <3>1. l \in Links(rows) /\ s[l] = rows[l] /\ EndsOf(s[l]) \subseteq DOMAIN rows /\ EndsOf(s[l]) \cap Links(rows) = {}
      BY <1>1, <1>4, <2>1 DEF StoreOK, Whole, EndsOf
    <3> QED
      BY <1>4, <3>1
  <2>2. CASE l \notin DOMAIN rows
    <3>1. PICK o \in Memorable : l = new[<<o, "about">>]
      BY <1>3, <2>2
    <3>2. EndsOf(s[l]) = {new[<<o, "memory">>], scenario.on[o]}
      BY <1>2, <3>1 DEF EndsOf
    <3>3. new[<<o, "memory">>] \notin Links(s) /\ scenario.on[o] \notin Links(s)
      BY <1>2, <1>4 DEF Links
    <3> QED
      BY <3>2, <3>3
  <2> QED
    BY <2>1, <2>2
<1>6. ASSUME NEW l \in Links(s), NEW k \in Links(s), s[l].live, s[k].live, Parallel(s[l], s[k]) PROVE l = k
  <2>1. CASE l \in DOMAIN rows /\ k \in DOMAIN rows
    BY <1>1, <1>4, <1>6, <2>1 DEF Whole
  <2>2. ASSUME NEW x \in Links(s), NEW y \in Links(s), x \in DOMAIN rows, y \notin DOMAIN rows PROVE s[x].src # s[y].src
    <3>1. s[x].src \in DOMAIN rows
      BY <1>1, <1>4, <2>2 DEF StoreOK
    <3>2. PICK o \in Memorable : y = new[<<o, "about">>]
      BY <1>3, <2>2
    <3>3. s[y].src \notin DOMAIN rows
      BY <1>2, <3>2
    <3> QED
      BY <3>1, <3>3
  <2>3. CASE l \notin DOMAIN rows /\ k \notin DOMAIN rows
    <3>1. PICK o \in Memorable : l = new[<<o, "about">>]
      BY <1>3, <2>3
    <3>2. PICK c \in Memorable : k = new[<<c, "about">>]
      BY <1>3, <2>3
    <3>3. new[<<o, "memory">>] = new[<<c, "memory">>]
      BY <1>2, <1>6, <3>1, <3>2 DEF Parallel
    <3>4. <<o, "memory">> = <<c, "memory">>
      BY <3>3 DEF IsInjective
    <3> QED
      BY <3>1, <3>2, <3>4
  <2> QED
    BY <1>6, <2>1, <2>2, <2>3 DEF Parallel
<1>7. Whole(s)
  BY <1>5, <1>6 DEF Whole
<1>8. ASSUME NEW o PROVE Unwinds(Journal(new, o), s)
  <2>1. CASE o \notin Memorable
    BY <2>1 DEF Journal, Unwinds
  <2>2. CASE o \in Memorable
    <3> DEFINE m == new[<<o, "memory">>]  l == new[<<o, "about">>]
               a == Entry(m, TRUE, None, 1)  b == Entry(l, TRUE, None, 1)  log == Journal(new, o)
    <3>1. m # l /\ s[m].kind = "memory" /\ s[l].kind = "link"
      BY <1>2, <2>2
    <3>2. Len(log) = 2 /\ log[1] = a /\ log[2] = b
      BY <2>2 DEF Journal
    <3>3. a.on = m /\ b.on = l /\ a.made /\ b.made
      BY DEF Entry
    <3> HIDE DEF m, l, a, b, log
    <3>4. Ordered(a, b, s)
      BY <3>1, <3>3 DEF Ordered, Revived, IsLink
    <3>5. \A k \in 1..Len(log) : k = 1 \/ k = 2
      BY <3>2
    <3>6. \A k \in 1..Len(log) : \A j \in 1..(k - 1) : j = 1 /\ k = 2
      BY <3>2
    <3>7. \A k \in 1..Len(log) : s[log[k].on].kind \in {"memory", "event", "link"}
      BY <3>1, <3>2, <3>3, <3>5
    <3>8. \A k \in 1..Len(log) : \A j \in 1..(k - 1) : Ordered(log[j], log[k], s)
      BY <3>2, <3>4, <3>6
    <3>9. Unwinds(log, s)
      BY <3>7, <3>8 DEF Unwinds
    <3> QED
      BY <3>9 DEF log
  <2> QED
    BY <2>1, <2>2
<1> QED
  BY <1>7, <1>8 DEF s

LEMMA RecordIsOK ==
    ASSUME NEW of, NEW r, NEW log, JournalOK(log, r), Unwinds(log, r)
    PROVE  LET run == Record(of, log) IN RunOK(run, 0, r) /\ run.kind = "memory_capture" /\ run.prints = of
  BY DEF Record, NewRun, RunOK, RunFields, Kinds, Statuses

\* Nobody has told these outcomes, and nobody else is about to.
TellsEach(e, told) ==
    /\ \A k \in 1..Len(e) : e[k].kind = "memory_capture" /\ DOMAIN e[k].prints = {told[k]}
    /\ \A j, k \in 1..Len(e) : told[j] = told[k] => j = k

LEMMA CapturedOnce ==
    ASSUME NEW q, NEW alone, OutcomesOK(q, alone), \A k \in 1..Len(q) : q[k].kind # "event_capture",
           NEW e, NEW told, TellsEach(e, told), NEW s, Joined(s, q, e),
           \A j \in 1..Len(q), k \in 1..Len(e) : q[j].kind = "memory_capture" => told[k] \notin DOMAIN q[j].prints
    PROVE  OutcomesOK(s, alone)
<1>1. /\ Len(q) \in Nat /\ Len(s) \in Nat
      /\ \A k \in 1..Len(q) : s[k] = q[k]
      /\ \A k \in 1..Len(s) : k \notin 1..Len(q) => k - Len(q) \in 1..Len(e) /\ s[k] = e[k - Len(q)]
      /\ \A k \in 1..Len(e) : e[k].kind = "memory_capture" /\ DOMAIN e[k].prints = {told[k]}
      /\ \A j, k \in 1..Len(e) : told[j] = told[k] => j = k
  BY DEF Joined, TellsEach
<1>0. ASSUME NEW n \in 1..Len(s), n \notin 1..Len(q)
      PROVE  n - Len(q) \in 1..Len(e) /\ DOMAIN s[n].prints = {told[n - Len(q)]}
  <2>1. n - Len(q) \in 1..Len(e) /\ s[n] = e[n - Len(q)]
    BY <1>1, <1>0
  <2> QED
    BY <1>1, <2>1
<1>2. \A k \in 1..Len(s) : s[k].kind # "event_capture"
  BY <1>1
<1>3. ASSUME NEW j \in 1..Len(s), NEW k \in 1..Len(s), s[j].kind = "memory_capture", s[k].kind = "memory_capture",
             NEW o \in DOMAIN s[j].prints \cap DOMAIN s[k].prints
      PROVE  j = k
  <2>1. CASE j \in 1..Len(q) /\ k \in 1..Len(q)
    <3>1. s[j] = q[j] /\ s[k] = q[k] /\ DOMAIN q[j].prints \cap DOMAIN q[k].prints # {}
      BY <1>1, <1>3, <2>1
    <3> QED
      BY <1>3, <2>1, <3>1 DEF OutcomesOK
  <2>2. CASE j \in 1..Len(q) /\ k \notin 1..Len(q)
    <3>1. k - Len(q) \in 1..Len(e) /\ o = told[k - Len(q)] /\ s[j] = q[j]
      BY <1>0, <1>1, <1>3, <2>2
    <3> QED
      BY <1>3, <2>2, <3>1
  <2>3. CASE j \notin 1..Len(q) /\ k \in 1..Len(q)
    <3>1. j - Len(q) \in 1..Len(e) /\ o = told[j - Len(q)] /\ s[k] = q[k]
      BY <1>0, <1>1, <1>3, <2>3
    <3> QED
      BY <1>3, <2>3, <3>1
  <2>4. CASE j \notin 1..Len(q) /\ k \notin 1..Len(q)
    <3>1. /\ j - Len(q) \in 1..Len(e) /\ k - Len(q) \in 1..Len(e)
          /\ told[j - Len(q)] = o /\ told[k - Len(q)] = o
      BY <1>0, <1>3, <2>4
    <3>2. j - Len(q) = k - Len(q)
      BY <1>1, <3>1
    <3> QED
      BY <1>1, <3>2
  <2> QED
    BY <2>1, <2>2, <2>3, <2>4
<1> QED
  BY <1>2, <1>3 DEF OutcomesOK

LEMMA CaptureOutcomesKeeps == ASSUME IInv, NEW w \in Capturers, CaptureOutcomes(w) PROVE IInv' /\ StepOK
<1> DEFINE parts == Memorable \X {"memory", "about"}
           new == CHOOSE f \in [parts -> Ids \ DOMAIN rows] : IsInjective(f)
           order == SetToSeq(Untold)
           extra == [k \in DOMAIN order |-> Record([o \in {order[k]} |-> None], Journal(new, order[k]))]
<1>1. /\ scenario' = scenario /\ todo' = todo /\ armed' = armed /\ timing' = timing /\ woken' = Active
      /\ at' = at /\ lease' = lease /\ cut' = cut /\ ~cut.done
  BY DEF CaptureOutcomes, Notified
<1>2. rows' = Written(new) /\ runs' = runs \o extra
  BY DEF CaptureOutcomes
<1>3. new \in [parts -> Ids \ DOMAIN rows] /\ IsInjective(new)
  BY DEF CaptureOutcomes
<1>4. /\ w \in Processes /\ StoreOK(rows) /\ Whole(rows) /\ RunsOK(runs, rows) /\ PassOK(w, at[w], runs, rows, scenario)
      /\ DOMAIN at = Processes
  BY ProcessKinds, PassFacts
<1>5. IsFiniteSet(Untold) /\ \A o \in Outcomes : scenario.on[o] \in DOMAIN rows \ Links(rows)
  <2>1. scenario \in Scenarios /\ DOMAIN scenario.rows \ Links(scenario.rows) \subseteq DOMAIN rows \ Links(rows)
    BY DEF IInv, WaitInv, StoreInv
  <2>2. IsFiniteSet(DOMAIN scenario.what) /\ \A o \in DOMAIN scenario.what : scenario.on[o] \in DOMAIN scenario.rows \ Links(scenario.rows)
    BY <2>1, ScenariosAssumption
  <2>3. Untold \in SUBSET DOMAIN scenario.what
    BY DEF Untold, Outcomes
  <2>4. IsFiniteSet(Untold)
    BY <2>2, <2>3, FS_Subset
  <2> QED
    BY <2>1, <2>2, <2>4 DEF Outcomes
<1>6. /\ StoreOK(rows') /\ Later(rows, rows') /\ \A i \in DOMAIN rows : rows'[i] = rows[i]
      /\ Whole(rows') /\ \A o : JournalOK(Journal(new, o), rows') /\ Unwinds(Journal(new, o), rows')
  <2>1. \A o \in Outcomes : scenario.on[o] \in DOMAIN rows
    BY <1>5
  <2>2. /\ StoreOK(rows') /\ Later(rows, rows') /\ \A i \in DOMAIN rows : rows'[i] = rows[i]
        /\ \A o : JournalOK(Journal(new, o), rows')
    BY <1>2, <1>3, <1>4, <2>1, WrittenKeeps
  <2>3. Whole(rows') /\ \A o : Unwinds(Journal(new, o), rows')
    BY <1>2, <1>3, <1>4, <1>5, WrittenIsWhole
  <2> QED
    BY <2>2, <2>3
<1>7. /\ order \in Seq(Untold) /\ Len(order) \in Nat /\ DOMAIN order = 1..Len(order)
      /\ \A j, k \in 1..Len(order) : order[j] = order[k] => j = k
  BY <1>5, OrderRepeatsNothing
<1> HIDE DEF new, order
<1>8. /\ IsSeq(extra) /\ Len(extra) = Len(order)
      /\ \A k \in 1..Len(extra) : /\ RunOK(extra[k], 0, rows') /\ extra[k].kind = "memory_capture"
                                  /\ DOMAIN extra[k].prints = {order[k]}
  <2>1. DOMAIN extra = 1..Len(order) /\ extra = [k \in 1..Len(order) |-> extra[k]]
    BY <1>7
  <2>2. \A k \in 1..Len(order) : extra[k] = Record([o \in {order[k]} |-> None], Journal(new, order[k]))
    BY <1>7
  <2> HIDE DEF extra
  <2>3. IsSeq(extra) /\ Len(extra) = Len(order)
    BY <1>7, <2>1, NumberedIsSeq
  <2>4. ASSUME NEW k \in 1..Len(order)
        PROVE  /\ RunOK(extra[k], 0, rows') /\ extra[k].kind = "memory_capture"
               /\ DOMAIN extra[k].prints = {order[k]}
    <3> DEFINE of == [o \in {order[k]} |-> None]
    <3>1. DOMAIN of = {order[k]} /\ extra[k] = Record(of, Journal(new, order[k]))
          /\ JournalOK(Journal(new, order[k]), rows') /\ Unwinds(Journal(new, order[k]), rows')
      BY <1>6, <2>2
    <3> HIDE DEF of
    <3> QED
      BY <3>1, RecordIsOK
  <2> QED
    BY <2>3, <2>4
<1> HIDE DEF extra
<1>9. RunsOK(runs', rows') /\ RunsAge(runs, runs') /\ Tame(runs, runs') /\ Joined(runs', runs, extra)
  <2>1. RunsOK(runs, rows') /\ StoreOK(rows') /\ runs' = runs \o extra
    BY <1>2, <1>4, <1>6, RunsAgeRows
  <2>2. IsSeq(extra) /\ \A k \in 1..Len(extra) : RunOK(extra[k], 0, rows')
    BY <1>8
  <2> QED
    BY <2>1, <2>2, MoreRuns
<1>10. ASSUME NEW k \in 1..Len(runs')
       PROVE  \/ k \in 1..Len(runs) /\ k <= Len(runs) /\ runs'[k] = runs[k]
              \/ runs'[k].kind = "memory_capture"
  BY <1>8, <1>9 DEF Joined
<1>11. NoReview(runs, runs') /\ NoneStarts(runs, runs')
  BY <1>10 DEF NoReview, NoneStarts, ReviewsOf
<1>12. StoreGoes /\ Frame(w)
  BY <1>1, <1>4, <1>6, <1>9, ProcessKinds DEF StoreGoes, Frame, IInv, WaitInv
<1>13. PassOK(w, at'[w], runs', rows', scenario)
  BY <1>1, <1>4, <1>6, <1>9, PassAges
<1>14. ASSUME Undisturbed' PROVE LeaseOK(w, at'[w], runs', lease', cut)
  <2>1. LeaseOK(w, at[w], runs, lease, cut)
    BY <1>1, <1>4, <1>14, UndisturbedStill DEF IInv, LeaseInv
  <2> QED
    BY <1>1, <1>4, <1>9, <1>11, <2>1, LeaseAges
<1>15. StoreInv' /\ RunsInv' /\ PassInv' /\ WaitInv' /\ LeaseInv'
  BY <1>1, <1>4, <1>9, <1>11, <1>12, <1>13, <1>14, StepKeeps
<1>16. OutcomesInv'
  <2>1. LegacyOK(cut', runs', at')
    <3>1. LegacyOK(cut, runs, at)
      BY DEF IInv, OutcomesInv
    <3>2. \A k \in 1..Len(runs') : runs'[k].kind # "event_capture"
      BY <1>1, <1>10, <3>1 DEF LegacyOK
    <3> QED
      BY <1>1, <3>1, <3>2 DEF LegacyOK
  <2>2. \A j \in 1..Len(runs), k \in 1..Len(extra) : runs[j].kind = "memory_capture" => order[k] \notin DOMAIN runs[j].prints
    <3>1. DOMAIN runs = 1..Len(runs)
      BY <1>4, PassFacts
    <3>2. \A k \in 1..Len(extra) : order[k] \in Untold
      BY <1>7, <1>8
    <3> QED
      BY <3>1, <3>2 DEF Untold, Told, Runs
  <2>3. \A k \in 1..Len(runs) : runs[k].kind # "event_capture"
    BY <1>1 DEF IInv, OutcomesInv, LegacyOK
  <2>4. Undisturbed' = Undisturbed
    BY <1>1 DEF Undisturbed
  <2>5. OutcomesOK(runs, Undisturbed) /\ TellsEach(extra, order)
    BY <1>7, <1>8 DEF IInv, OutcomesInv, TellsEach
  <2>6. OutcomesOK(runs', Undisturbed)
    <3> HIDE DEF Undisturbed
    <3> QED
      BY <1>9, <2>2, <2>3, <2>5, CapturedOnce
  <2> QED
    BY <2>1, <2>4, <2>6 DEF OutcomesInv
<1>17. SynthesesInv'
  BY <1>9, <1>11, SynthesesStill DEF IInv, SynthesesInv
<1>18. IInv'
  BY <1>15, <1>16, <1>17 DEF IInv
<1>19. OwnerStep
  BY <1>6 DEF OwnerStep
<1> QED
  BY <1>1, <1>18, <1>19, NobodyCommits

(******************************* commits of passes **************************)
\* A pass that was to commit ends, or goes on to record that it failed.
LEMMA CommitMoves ==
    ASSUME IInv, NEW w \in Processes, at[w].pc = "commit", Around_(w), StoreOK(rows'), Later(rows, rows'),
           RunsAge(runs, runs'),
           \/ at'[w] = Idle /\ lease' = Released(w)
           \/ (\E e : at' = [at EXCEPT ![w].pc = "failing", ![w].err = e]) /\ lease' = lease
    PROVE  /\ Frame(w) /\ PassOK(w, at'[w], runs', rows', scenario) /\ at'[w].pc \notin {"commit", "event_capture"}
           /\ Undisturbed' => LeaseOK(w, at'[w], runs', lease', cut)
<1>1. CASE at'[w] = Idle /\ lease' = Released(w)
  <2>1. Frame(w)
    BY <1>1, ReleasedKeeps DEF Frame, Around_, IInv, WaitInv
  <2>2. PassOK(w, at'[w], runs', rows', scenario) /\ at'[w].pc = "idle"
    BY <1>1, IdleIsOK
  <2>3. LeaseOK(w, at'[w], runs', lease', cut)
    BY <2>2 DEF LeaseOK
  <2> QED
    BY <2>1, <2>2, <2>3
<1>2. CASE (\E e : at' = [at EXCEPT ![w].pc = "failing", ![w].err = e]) /\ lease' = lease
  <2>1. PICK e : at' = [at EXCEPT ![w].pc = "failing", ![w].err = e]
    BY <1>2
  <2>2. PassOK(w, at[w], runs, rows, scenario) /\ DOMAIN at = Processes /\ StoreOK(rows) /\ at[w].run \in 1..Len(runs)
    BY PassFacts DEF Steps_
  <2>3. /\ DOMAIN at'[w] = PassFields /\ at'[w].pc = "failing" /\ at'[w].run = at[w].run /\ at'[w].batch = at[w].batch
        /\ at[w].pc \in Steps_
    BY <2>1, <2>2 DEF PassOK, PassFields, Steps_
  <2>4. PassOK(w, at'[w], runs, rows, scenario)
    BY <2>2, <2>3, FailingIsOK
  <2>5. PassOK(w, at'[w], runs', rows', scenario)
    BY <2>2, <2>4, PassAges
  <2>6. Frame(w)
    BY <1>2 DEF Frame, Around_, IInv, WaitInv
  <2>7. ASSUME Undisturbed' PROVE LeaseOK(w, at'[w], runs', lease', cut)
    <3>1. LeaseOK(w, at[w], runs, lease, cut)
      BY <2>6, <2>7, UndisturbedStill DEF IInv, LeaseInv, Frame
    <3>2. runs'[at[w].run].kind = runs[at[w].run].kind
      BY <2>2 DEF RunsAge
    <3> QED
      BY <1>2, <2>3, <3>1, <3>2 DEF LeaseOK
  <2> QED
    BY <2>3, <2>5, <2>6, <2>7
<1> QED
  BY <1>1, <1>2

\* A pass is refused by what it meets.
LEMMA RefusedKeeps ==
    ASSUME IInv, NEW w \in Processes, at[w].pc = "commit", NEW e,
           at' = [at EXCEPT ![w].pc = "failing", ![w].err = e],
           scenario' = scenario, rows' = rows, runs' = runs, cut' = cut, facts' = facts,
           lease' = lease, woken' = woken, armed' = armed /\ timing' = timing, todo' = todo
    PROVE  IInv' /\ StepOK
<1>1. StoreGoes /\ RunsGo(runs, runs')
  BY NothingWritten
<1>2. Around_(w)
  BY DEF Around_, IInv, WaitInv, PassInv
<1>3. /\ Frame(w) /\ PassOK(w, at'[w], runs', rows', scenario) /\ at'[w].pc \notin {"commit", "event_capture"}
      /\ Undisturbed' => LeaseOK(w, at'[w], runs', lease', cut)
  BY <1>1, <1>2, CommitMoves DEF StoreGoes, RunsGo
<1>4. IInv'
  BY <1>1, <1>3, OrdinaryStep
<1> QED
  BY <1>4, NoRowIsNoStep

\* What a commit does to the Runs: new is the Run of w, completed with the journal of the transaction t ...
Completes(w, t, new) ==
    /\ at[w].pc = "commit"
    /\ TxOK(t, at[w].base.rows) /\ Retraces(t, at[w].base.rows)
    /\ rows' = Committed(t)
    /\ DOMAIN new = RunFields
    /\ new.status = "completed"
    /\ new.log = t.log
    /\ new.kind = runs[at[w].run].kind
    /\ new.prints = runs[at[w].run].prints
    /\ new.parent = runs[at[w].run].parent
    /\ runs' = [runs EXCEPT ![at[w].run] = new]
    /\ runs[at[w].run].kind = "event_capture" => runs[at[w].run].status # "failed"

\* ... and what follows for the store and for every Run.
Completed_(w, new) ==
    /\ StoreGoes
    /\ Spares(rows, rows')
    /\ RunsAge(runs, runs')
    /\ NoOutcome(runs, runs')
    /\ Tame(runs, runs')
    /\ new.kind # "memory_synthesis" => NoReview(runs, runs')
    /\ Len(runs') = Len(runs)
    /\ runs'[at[w].run] = new
    /\ \A k \in 1..Len(runs) \ {at[w].run} : runs'[k] = runs[k]

\* The transaction of a pass is committed, with the journal of its Run.
LEMMA CommitWrites ==
    ASSUME IInv, NEW w \in Processes, NEW t, NEW new, Completes(w, t, new)
    PROVE  Completed_(w, new)
<1>0. /\ at[w].pc = "commit" /\ TxOK(t, at[w].base.rows) /\ Retraces(t, at[w].base.rows) /\ rows' = Committed(t)
      /\ DOMAIN new = RunFields /\ new.status = "completed" /\ new.log = t.log
      /\ new.kind = runs[at[w].run].kind /\ new.prints = runs[at[w].run].prints
      /\ new.parent = runs[at[w].run].parent /\ runs' = [runs EXCEPT ![at[w].run] = new]
      /\ runs[at[w].run].kind = "event_capture" => runs[at[w].run].status # "failed"
  BY DEF Completes
<1>1. /\ StoreOK(rows) /\ Whole(rows) /\ RunsOK(runs, rows) /\ at[w].run \in 1..Len(runs) /\ PassOK(w, at[w], runs, rows, scenario)
  BY <1>0, PassFacts DEF Steps_
<1>2. Later(at[w].base.rows, rows)
  <2>1. at[w].pc = "commit"
    BY <1>0
  <2> QED
    BY <1>1, <2>1 DEF PassOK
<1>3. StoreOK(rows') /\ Later(rows, rows') /\ Spares(rows, rows') /\ JournalOK(t.log, rows')
  BY <1>0, <1>1, <1>2, CommittedKeeps
<1>10. Whole(rows') /\ Unwinds(t.log, rows')
  BY <1>0, <1>1, <1>2, CommittedIsWhole
<1>4. RunsOK(runs, rows')
  BY <1>1, <1>3, RunsAgeRows
<1>5. RunOK(runs[at[w].run], Len(runs), rows')
  BY <1>1, <1>4 DEF RunsOK
<1>6. RunOK(new, Len(runs), rows')
  BY <1>0, <1>3, <1>5, <1>10 DEF RunOK, Statuses
<1>7. new.kind # "memory_synthesis" => ~ReviewsOf(new)
  BY <1>0 DEF ReviewsOf
<1>8. runs[at[w].run].kind = "event_capture" =>
         /\ runs[at[w].run].status = "failed" => new.status = "failed"
         /\ new.status = "running" => runs[at[w].run].status = "running"
  BY <1>0
<1>9. /\ RunsOK(runs', rows') /\ RunsAge(runs, runs') /\ NoOutcome(runs, runs') /\ Tame(runs, runs')
      /\ (ReviewsOf(new) => ReviewsOf(runs[at[w].run])) => NoReview(runs, runs')
      /\ Len(runs') = Len(runs) /\ runs'[at[w].run] = new /\ \A k \in 1..Len(runs) \ {at[w].run} : runs'[k] = runs[k]
  <2> DEFINE n == at[w].run
  <2>1. n \in 1..Len(runs) /\ new.kind = runs[n].kind /\ new.prints = runs[n].prints /\ new.parent = runs[n].parent
    BY <1>0, <1>1
  <2>2. runs' = [runs EXCEPT ![n] = new]
    BY <1>0
  <2>3. runs[n].kind = "event_capture" => /\ runs[n].status = "failed" => new.status = "failed"
                                          /\ new.status = "running" => runs[n].status = "running"
    BY <1>8
  <2> HIDE DEF n
  <2>4. RunsOK(runs', rows') /\ RunsAge(runs, runs') /\ NoOutcome(runs, runs') /\ Tame(runs, runs')
    <3> DEFINE s == [runs EXCEPT ![n] = new]
    <3>1. RunsOK(s, rows') /\ RunsAge(runs, s) /\ NoOutcome(runs, s) /\ Tame(runs, s)
      BY <1>4, <1>6, <2>1, <2>3, OneRunChanges
    <3> QED
      BY <2>2, <3>1
  <2>6. ASSUME ReviewsOf(new) => ReviewsOf(runs[n]) PROVE NoReview(runs, runs')
    <3> DEFINE s == [runs EXCEPT ![n] = new]
    <3>1. NoReview(runs, s)
      BY <1>4, <1>6, <2>1, <2>3, <2>6, OneRunChanges
    <3> QED
      BY <2>2, <3>1
  <2>5. Len(runs') = Len(runs) /\ runs'[n] = new /\ \A k \in 1..Len(runs) \ {n} : runs'[k] = runs[k]
    BY <1>4, <1>6, <2>1, <2>2, <2>3, OneRunChanges
  <2> QED
    BY <2>4, <2>5, <2>6 DEF n
<1> QED
  BY <1>3, <1>7, <1>9, <1>10 DEF StoreGoes, Completed_

\* The one that commits is the one that the properties look at.
LEMMA OneCommits ==
    ASSUME NEW w \in Processes, Frame(w), Spares(rows, rows'),
           runs[at[w].run].kind = "memory_dream" => ~(cut.done /\ Undisturbed),
           w \in Capturers =>
               \A e \in DOMAIN rows' \ DOMAIN rows : rows'[e].kind = "event" /\ rows'[e].by = "extract" =>
                  \A d \in Overlaps(rows, rows'[e].cites) : rows[d].by = "extract" => d \in DOMAIN at[w].batch.candidates,
           Synthesising(w) => \A e \in OfKind(rows, "event") : Version(rows', facts', e) = Version(rows, facts, e)
    PROVE  StepOK
<1>1. \A v \in Processes : v # w => at'[v] = at[v]
  BY DEF Frame
<1>2. OwnerStep
  BY SparesIsOwnerStep
<1>3. LegacyStep
  <2> HIDE DEF Undisturbed
  <2> QED
    BY <1>1 DEF LegacyStep
<1>4. OverlapStep
  BY <1>1, ProcessKinds DEF OverlapStep
<1>5. RequeueStep
  BY <1>1 DEF RequeueStep
<1> QED
  BY <1>2, <1>3, <1>4, <1>5 DEF StepOK

(* Review: the preview is rolled back and saved, or the plan is committed.    *)
LEMMA SavedIsOK ==
    ASSUME NEW b, NEW plan, NEW r, DreamOK(b, plan, r), NEW c, c = [b EXCEPT !.approved = TRUE]
    PROVE  DreamOK(c, plan, r)
<1>1. /\ DOMAIN c = DOMAIN b /\ {"memories", "links", "targets"} \subseteq DOMAIN b
      /\ c.memories = b.memories /\ c.links = b.links /\ c.targets = b.targets
  BY DEF DreamOK
<1> QED
  BY <1>1 DEF DreamOK

LEMMA CommitDreamKeeps == ASSUME IInv, NEW w \in Processes, CommitDream(w) PROVE IInv' /\ StepOK
<1> DEFINE b == at[w].batch  plan == at[w].plan  r == at[w].run  t == Planned(at[w].base, b, plan)
<1>1. at[w].pc = "commit" /\ runs[r].kind = "memory_dream" /\ scenario' = scenario /\ cut' = cut /\ facts' = facts
  BY DEF CommitDream
<1>2. /\ PassOK(w, at[w], runs, rows, scenario) /\ DOMAIN at = Processes /\ RunsOK(runs, rows) /\ StoreOK(rows) /\ Whole(rows)
      /\ r \in 1..Len(runs) /\ DOMAIN runs = 1..Len(runs) /\ RunOK(runs[r], Len(runs), rows) /\ w \notin Capturers
  BY <1>1, PassFacts DEF Steps_, KindsOf
<1>3. StoreOK(at[w].base.rows) /\ Whole(at[w].base.rows) /\ Later(at[w].base.rows, rows) /\ DreamOK(b, plan, at[w].base.rows)
  BY <1>1, <1>2 DEF PassOK, PlanOK
<1>4. TxOK(t, at[w].base.rows) /\ (t.err = None => ~at[w].base.cut.done)
  BY <1>3, PlannedKeeps
<1>5. ~Synthesising(w)
  BY <1>1 DEF Synthesising
<1>6. CASE t.err # None
  <2> DEFINE e == t.err
  <2>1. /\ at' = [at EXCEPT ![w].pc = "failing", ![w].err = e]
        /\ rows' = rows /\ runs' = runs /\ lease' = lease /\ woken' = woken /\ armed' = armed /\ timing' = timing /\ todo' = todo
    BY <1>6 DEF CommitDream
  <2> HIDE DEF e
  <2> QED
    BY <1>1, <2>1, RefusedKeeps
<1>7. CASE t.err = None /\ runs[r].preview
  <2> DEFINE c == [b EXCEPT !.approved = TRUE]
             saved == [batch |-> c, plan |-> plan]
             new == [runs[r] EXCEPT !.status = "preview", !.reviewed = b.prints, !.saved = saved]
  <2>1. /\ runs' = [runs EXCEPT ![r].status = "preview", ![r].reviewed = b.prints, ![r].saved = saved]
        /\ Ends(w) /\ rows' = rows /\ todo' = todo
    BY <1>7 DEF CommitDream
  <2>2. DreamOK(c, plan, at[w].base.rows) /\ saved.batch = c /\ saved.plan = plan
    BY <1>3, SavedIsOK
  <2> HIDE DEF saved, c, t
  <2>3. PlanOK("memory_dream", saved.batch, saved.plan, rows)
    <3>1. PlanOK("memory_dream", c, plan, at[w].base.rows)
      BY <2>2 DEF PlanOK
    <3> QED
      BY <1>2, <1>3, <2>2, <3>1, PlanAges
  <2> HIDE DEF b, plan, r
  <2>4. runs' = [runs EXCEPT ![r] = new]
    BY <1>2, <2>1
  <2>5. /\ DOMAIN new = RunFields /\ new.status = "preview" /\ new.saved = saved /\ new.kind = "memory_dream"
        /\ new.prints = runs[r].prints /\ new.parent = runs[r].parent /\ new.log = runs[r].log
        /\ new.kind = runs[r].kind
    BY <1>1, <1>2 DEF RunOK, RunFields
  <2> HIDE DEF new
  <2>6. RunOK(new, Len(runs), rows) /\ ~ReviewsOf(new)
    BY <1>2, <2>3, <2>5 DEF RunOK, Statuses, Kinds, ReviewsOf
  <2>7. RunsOK(runs', rows) /\ RunsGo(runs, runs')
    <3> DEFINE s == [runs EXCEPT ![r] = new]
    <3>1. RunsOK(s, rows) /\ RunsAge(runs, s) /\ NoOutcome(runs, s) /\ Tame(runs, s) /\ NoReview(runs, s)
      BY <1>1, <1>2, <2>5, <2>6, OneRunChanges
    <3> QED
      BY <2>4, <3>1 DEF RunsGo
  <2>8. StoreGoes
    BY <2>1, <2>7, NoRowWritten
  <2>9. Around_(w) /\ at'[w] = Idle /\ lease' = Released(w)
    BY <1>1, <2>1, EndsFacts DEF Around_
  <2> QED
    BY <1>1, <2>1, <2>7, <2>8, <2>9, PassEnds, NoRowIsNoStep
<1>8. CASE t.err = None /\ ~runs[r].preview
  <2> DEFINE seen == Checkpoint(t, b)
             new == [runs[r] EXCEPT !.status = "completed", !.log = t.log, !.reviewed = seen]
  <2>1. /\ rows' = Committed(t)
        /\ runs' = [runs EXCEPT ![r].status = "completed", ![r].log = t.log, ![r].reviewed = seen]
        /\ Answered(w)
    BY <1>8 DEF CommitDream
  <2>2. LeaseInv /\ ~at[w].base.cut.done
    BY <1>4, <1>8 DEF IInv
  <2>11. Retraces(t, at[w].base.rows)
    BY <1>3, <1>8, <1>2, PlannedRetraces
  <2>3. ~(cut.done /\ Undisturbed)
    <3> HIDE DEF Undisturbed
    <3> QED
      BY <1>1, <2>2 DEF LeaseInv, LeaseOK
  <2> HIDE DEF seen, t
  <2>4. runs' = [runs EXCEPT ![r] = new]
    <3> HIDE DEF r
    <3> QED
      BY <1>2, <2>1
  <2>5. /\ DOMAIN new = RunFields /\ new.status = "completed" /\ new.log = t.log
        /\ new.prints = runs[r].prints /\ new.parent = runs[r].parent /\ new.kind = runs[r].kind
    <3> HIDE DEF r
    <3> QED
      BY <1>2 DEF RunOK, RunFields
  <2> HIDE DEF new
  <2>6. /\ StoreGoes /\ Spares(rows, rows')
        /\ RunsAge(runs, runs') /\ NoOutcome(runs, runs') /\ Tame(runs, runs') /\ NoReview(runs, runs')
    <3>1. rows' = Committed(t) /\ runs[at[w].run].kind = "memory_dream" /\ new.kind = "memory_dream"
      BY <1>1, <2>1, <2>5
    <3>2. Completes(w, t, new)
      BY <1>1, <1>4, <2>4, <2>5, <2>11, <3>1 DEF Completes
    <3>3. Completed_(w, new)
      BY <1>1, <3>2, CommitWrites
    <3> QED
      BY <3>1, <3>3 DEF Completed_
  <2>7. /\ Around_(w)
        /\ \/ at'[w] = Idle /\ lease' = Released(w)
           \/ (\E e : at' = [at EXCEPT ![w].pc = "failing", ![w].err = e]) /\ lease' = lease
    <3>1. CASE Ends(w) /\ todo' = todo
      BY <1>1, <3>1, EndsFacts DEF Around_
    <3>2. CASE /\ Takes("ack") /\ at' = [at EXCEPT ![w].pc = "failing", ![w].err = "database"]
               /\ UNCHANGED <<lease, woken, armed, timing>>
      BY <1>1, <1>2, <3>2 DEF Around_, Takes, IInv, WaitInv
    <3> QED
      BY <2>1, <3>1, <3>2 DEF Answered
  <2>8. /\ Frame(w) /\ PassOK(w, at'[w], runs', rows', scenario) /\ at'[w].pc \notin {"commit", "event_capture"}
        /\ Undisturbed' => LeaseOK(w, at'[w], runs', lease', cut)
    BY <1>1, <2>6, <2>7, CommitMoves DEF StoreGoes
  <2>9. IInv'
    BY <1>1, <2>6, <2>8, OrdinaryStep DEF RunsGo
  <2>10. StepOK
    <3> HIDE DEF Undisturbed
    <3> QED
      BY <1>2, <1>5, <2>3, <2>6, <2>8, OneCommits
  <2> QED
    BY <2>9, <2>10
<1> QED
  BY <1>6, <1>7, <1>8

\* The completed Run is announced, and its pass ends, unless the answer was lost.
LEMMA AnnouncedFacts ==
    ASSUME IInv, NEW w \in Processes, Announced(w), scenario' = scenario
    PROVE  /\ Around_(w)
           /\ \/ at'[w] = Idle /\ lease' = Released(w)
              \/ (\E e : at' = [at EXCEPT ![w].pc = "failing", ![w].err = e]) /\ lease' = lease
<1>1. DOMAIN at = Processes /\ armed \cup timing \subseteq Reviewers /\ Active \subseteq Reviewers
  BY ProcessKinds DEF IInv, PassInv, WaitInv
<1>2. woken' = Active /\ armed' \cup timing' \subseteq Reviewers
  BY <1>1 DEF Announced, Notified
<1>3. CASE at' = [at EXCEPT ![w] = Idle] /\ lease' = Released(w) /\ todo' = todo
  BY <1>1, <1>2, <1>3 DEF Around_
<1>4. CASE Takes("ack") /\ at' = [at EXCEPT ![w].pc = "failing", ![w].err = "database"] /\ lease' = lease
  BY <1>1, <1>2, <1>4 DEF Around_, Takes
<1> QED
  BY <1>3, <1>4 DEF Announced

\* The Run of a pass that commits is completed, with its journal.
LEMMA CommitsFacts ==
    ASSUME IInv, NEW w \in Processes, at[w].pc = "commit", NEW t, TxOK(t, at[w].base.rows), Retraces(t, at[w].base.rows),
           NEW reviewed, Commits(w, t, reviewed),
           runs[at[w].run].kind = "event_capture" => runs[at[w].run].status # "failed"
    PROVE  /\ rows' = Committed(t) /\ StoreGoes /\ Spares(rows, rows')
           /\ RunsAge(runs, runs') /\ NoOutcome(runs, runs') /\ Tame(runs, runs')
           /\ runs[at[w].run].kind # "memory_synthesis" => NoReview(runs, runs')
           /\ Len(runs') = Len(runs)
           /\ \A k \in 1..Len(runs) \ {at[w].run} : runs'[k] = runs[k]
<1> DEFINE r == at[w].run  new == [runs[r] EXCEPT !.status = "completed", !.log = t.log, !.reviewed = reviewed]
<1>1. r \in 1..Len(runs) /\ DOMAIN runs = 1..Len(runs) /\ RunOK(runs[r], Len(runs), rows)
  BY PassFacts DEF Steps_
<1>2. /\ rows' = Committed(t)
      /\ runs' = [runs EXCEPT ![r].status = "completed", ![r].log = t.log, ![r].reviewed = reviewed]
  BY DEF Commits
<1>3. runs' = [runs EXCEPT ![r] = new]
  <2> HIDE DEF r
  <2> QED
    BY <1>1, <1>2
<1>4. /\ DOMAIN new = RunFields /\ new.status = "completed" /\ new.log = t.log
      /\ new.prints = runs[r].prints /\ new.parent = runs[r].parent /\ new.kind = runs[r].kind
  <2> HIDE DEF r
  <2> QED
    BY <1>1 DEF RunOK, RunFields
<1> HIDE DEF new
<1>5. rows' = Committed(t)
  BY <1>2
<1>6. new.status = "completed" /\ new.log = t.log /\ DOMAIN new = RunFields
  BY <1>4
<1>7. new.kind = runs[at[w].run].kind /\ new.prints = runs[at[w].run].prints /\ new.parent = runs[at[w].run].parent
  BY <1>4
<1>8. runs' = [runs EXCEPT ![at[w].run] = new]
  BY <1>3
<1> HIDE DEF r
<1>9. Completes(w, t, new)
  BY <1>5, <1>6, <1>7, <1>8 DEF Completes
<1>10. Completed_(w, new)
  BY <1>9, CommitWrites
<1> QED
  BY <1>5, <1>7, <1>10 DEF Completed_

(* Extraction. *)
LEMMA CommitEventsKeeps == ASSUME IInv, NEW w \in Capturers, CommitEvents(w) PROVE IInv' /\ StepOK
<1> DEFINE base == at[w].base  b == at[w].batch  plan == at[w].plan  r == at[w].run  t == Extracted(base, b, plan)
           e == IF runs[r].status # "running" THEN "conflict" ELSE t.err
<1>1. /\ at[w].pc = "commit" /\ scenario' = scenario /\ cut' = cut /\ facts' = facts /\ w \in Processes
  BY ProcessKinds DEF CommitEvents
<1>2. /\ PassOK(w, at[w], runs, rows, scenario) /\ DOMAIN at = Processes /\ StoreOK(rows)
      /\ r \in 1..Len(runs) /\ runs[r].kind = "event_capture"
  BY <1>1, PassFacts DEF Steps_, KindsOf
<1>3. CASE e # None
  <2>1. /\ at' = [at EXCEPT ![w].pc = "failing", ![w].err = e]
        /\ rows' = rows /\ runs' = runs /\ lease' = lease /\ woken' = woken /\ armed' = armed /\ timing' = timing /\ todo' = todo
    BY <1>3 DEF CommitEvents, Refused
  <2> HIDE DEF e
  <2> QED
    BY <1>1, <2>1, RefusedKeeps
<1>4. CASE e = None
  <2>1. runs[r].status = "running" /\ t.err = None
    BY <1>4, NoneAssumption
  <2>2. Commits(w, t, << >>) /\ Announced(w)
    BY <1>4 DEF CommitEvents
  <2>3. /\ StoreOK(base.rows) /\ Whole(base.rows) /\ Later(base.rows, rows) /\ EventsOK(b, plan, base.rows)
        /\ DOMAIN scenario.rows \ Links(scenario.rows) \subseteq DOMAIN base.rows \ Links(base.rows)
        /\ DOMAIN b.evidence \subseteq DOMAIN scenario.what
    BY <1>1, <1>2 DEF PassOK, PlanOK, Steps_
  <2>4. \A o \in DOMAIN b.evidence : scenario.on[o] \in DOMAIN base.rows \ Links(base.rows)
    <3>1. scenario \in Scenarios
      BY DEF IInv, WaitInv
    <3>2. \A o \in DOMAIN scenario.what : scenario.on[o] \in DOMAIN scenario.rows \ Links(scenario.rows)
      BY <3>1, ScenariosAssumption
    <3> QED
      BY <2>3, <3>2
  <2>5. TxOK(t, base.rows) /\ Tells(t, base.rows, b)
    <3>1. \A o \in DOMAIN b.evidence : scenario.on[o] \in DOMAIN base.rows
      BY <2>4
    <3> QED
      BY <1>2, <2>1, <2>3, <3>1, ExtractedKeeps
  <2>12. Retraces(t, base.rows)
    BY <1>2, <2>1, <2>3, <2>4, ExtractedRetraces
  <2> HIDE DEF t
  <2>6. /\ rows' = Committed(t) /\ StoreGoes /\ Spares(rows, rows')
        /\ RunsAge(runs, runs') /\ NoOutcome(runs, runs') /\ Tame(runs, runs') /\ NoReview(runs, runs')
    BY <1>1, <1>2, <2>1, <2>2, <2>5, <2>12, CommitsFacts
  <2>7. /\ Around_(w)
        /\ \/ at'[w] = Idle /\ lease' = Released(w)
           \/ (\E x : at' = [at EXCEPT ![w].pc = "failing", ![w].err = x]) /\ lease' = lease
    BY <1>1, <2>2, AnnouncedFacts
  <2>8. /\ Frame(w) /\ PassOK(w, at'[w], runs', rows', scenario) /\ at'[w].pc \notin {"commit", "event_capture"}
        /\ Undisturbed' => LeaseOK(w, at'[w], runs', lease', cut)
    BY <1>1, <2>6, <2>7, CommitMoves DEF StoreGoes
  <2>9. IInv'
    BY <1>1, <2>6, <2>8, OrdinaryStep DEF RunsGo
  <2>10. \A x \in DOMAIN rows' \ DOMAIN rows : rows'[x].kind = "event" /\ rows'[x].by = "extract" =>
            \A d \in Overlaps(rows, rows'[x].cites) : rows[d].by = "extract" => d \in DOMAIN b.candidates
    <3>1. /\ DOMAIN rows' = DOMAIN rows \cup Wrote(t) /\ \A i \in Wrote(t) : rows'[i] = t.rows[i]
          /\ Wrote(t) \ DOMAIN rows = Wrote(t) \ DOMAIN base.rows
      BY <1>2, <2>3, <2>5, <2>6, CommittedKeeps
    <3> HIDE DEF base, b
    <3> QED
      BY <2>5, <3>1 DEF Tells
  <2>11. StepOK
    <3>1. ~Synthesising(w) /\ runs[at[w].run].kind # "memory_dream"
      BY <1>2 DEF Synthesising
    <3> HIDE DEF Undisturbed
    <3> QED
      BY <1>1, <2>6, <2>8, <2>10, <3>1, OneCommits
  <2> QED
    BY <2>9, <2>11
<1> QED
  BY <1>3, <1>4

(* Synthesis. *)
\* What an Event is, and is derived from, is not what a synthesis writes.
LEMMA VersionStays ==
    ASSUME NEW r, NEW s, StoreOK(r), Later(r, s), NEW f, NEW e \in OfKind(r, "event"),
           \A i \in DOMAIN r : r[i].kind # "memory" => s[i] = r[i],
           \A i \in DOMAIN s \ DOMAIN r :
               s[i].kind = "memory" \/ (s[i].kind = "link" /\ s[i].src \in DOMAIN s /\ s[s[i].src].kind = "memory")
    PROVE  Version(s, f, e) = Version(r, f, e)
<1>1. DOMAIN r \subseteq DOMAIN s /\ e \in DOMAIN r /\ r[e].kind = "event" /\ s[e] = r[e]
  BY DEF OfKind, Later
<1>2. Sources(s, e) = Sources(r, e) /\ \A l \in Sources(r, e) : s[l] = r[l] /\ r[l].dst \in DOMAIN r
  <2>1. ASSUME NEW l \in Sources(s, e) PROVE l \in Sources(r, e)
    BY <1>1, <2>1 DEF Sources, Links, Later, Alike
  <2>2. ASSUME NEW l \in Sources(r, e) PROVE l \in Sources(s, e) /\ s[l] = r[l] /\ r[l].dst \in DOMAIN r
    BY <1>1, <2>2 DEF Sources, Links, StoreOK
  <2> QED
    BY <2>1, <2>2
<1> DEFINE Support(q) == {o \in {q[l].dst : l \in {l \in Sources(q, e) : q[l].live}} : q[o].kind \notin {"chat", "memory"}}
<1>3. {s[l].dst : l \in {l \in Sources(s, e) : s[l].live}} = {r[l].dst : l \in {l \in Sources(r, e) : r[l].live}}
  BY <1>2
<1>4. \A o \in {r[l].dst : l \in {l \in Sources(r, e) : r[l].live}} :
         o \in DOMAIN r /\ s[o].kind = r[o].kind /\ (r[o].kind # "memory" => s[o] = r[o])
  BY <1>2 DEF Later, Alike
<1>5. Support(s) = Support(r) /\ \A o \in Support(r) : s[o] = r[o]
  BY <1>3, <1>4
<1>6. {<<l, s[l].rev, s[l].live>> : l \in Sources(s, e)} = {<<l, r[l].rev, r[l].live>> : l \in Sources(r, e)}
  BY <1>2
<1>7. {<<o, s[o].rev, s[o].live>> : o \in Support(s)} = {<<o, r[o].rev, r[o].live>> : o \in Support(r)}
  <2> HIDE DEF Support
  <2> QED
    BY <1>5
<1> QED
  BY <1>1, <1>6, <1>7 DEF Version, EventPrint

\* What a synthesis commits is Memories, and Connections from them.
LEMMA RecallsCommitted ==
    ASSUME NEW t, NEW b, TxOK(t, b), Recalls(t, b), StoreOK(rows), Later(b, rows), NEW s, s = Committed(t)
    PROVE  /\ \A i \in DOMAIN rows : rows[i].kind # "memory" => s[i] = rows[i]
           /\ \A i \in DOMAIN s \ DOMAIN rows :
                 s[i].kind = "memory" \/ (s[i].kind = "link" /\ s[i].src \in DOMAIN s /\ s[s[i].src].kind = "memory")
<1>1. /\ DOMAIN s = DOMAIN rows \cup Wrote(t)
      /\ \A i \in Wrote(t) : s[i] = t.rows[i]
      /\ \A i \in DOMAIN rows \ Wrote(t) : s[i] = rows[i]
  BY CommittedKeeps
<1>2. /\ DOMAIN b \subseteq DOMAIN rows /\ Wrote(t) \cap DOMAIN rows \subseteq DOMAIN b
      /\ DOMAIN t.rows = DOMAIN b \cup Wrote(t)
      /\ \A i \in DOMAIN b : b[i].kind = rows[i].kind /\ b[i].kind = t.rows[i].kind
  BY DEF TxOK, Later, Alike
<1>3. ASSUME NEW i \in DOMAIN rows, rows[i].kind # "memory" PROVE i \notin Wrote(t)
  BY <1>2, <1>3 DEF Recalls
<1>4. \A m \in DOMAIN t.rows : t.rows[m].kind = "memory" => m \in DOMAIN s /\ s[m].kind = "memory"
  BY <1>1, <1>2
<1>5. ASSUME NEW i \in DOMAIN s \ DOMAIN rows
      PROVE  s[i].kind = "memory" \/ (s[i].kind = "link" /\ s[i].src \in DOMAIN s /\ s[s[i].src].kind = "memory")
  <2>1. i \in Wrote(t) /\ s[i] = t.rows[i]
    BY <1>1
  <2> QED
    BY <1>4, <2>1 DEF Recalls
<1> QED
  BY <1>1, <1>3, <1>5

\* The one that is completed has reviewed what no other has.
LEMMA ReviewedOnce ==
    ASSUME NEW r, NEW b, NEW s, SynthesesOK(runs), RunsAge(runs, s), Len(s) = Len(runs),
           DOMAIN runs = 1..Len(runs), NEW w, r = at[w].run, b.prints = runs[r].prints, Unseen(w, b), r \in 1..Len(runs),
           \A k \in 1..Len(runs) \ {r} : s[k] = runs[k]
    PROVE  SynthesesOK(s)
<1>1. s[r].prints = runs[r].prints
  BY DEF RunsAge
<1>2. ASSUME NEW k \in 1..Len(runs) \ {r}, ReviewsOf(s[k]), NEW e \in DOMAIN runs[r].prints \cap DOMAIN s[k].prints,
             s[k].prints[e] = runs[r].prints[e]
      PROVE  FALSE
  <2>1. k \in Syntheses \ {at[w].run} /\ runs[k].status \in {"completed", "reversed"} /\ s[k].prints = runs[k].prints
    BY <1>2 DEF Syntheses, Runs, ReviewsOf
  <2> QED
    BY <1>2, <2>1 DEF Unseen
<1>3. ASSUME NEW j \in 1..Len(runs) \ {r}, NEW k \in 1..Len(runs) \ {r}, NEW e \in DOMAIN s[j].prints \cap DOMAIN s[k].prints,
             ReviewsOf(s[j]), ReviewsOf(s[k]), s[j].prints[e] = s[k].prints[e]
      PROVE  j = k
  BY <1>3 DEF SynthesesOK
<1> QED
  BY <1>1, <1>2, <1>3 DEF SynthesesOK

LEMMA CommitMemoriesKeeps == ASSUME IInv, NEW w \in Processes, CommitMemories(w) PROVE IInv' /\ StepOK
<1> DEFINE base == at[w].base  b == at[w].batch  plan == at[w].plan  r == at[w].run  t == Synthesised(w)
<1>1. /\ at[w].pc = "commit" /\ runs[r].kind = "memory_synthesis"
      /\ scenario' = scenario /\ cut' = cut /\ facts' = facts
  BY DEF CommitMemories, Synthesising
<1>2. /\ PassOK(w, at[w], runs, rows, scenario) /\ DOMAIN at = Processes /\ RunsOK(runs, rows) /\ StoreOK(rows)
      /\ r \in 1..Len(runs) /\ DOMAIN runs = 1..Len(runs) /\ RunOK(runs[r], Len(runs), rows) /\ w \notin Capturers
  BY <1>1, PassFacts DEF Steps_, KindsOf
<1>3. /\ StoreOK(base.rows) /\ Whole(base.rows) /\ Later(base.rows, rows) /\ IdeasOK(b, plan, base.rows) /\ b.prints = runs[r].prints
  BY <1>1, <1>2 DEF PassOK, PlanOK, Steps_
<1>4. TxOK(t, base.rows) /\ (t.err = None => Recalls(t, base.rows) /\ Unseen(w, b))
  BY <1>3, SynthesisedKeeps
<1>6. CASE t.err # None
  <2> DEFINE e == t.err
  <2>1. /\ at' = [at EXCEPT ![w].pc = "failing", ![w].err = e]
        /\ rows' = rows /\ runs' = runs /\ lease' = lease /\ woken' = woken /\ armed' = armed /\ timing' = timing /\ todo' = todo
    BY <1>6 DEF CommitMemories, Refused
  <2> HIDE DEF e
  <2> QED
    BY <1>1, <2>1, RefusedKeeps
<1>7. CASE t.err = None /\ runs[r].preview /\ w # Operator
  <2> DEFINE saved == [batch |-> b, plan |-> plan]
             new == [runs[r] EXCEPT !.status = "preview", !.saved = saved]
  <2>1. /\ runs' = [runs EXCEPT ![r].status = "preview", ![r].saved = saved]
        /\ Ends(w) /\ rows' = rows /\ todo' = todo
    BY <1>7 DEF CommitMemories
  <2>2. saved.batch = b /\ saved.plan = plan /\ saved.batch.prints = runs[r].prints
    BY <1>3
  <2> HIDE DEF saved, t
  <2>3. PlanOK("memory_synthesis", saved.batch, saved.plan, rows)
    <3>1. PlanOK("memory_synthesis", b, plan, base.rows)
      BY <1>3 DEF PlanOK
    <3> QED
      BY <1>2, <1>3, <2>2, <3>1, PlanAges
  <2> HIDE DEF b, plan, r, base
  <2>4. runs' = [runs EXCEPT ![r] = new]
    BY <1>2, <2>1
  <2>5. /\ DOMAIN new = RunFields /\ new.status = "preview" /\ new.saved = saved /\ new.kind = "memory_synthesis"
        /\ new.prints = runs[r].prints /\ new.parent = runs[r].parent /\ new.log = runs[r].log
        /\ new.kind = runs[r].kind
    BY <1>1, <1>2 DEF RunOK, RunFields
  <2> HIDE DEF new
  <2>6. RunOK(new, Len(runs), rows) /\ ~ReviewsOf(new)
    BY <1>2, <2>2, <2>3, <2>5 DEF RunOK, Statuses, Kinds, ReviewsOf
  <2>7. RunsOK(runs', rows) /\ RunsGo(runs, runs')
    <3> DEFINE s == [runs EXCEPT ![r] = new]
    <3>1. RunsOK(s, rows) /\ RunsAge(runs, s) /\ NoOutcome(runs, s) /\ Tame(runs, s) /\ NoReview(runs, s)
      BY <1>1, <1>2, <2>5, <2>6, OneRunChanges
    <3> QED
      BY <2>4, <3>1 DEF RunsGo
  <2>8. StoreGoes
    BY <2>1, <2>7, NoRowWritten
  <2>9. Around_(w) /\ at'[w] = Idle /\ lease' = Released(w)
    BY <1>1, <2>1, EndsFacts DEF Around_
  <2> QED
    BY <1>1, <2>1, <2>7, <2>8, <2>9, PassEnds, NoRowIsNoStep
<1>8. CASE t.err = None /\ ~(runs[r].preview /\ w # Operator)
  <2>1. Commits(w, t, << >>) /\ Announced(w)
    BY <1>8 DEF CommitMemories
  <2>2. Recalls(t, base.rows) /\ Unseen(w, b)
    BY <1>4, <1>8
  <2>13. Retraces(t, base.rows)
    BY <1>3, <1>8, SynthesisedRetraces
  <2> HIDE DEF t
  <2>3. /\ rows' = Committed(t) /\ StoreGoes /\ Spares(rows, rows')
        /\ RunsAge(runs, runs') /\ NoOutcome(runs, runs') /\ Tame(runs, runs')
        /\ Len(runs') = Len(runs) /\ \A k \in 1..Len(runs) \ {at[w].run} : runs'[k] = runs[k]
    BY <1>1, <1>4, <2>1, <2>13, CommitsFacts
  <2>4. /\ Around_(w)
        /\ \/ at'[w] = Idle /\ lease' = Released(w)
           \/ (\E x : at' = [at EXCEPT ![w].pc = "failing", ![w].err = x]) /\ lease' = lease
    BY <1>1, <2>1, AnnouncedFacts
  <2>5. /\ Frame(w) /\ PassOK(w, at'[w], runs', rows', scenario) /\ at'[w].pc \notin {"commit", "event_capture"}
        /\ Undisturbed' => LeaseOK(w, at'[w], runs', lease', cut)
    BY <1>1, <2>3, <2>4, CommitMoves DEF StoreGoes
  <2>6. StoreInv' /\ RunsInv' /\ PassInv' /\ WaitInv' /\ LeaseInv'
    BY <1>1, <2>3, <2>5, StepKeeps, GoneNoneStarts
  <2>7. OutcomesOK(runs', Undisturbed')
    <3>1. Undisturbed' => Undisturbed
      BY <2>5, UndisturbedStill DEF Frame
    <3>2. OutcomesOK(runs, Undisturbed)
      BY DEF IInv, OutcomesInv
    <3> HIDE DEF Undisturbed
    <3> QED
      BY <2>3, <3>1, <3>2, OutcomesStill
  <2>8. LegacyOK(cut', runs', at')
    BY <1>1, <2>3, <2>5, LegacyStill DEF IInv, OutcomesInv
  <2>9. SynthesesInv'
    <3>1. SynthesesOK(runs)
      BY DEF IInv, SynthesesInv
    <3>2. SynthesesOK(runs')
      BY <1>2, <1>3, <2>2, <2>3, <3>1, ReviewedOnce
    <3> QED
      BY <3>2 DEF SynthesesInv
  <2>10. IInv'
    BY <2>6, <2>7, <2>8, <2>9 DEF IInv, OutcomesInv
  <2>11. \A e \in OfKind(rows, "event") : Version(rows', facts', e) = Version(rows, facts, e)
    <3>1. /\ \A i \in DOMAIN rows : rows[i].kind # "memory" => rows'[i] = rows[i]
          /\ \A i \in DOMAIN rows' \ DOMAIN rows :
                rows'[i].kind = "memory"
                \/ (rows'[i].kind = "link" /\ rows'[i].src \in DOMAIN rows' /\ rows'[rows'[i].src].kind = "memory")
      BY <1>2, <1>3, <1>4, <2>2, <2>3, RecallsCommitted
    <3>2. StoreOK(rows) /\ Later(rows, rows')
      BY <1>2, <2>3 DEF StoreGoes
    <3> QED
      BY <1>1, <3>1, <3>2, VersionStays
  <2>12. StepOK
    <3> HIDE DEF Undisturbed
    <3> QED
      BY <1>1, <1>2, <2>3, <2>5, <2>11, OneCommits
  <2> QED
    BY <2>10, <2>12
<1> QED
  BY <1>6, <1>7, <1>8

(************************ Runs that can be undone ***************************)
\* Of a Run whose rows are as it left them, every entry is the last about its row.
LEMMA UntouchedStays ==
    ASSUME NEW r, JournalOK(runs[r].log, rows), Unwinds(runs[r].log, rows), Untouched(r), NEW k \in 1..Len(runs[r].log)
    PROVE  Stays(runs[r].log[k], rows)
<1> DEFINE log == runs[r].log  e == log[k]
           about == {log[j].rev : j \in {j \in DOMAIN log : log[j].on = e.on}}
           Newest(v) == \A j \in DOMAIN log : log[j].on = e.on => log[j].rev <= v
<1>1. DOMAIN log = 1..Len(log) /\ Len(log) \in Nat
  BY SeqFacts DEF JournalOK
<1>2. ASSUME NEW j \in 1..Len(log), j # k PROVE log[j].on # e.on
  <2>1. j \in 1..(k - 1) \/ k \in 1..(j - 1)
    BY <1>1, <1>2
  <2> QED
    BY <2>1 DEF Unwinds, Ordered
<1>3. e.rev \in Nat
  BY DEF JournalOK, EntryOK
<1>4. about = {e.rev} /\ Newest(e.rev)
  BY <1>1, <1>2, <1>3
<1>5. Latest(r, e.on) = CHOOSE v \in about : Newest(v)
  BY DEF Latest
<1>6. rows[e.on].rev = Latest(r, e.on)
  <2>1. e.on \in {log[j].on : j \in DOMAIN log}
    BY <1>1
  <2> QED
    BY <2>1 DEF Untouched
<1> HIDE DEF about, Newest
<1>7. (CHOOSE v \in about : Newest(v)) \in about
  BY <1>4
<1>8. rows[e.on].rev = e.rev
  BY <1>4, <1>5, <1>6, <1>7
<1> QED
  BY <1>8 DEF Stays

\* The undo of a journal has taken back the entries after the m-th.
HalfUndone(t, log, m) ==
    /\ TxOK(t, rows) /\ t.err = None
    /\ Wrote(t) = {log[k].on : k \in (m + 1)..Len(log)}
    /\ \A k \in (m + 1)..Len(log) : t.rows[log[k].on].live <=> ~log[k].made /\ log[k].was.live

\* What the others left untouched, and the order in which the Run wrote the rest,
\* leave nothing in the way of the next entry.
LEMMA NextCanBeTakenBack ==
    ASSUME NEW r, StoreOK(rows), Whole(rows), JournalOK(runs[r].log, rows), Unwinds(runs[r].log, rows), Untouched(r),
           NEW m \in 1..Len(runs[r].log), NEW t, HalfUndone(t, runs[r].log, m)
    PROVE  CanTakeBack(t, runs[r].log[m])
<1> DEFINE log == runs[r].log  N == Len(log)  e == log[m]  i == e.on
           written == {log[k].on : k \in DOMAIN log}
<1>1. DOMAIN log = 1..N /\ N \in Nat
  BY SeqFacts DEF JournalOK
<1>2. \A k \in 1..N : log[k].on \in DOMAIN rows /\ Stays(log[k], rows)
  BY UntouchedStays DEF JournalOK, EntryOK
<1>3. \A j \in 1..N : \A k \in 1..N : j < k => Ordered(log[j], log[k], rows)
  <2> SUFFICES ASSUME NEW j \in 1..N, NEW k \in 1..N, j < k PROVE Ordered(log[j], log[k], rows)
    OBVIOUS
  <2>1. j \in 1..(k - 1)
    BY <1>1
  <2> QED
    BY <2>1 DEF Unwinds
<1>4. TxOK(t, rows) /\ Wrote(t) = {log[k].on : k \in (m + 1)..N}
      /\ \A k \in (m + 1)..N : t.rows[log[k].on].live <=> ~log[k].made /\ log[k].was.live
  BY DEF HalfUndone
<1>5. /\ \A o \in written \ Links(rows) : LinksOf(rows, o) \subseteq written
      /\ \A l \in written \cap Links(rows) :
            /\ \A o \in EndsOf(rows[l]) : rows[o].live \/ o \in written
            /\ Same(rows, rows[l].src, rows[l].rel, rows[l].dst) \subseteq written
  BY DEF Untouched, EndsOf
<1>6. rows[i].kind \in {"memory", "event", "link"}
  BY DEF Unwinds
<1> HIDE DEF log, N
<1>7. \A k \in 1..N : k = m \/ k < m \/ k \in (m + 1)..N
  BY <1>1 DEF N, log
<1>8. \A x \in written : \/ x = i
                         \/ \E k \in 1..N : k < m /\ log[k].on = x
                         \/ \E k \in (m + 1)..N : log[k].on = x
  BY <1>1, <1>7
<1>9. m \in 1..N /\ \A k \in (m + 1)..N : k \in 1..N /\ m < k
  BY <1>1 DEF N, log
<1>10. i \notin Wrote(t) /\ i \in written
  BY <1>1, <1>3, <1>4, <1>9 DEF Ordered
<1>11. \A k \in 1..N : k < m => log[k].on \notin Wrote(t)
  <2> SUFFICES ASSUME NEW k \in 1..N, k < m, NEW j \in (m + 1)..N, log[j].on = log[k].on PROVE FALSE
    BY <1>4
  <2>1. j \in 1..N /\ k < j
    BY <1>1, <1>9
  <2> QED
    BY <1>3, <2>1 DEF Ordered
<1>12. /\ DOMAIN t.rows = DOMAIN rows
       /\ \A x \in DOMAIN rows \ Wrote(t) : t.rows[x] = rows[x]
       /\ \A x \in DOMAIN rows : Alike(rows[x], t.rows[x])
       /\ Wrote(t) \subseteq written
  <2>1. Wrote(t) \subseteq written
    BY <1>1, <1>4, <1>9
  <2>2. Wrote(t) \subseteq DOMAIN rows
    BY <1>1, <1>2, <2>1
  <2> QED
    BY <1>4, <2>1, <2>2 DEF TxOK, Later
<1>13. Links(t.rows) = Links(rows) /\ \A l \in Links(rows) : l \in DOMAIN rows /\ EndsOf(t.rows[l]) = EndsOf(rows[l])
  BY <1>12 DEF Links, Alike, EndsOf
<1>14. i \in DOMAIN rows /\ t.rows[i] = rows[i] /\ Stays(e, rows)
  BY <1>2, <1>9, <1>10, <1>12
<1> HIDE DEF written, e, i
<1>15. Stays(e, t.rows) /\ IsLink(e, t.rows) = IsLink(e, rows) /\ Revived(e, t.rows) = Revived(e, rows)
  BY <1>14 DEF Stays, IsLink, Revived, i
<1>16. ASSUME Revived(e, rows), NEW o \in EndsOf(rows[i]) PROVE t.rows[o].live
  <2>1. i \in Links(rows)
    BY <1>14, <1>16 DEF Revived, IsLink, Links, i
  <2>2. o \notin Links(rows) /\ o \in DOMAIN rows
    BY <1>16, <2>1 DEF Whole, StoreOK, EndsOf
  <2>3. CASE o \notin written
    BY <1>5, <1>10, <1>12, <1>16, <2>1, <2>2, <2>3
  <2>4. CASE o = i
    BY <2>1, <2>2, <2>4
  <2>5. ASSUME NEW k \in 1..N, k < m, log[k].on = o PROVE t.rows[o].live
    <3>1. Ordered(log[k], e, rows) /\ Stays(log[k], rows)
      BY <1>2, <1>3, <1>9, <2>5 DEF e
    <3>2. rows[o].live
      BY <1>16, <2>5, <3>1 DEF Ordered, i
    <3> QED
      BY <1>11, <1>12, <2>2, <2>5, <3>2
  <2>6. ASSUME NEW k \in (m + 1)..N, log[k].on = o PROVE t.rows[o].live
    <3>1. Ordered(e, log[k], rows)
      BY <1>3, <1>9 DEF e
    <3>2. ~log[k].made /\ log[k].was.live
      BY <1>16, <2>6, <3>1 DEF Ordered, i
    <3> QED
      BY <1>4, <2>6, <3>2
  <2> QED
    BY <1>8, <2>3, <2>4, <2>5, <2>6
<1>17. ASSUME Revived(e, rows), NEW x \in Same(t.rows, t.rows[i].src, t.rows[i].rel, t.rows[i].dst), x # i PROVE FALSE
  <2>1. i \in Links(rows)
    BY <1>14, <1>17 DEF Revived, IsLink, Links, i
  <2>2. x \in Links(rows) /\ x \in DOMAIN rows /\ t.rows[x].live /\ Parallel(rows[x], rows[i])
    BY <1>12, <1>13, <1>14, <1>17 DEF Same, Parallel, Links, Alike
  <2>3. Parallel(rows[i], rows[x])
    BY <2>2 DEF Parallel
  <2>4. CASE x \notin written
    <3>1. rows[x].live
      BY <1>12, <2>2, <2>4
    <3>2. x \in Same(rows, rows[i].src, rows[i].rel, rows[i].dst)
      BY <2>2, <3>1 DEF Same, Parallel
    <3> QED
      BY <1>5, <1>10, <2>1, <2>4, <3>2
  <2>5. ASSUME NEW k \in 1..N, k < m, log[k].on = x PROVE FALSE
    <3>1. Ordered(log[k], e, rows) /\ Stays(log[k], rows)
      BY <1>2, <1>3, <1>9, <2>5 DEF e
    <3>2. IsLink(log[k], rows)
      BY <2>2, <2>5 DEF IsLink, Links
    <3>3. ~rows[x].live
      BY <1>17, <2>2, <2>5, <3>1, <3>2 DEF Ordered, i
    <3> QED
      BY <1>11, <1>12, <2>2, <2>5, <3>3
  <2>6. ASSUME NEW k \in (m + 1)..N, log[k].on = x PROVE FALSE
    <3>1. Ordered(e, log[k], rows)
      BY <1>3, <1>9 DEF e
    <3>2. IsLink(log[k], rows)
      BY <2>2, <2>6 DEF IsLink, Links
    <3>3. log[k].made \/ ~log[k].was.live
      BY <1>17, <2>3, <2>6, <3>1, <3>2 DEF Ordered, i
    <3> QED
      BY <1>4, <2>2, <2>6, <3>3
  <2> QED
    BY <1>8, <1>17, <2>4, <2>5, <2>6
<1>18. ASSUME ~IsLink(e, rows), e.made, NEW l \in LinksOf(t.rows, i) PROVE FALSE
  <2>1. i \notin Links(rows)
    BY <1>18 DEF IsLink, Links, i
  <2>2. l \in Links(rows) /\ l \in DOMAIN rows /\ t.rows[l].live /\ i \in EndsOf(rows[l])
    <3>1. l \in Links(t.rows) /\ t.rows[l].live /\ i \in EndsOf(t.rows[l])
      BY <1>18 DEF LinksOf, EndsOf
    <3> QED
      BY <1>13, <3>1
  <2>3. CASE l \notin written
    <3>1. rows[l].live
      BY <1>12, <2>2, <2>3
    <3>2. l \in LinksOf(rows, i)
      BY <2>2, <3>1 DEF LinksOf, EndsOf
    <3> QED
      BY <1>5, <1>10, <2>1, <2>3, <3>2
  <2>4. ASSUME NEW k \in 1..N, k < m, log[k].on = l PROVE FALSE
    <3>1. Ordered(log[k], e, rows)
      BY <1>3, <1>9, <2>4 DEF e
    <3>2. IsLink(log[k], rows)
      BY <2>2, <2>4 DEF IsLink, Links
    <3> QED
      BY <1>18, <2>2, <2>4, <3>1, <3>2 DEF Ordered, i
  <2>5. ASSUME NEW k \in (m + 1)..N, log[k].on = l PROVE FALSE
    <3>1. Ordered(e, log[k], rows)
      BY <1>3, <1>9 DEF e
    <3>2. IsLink(log[k], rows)
      BY <2>2, <2>5 DEF IsLink, Links
    <3>3. log[k].made
      BY <1>18, <2>2, <2>5, <3>1, <3>2 DEF Ordered, i
    <3> QED
      BY <1>4, <2>2, <2>5, <3>3
  <2> QED
    BY <1>8, <2>1, <2>2, <2>3, <2>4, <2>5
<1>19. ~IsLink(e, rows) => t.rows[i].kind \in {"memory", "event"}
  BY <1>6, <1>14 DEF IsLink, i
<1>20. CanTakeBack(t, e)
  BY <1>14, <1>15, <1>16, <1>17, <1>18, <1>19 DEF CanTakeBack, i
<1> QED
  BY <1>20 DEF e, log

LEMMA NextIsTakenBack ==
    ASSUME NEW r, StoreOK(rows), Whole(rows), JournalOK(runs[r].log, rows), Unwinds(runs[r].log, rows), Untouched(r),
           NEW m \in 1..Len(runs[r].log), NEW t, HalfUndone(t, runs[r].log, m)
    PROVE  HalfUndone(Unwound(t, runs[r].log[m]), runs[r].log, m - 1)
<1> DEFINE log == runs[r].log  N == Len(log)  e == log[m]  u == Unwound(t, e)
<1>1. DOMAIN log = 1..N /\ N \in Nat
  BY SeqFacts DEF JournalOK
<1>2. CanTakeBack(t, e)
  BY NextCanBeTakenBack
<1>3. TxOK(t, rows) /\ t.err = None /\ EntryOK(e, rows)
  BY DEF HalfUndone, JournalOK
<1>4. Wrote(t) = {log[k].on : k \in (m + 1)..N}
      /\ \A k \in (m + 1)..N : t.rows[log[k].on].live <=> ~log[k].made /\ log[k].was.live
  BY DEF HalfUndone
<1>5. \A k \in (m + 1)..N : log[k].on # e.on
  <2> SUFFICES ASSUME NEW k \in (m + 1)..N, log[k].on = e.on PROVE FALSE
    OBVIOUS
  <2>1. k \in 1..N /\ m \in 1..(k - 1)
    BY <1>1
  <2> QED
    BY <2>1 DEF Unwinds, Ordered
<1>6. \A k \in (m + 1)..N : log[k].on \in Wrote(t) /\ log[k].on \in DOMAIN t.rows
  BY <1>3, <1>4 DEF TxOK
<1>7. m - 1 + 1 = m /\ m \in m..N /\ \A k \in m..N : k = m \/ k \in (m + 1)..N
  BY <1>1
<1>8. \A k \in (m + 1)..N : k \in m..N
  BY <1>1
<1> HIDE DEF log, N, e
<1>9. TxOK(u, rows) /\ TakesBack(u, t, e) /\ u.err = None
  BY <1>2, <1>3, UnwoundKeeps
<1> HIDE DEF u
<1>10. /\ Wrote(u) = Wrote(t) \cup {e.on}
       /\ \A j \in DOMAIN t.rows \ {e.on} : u.rows[j] = t.rows[j]
       /\ u.rows[e.on].live <=> ~e.made /\ e.was.live
  BY <1>9 DEF TakesBack
<1>11. Wrote(u) = {log[k].on : k \in m..N}
  BY <1>4, <1>7, <1>8, <1>10 DEF e
<1>12. ASSUME NEW k \in m..N PROVE u.rows[log[k].on].live <=> ~log[k].made /\ log[k].was.live
  <2>1. CASE k = m
    BY <1>10, <2>1 DEF e
  <2>2. CASE k \in (m + 1)..N
    <3>1. u.rows[log[k].on] = t.rows[log[k].on]
      BY <1>5, <1>6, <1>10, <2>2
    <3> QED
      BY <1>4, <2>2, <3>1
  <2> QED
    BY <1>7, <2>1, <2>2
<1>13. HalfUndone(u, log, m - 1)
  BY <1>7, <1>9, <1>11, <1>12 DEF HalfUndone, N
<1> QED
  BY <1>13 DEF u, e, log

LEMMA UntouchedIsUndone ==
    ASSUME NEW r, StoreOK(rows), Whole(rows), JournalOK(runs[r].log, rows), Unwinds(runs[r].log, rows), Untouched(r)
    PROVE  Undone(r).err = None
<1> DEFINE log == runs[r].log  N == Len(log)
<1>1. N \in Nat
  BY SeqFacts DEF JournalOK
<1>2. PICK f : /\ f[0] = Begun(rows) /\ Undone(r) = f[N]
               /\ \A n \in 1..N : f[n] = Unwound(f[n - 1], log[N + 1 - n])
  <2>1. PICK f : /\ f[0] = Begun(rows)
                 /\ \A n \in 1..Len(runs[r].log) : f[n] = Unwound(f[n - 1], runs[r].log[Len(runs[r].log) + 1 - n])
                 /\ Undone(r) = f[Len(runs[r].log)]
    BY <1>1, UndoneUnfolds
  <2> QED
    BY <2>1
<1> DEFINE kept == {n \in 0..N : HalfUndone(f[n], log, N - n)}
<1>3. 0 \in kept
  <2>1. TxOK(Begun(rows), rows) /\ Begun(rows).err = None /\ Wrote(Begun(rows)) = {}
    BY TxBegins, LaterItself DEF Begun, Wrote
  <2>2. (N - 0 + 1)..N = {}
    BY <1>1
  <2> HIDE DEF N, log
  <2>3. HalfUndone(f[0], log, N - 0)
    BY <1>2, <2>1, <2>2 DEF HalfUndone, N
  <2> QED
    BY <1>1, <2>3
<1>4. ASSUME NEW n \in 1..N, n - 1 \in kept PROVE n \in kept
  <2> DEFINE m == N + 1 - n
  <2>1. m \in 1..N /\ N - (n - 1) = m /\ N - n = m - 1
    BY <1>1
  <2>2. HalfUndone(f[n - 1], log, m) /\ f[n] = Unwound(f[n - 1], log[m])
    BY <1>2, <1>4, <2>1
  <2> HIDE DEF m
  <2>3. HalfUndone(Unwound(f[n - 1], log[m]), log, m - 1)
    BY <2>1, <2>2, NextIsTakenBack
  <2>4. HalfUndone(f[n], log, N - n)
    BY <2>1, <2>2, <2>3
  <2> QED
    BY <2>4
<1>5. N \in kept
  <2> HIDE DEF kept, N
  <2>1. \A n \in 1..N : n - 1 \in kept => n \in kept
    BY <1>4
  <2>2. \A n \in 0..N : n \in kept
    BY <1>1, <1>3, <2>1, UpTo
  <2> QED
    BY <1>1, <2>2
<1> QED
  BY <1>2, <1>5 DEF HalfUndone

(******************************* the theorems *******************************)
LEMMA StartHolds == Init => IInv
<1> SUFFICES ASSUME NEW s \in Scenarios, Start(s) PROVE IInv
  BY DEF Init
<1>1. /\ scenario = s /\ rows = s.rows /\ runs = << >> /\ cut = s.cut /\ todo = s.todo
      /\ lease = [capture |-> None, review |-> None]
      /\ at = [w \in Processes |-> Idle]
      /\ woken = Reviewers \cap s.workers /\ timing = {} /\ armed = {}
  BY DEF Start
<1>2. StoreOK(rows) /\ Whole(rows)
  BY <1>1, ScenariosAssumption
<1>3. StoreInv /\ WaitInv
  BY <1>1, <1>2 DEF StoreInv, WaitInv, LeaseType
<1>4. RunsInv /\ SynthesesInv /\ Len(runs) = 0
  BY <1>1 DEF RunsInv, RunsOK, IsSeq, SynthesesInv, SynthesesOK
<1>5. PassInv
  BY <1>1, IdleIsOK DEF PassInv
<1>6. LeaseInv
  BY <1>1, IdleIsOK DEF LeaseInv, LeaseOK
<1>7. LegacyOK(cut, runs, at)
  BY <1>1, <1>4, IdleIsOK DEF LegacyOK
<1>8. OutcomesInv
  BY <1>4, <1>7 DEF OutcomesInv, OutcomesOK
<1> QED
  BY <1>3, <1>4, <1>5, <1>6, <1>8 DEF IInv

LEMMA ReviewingKeeps == ASSUME IInv, NEW w \in Active, Reviewing(w) PROVE IInv' /\ StepOK
<1>1. w \in Reviewers /\ w \in Processes
  BY ProcessKinds
<1>2. CASE ReviewStep(w)
  <2>1. CASE ClaimDream(w)
    BY <1>1, <2>1, ClaimReviewKeeps DEF ClaimDream
  <2>2. CASE ScanDream(w) \/ ProposeDream(w)
    BY <1>1, <2>2, ScanDreamKeeps, ProposeDreamKeeps
  <2>3. CASE Dreaming(w) /\ Fails(w)
    BY <1>1, <2>3, FailsKeeps
  <2>4. CASE BeginDream(w) \/ CommitDream(w) \/ FailDream(w)
    BY <1>1, <2>4, BeginDreamKeeps, CommitDreamKeeps, FailDreamKeeps
  <2> QED
    BY <1>2, <2>1, <2>2, <2>3, <2>4 DEF ReviewStep
<1>3. CASE SynthesisStep(w)
  <2>1. CASE ClaimSynthesis(w)
    BY <1>1, <2>1, ClaimReviewKeeps DEF ClaimSynthesis
  <2>2. CASE ScanSynthesis(w) \/ ProposeMemories(w)
    BY <1>1, <2>2, ScanSynthesisKeeps, ProposeMemoriesKeeps
  <2>3. CASE Synthesising(w) /\ Fails(w)
    BY <1>1, <2>3, FailsKeeps
  <2>4. CASE BeginMemories(w) \/ CommitMemories(w) \/ FailMemories(w)
    BY <1>1, <2>4, BeginMemoriesKeeps, CommitMemoriesKeeps, FailMemoriesKeeps
  <2> QED
    BY <1>3, <2>1, <2>2, <2>3, <2>4 DEF SynthesisStep
<1>4. CASE SetTimer(w) \/ Timer(w)
  BY <1>4, TimerKeeps
<1> QED
  BY <1>2, <1>3, <1>4 DEF Reviewing

LEMMA CapturingKeeps == ASSUME IInv, NEW w \in Capturers, Working(w) PROVE IInv' /\ StepOK
<1>1. w \in Processes
  BY ProcessKinds
<1>2. CASE CaptureOutcomes(w) \/ ClaimCapture(w) \/ ScanOutcomes(w) \/ ProposeEvents(w)
  BY <1>2, CaptureOutcomesKeeps, ClaimCaptureKeeps, ScanOutcomesKeeps, ProposeEventsKeeps
<1>3. CASE (Capturing(w) /\ Fails(w)) \/ BeginEvents(w)
  BY <1>1, <1>3, FailsKeeps, BeginKeeps DEF BeginEvents
<1>4. CASE CommitEvents(w) \/ FailEvents(w)
  BY <1>4, CommitEventsKeeps, FailEventsKeeps
<1> QED
  BY <1>2, <1>3, <1>4 DEF Working, CaptureStep

LEMMA CallsKeep == ASSUME IInv, Calls PROVE IInv' /\ StepOK
<1>1. CASE \E r \in DOMAIN runs : Undo(r)
  BY <1>1, UndoKeeps
<1>2. CASE \E a \in todo : EditRow(a) \/ AddLink(a)
  BY <1>2, EditRowKeeps, AddLinkKeeps
<1>3. CASE \E a \in todo : CorrectFact(a) \/ BeginOutcome(a)
  BY <1>3, OutcomeKeeps
<1>4. CASE \E a \in todo : WriteEvent(a) \/ Activate(a)
  BY <1>4, WriteEventKeeps, ActivateKeeps
<1>5. CASE \E a \in todo : \E p \in DOMAIN runs : ApproveDream(a, p) \/ ApproveSynthesis(a, p)
  BY <1>5, ApproveDreamKeeps, ApproveSynthesisKeeps
<1> QED
  BY <1>1, <1>2, <1>3, <1>4, <1>5 DEF Calls

LEMMA NextKeeps == ASSUME IInv, [Next]_vars PROVE IInv' /\ StepOK
<1>1. CASE \E w \in Active : Reviewing(w)
  BY <1>1, ReviewingKeeps
<1>2. CASE \E w \in Capturers \cap scenario.workers : Working(w)
  BY <1>2, CapturingKeeps
<1>3. CASE Calls
  BY <1>3, CallsKeep
<1>4. CASE Approving
  <2>1. Operator \in Processes
    BY ProcessKinds
  <2>2. CASE BeginDream(Operator) \/ CommitDream(Operator) \/ FailApproved
    BY <2>1, <2>2, BeginDreamKeeps, CommitDreamKeeps, FailApprovedKeeps
  <2>3. CASE BeginMemories(Operator) \/ CommitMemories(Operator) \/ FailMemories(Operator)
    BY <2>1, <2>3, BeginMemoriesKeeps, CommitMemoriesKeeps, FailMemoriesKeeps
  <2> QED
    BY <1>4, <2>2, <2>3 DEF Approving
<1>5. CASE Faults
  BY <1>5, CrashKeeps, LoseLeaseKeeps, TimesOutKeeps DEF Faults
<1>6. CASE \E r \in DOMAIN runs : RetryDue(r)
  BY <1>6, RetryDueKeeps
<1>7. CASE \E o \in capture.open : CommitOutcome(o)
  BY <1>7, OutcomeKeeps
<1>8. CASE UNCHANGED vars
  <2>1. /\ scenario' = scenario /\ rows' = rows /\ runs' = runs /\ cut' = cut /\ facts' = facts /\ at' = at
        /\ lease' = lease /\ todo' = todo /\ armed' = armed /\ timing' = timing /\ woken' = woken
    BY <1>8 DEF vars
  <2>2. armed' \cup timing' \subseteq Reviewers /\ woken' \subseteq Reviewers
    BY <2>1 DEF IInv, WaitInv
  <2>3. IInv'
    BY <2>1, <2>2, NothingWritten, NobodyMoves
  <2> QED
    BY <2>1, <2>3, NoRowIsNoStep
<1> QED
  BY <1>1, <1>2, <1>3, <1>4, <1>5, <1>6, <1>7, <1>8 DEF Next

\* The inductive invariant of the workers: what the rows, Runs, passes and leases
\* are at any moment, whatever begins, fails, is approved or undone meanwhile.
THEOREM InvariantHolds == Spec => []IInv
<1>1. IInv /\ [Next]_vars => IInv'
  BY NextKeeps
<1> QED
  BY StartHolds, <1>1, PTL DEF Spec

\* The store keeps its columns and the ends of its Connections, every journal speaks of
\* rows that are there, and a lease is held by a worker of its kind.
THEOREM TypeCorrect == Spec => []TypeOK
<1>1. IInv => TypeOK
  <2> SUFFICES ASSUME IInv PROVE TypeOK
    OBVIOUS
  <2>1. StoreOK(rows) /\ RunsOK(runs, rows) /\ LeaseType(lease) /\ armed \cup timing \subseteq Reviewers /\ woken \subseteq Reviewers
    BY DEF IInv, StoreInv, RunsInv, WaitInv
  <2>2. /\ DOMAIN rows \subseteq Ids
        /\ \A i \in DOMAIN rows : rows[i].rev \in Nat \ {0} /\ rows[i].live \in BOOLEAN
        /\ \A l \in Links(rows) : {rows[l].src, rows[l].dst} \subseteq DOMAIN rows
    BY <2>1 DEF StoreOK, RowOK
  <2>3. Len(runs) \in Nat /\ DOMAIN runs = 1..Len(runs)
    BY <2>1, SeqFacts DEF RunsOK
  <2>4. ASSUME NEW r \in DOMAIN runs
        PROVE  /\ runs[r].status \in Statuses /\ runs[r].parent \in 0..Len(runs)
               /\ \A k \in DOMAIN runs[r].log : runs[r].log[k].on \in DOMAIN rows
    <3>1. RunOK(runs[r], Len(runs), rows)
      BY <2>1, <2>3 DEF RunsOK
    <3>2. DOMAIN runs[r].log = 1..Len(runs[r].log)
      BY <3>1, SeqFacts DEF RunOK, JournalOK
    <3> QED
      BY <3>1, <3>2 DEF RunOK, JournalOK, EntryOK
  <2>5. \A w \in Processes : at[w].run \in 0..Len(runs)
    <3>1. ASSUME NEW w \in Processes PROVE at[w].run \in 0..Len(runs)
      <4>1. at[w].pc \in Steps_ => at[w].run \in 1..Len(runs)
        BY PassFacts
      <4>2. at[w].pc \notin Steps_ => at[w].run = 0
        BY PassFacts
      <4> QED
        BY <2>3, <4>1, <4>2
    <3> QED
      BY <3>1
  <2> QED
    BY <2>1, <2>2, <2>4, <2>5 DEF TypeOK, LeaseType
<1> QED
  BY <1>1, InvariantHolds, PTL

\* No outcome is told by two Runs, as a Memory or in Events, across cutover, crashes
\* and undo; and no version of an Event is reviewed into Memories by two, whether
\* a worker or the approval of a preview gets there.
THEOREM InputsAreWorkedOnce == Spec => []EachInputOnce
<1>1. IInv => OneCaptureWrites
  <2> SUFFICES ASSUME IInv, Undisturbed, NEW o \in Outcomes, NEW r \in DOMAIN runs, NEW q \in DOMAIN runs, Writes(r, o), Writes(q, o)
               PROVE  r = q
    BY DEF OneCaptureWrites
  <2>1. OutcomesOK(runs, TRUE) /\ DOMAIN runs = 1..Len(runs)
    BY SeqFacts DEF IInv, OutcomesInv, RunsInv, RunsOK, OutcomesOK
  <2>2. \A k \in {r, q} : /\ runs[k].kind \in {"memory_capture", "event_capture"}
                          /\ runs[k].status # "failed" /\ o \in DOMAIN runs[k].prints
    BY DEF Writes
  <2> QED
    BY <2>1, <2>2 DEF OutcomesOK
<1>2. IInv => SynthesisedOnce
  <2> SUFFICES ASSUME IInv PROVE SynthesisedOnce
    OBVIOUS
  <2>1. SynthesesOK(runs) /\ DOMAIN runs = 1..Len(runs)
    BY SeqFacts DEF IInv, SynthesesInv, RunsInv, RunsOK
  <2> QED
    BY <2>1 DEF SynthesesOK, SynthesisedOnce, Reviews, ReviewsOf
<1>3. OneCaptureWrites /\ SynthesisedOnce /\ TypeOK => EachInputOnce
  BY DEF EachInputOnce
<1> QED
  BY <1>1, <1>2, <1>3, InvariantHolds, TypeCorrect, PTL

\* A completed Run whose rows nobody has touched since, nor connected anything to what
\* it made, can be undone as a whole: whatever the worker wrote in one transaction,
\* at every later moment its journal, unwound from the end, meets no conflict.
THEOREM UntouchedRunsAreUndoable == Spec => []UntouchedRunsCanBeUndone
<1>1. IInv => UntouchedRunsCanBeUndone
  <2> SUFFICES ASSUME IInv, NEW r \in DOMAIN runs, Untouched(r) PROVE Undone(r).err = None
    BY DEF UntouchedRunsCanBeUndone
  <2>1. StoreOK(rows) /\ Whole(rows) /\ RunsOK(runs, rows) /\ DOMAIN runs = 1..Len(runs)
    BY SeqFacts DEF IInv, StoreInv, RunsInv, RunsOK
  <2>2. RunOK(runs[r], Len(runs), rows)
    BY <2>1 DEF RunsOK
  <2>3. JournalOK(runs[r].log, rows) /\ Unwinds(runs[r].log, rows)
    BY <2>2 DEF RunOK
  <2> QED
    BY <2>1, <2>3, UntouchedIsUndone
<1> QED
  BY <1>1, InvariantHolds, PTL

\* What a person protected or wrote last no worker, approval or undo changes.
THEOREM OwnersKeepTheirRows == Spec => OwnerRowsKept
<1>1. IInv /\ [Next]_vars =>
        [\A i \in DOMAIN rows :
            (rows[i].guarded \/ (rows[i].by = "owner" /\ rows[i].kind # "event")) /\ rows'[i] # rows[i]
               => rows'[i].by = "owner"]_vars
  BY NextKeeps DEF StepOK, OwnerStep
<1> QED
  BY <1>1, InvariantHolds, PTL DEF Spec, OwnerRowsKept

\* A commit stands on what it was planned on: after the cutover no plan of the old
\* writers is committed while the leases hold, and an extraction tells no evidence that
\* another one told unless its model was shown that one.
THEOREM CommitsTakeTurns == Spec => CommitsInTurn
<1>1. IInv /\ [Next]_vars =>
        [cut.done /\ Undisturbed /\ rows' # rows =>
            \A w \in Processes : at[w].pc = "commit" /\ at'[w].pc # "commit" => runs[at[w].run].kind # "memory_dream"]_vars
  BY NextKeeps DEF StepOK, LegacyStep
<1>2. IInv /\ [Next]_vars =>
        [\A w \in Capturers :
            at[w].pc = "commit" /\ at'[w].pc # "commit" =>
               \A e \in DOMAIN rows' \ DOMAIN rows : rows'[e].kind = "event" /\ rows'[e].by = "extract" =>
                  \A d \in Overlaps(rows, rows'[e].cites) :
                     rows[d].by = "extract" => d \in DOMAIN at[w].batch.candidates]_vars
  BY NextKeeps DEF StepOK, OverlapStep
<1>3. Spec => LegacySilent
  BY <1>1, InvariantHolds, PTL DEF Spec, LegacySilent
<1>4. Spec => ExtractionsNeverOverlap
  BY <1>2, InvariantHolds, PTL DEF Spec, ExtractionsNeverOverlap
<1> QED
  BY <1>3, <1>4, PTL DEF CommitsInTurn

\* The Memories that a synthesis writes about an Event, with their Connections, make no
\* new version of any Event: the worker never gives itself more to review.
THEOREM SynthesisComesToRest == Spec => SynthesisNeverRequeues
<1>1. IInv /\ [Next]_vars =>
        [\A w \in Processes :
            Synthesising(w) /\ at[w].pc = "commit" /\ at'[w].pc # "commit" =>
               \A e \in OfKind(rows, "event") : Version(rows', facts', e) = Version(rows, facts, e)]_vars
  BY NextKeeps DEF StepOK, RequeueStep
<1> QED
  BY <1>1, InvariantHolds, PTL DEF Spec, SynthesisNeverRequeues
=============================================================================
