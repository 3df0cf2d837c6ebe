------------------------ MODULE RecordWriters_proofs ------------------------
(***************************************************************************)
(* What holds of the shared rows for any stores, requests, Tasks and       *)
(* threads, whichever captures, edits, Runs, dispatches and purges race.   *)
(*                                                                         *)
(* Every step but a purge only adds rows and lets the others evolve        *)
(* (Extends); what is known of a row then stays known.  A purge takes      *)
(* rows, and what is known of those it takes is in its receipt.            *)
(***************************************************************************)
EXTENDS RecordWriters, FiniteSetTheorems, TLAPS

-----------------------------------------------------------------------------
(* The inductive invariant                                                 *)

Formed(r) == \A id \in DOMAIN r : Columns(r[id])
Nameless(r) == \A id \in DOMAIN r : r[id].tab = "object" => id # None
RowsInv(r) == Formed(r) /\ Nameless(r) /\ Sound(r) /\ Targets(r)

IdsUnder(key) == {Id(key, n) : n \in AllNames}

\* Content, and a Connection, that is there, or was purged with the facts P.
Kept(r, P, s, body) == (\E a \in DOMAIN r : IsCopy(r[a], s, body)) \/ (\E f \in P : IsCopy(f[2], s, body))
Made(r, P, src, kind, dst) ==
    (\E l \in DOMAIN r : Connects(r[l], src, kind, dst)) \/ (\E f \in P : Connects(f[2], src, kind, dst))

\* An Event of a batch is of one Object, Artifact or Connection in it.
Notes(key, payload, id, e) ==
    \/ \E o \in payload[1] : id = IntakeEventId(o, key) /\ e.target = o.id
    \/ \E c \in payload[2] : id = EventId(c) /\ e.target = c.object
    \/ \E l \in payload[3] : id = EventId(l) /\ e.target = l.id

\* The Run of a batch: what it wrote has ids of its own, but for the Source it
\* adopted, and is kept; its Events are at most one for each thing it wrote.
BatchRun(r, P, id) ==
    LET x == r[id]
        key == x.manifest.key
        payload == x.payload
    IN /\ key \in Keys /\ id = RunOf(key)
       /\ payload = <<payload[1], payload[2], payload[3]>>
       /\ IsFiniteSet(payload[1]) /\ IsFiniteSet(payload[2]) /\ IsFiniteSet(payload[3])
       /\ \A o \in payload[1] : o.id \in IdsUnder(key) \/ o.id = x.primary
       /\ \A c \in payload[2] : c.id \in IdsUnder(key) /\ Kept(r, P, c.object, c.body)
       /\ \A l \in payload[3] : l.id \in IdsUnder(key) /\ Made(r, P, l.src, l.kind, l.dst)
       /\ \A e \in DOMAIN r : r[e].tab = "event" /\ r[e].run = id => Notes(key, payload, e, r[e])

IsBatch(x) == x.tab = "run" /\ x.kind = "intake"
BatchesInv(r, P) == \A id \in DOMAIN r : IsBatch(r[id]) => BatchRun(r, P, id)

\* A routine is of one Task, and what it approves of it was approved as it is.
Approvals(ans, t) == {a.on : a \in {x \in ans : x.how = "approved" /\ x.asked.on = t}}
RoutineInv(r, ans, id) ==
    LET t == r[id].task
    IN /\ t \in Tasks /\ id = RoutineOf(t)
       /\ t \in DOMAIN r /\ r[t].tab = "object" /\ r[t].kind = "task"
       /\ r[id].approves \in Nat /\ r[id].approves <= r[t].rev
       /\ r[id].enabled /\ r[id].approves = r[t].rev => r[t].text \in Approvals(ans, t)

IsActive(x) == x.status \in {"pending", "running"}
Overlaps(r) ==
    \E o, p \in DOMAIN r :
        /\ o # p /\ r[o].tab = "occurrence" /\ r[p].tab = "occurrence" /\ r[o].task = r[p].task
        /\ IsActive(r[o]) /\ IsActive(r[p])
RoutinesInv(r, ans) ==
    /\ \A id \in DOMAIN r : r[id].tab = "routine" => RoutineInv(r, ans, id)
    /\ \A id \in DOMAIN r : r[id].tab = "occurrence" => r[id].task \in Tasks \ {None}
    /\ ~Overlaps(r)

\* A prepared request: its resources have different ids, its own but for the
\* Source it adopts, for which it has new content.
DistinctIds(S) == \A x, y \in S : x.id = y.id => x = y
Named_(key, S, T) == \A x \in S : \E y \in T : x.id = Id(key, y.name)
NamesApart(b) ==
    /\ \A x \in b.objects, y \in b.contents \cup b.edges : x.name # y.name
    /\ \A x \in b.contents, y \in b.edges : x.name # y.name
PlanInv(q, p) ==
    LET b == Batch(q)
        key == KeyOf(q)
    IN /\ NamesApart(b)
       /\ IsFiniteSet(p.objects) /\ IsFiniteSet(p.contents) /\ IsFiniteSet(p.edges)
       /\ DistinctIds(p.objects) /\ DistinctIds(p.contents) /\ DistinctIds(p.edges)
       /\ \A o \in p.objects : o.kind # "task"
       /\ Named_(key, Fresh(p), b.objects)
       /\ Named_(key, p.contents, b.contents) /\ \A c \in p.contents : c.object # None
       /\ Named_(key, p.edges, b.edges) /\ \A l \in p.edges : None \notin {l.src, l.dst}
       /\ p.adopts = {} \/ (\E s \in p.adopts : p.adopts = {s} /\ p.on = {s}
                                /\ \E c \in p.contents : c.whole /\ c.object = s)

\* What a capture will answer is in its plan, or is there.
Promises(r, P, q, p) ==
    q.do = "capture" =>
        \A s \in p.on :
            /\ (\E c \in p.contents : c.object = s /\ c.body = q.body) \/ Kept(r, P, s, q.body)
            /\ \A e \in q.edges :
                  (\E l \in p.edges : l.src = s /\ l.kind = e.kind /\ l.dst = e.dst) \/ Made(r, P, s, e.kind, e.dst)

CallInv(r, P, c) ==
    /\ c.pc \in {"status", "write"} /\ c.asked \in Captures
    /\ PlanInv(c.asked, c.plan) /\ Promises(r, P, c.asked, c.plan)
CallsInv(r, P, cs) == \A c \in cs : CallInv(r, P, c)

AnswersInv(r, P, ans) ==
    \A a \in ans :
        a.asked.do = "capture" /\ Answered200(a) =>
            \A s \in a.on :
                /\ Kept(r, P, s, a.asked.body)
                /\ \A e \in a.asked.edges : Made(r, P, s, e.kind, e.dst)

ClockInv == horizon \in Nat /\ now \in Nat /\ now <= horizon /\ todo \subseteq Sent_

ReceiptsInv == (\E S : receipts \in Seq(S)) /\ PurgedOnce

DataInv ==
    /\ RowsInv(row) /\ BatchesInv(row, PurgedFacts) /\ RoutinesInv(row, answers)
    /\ CallsInv(row, PurgedFacts, calls) /\ AnswersInv(row, PurgedFacts, answers)
    /\ ClockInv

\* The rows that are locked by a start are of active occurrences.
StartsInv == \A o \in DOMAIN starts : o \in Occurrences /\ Active(o)

IInv == DataInv /\ StartsInv /\ ReceiptsInv

-----------------------------------------------------------------------------
(* Rows and how they change                                                *)

LEMMA OneRow == ASSUME NEW id, NEW x PROVE DOMAIN Only(id, x) = {id} /\ Only(id, x)[id] = x
  BY DEF Only

\* What never changes of a row, and in which direction the rest does.
Evolves(o, n) ==
    /\ n.tab = o.tab
    /\ o.tab \in {"artifact", "event", "correction"} => n = o
    /\ o.tab = "link" => n.src = o.src /\ n.kind = o.kind /\ n.dst = o.dst
    /\ o.tab = "object" =>
          /\ n.kind = o.kind /\ o.rev <= n.rev
          /\ o.kind = "task" /\ n.rev = o.rev => n.text = o.text
          /\ o.kind = "source" /\ o.past # None => n.past = o.past
    /\ o.tab = "run" =>
          /\ n.kind = o.kind
          /\ Terminal(o) => n.status = o.status
          /\ o.kind = "intake" => n.manifest = o.manifest /\ n.payload = o.payload /\ n.primary = o.primary
    /\ o.tab = "routine" => n.task = o.task
    /\ o.tab = "occurrence" => n.task = o.task /\ (IsActive(n) => IsActive(o))

\* The foreign keys of a row refer to rows of r.
Keyed(x, r) ==
    \A c \in DOMAIN ForeignKeys \cap DOMAIN x :
        x[c] # None => x[c] \in DOMAIN r /\ r[x[c]].tab = ForeignKeys[c]

\* A row that was written, and one that is inserted beside what clients create.
Rewritten(r, o, n) == Evolves(o, n) /\ Columns(n) /\ (Keyed(o, r) => Keyed(n, r))
Inserted(r1, r2, x) ==
    /\ Columns(x) /\ Keyed(x, r2) /\ ~Resource(x) /\ ~IsBatch(x)
    /\ x.tab = "event" =>
          x.run \notin DOMAIN r1 /\ x.target \in DOMAIN r1 /\ r1[x.target].tab \in {"object", "link"}

Grows(r1, r2) ==
    /\ DOMAIN r1 \subseteq DOMAIN r2
    /\ \A id \in DOMAIN r1 : Evolves(r1[id], r2[id])
    /\ RowsInv(r2)

\* Every step but a batch's and a purge.
Extends(r1, r2) ==
    /\ Grows(r1, r2)
    /\ \A id \in DOMAIN r2 \ DOMAIN r1 :
          /\ ~Resource(r2[id]) /\ ~IsBatch(r2[id])
          /\ r2[id].tab = "event" => r2[id].run \notin DOMAIN r1

\* No routine is approved or enabled, and no occurrence added.
SameRoutines(r1, r2) ==
    /\ \A id \in DOMAIN r2 \ DOMAIN r1 : r2[id].tab \notin {"routine", "occurrence"}
    /\ \A id \in DOMAIN r1 :
          r1[id].tab = "routine" => r2[id].approves = r1[id].approves /\ (r2[id].enabled => r1[id].enabled)
SameOccurrences(r1, r2) == \A id \in DOMAIN r1 : r1[id].tab = "occurrence" => r2[id] = r1[id]

Quiet(r1, r2) == Extends(r1, r2) /\ SameRoutines(r1, r2) /\ SameOccurrences(r1, r2)

LEMMA Stays == ASSUME NEW o, NEW r, Columns(o) PROVE Rewritten(r, o, o)
  <1>1. o.tab = "object" => o.rev \in Nat
    BY DEF Columns
  <1>2. o.tab = "object" => o.rev <= o.rev
    BY <1>1
  <1> QED
    BY <1>2 DEF Rewritten, Evolves

LEMMA SoundKeys == ASSUME NEW r PROVE Sound(r) <=> \A id \in DOMAIN r : Keyed(r[id], r)
  BY DEF Sound, Keyed

\* A transaction that rewrites rows and inserts others.
LEMMA Extending ==
    ASSUME NEW r1, NEW r2, RowsInv(r1),
           DOMAIN r1 \subseteq DOMAIN r2,
           \A id \in DOMAIN r1 : Rewritten(r1, r1[id], r2[id]),
           \A id \in DOMAIN r2 \ DOMAIN r1 : Inserted(r1, r2, r2[id])
    PROVE  Extends(r1, r2)
  <1>1. \A id \in DOMAIN r1 : r2[id].tab = r1[id].tab
    BY DEF Rewritten, Evolves
  <1>2. Formed(r2)
    BY DEF Formed, Rewritten, Inserted
  <1>3. Nameless(r2)
    BY <1>1 DEF Nameless, RowsInv, Inserted, Resource
  <1>4. \A x : Keyed(x, r1) => Keyed(x, r2)
    BY <1>1 DEF Keyed
  <1>5. Sound(r2)
    <2>1. \A id \in DOMAIN r1 : Keyed(r2[id], r2)
      BY <1>4, SoundKeys DEF RowsInv, Rewritten
    <2> QED
      BY <2>1, SoundKeys DEF Inserted
  <1>6. Targets(r2)
    <2> SUFFICES ASSUME NEW id \in DOMAIN r2, r2[id].tab = "event"
                 PROVE  r2[id].target \in DOMAIN r2 /\ r2[r2[id].target].tab \in {"object", "link"}
      BY DEF Targets
    <2>1. CASE id \in DOMAIN r1
      <3>1. r1[id].tab = "event" /\ r2[id] = r1[id]
        BY <2>1, <1>1 DEF Rewritten, Evolves
      <3>2. r1[id].target \in DOMAIN r1 /\ r1[r1[id].target].tab \in {"object", "link"}
        BY <2>1, <3>1 DEF RowsInv, Targets
      <3> QED
        BY <3>1, <3>2, <1>1
    <2>2. CASE id \notin DOMAIN r1
      BY <2>2, <1>1 DEF Inserted
    <2> QED
      BY <2>1, <2>2
  <1> QED
    BY <1>2, <1>3, <1>5, <1>6 DEF Extends, Grows, RowsInv, Rewritten, Inserted

\* A step that writes nothing.
LEMMA ExtendsSelf ==
    ASSUME NEW r, RowsInv(r) PROVE Quiet(r, r)
  <1>1. \A id \in DOMAIN r : Rewritten(r, r[id], r[id])
    BY Stays DEF RowsInv, Formed
  <1> QED
    BY <1>1 DEF Quiet, Extends, Grows, Rewritten, SameRoutines, SameOccurrences

-----------------------------------------------------------------------------
(* What stays known when rows are only added                               *)

LEMMA KeptOn ==
    ASSUME NEW r1, NEW r2, NEW P, Grows(r1, r2), NEW s, NEW body, Kept(r1, P, s, body)
    PROVE  Kept(r2, P, s, body)
  <1>1. CASE \E a \in DOMAIN r1 : IsCopy(r1[a], s, body)
    <2>1. PICK a \in DOMAIN r1 : IsCopy(r1[a], s, body)
      BY <1>1
    <2>2. a \in DOMAIN r2 /\ r2[a] = r1[a]
      BY <2>1 DEF Grows, Evolves, IsCopy
    <2> QED
      BY <2>1, <2>2 DEF Kept
  <1>2. CASE \E f \in P : IsCopy(f[2], s, body)
    BY <1>2 DEF Kept
  <1> QED
    BY <1>1, <1>2 DEF Kept

LEMMA MadeOn ==
    ASSUME NEW r1, NEW r2, NEW P, Grows(r1, r2), NEW s, NEW kind, NEW dst, Made(r1, P, s, kind, dst)
    PROVE  Made(r2, P, s, kind, dst)
  <1>1. CASE \E l \in DOMAIN r1 : Connects(r1[l], s, kind, dst)
    <2>1. PICK l \in DOMAIN r1 : Connects(r1[l], s, kind, dst)
      BY <1>1
    <2>2. l \in DOMAIN r2 /\ Connects(r2[l], s, kind, dst)
      BY <2>1 DEF Grows, Evolves, Connects
    <2> QED
      BY <2>2 DEF Made
  <1>2. CASE \E f \in P : Connects(f[2], s, kind, dst)
    BY <1>2 DEF Made
  <1> QED
    BY <1>1, <1>2 DEF Made

\* Content and Connections that are kept in r1 are in r2.
Keeps(r1, P1, r2, P2) ==
    /\ \A s, body : Kept(r1, P1, s, body) => Kept(r2, P2, s, body)
    /\ \A s, kind, dst : Made(r1, P1, s, kind, dst) => Made(r2, P2, s, kind, dst)

LEMMA GrowsKeeps ==
    ASSUME NEW r1, NEW r2, NEW P, Grows(r1, r2) PROVE Keeps(r1, P, r2, P)
  BY KeptOn, MadeOn DEF Keeps

\* The Run of a batch as it was, with the Events it had or fewer.
LEMMA BatchRunOn ==
    ASSUME NEW r1, NEW r2, NEW P1, NEW P2, NEW id, BatchRun(r1, P1, id), Keeps(r1, P1, r2, P2),
           r2[id].manifest = r1[id].manifest, r2[id].payload = r1[id].payload, r2[id].primary = r1[id].primary,
           \A e \in DOMAIN r2 : r2[e].tab = "event" /\ r2[e].run = id =>
               e \in DOMAIN r1 /\ r1[e] = r2[e]
    PROVE  BatchRun(r2, P2, id)
  <1> DEFINE x == r1[id]
             key == x.manifest.key
             payload == x.payload
  <1>1. \A c \in payload[2] : c.id \in IdsUnder(key) /\ Kept(r2, P2, c.object, c.body)
    BY DEF BatchRun, Keeps
  <1>2. \A l \in payload[3] : l.id \in IdsUnder(key) /\ Made(r2, P2, l.src, l.kind, l.dst)
    BY DEF BatchRun, Keeps
  <1>3. \A e \in DOMAIN r2 : r2[e].tab = "event" /\ r2[e].run = id => Notes(key, payload, e, r2[e])
    BY DEF BatchRun
  <1> QED
    BY <1>1, <1>2, <1>3 DEF BatchRun

LEMMA BatchesOn ==
    ASSUME NEW r1, NEW r2, NEW P, BatchesInv(r1, P), Extends(r1, r2)
    PROVE  BatchesInv(r2, P)
  <1> SUFFICES ASSUME NEW id \in DOMAIN r2, IsBatch(r2[id]) PROVE BatchRun(r2, P, id)
    BY DEF BatchesInv
  <1>1. id \in DOMAIN r1 /\ IsBatch(r1[id])
    BY DEF Extends, Grows, IsBatch, Evolves
  <1>2. /\ r2[id].manifest = r1[id].manifest /\ r2[id].payload = r1[id].payload
        /\ r2[id].primary = r1[id].primary
    BY <1>1 DEF Extends, Grows, Evolves, IsBatch
  <1>3. ASSUME NEW e \in DOMAIN r2, r2[e].tab = "event", r2[e].run = id
        PROVE  e \in DOMAIN r1 /\ r1[e] = r2[e]
    <2>1. e \in DOMAIN r1
      BY <1>1, <1>3 DEF Extends, Grows
    <2> QED
      BY <2>1, <1>3 DEF Extends, Grows, Evolves
  <1>4. BatchRun(r1, P, id)
    BY <1>1 DEF BatchesInv
  <1>5. Keeps(r1, P, r2, P)
    BY GrowsKeeps DEF Extends
  <1> QED
    BY <1>2, <1>3, <1>4, <1>5, BatchRunOn

LEMMA PromisesOn ==
    ASSUME NEW r1, NEW P1, NEW r2, NEW P2, Keeps(r1, P1, r2, P2), NEW q, NEW p, Promises(r1, P1, q, p)
    PROVE  Promises(r2, P2, q, p)
  BY DEF Promises, Keeps

LEMMA CallsOn ==
    ASSUME NEW r1, NEW P1, NEW r2, NEW P2, Keeps(r1, P1, r2, P2), NEW cs, CallsInv(r1, P1, cs)
    PROVE  CallsInv(r2, P2, cs)
  <1> SUFFICES ASSUME NEW c \in cs PROVE CallInv(r2, P2, c)
    BY DEF CallsInv
  <1>1. CallInv(r1, P1, c)
    BY DEF CallsInv
  <1>2. Promises(r2, P2, c.asked, c.plan)
    BY <1>1, PromisesOn DEF CallInv
  <1> QED
    BY <1>1, <1>2 DEF CallInv

LEMMA AnswersOn ==
    ASSUME NEW r1, NEW P1, NEW r2, NEW P2, Keeps(r1, P1, r2, P2), NEW ans, AnswersInv(r1, P1, ans)
    PROVE  AnswersInv(r2, P2, ans)
  BY DEF AnswersInv, Keeps

\* A routine that approves what it did is of its Task as it was, or of none.
LEMMA RoutineOn ==
    ASSUME NEW r1, NEW r2, NEW ans1, NEW ans2, RowsInv(r1), Grows(r1, r2), ans1 \subseteq ans2,
           NEW id \in DOMAIN r1, r1[id].tab = "routine", RoutineInv(r1, ans1, id),
           r2[id].approves = r1[id].approves, r2[id].enabled => r1[id].enabled
    PROVE  RoutineInv(r2, ans2, id)
  <1> DEFINE t == r1[id].task
  <1>1. r2[id].task = t
    BY DEF Grows, Evolves
  <1>2. t \in DOMAIN r1 /\ r1[t].tab = "object" /\ r1[t].kind = "task" /\ t \in Tasks /\ id = RoutineOf(t)
    BY DEF RoutineInv
  <1>3. /\ t \in DOMAIN r2 /\ r2[t].tab = "object" /\ r2[t].kind = "task" /\ r1[t].rev <= r2[t].rev
        /\ r2[t].rev = r1[t].rev => r2[t].text = r1[t].text
    BY <1>2 DEF Grows, Evolves
  <1>4. r1[t].rev \in Nat /\ r2[t].rev \in Nat
    BY <1>2, <1>3 DEF Grows, RowsInv, Formed, Columns
  <1>5. r1[id].approves \in Nat /\ r1[id].approves <= r1[t].rev
    BY DEF RoutineInv
  <1>6. ASSUME r2[id].enabled, r2[id].approves = r2[t].rev PROVE r2[t].text \in Approvals(ans2, t)
    <2>1. r2[t].rev = r1[t].rev /\ r1[id].approves = r1[t].rev /\ r1[id].enabled
      BY <1>3, <1>4, <1>5, <1>6
    <2>2. r1[t].text \in Approvals(ans1, t)
      BY <2>1 DEF RoutineInv
    <2>3. Approvals(ans1, t) \subseteq Approvals(ans2, t)
      BY DEF Approvals
    <2> QED
      BY <2>1, <2>2, <2>3, <1>3
  <1>7. r2[id].approves \in Nat /\ r2[id].approves <= r2[t].rev
    BY <1>3, <1>4, <1>5
  <1> QED
    BY <1>1, <1>2, <1>3, <1>6, <1>7 DEF RoutineInv

\* No occurrence is added.
LEMMA OccurrencesOn ==
    ASSUME NEW r1, NEW r2, NEW ans, RoutinesInv(r1, ans), Grows(r1, r2),
           \A id \in DOMAIN r2 \ DOMAIN r1 : r2[id].tab # "occurrence"
    PROVE  /\ \A id \in DOMAIN r2 : r2[id].tab = "occurrence" => r2[id].task \in Tasks \ {None}
           /\ ~Overlaps(r2)
  <1>1. ASSUME NEW id \in DOMAIN r2, r2[id].tab = "occurrence"
        PROVE  /\ id \in DOMAIN r1 /\ r1[id].tab = "occurrence" /\ r2[id].task = r1[id].task
               /\ IsActive(r2[id]) => IsActive(r1[id])
    BY <1>1 DEF Grows, Evolves
  <1> QED
    BY <1>1 DEF RoutinesInv, Overlaps

LEMMA RoutinesOn ==
    ASSUME NEW r1, NEW r2, NEW ans1, NEW ans2, RoutinesInv(r1, ans1), RowsInv(r1),
           Grows(r1, r2), SameRoutines(r1, r2), ans1 \subseteq ans2
    PROVE  RoutinesInv(r2, ans2)
  <1>1. ASSUME NEW id \in DOMAIN r2, r2[id].tab = "routine" PROVE RoutineInv(r2, ans2, id)
    <2>1. id \in DOMAIN r1 /\ r1[id].tab = "routine"
      BY <1>1 DEF Grows, Evolves, SameRoutines
    <2>2. RoutineInv(r1, ans1, id) /\ r2[id].approves = r1[id].approves /\ (r2[id].enabled => r1[id].enabled)
      BY <2>1 DEF RoutinesInv, SameRoutines
    <2> QED
      BY <2>1, <2>2, RoutineOn
  <1>2. \A id \in DOMAIN r2 \ DOMAIN r1 : r2[id].tab # "occurrence"
    BY DEF SameRoutines
  <1>3. /\ \A id \in DOMAIN r2 : r2[id].tab = "occurrence" => r2[id].task \in Tasks \ {None}
        /\ ~Overlaps(r2)
    BY <1>2, OccurrencesOn
  <1> QED
    BY <1>1, <1>3 DEF RoutinesInv

-----------------------------------------------------------------------------
(* Rows that transactions rewrite and insert                               *)

LEMMA Bumped ==
    ASSUME NEW r, NEW o, Columns(o), o.tab = "object", NEW set,
           DOMAIN set \subseteq {"uri", "guarded", "live", "by", "status", "ready", "text"},
           "live" \in DOMAIN set => set.live \in BOOLEAN,
           NEW n, n = set ++ [o EXCEPT !.rev = @ + 1]
    PROVE  Rewritten(r, o, n)
  <1> PICK m : m = [o EXCEPT !.rev = @ + 1]
    OBVIOUS
  <1>1. /\ DOMAIN m = DOMAIN o /\ m.rev = o.rev + 1
        /\ \A c \in DOMAIN o \ {"rev"} : m[c] = o[c]
        /\ {"tab", "says", "kind", "rev", "live"} \subseteq DOMAIN o /\ o.rev \in Nat \ {0} /\ o.live \in BOOLEAN
    BY DEF Columns
  <1>2. /\ DOMAIN n = DOMAIN o \cup DOMAIN set
        /\ \A c \in DOMAIN o \ DOMAIN set : n[c] = m[c]
        /\ \A c \in DOMAIN set : n[c] = set[c]
    <2>1. n = set ++ m
      OBVIOUS
    <2>2. /\ DOMAIN n = DOMAIN set \cup DOMAIN m
          /\ \A c \in DOMAIN set : n[c] = set[c]
          /\ \A c \in DOMAIN m \ DOMAIN set : n[c] = m[c]
      BY <2>1 DEF ++
    <2> QED
      BY <2>2, <1>1
  <1>3. n.tab = "object" /\ n.kind = o.kind /\ n.rev = o.rev + 1 /\ n.rev \in Nat \ {0} /\ n.live \in BOOLEAN
    BY <1>1, <1>2
  <1>4. o.kind = "source" =>
            /\ {"uri", "guarded", "by", "past", "current"} \subseteq DOMAIN n
            /\ n.past = o.past /\ n.current = o.current /\ (o.past # None => o.current # None)
    BY <1>1, <1>2 DEF Columns
  <1>5. o.kind = "task" => {"status", "ready", "text"} \subseteq DOMAIN n
    BY <1>2 DEF Columns
  <1>6. Columns(n)
    BY <1>1, <1>2, <1>3, <1>4, <1>5 DEF Columns
  <1>7. Evolves(o, n)
    <2>1. o.rev <= n.rev /\ n.rev # o.rev
      BY <1>1, <1>3
    <2> QED
      BY <2>1, <1>3, <1>4 DEF Evolves
  <1>8. \A c \in DOMAIN ForeignKeys \cap DOMAIN n : c \in DOMAIN o /\ n[c] = o[c]
    BY <1>1, <1>2 DEF ForeignKeys
  <1> QED
    BY <1>6, <1>7, <1>8 DEF Rewritten, Keyed

LEMMA Counted ==
    ASSUME NEW r, NEW o, Columns(o), o.tab = "object" PROVE Rewritten(r, o, [o EXCEPT !.rev = @ + 1])
  <1> DEFINE m == [o EXCEPT !.rev = @ + 1]
  <1>1. m = << >> ++ m
    <2>1. DOMAIN (<< >> ++ m) = DOMAIN m /\ \A c \in DOMAIN m : (<< >> ++ m)[c] = m[c]
      BY DEF ++
    <2> QED
      BY DEF ++
  <1> QED
    BY <1>1, Bumped

\* A new Run, and an Event of a Run in the same transaction.
LEMMA NewRunRow ==
    ASSUME NEW kind, NEW status, NEW more, DOMAIN more \subseteq {"asked", "chat"}, kind # "intake",
           NEW x, x = NewRun(kind, status, more)
    PROVE  /\ Columns(x) /\ x.tab = "run" /\ x.kind = kind
           /\ DOMAIN x \cap DOMAIN ForeignKeys = {"chat", "parent", "primary"}
           /\ x.parent = None /\ x.primary = None
           /\ IF "chat" \in DOMAIN more THEN x.chat = more.chat ELSE x.chat = None
  <1> PICK d : d = [tab |-> "run", kind |-> kind, status |-> status, chat |-> None, parent |-> None,
                    primary |-> None, pinned |-> FALSE, trace |-> {}, review |-> 0, says |-> {}]
    OBVIOUS
  <1>1. x = more ++ d
    BY DEF NewRun
  <1>2. /\ DOMAIN x = DOMAIN more \cup DOMAIN d
        /\ \A c \in DOMAIN more : x[c] = more[c]
        /\ \A c \in DOMAIN d \ DOMAIN more : x[c] = d[c]
    BY <1>1 DEF ++
  <1>3. DOMAIN d = {"tab", "kind", "status", "chat", "parent", "primary", "pinned", "trace", "review", "says"}
    OBVIOUS
  <1>4. d.tab = "run" /\ d.kind = kind /\ d.chat = None /\ d.parent = None /\ d.primary = None
    OBVIOUS
  <1>5. x.tab = "run" /\ x.kind = kind /\ x.parent = None /\ x.primary = None
    BY <1>2, <1>3, <1>4
  <1>6. Columns(x)
    BY <1>2, <1>3, <1>5 DEF Columns
  <1>7. DOMAIN x \cap DOMAIN ForeignKeys = {"chat", "parent", "primary"}
    BY <1>2, <1>3 DEF ForeignKeys
  <1>8. "chat" \notin DOMAIN more => x.chat = None
    BY <1>2, <1>3, <1>4
  <1> QED
    BY <1>2, <1>5, <1>6, <1>7, <1>8

LEMMA EventRow ==
    ASSUME NEW run, NEW target, NEW says, NEW x, x = ObjectEvent(run, target, says)
    PROVE  /\ Columns(x) /\ x.tab = "event" /\ x.run = run /\ x.target = target
           /\ DOMAIN x \cap DOMAIN ForeignKeys = {"run"}
  BY DEF ObjectEvent, Columns, ForeignKeys

LEMMA JournalRows ==
    ASSUME NEW key, NEW target, NEW says, NEW J, J = Journal(key, target, says)
    PROVE  /\ key \in DOMAIN J /\ J[key] = NewRun("mutation", "completed", << >>)
           /\ \A id \in DOMAIN J \ {key} : J[id] = ObjectEvent(key, target, says)
  <1>1. PICK A, B : /\ A = Only(key, NewRun("mutation", "completed", << >>))
                    /\ B = Only(key \o ":event", ObjectEvent(key, target, says))
    OBVIOUS
  <1>2. J = A ++ B
    BY <1>1 DEF Journal
  <1>3. /\ DOMAIN J = DOMAIN A \cup DOMAIN B
        /\ \A id \in DOMAIN A : J[id] = A[id]
        /\ \A id \in DOMAIN B \ DOMAIN A : J[id] = B[id]
    BY <1>2 DEF ++
  <1>4. DOMAIN A = {key} /\ A[key] = NewRun("mutation", "completed", << >>)
    BY <1>1, OneRow
  <1>5. DOMAIN B = {key \o ":event"} /\ B[key \o ":event"] = ObjectEvent(key, target, says)
    BY <1>1, OneRow
  <1> QED
    BY <1>3, <1>4, <1>5

\* What journals a write of `target`, beside rows that were there.
LEMMA JournalInserted ==
    ASSUME NEW r1, NEW r2, NEW key, key \notin DOMAIN r1, NEW says,
           NEW target \in DOMAIN r1, r1[target].tab \in {"object", "link"},
           NEW J, J = Journal(key, target, says), key \in DOMAIN r2, r2[key] = J[key],
           NEW id \in DOMAIN J
    PROVE  Inserted(r1, r2, J[id]) /\ J[id].tab \in {"run", "event"}
  <1>1. J[key] = NewRun("mutation", "completed", << >>)
    BY JournalRows
  <1>2. PICK x : x = J[key]
    OBVIOUS
  <1>3. DOMAIN << >> \subseteq {"asked", "chat"} /\ "mutation" # "intake"
    OBVIOUS
  <1>4. /\ Columns(x) /\ x.tab = "run" /\ x.kind = "mutation"
        /\ DOMAIN x \cap DOMAIN ForeignKeys = {"chat", "parent", "primary"}
        /\ x.parent = None /\ x.primary = None /\ x.chat = None
    BY <1>1, <1>2, <1>3, NewRunRow
  <1>5. CASE id = key
    <2>1. Keyed(x, r2)
      BY <1>4 DEF Keyed
    <2> QED
      BY <1>2, <1>4, <1>5, <2>1 DEF Inserted, Resource, IsBatch
  <1>6. CASE id # key
    <2>1. PICK e : e = J[id]
      OBVIOUS
    <2>2. e = ObjectEvent(key, target, says)
      BY <2>1, <1>6, JournalRows
    <2>3. /\ Columns(e) /\ e.tab = "event" /\ e.run = key /\ e.target = target
          /\ DOMAIN e \cap DOMAIN ForeignKeys = {"run"}
      BY <2>2, EventRow
    <2>4. Keyed(e, r2)
      <3>1. ForeignKeys["run"] = "run"
        BY DEF ForeignKeys
      <3> QED
        BY <3>1, <2>3, <1>2, <1>4 DEF Keyed
    <2> QED
      BY <2>1, <2>3, <2>4 DEF Inserted, Resource, IsBatch
  <1> QED
    BY <1>5, <1>6

\* An edit of one row.
LEMMA Edit ==
    ASSUME NEW r1, NEW r2, RowsInv(r1), NEW on \in DOMAIN r1, NEW n, Rewritten(r1, r1[on], n),
           r1[on].tab \notin {"routine", "occurrence"},
           NEW key, key \notin DOMAIN r1, NEW says,
           NEW target \in DOMAIN r1, r1[target].tab \in {"object", "link"},
           r2 = Only(on, n) ++ r1 ++ Journal(key, target, says)
    PROVE  Quiet(r1, r2)
  <1>1. PICK J : J = Journal(key, target, says)
    OBVIOUS
  <1>2. /\ DOMAIN r2 = DOMAIN r1 \cup DOMAIN J /\ r2[on] = n
        /\ \A id \in DOMAIN r1 \ {on} : r2[id] = r1[id]
        /\ \A id \in DOMAIN r2 \ DOMAIN r1 : id \in DOMAIN J /\ r2[id] = J[id]
    <2>1. PICK A, B : A = Only(on, n) /\ B = A ++ r1
      OBVIOUS
    <2>2. r2 = B ++ J
      BY <1>1, <2>1
    <2>3. DOMAIN A = {on} /\ A[on] = n
      BY <2>1, OneRow
    <2>4. /\ DOMAIN B = DOMAIN A \cup DOMAIN r1
          /\ \A id \in DOMAIN A : B[id] = A[id]
          /\ \A id \in DOMAIN r1 \ DOMAIN A : B[id] = r1[id]
      BY <2>1 DEF ++
    <2>5. /\ DOMAIN r2 = DOMAIN B \cup DOMAIN J
          /\ \A id \in DOMAIN B : r2[id] = B[id]
          /\ \A id \in DOMAIN J \ DOMAIN B : r2[id] = J[id]
      BY <2>2 DEF ++
    <2> QED
      BY <2>3, <2>4, <2>5
  <1>3. key \in DOMAIN J
    BY <1>1, JournalRows
  <1>4. key \in DOMAIN r2 /\ r2[key] = J[key]
    BY <1>2, <1>3
  <1>5. \A id \in DOMAIN J : Inserted(r1, r2, J[id]) /\ J[id].tab \in {"run", "event"}
    BY <1>1, <1>4, JournalInserted
  <1>6. \A id \in DOMAIN r1 : Rewritten(r1, r1[id], r2[id])
    BY <1>2, Stays DEF RowsInv, Formed
  <1>7. \A id \in DOMAIN r2 \ DOMAIN r1 : Inserted(r1, r2, r2[id]) /\ r2[id].tab \in {"run", "event"}
    BY <1>2, <1>5
  <1>8. DOMAIN r1 \subseteq DOMAIN r2
    BY <1>2
  <1>9. Extends(r1, r2)
    BY <1>6, <1>7, <1>8, Extending
  <1> QED
    BY <1>2, <1>7, <1>9 DEF Quiet, SameRoutines, SameOccurrences

-----------------------------------------------------------------------------
(* Corrections, edits and Runs only extend the rows                        *)

LEMMA CorrectStep ==
    ASSUME RowsInv(row), NEW q, Correct(q) PROVE Quiet(row, row')
  <1> PICK owner : owner = IF row[q.on].tab = "object" THEN q.on ELSE row[q.on].object
    OBVIOUS
  <1> PICK x : x = [tab |-> "correction", object |-> owner, target |-> q.on, says |-> {q.on}]
    OBVIOUS
  <1> PICK n : n = [row[owner] EXCEPT !.rev = @ + 1]
    OBVIOUS
  <1> PICK A, J, B : A = Only(owner, n) /\ J = Journal(q.key, owner, {}) /\ B = Only(q.id, x)
    OBVIOUS
  <1>1. /\ q.on \in DOMAIN row /\ row[q.on].tab \in {"object", "artifact"}
        /\ q.key \notin DOMAIN row /\ q.id \notin DOMAIN row
        /\ row' = A ++ row ++ J ++ B
    BY DEF Correct, OfTab
  <1>2. owner \in DOMAIN row /\ row[owner].tab = "object"
    <2>1. CASE row[q.on].tab = "object"
      BY <1>1, <2>1
    <2>2. CASE row[q.on].tab = "artifact"
      <3>1. /\ "object" \in DOMAIN ForeignKeys \cap DOMAIN row[q.on] /\ ForeignKeys["object"] = "object"
            /\ row[q.on].object # None
        BY <1>1, <2>2 DEF RowsInv, Formed, Columns, ForeignKeys
      <3> QED
        BY <1>1, <2>2, <3>1 DEF RowsInv, Sound
    <2> QED
      BY <1>1, <2>1, <2>2
  <1>3. DOMAIN A = {owner} /\ A[owner] = n /\ DOMAIN B = {q.id} /\ B[q.id] = x
    BY DEF Only
  <1>4. PICK C, D : C = A ++ row /\ D = C ++ J /\ row' = D ++ B
    BY <1>1
  <1>5. DOMAIN C = DOMAIN row /\ C[owner] = n /\ \A id \in DOMAIN row \ {owner} : C[id] = row[id]
    <2>1. C = [id \in DOMAIN A \cup DOMAIN row |-> IF id \in DOMAIN A THEN A[id] ELSE row[id]]
      BY <1>4 DEF ++
    <2>2. DOMAIN A \cup DOMAIN row = DOMAIN row
      BY <1>2, <1>3
    <2>3. DOMAIN C = DOMAIN row /\ \A id \in DOMAIN row : C[id] = IF id \in DOMAIN A THEN A[id] ELSE row[id]
      BY <2>1, <2>2
    <2> QED
      BY <1>2, <1>3, <2>3
  <1>6. /\ DOMAIN D = DOMAIN row \cup DOMAIN J
        /\ \A id \in DOMAIN row : D[id] = C[id]
        /\ \A id \in DOMAIN J \ DOMAIN row : D[id] = J[id]
    <2>1. /\ DOMAIN D = DOMAIN C \cup DOMAIN J /\ \A id \in DOMAIN C : D[id] = C[id]
          /\ \A id \in DOMAIN J \ DOMAIN C : D[id] = J[id]
      BY <1>4 DEF ++
    <2> QED
      BY <1>5, <2>1
  <1>7. /\ DOMAIN row' = DOMAIN D \cup {q.id}
        /\ \A id \in DOMAIN D : row'[id] = D[id]
        /\ q.id \notin DOMAIN D => row'[q.id] = x
    <2>1. /\ DOMAIN row' = DOMAIN D \cup DOMAIN B /\ \A id \in DOMAIN D : row'[id] = D[id]
          /\ \A id \in DOMAIN B \ DOMAIN D : row'[id] = B[id]
      BY <1>4 DEF ++
    <2> QED
      BY <1>3, <2>1
  <1>8. /\ DOMAIN row \subseteq DOMAIN row' /\ row'[owner] = n
        /\ \A id \in DOMAIN row \ {owner} : row'[id] = row[id]
        /\ \A id \in DOMAIN J \ DOMAIN row : id \in DOMAIN row' /\ row'[id] = J[id]
        /\ \A id \in DOMAIN row' \ DOMAIN row : id \in DOMAIN J \/ row'[id] = x
    BY <1>2, <1>5, <1>6, <1>7
  <1>9. Rewritten(row, row[owner], n)
    BY <1>2, Counted DEF RowsInv, Formed
  <1>10. \A id \in DOMAIN row : Rewritten(row, row[id], row'[id])
    BY <1>8, <1>9, Stays DEF RowsInv, Formed
  <1>11. q.key \in DOMAIN J
    BY JournalRows
  <1>12. q.key \in DOMAIN row' /\ row'[q.key] = J[q.key]
    BY <1>1, <1>8, <1>11
  <1>13. row[owner].tab \in {"object", "link"}
    BY <1>2
  <1>14. PICK r2 : r2 = row'
    OBVIOUS
  <1>15. \A id \in DOMAIN J : Inserted(row, r2, J[id]) /\ J[id].tab \in {"run", "event"}
    <2>1. q.key \notin DOMAIN row /\ q.key \in DOMAIN r2 /\ r2[q.key] = J[q.key]
      BY <1>1, <1>12, <1>14
    <2> QED
      BY <2>1, <1>2, <1>13, JournalInserted
  <1>16. Inserted(row, r2, x)
    <2>1. Columns(x) /\ x.tab = "correction"
      BY DEF Columns
    <2>2. DOMAIN ForeignKeys \cap DOMAIN x = {"object"} /\ ForeignKeys["object"] = "object" /\ x.object = owner
      BY DEF ForeignKeys
    <2>3. owner \in DOMAIN r2 /\ r2[owner].tab = "object"
      BY <1>2, <1>8, <1>9, <1>14 DEF Rewritten, Evolves
    <2>4. Keyed(x, r2)
      BY <2>2, <2>3 DEF Keyed
    <2> QED
      BY <2>1, <2>4 DEF Inserted, Resource, IsBatch
  <1>17. \A id \in DOMAIN r2 \ DOMAIN row : Inserted(row, r2, r2[id]) /\ r2[id].tab \in {"run", "event", "correction"}
    <2>1. x.tab = "correction"
      OBVIOUS
    <2> SUFFICES ASSUME NEW id \in DOMAIN r2 \ DOMAIN row
                 PROVE  Inserted(row, r2, r2[id]) /\ r2[id].tab \in {"run", "event", "correction"}
      OBVIOUS
    <2>2. CASE id \in DOMAIN J
      <3>1. r2[id] = J[id]
        BY <2>2, <1>8, <1>14
      <3> QED
        BY <2>2, <3>1, <1>15
    <2>3. CASE r2[id] = x
      BY <2>1, <2>3, <1>16
    <2> QED
      BY <2>2, <2>3, <1>8, <1>14
  <1>18. Extends(row, r2)
    BY <1>8, <1>10, <1>14, <1>17, Extending
  <1> QED
    BY <1>2, <1>8, <1>14, <1>17, <1>18 DEF Quiet, SameRoutines, SameOccurrences

LEMMA RunRewritten ==
    ASSUME NEW r, NEW o, Columns(o), o.tab = "run", NEW n, DOMAIN n = DOMAIN o,
           \A c \in DOMAIN o \ {"status", "parent", "primary", "trace", "review", "pinned", "says"} : n[c] = o[c],
           Terminal(o) => n.status = o.status,
           o.kind = "intake" => n.primary = o.primary,
           n.primary \in {o.primary, None} \/ (n.primary \in DOMAIN r /\ r[n.primary].tab = "object"),
           n.parent \in {o.parent, None} \/ (n.parent \in DOMAIN r /\ r[n.parent].tab = "run")
    PROVE  Rewritten(r, o, n)
  <1>1. /\ {"tab", "says", "kind", "status", "chat", "parent", "primary", "trace", "review", "pinned"} \subseteq DOMAIN o
        /\ o.kind = "intake" => {"manifest", "payload"} \subseteq DOMAIN o
    BY DEF Columns
  <1>2. n.tab = "run" /\ n.kind = o.kind
    BY <1>1
  <1>3. o.kind = "intake" => n.manifest = o.manifest /\ n.payload = o.payload
    BY <1>1
  <1>4. Columns(n)
    BY <1>1, <1>2 DEF Columns
  <1>5. Evolves(o, n)
    BY <1>2, <1>3 DEF Evolves
  <1>6. ASSUME Keyed(o, r) PROVE Keyed(n, r)
    <2> SUFFICES ASSUME NEW c \in DOMAIN ForeignKeys \cap DOMAIN n, n[c] # None
                 PROVE  n[c] \in DOMAIN r /\ r[n[c]].tab = ForeignKeys[c]
      BY DEF Keyed
    <2>1. ForeignKeys["primary"] = "object" /\ ForeignKeys["parent"] = "run"
      BY DEF ForeignKeys
    <2>2. c \in DOMAIN o /\ c \notin {"status", "trace", "review", "pinned", "says"}
      BY DEF ForeignKeys
    <2>3. n[c] = o[c] => n[c] \in DOMAIN r /\ r[n[c]].tab = ForeignKeys[c]
      BY <2>2, <1>6 DEF Keyed
    <2>4. CASE c \notin {"primary", "parent"}
      BY <2>2, <2>3, <2>4
    <2>5. CASE c = "primary"
      BY <2>1, <2>3, <2>5
    <2>6. CASE c = "parent"
      BY <2>1, <2>3, <2>6
    <2> QED
      BY <2>4, <2>5, <2>6
  <1> QED
    BY <1>4, <1>5, <1>6 DEF Rewritten

LEMMA AppendedRow ==
    ASSUME NEW o, Columns(o), o.tab = "run", NEW entry, NEW says, NEW n, n = Appended(o, entry, says)
    PROVE  DOMAIN n = DOMAIN o /\ \A c \in DOMAIN o \ {"trace", "says"} : n[c] = o[c]
  BY DEF Appended

\* One Run is rewritten.
LEMMA RewriteOne ==
    ASSUME NEW r1, NEW r2, RowsInv(r1), NEW run \in DOMAIN r1, r1[run].tab = "run", NEW n,
           Rewritten(r1, r1[run], n), r2 = Only(run, n) ++ r1
    PROVE  Quiet(r1, r2)
  <1>1. PICK A : A = Only(run, n)
    OBVIOUS
  <1>2. DOMAIN A = {run} /\ A[run] = n
    BY <1>1, OneRow
  <1>3. r2 = A ++ r1
    BY <1>1
  <1>4. DOMAIN r2 = DOMAIN r1 /\ r2[run] = n /\ \A id \in DOMAIN r1 \ {run} : r2[id] = r1[id]
    BY <1>2, <1>3 DEF ++
  <1>5. \A id \in DOMAIN r1 : Rewritten(r1, r1[id], r2[id])
    BY <1>4, Stays DEF RowsInv, Formed
  <1>6. Extends(r1, r2)
    BY <1>4, <1>5, Extending
  <1> QED
    BY <1>4, <1>6 DEF Quiet, SameRoutines, SameOccurrences

LEMMA EditSourceStep ==
    ASSUME RowsInv(row), NEW q, Request(q), EditSource(q) PROVE Quiet(row, row')
  <1>1. PICK n : n = q.set ++ [row[q.on] EXCEPT !.rev = @ + 1]
    OBVIOUS
  <1>2. PICK r2 : r2 = row'
    OBVIOUS
  <1>3. q.on \in DOMAIN row /\ row[q.on].tab = "object" /\ q.key \notin DOMAIN row
    BY DEF EditSource, Objects, OfTab
  <1>4. r2 = Only(q.on, n) ++ row ++ Journal(q.key, q.on, {})
    BY <1>1, <1>2 DEF EditSource
  <1>5. /\ DOMAIN q.set \subseteq {"uri", "guarded", "live", "by", "status", "ready", "text"}
        /\ "live" \in DOMAIN q.set => q.set.live \in BOOLEAN
    BY DEF EditSource, Request
  <1>6. Columns(row[q.on])
    BY <1>3 DEF RowsInv, Formed
  <1>7. Rewritten(row, row[q.on], n)
    BY <1>1, <1>3, <1>5, <1>6, Bumped
  <1>8. row[q.on].tab \notin {"routine", "occurrence"} /\ row[q.on].tab \in {"object", "link"}
    BY <1>3
  <1> QED
    BY <1>2, <1>3, <1>4, <1>7, <1>8, Edit

LEMMA ArchiveLinkStep ==
    ASSUME RowsInv(row), NEW q, ArchiveLink(q) PROVE Quiet(row, row')
  <1>1. PICK n : n = [row[q.on] EXCEPT !.live = FALSE]
    OBVIOUS
  <1>2. PICK r2 : r2 = row'
    OBVIOUS
  <1>3. q.on \in DOMAIN row /\ row[q.on].tab = "link" /\ q.key \notin DOMAIN row
    BY DEF ArchiveLink, OfTab
  <1>4. r2 = Only(q.on, n) ++ row ++ Journal(q.key, q.on, {})
    BY <1>1, <1>2 DEF ArchiveLink
  <1>5. Rewritten(row, row[q.on], n)
    <2>1. PICK o : o = row[q.on]
      OBVIOUS
    <2>2. Columns(o) /\ o.tab = "link" /\ n = [o EXCEPT !.live = FALSE]
      BY <1>1, <1>3, <2>1 DEF RowsInv, Formed
    <2>3. DOMAIN n = DOMAIN o /\ \A c \in DOMAIN o \ {"live"} : n[c] = o[c]
      BY <2>2
    <2>4. {"tab", "says", "src", "kind", "dst", "live"} \subseteq DOMAIN o /\ None \notin {o.src, o.dst}
      BY <2>2 DEF Columns
    <2>5. n.tab = "link" /\ n.src = o.src /\ n.kind = o.kind /\ n.dst = o.dst
      BY <2>2, <2>3, <2>4
    <2>6. Columns(n)
      BY <2>3, <2>4, <2>5 DEF Columns
    <2>7. Evolves(o, n)
      BY <2>2, <2>5 DEF Evolves
    <2>8. \A c \in DOMAIN ForeignKeys \cap DOMAIN n : c \in DOMAIN o /\ n[c] = o[c]
      BY <2>3 DEF ForeignKeys
    <2> QED
      BY <2>1, <2>6, <2>7, <2>8 DEF Rewritten, Keyed
  <1>6. row[q.on].tab \notin {"routine", "occurrence"} /\ row[q.on].tab \in {"object", "link"}
    BY <1>3
  <1> QED
    BY <1>2, <1>3, <1>4, <1>5, <1>6, Edit

LEMMA PausedRow ==
    ASSUME NEW r, NEW o, Columns(o), o.tab = "routine", NEW n, n = [o EXCEPT !.enabled = FALSE, !.next = None]
    PROVE  Rewritten(r, o, n) /\ n.approves = o.approves /\ ~n.enabled /\ n.tab = "routine"
  <1>1. {"tab", "says", "task", "enabled", "approves", "next"} \subseteq DOMAIN o
    BY DEF Columns
  <1>2. /\ DOMAIN n = DOMAIN o /\ n.enabled = FALSE /\ n.next = None
        /\ \A c \in DOMAIN o \ {"enabled", "next"} : n[c] = o[c]
    BY <1>1
  <1>3. n.tab = "routine" /\ n.task = o.task /\ n.approves = o.approves
    BY <1>1, <1>2
  <1>4. Columns(n)
    BY <1>1, <1>2, <1>3 DEF Columns
  <1>5. Evolves(o, n)
    BY <1>3 DEF Evolves
  <1>6. \A c \in DOMAIN ForeignKeys \cap DOMAIN n : c \in DOMAIN o /\ n[c] = o[c]
    BY <1>2 DEF ForeignKeys
  <1> QED
    BY <1>2, <1>3, <1>4, <1>5, <1>6 DEF Rewritten, Keyed

LEMMA EditTaskStep ==
    ASSUME RowsInv(row), NEW q, Request(q), EditTask(q) PROVE Quiet(row, row')
  <1>1. PICK n : n = q.set ++ [row[q.on] EXCEPT !.rev = @ + 1]
    OBVIOUS
  <1>2. PICK A, P, J : A = Only(q.on, n) /\ P = Paused(q.on) /\ J = Journal(q.key, q.on, {})
    OBVIOUS
  <1>3. q.on \in DOMAIN row /\ row[q.on].tab = "object" /\ q.key \notin DOMAIN row
    BY DEF EditTask, Objects, OfTab
  <1>4. PICK r2, B : r2 = row' /\ B = A ++ P /\ r2 = B ++ J
    BY <1>1, <1>2 DEF EditTask
  <1>5. /\ DOMAIN q.set \subseteq {"uri", "guarded", "live", "by", "status", "ready", "text"}
        /\ "live" \in DOMAIN q.set => q.set.live \in BOOLEAN
    BY DEF EditTask, Request
  <1>6. Columns(row[q.on])
    BY <1>3 DEF RowsInv, Formed
  <1>7. Rewritten(row, row[q.on], n)
    BY <1>1, <1>3, <1>5, <1>6, Bumped
  <1>8. /\ DOMAIN P = DOMAIN row
        /\ \A id \in DOMAIN row : P[id] = row[id] \/ (row[id].tab = "routine" /\ P[id] = [row[id] EXCEPT !.enabled = FALSE, !.next = None])
    <2>1. CASE RoutineOf(q.on) \in Routines
      <3>1. P = [row EXCEPT ![RoutineOf(q.on)].enabled = FALSE, ![RoutineOf(q.on)].next = None]
        BY <1>2, <2>1 DEF Paused
      <3>2. RoutineOf(q.on) \in DOMAIN row /\ row[RoutineOf(q.on)].tab = "routine"
        BY <2>1 DEF Routines, OfTab
      <3> QED
        BY <3>1, <3>2
    <2>2. CASE RoutineOf(q.on) \notin Routines
      BY <1>2, <2>2 DEF Paused
    <2> QED
      BY <2>1, <2>2
  <1>9. /\ DOMAIN r2 = DOMAIN row \cup DOMAIN J /\ r2[q.on] = n
        /\ \A id \in DOMAIN row \ {q.on} : r2[id] = P[id]
        /\ \A id \in DOMAIN r2 \ DOMAIN row : id \in DOMAIN J /\ r2[id] = J[id]
    <2>1. DOMAIN A = {q.on} /\ A[q.on] = n
      BY <1>2 DEF Only
    <2>3. DOMAIN P = DOMAIN row /\ q.on \in DOMAIN row /\ B = A ++ P
      BY <1>3, <1>4, <1>8
    <2>2. DOMAIN B = DOMAIN row /\ B[q.on] = n /\ \A id \in DOMAIN row \ {q.on} : B[id] = P[id]
      BY <2>1, <2>3 DEF ++
    <2> QED
      BY <1>3, <1>4, <2>2 DEF ++
  <1>10. \A id \in DOMAIN row : row[id].tab = "routine" =>
            Rewritten(row, row[id], r2[id]) /\ r2[id].approves = row[id].approves /\ (r2[id].enabled => row[id].enabled)
    <2> SUFFICES ASSUME NEW id \in DOMAIN row, row[id].tab = "routine"
                 PROVE  /\ Rewritten(row, row[id], r2[id]) /\ r2[id].approves = row[id].approves
                        /\ r2[id].enabled => row[id].enabled
      OBVIOUS
    <2>1. Columns(row[id]) /\ r2[id] = P[id]
      BY <1>3, <1>9 DEF RowsInv, Formed
    <2>2. CASE P[id] = row[id]
      BY <2>1, <2>2, Stays
    <2>3. CASE P[id] = [row[id] EXCEPT !.enabled = FALSE, !.next = None]
      <3>1. PICK o, m : o = row[id] /\ m = P[id]
        OBVIOUS
      <3>2. Columns(o) /\ o.tab = "routine" /\ m = [o EXCEPT !.enabled = FALSE, !.next = None]
        BY <2>1, <2>3, <3>1
      <3>3. Rewritten(row, o, m) /\ m.approves = o.approves /\ ~m.enabled
        BY <3>2, PausedRow
      <3> QED
        BY <2>1, <3>1, <3>3
    <2> QED
      BY <1>8, <2>2, <2>3
  <1>11. \A id \in DOMAIN row : row[id].tab # "routine" /\ id # q.on => r2[id] = row[id]
    BY <1>8, <1>9
  <1>12. \A id \in DOMAIN row : Rewritten(row, row[id], r2[id])
    BY <1>7, <1>9, <1>10, <1>11, Stays DEF RowsInv, Formed
  <1>13. q.key \in DOMAIN r2 /\ r2[q.key] = J[q.key] /\ row[q.on].tab \in {"object", "link"}
    BY <1>2, <1>3, <1>9, JournalRows
  <1>14. \A id \in DOMAIN J : Inserted(row, r2, J[id]) /\ J[id].tab \in {"run", "event"}
    BY <1>2, <1>3, <1>13, JournalInserted
  <1>15. \A id \in DOMAIN r2 \ DOMAIN row : Inserted(row, r2, r2[id]) /\ r2[id].tab \in {"run", "event"}
    BY <1>9, <1>14
  <1>16. Extends(row, r2)
    BY <1>9, <1>12, <1>15, Extending
  <1> QED
    BY <1>3, <1>4, <1>10, <1>11, <1>15, <1>16 DEF Quiet, SameRoutines, SameOccurrences

LEMMA StartStep ==
    ASSUME RowsInv(row), NEW q, Start(q) PROVE Quiet(row, row')
  <1>1. PICK more : more = [asked |-> q.input, chat |-> q.chat]
    OBVIOUS
  <1>2. PICK x, r2 : x = NewRun("workflow", "running", more) /\ r2 = row'
    OBVIOUS
  <1>3. r2 = row ++ Only(q.run, x) /\ (q.run \notin DOMAIN row => q.chat \in Objects("chat") \cup {None})
    BY <1>1, <1>2 DEF Start
  <1>4. /\ DOMAIN r2 = DOMAIN row \cup {q.run}
        /\ \A id \in DOMAIN row : r2[id] = row[id]
        /\ q.run \notin DOMAIN row => r2[q.run] = x
    BY <1>3 DEF ++, Only
  <1>5. /\ Columns(x) /\ x.tab = "run" /\ x.kind = "workflow"
        /\ DOMAIN x \cap DOMAIN ForeignKeys = {"chat", "parent", "primary"}
        /\ x.parent = None /\ x.primary = None /\ x.chat = q.chat
    <2>1. DOMAIN more \subseteq {"asked", "chat"} /\ "chat" \in DOMAIN more /\ more.chat = q.chat /\ "workflow" # "intake"
      BY <1>1
    <2> QED
      BY <1>2, <2>1, NewRunRow
  <1>6. ASSUME q.run \notin DOMAIN row PROVE Inserted(row, r2, x)
    <2>1. q.chat = None \/ (q.chat \in DOMAIN r2 /\ r2[q.chat].tab = "object")
      BY <1>3, <1>4, <1>6 DEF Objects, OfTab
    <2>2. ForeignKeys["chat"] = "object"
      BY DEF ForeignKeys
    <2>3. Keyed(x, r2)
      BY <1>5, <2>1, <2>2 DEF Keyed
    <2> QED
      BY <1>5, <2>3 DEF Inserted, Resource, IsBatch
  <1>7. \A id \in DOMAIN row : Rewritten(row, row[id], r2[id])
    BY <1>4, Stays DEF RowsInv, Formed
  <1>8. \A id \in DOMAIN r2 \ DOMAIN row : Inserted(row, r2, r2[id]) /\ r2[id].tab = "run"
    BY <1>4, <1>5, <1>6
  <1>9. DOMAIN row \subseteq DOMAIN r2
    BY <1>4
  <1>10. Extends(row, r2)
    BY <1>7, <1>8, <1>9, Extending
  <1> QED
    BY <1>2, <1>4, <1>8, <1>10 DEF Quiet, SameRoutines, SameOccurrences

LEMMA RewriteStep ==
    ASSUME RowsInv(row), NEW q, NEW how, NEW n, Rewrite(q, how, n), q.run \in DOMAIN row, row[q.run].tab = "run",
           Rewritten(row, row[q.run], n)
    PROVE  Quiet(row, row')
  <1>1. PICK r2 : r2 = row'
    OBVIOUS
  <1>2. r2 = Only(q.run, n) ++ row
    BY <1>1 DEF Rewrite
  <1> QED
    BY <1>1, <1>2, RewriteOne

LEMMA AppendedStep ==
    ASSUME RowsInv(row), NEW run \in DOMAIN row, row[run].tab = "run", NEW entry, NEW says, NEW n,
           n = Appended(row[run], entry, says)
    PROVE  Rewritten(row, row[run], n)
  <1>1. PICK o : o = row[run]
    OBVIOUS
  <1>2. Columns(o) /\ o.tab = "run"
    BY <1>1 DEF RowsInv, Formed
  <1>3. n = Appended(o, entry, says)
    BY <1>1
  <1>4. DOMAIN n = DOMAIN o /\ \A c \in DOMAIN o \ {"trace", "says"} : n[c] = o[c]
    BY <1>2, <1>3, AppendedRow
  <1>5. {"status", "primary", "parent"} \subseteq DOMAIN o
    BY <1>2 DEF Columns
  <1>6. n.status = o.status /\ n.primary = o.primary /\ n.parent = o.parent
    BY <1>4, <1>5
  <1>7. /\ \A c \in DOMAIN o \ {"status", "parent", "primary", "trace", "review", "pinned", "says"} : n[c] = o[c]
        /\ Terminal(o) => n.status = o.status
        /\ o.kind = "intake" => n.primary = o.primary
        /\ n.primary \in {o.primary, None} \/ (n.primary \in DOMAIN row /\ row[n.primary].tab = "object")
        /\ n.parent \in {o.parent, None} \/ (n.parent \in DOMAIN row /\ row[n.parent].tab = "run")
    BY <1>4, <1>6
  <1>8. Rewritten(row, o, n)
    BY <1>2, <1>4, <1>7, RunRewritten
  <1> QED
    BY <1>1, <1>8

LEMMA TraceStep ==
    ASSUME RowsInv(row), NEW q, Trace(q) \/ Charge(q) PROVE Quiet(row, row')
  <1>1. q.run \in DOMAIN row /\ row[q.run].tab = "run"
    BY DEF Trace, Charge, RunIs, OfTab
  <1>2. CASE Trace(q)
    <2>1. PICK n : n = Appended(row[q.run], q.entry, q.says)
      OBVIOUS
    <2>2. Rewrite(q, "appended", n)
      BY <1>2, <2>1 DEF Trace
    <2>3. Rewritten(row, row[q.run], n)
      BY <1>1, <2>1, AppendedStep
    <2> QED
      BY <1>1, <2>2, <2>3, RewriteStep
  <1>3. CASE Charge(q)
    <2>1. PICK n : n = Appended(row[q.run], q.entry, {})
      OBVIOUS
    <2>2. Rewrite(q, "appended", n)
      BY <1>3, <2>1 DEF Charge
    <2>3. Rewritten(row, row[q.run], n)
      BY <1>1, <2>1, AppendedStep
    <2> QED
      BY <1>1, <2>2, <2>3, RewriteStep
  <1> QED
    BY <1>2, <1>3

LEMMA ReviewStep ==
    ASSUME RowsInv(row), NEW q, Review(q) PROVE Quiet(row, row')
  <1>1. q.run \in DOMAIN row /\ row[q.run].tab = "run"
    BY DEF Review, OfTab
  <1>2. PICK o, n : o = row[q.run] /\ n = [o EXCEPT !.review = @ + 1, !.pinned = q.pinned]
    OBVIOUS
  <1>3. Columns(o) /\ o.tab = "run" /\ Rewrite(q, "reviewed", n)
    BY <1>1, <1>2 DEF RowsInv, Formed, Review
  <1>4. {"status", "primary", "parent"} \subseteq DOMAIN o
    BY <1>3 DEF Columns
  <1>5. /\ DOMAIN n = DOMAIN o
        /\ \A c \in DOMAIN o \ {"status", "parent", "primary", "trace", "review", "pinned", "says"} : n[c] = o[c]
        /\ Terminal(o) => n.status = o.status
        /\ o.kind = "intake" => n.primary = o.primary
        /\ n.primary \in {o.primary, None} \/ (n.primary \in DOMAIN row /\ row[n.primary].tab = "object")
        /\ n.parent \in {o.parent, None} \/ (n.parent \in DOMAIN row /\ row[n.parent].tab = "run")
    BY <1>2, <1>4
  <1>6. Rewritten(row, o, n)
    BY <1>3, <1>5, RunRewritten
  <1>7. Rewritten(row, row[q.run], n)
    BY <1>2, <1>6
  <1> QED
    BY <1>1, <1>3, <1>7, RewriteStep

LEMMA FinishInteractionStep ==
    ASSUME RowsInv(row), NEW q, FinishInteraction(q) PROVE Quiet(row, row')
  <1>1. q.run \in DOMAIN row /\ row[q.run].tab = "run" /\ row[q.run].kind = "slack_interaction"
    BY DEF FinishInteraction, RunIs, OfTab
  <1>2. PICK r, affected : r = row[q.run] /\ affected = {o \in q.says : Live(o)}
    OBVIOUS
  <1>3. PICK primary : primary = IF r.primary = None /\ affected # {} THEN CHOOSE o \in affected : TRUE ELSE r.primary
    OBVIOUS
  <1>4. PICK linked : linked = [r EXCEPT !.says = @ \cup affected]
    OBVIOUS
  <1>5. PICK done : done = IF r.status # "running" THEN linked ELSE [linked EXCEPT !.status = q.status, !.primary = primary]
    OBVIOUS
  <1>6. PICK n : n = Appended(done, "interaction-finished", {})
    OBVIOUS
  <1>7. Rewrite(q, "finished", n)
    BY <1>2, <1>3, <1>4, <1>5, <1>6 DEF FinishInteraction
  <1>8. Columns(r) /\ r.tab = "run" /\ r.kind = "slack_interaction"
    BY <1>1, <1>2 DEF RowsInv, Formed
  <1>9. {"tab", "kind", "status", "primary", "parent", "trace", "says"} \subseteq DOMAIN r
    BY <1>8 DEF Columns
  <1>10. primary = r.primary \/ (primary \in DOMAIN row /\ row[primary].tab = "object")
    <2>1. CASE r.primary = None /\ affected # {}
      <3>1. primary \in affected
        BY <1>3, <2>1
      <3> QED
        BY <3>1, <1>2 DEF Live, OfTab
    <2>2. CASE ~(r.primary = None /\ affected # {})
      BY <1>3, <2>2
    <2> QED
      BY <2>1, <2>2
  <1>11. DOMAIN linked = DOMAIN r /\ \A c \in DOMAIN r \ {"says"} : linked[c] = r[c]
    BY <1>4
  <1>12. /\ DOMAIN done = DOMAIN r
         /\ \A c \in DOMAIN r \ {"says", "status", "primary"} : done[c] = r[c]
         /\ r.status # "running" => done.status = r.status
         /\ done.primary = r.primary \/ done.primary = primary
    BY <1>5, <1>9, <1>11
  <1>13. done.tab = "run" /\ done.kind = "slack_interaction"
    BY <1>8, <1>9, <1>12
  <1>14. Columns(done)
    BY <1>8, <1>12, <1>13 DEF Columns
  <1>15. DOMAIN n = DOMAIN done /\ \A c \in DOMAIN done \ {"trace", "says"} : n[c] = done[c]
    BY <1>6, <1>13, <1>14, AppendedRow
  <1>16. n.status = done.status /\ n.primary = done.primary /\ n.parent = r.parent
    BY <1>9, <1>12, <1>15
  <1>17. /\ DOMAIN n = DOMAIN r
         /\ \A c \in DOMAIN r \ {"status", "parent", "primary", "trace", "review", "pinned", "says"} : n[c] = r[c]
         /\ Terminal(r) => n.status = r.status
         /\ r.kind = "intake" => n.primary = r.primary
         /\ n.primary \in {r.primary, None} \/ (n.primary \in DOMAIN row /\ row[n.primary].tab = "object")
         /\ n.parent \in {r.parent, None} \/ (n.parent \in DOMAIN row /\ row[n.parent].tab = "run")
    <2>1. Terminal(r) => r.status # "running"
      BY DEF Terminal
    <2> QED
      BY <1>8, <1>10, <1>12, <1>15, <1>16, <2>1
  <1>18. Rewritten(row, r, n)
    BY <1>8, <1>17, RunRewritten
  <1>19. Rewritten(row, row[q.run], n)
    BY <1>2, <1>18
  <1> QED
    BY <1>1, <1>7, <1>19, RewriteStep

LEMMA FinishStep ==
    ASSUME RowsInv(row), NEW q, Finish(q) PROVE Quiet(row, row')
  <1>1. q.run \in DOMAIN row /\ row[q.run].tab = "run" /\ row[q.run].kind = "workflow"
    BY DEF Finish, RunIs, OfTab
  <1>2. CASE row[q.run].status # "running"
    <2>1. row' = row
      BY <1>2 DEF Finish
    <2> QED
      BY <2>1, ExtendsSelf
  <1>3. CASE row[q.run].status = "running"
    <2>1. PICK o, n : o = row[q.run] /\ n = [o EXCEPT !.status = q.status, !.primary = q.primary,
                                                      !.says = @ \cup ({q.child, q.primary} \ {None})]
      OBVIOUS
    <2>2. PICK m, C : /\ m = [row[q.child] EXCEPT !.parent = q.run]
                      /\ C = IF q.child = None THEN << >> ELSE Only(q.child, m)
      OBVIOUS
    <2>3. PICK r2, A, B : r2 = row' /\ A = Only(q.run, n) /\ B = A ++ C
      OBVIOUS
    <2>4. /\ r2 = B ++ row /\ q.primary \in OfTab("object") \cup {None}
          /\ q.child # None => ChildOf(q.run, q.child)
      BY <1>3, <2>1, <2>2, <2>3 DEF Finish
    <2>5. q.child # None => q.child \in DOMAIN row /\ row[q.child].tab = "run" /\ row[q.child].kind = "intake"
      BY <2>4 DEF ChildOf, RunIs, OfTab
    <2>6. /\ DOMAIN C \subseteq DOMAIN row
          /\ \A id \in DOMAIN C : C[id] = m /\ id = q.child /\ q.child # None
      <3>1. CASE q.child = None
        BY <2>2, <3>1
      <3>2. CASE q.child # None
        BY <2>2, <2>5, <3>2 DEF Only
      <3> QED
        BY <3>1, <3>2
    <2>7. DOMAIN A = {q.run} /\ A[q.run] = n
      BY <2>3 DEF Only
    <2>8. /\ DOMAIN B = {q.run} \cup DOMAIN C /\ B[q.run] = n
          /\ \A id \in DOMAIN C \ {q.run} : B[id] = C[id]
      BY <2>3, <2>7 DEF ++
    <2>9. /\ DOMAIN r2 = DOMAIN row
          /\ \A id \in DOMAIN B : r2[id] = B[id]
          /\ \A id \in DOMAIN row \ DOMAIN B : r2[id] = row[id]
      <3>1. DOMAIN B \subseteq DOMAIN row
        BY <1>1, <2>6, <2>8
      <3> QED
        BY <2>4, <3>1 DEF ++
    <2>10. Rewritten(row, row[q.run], n)
      <3>1. Columns(o) /\ o.tab = "run" /\ o.kind = "workflow" /\ o.status = "running"
        BY <1>1, <1>3, <2>1 DEF RowsInv, Formed
      <3>2. {"status", "primary", "parent", "kind"} \subseteq DOMAIN o
        BY <3>1 DEF Columns
      <3>3. /\ DOMAIN n = DOMAIN o /\ n.primary = q.primary /\ n.parent = o.parent
            /\ \A c \in DOMAIN o \ {"status", "parent", "primary", "trace", "review", "pinned", "says"} : n[c] = o[c]
        BY <2>1, <3>2
      <3>4. ~Terminal(o) /\ o.kind # "intake"
        BY <3>1 DEF Terminal
      <3>5. n.primary \in {o.primary, None} \/ (n.primary \in DOMAIN row /\ row[n.primary].tab = "object")
        BY <2>4, <3>3 DEF OfTab
      <3>6. /\ n.parent \in {o.parent, None} \/ (n.parent \in DOMAIN row /\ row[n.parent].tab = "run")
            /\ Terminal(o) => n.status = o.status
            /\ o.kind = "intake" => n.primary = o.primary
        BY <3>3, <3>4
      <3>7. Rewritten(row, o, n)
        BY <3>1, <3>3, <3>5, <3>6, RunRewritten
      <3> QED
        BY <2>1, <3>7
    <2>11. ASSUME q.child # None PROVE Rewritten(row, row[q.child], m)
      <3>1. PICK x : x = row[q.child]
        OBVIOUS
      <3>2. Columns(x) /\ x.tab = "run" /\ m = [x EXCEPT !.parent = q.run]
        BY <2>2, <2>5, <2>11, <3>1 DEF RowsInv, Formed
      <3>3. {"status", "primary", "parent"} \subseteq DOMAIN x
        BY <3>2 DEF Columns
      <3>4. /\ DOMAIN m = DOMAIN x /\ m.parent = q.run
            /\ \A c \in DOMAIN x \ {"status", "parent", "primary", "trace", "review", "pinned", "says"} : m[c] = x[c]
            /\ Terminal(x) => m.status = x.status
            /\ x.kind = "intake" => m.primary = x.primary
            /\ m.primary \in {x.primary, None} \/ (m.primary \in DOMAIN row /\ row[m.primary].tab = "object")
        BY <3>2, <3>3
      <3>5. m.parent \in {x.parent, None} \/ (m.parent \in DOMAIN row /\ row[m.parent].tab = "run")
        BY <1>1, <3>4
      <3>6. Rewritten(row, x, m)
        BY <3>2, <3>4, <3>5, RunRewritten
      <3> QED
        BY <3>1, <3>6
    <2>12. \A id \in DOMAIN row : Rewritten(row, row[id], r2[id])
      <3> SUFFICES ASSUME NEW id \in DOMAIN row PROVE Rewritten(row, row[id], r2[id])
        OBVIOUS
      <3>1. CASE id = q.run
        BY <2>8, <2>9, <2>10, <3>1
      <3>2. CASE id # q.run /\ id \in DOMAIN C
        <4>1. r2[id] = m /\ id = q.child /\ q.child # None
          BY <2>6, <2>8, <2>9, <3>2
        <4> QED
          BY <4>1, <2>11
      <3>3. CASE id # q.run /\ id \notin DOMAIN C
        <4>1. r2[id] = row[id]
          BY <2>8, <2>9, <3>3
        <4> QED
          BY <4>1, Stays DEF RowsInv, Formed
      <3> QED
        BY <3>1, <3>2, <3>3
    <2>13. Extends(row, r2)
      BY <2>9, <2>12, Extending
    <2>14. \A id \in DOMAIN row : row[id].tab \in {"routine", "occurrence"} => r2[id] = row[id]
      BY <1>1, <2>5, <2>6, <2>8, <2>9
    <2> QED
      BY <2>3, <2>9, <2>13, <2>14 DEF Quiet, SameRoutines, SameOccurrences
  <1> QED
    BY <1>2, <1>3

-----------------------------------------------------------------------------
(* Occurrences are updated, claimed and started                            *)

LEMMA OccurrenceRewritten ==
    ASSUME NEW r, NEW o, Columns(o), o.tab = "occurrence", NEW n, DOMAIN n = DOMAIN o,
           \A c \in DOMAIN o \ {"status", "thread"} : n[c] = o[c],
           n.status \in Outcomes \cup {"running"}, n.status = "running" => IsActive(o)
    PROVE  Rewritten(r, o, n) /\ n.tab = "occurrence"
  <1>1. {"tab", "says", "task", "at", "rev", "status", "thread"} \subseteq DOMAIN o
    BY DEF Columns
  <1>2. n.tab = "occurrence" /\ n.task = o.task
    BY <1>1
  <1>3. Columns(n)
    BY <1>1, <1>2 DEF Columns
  <1>4. Evolves(o, n)
    BY <1>2 DEF Evolves, IsActive, Outcomes
  <1>5. \A c \in DOMAIN ForeignKeys \cap DOMAIN n : c \in DOMAIN o /\ n[c] = o[c]
    BY DEF ForeignKeys
  <1> QED
    BY <1>2, <1>3, <1>4, <1>5 DEF Rewritten, Keyed

\* An update journals on the Task, and changes no other occurrence.
LEMMA UpdatesStep ==
    ASSUME RowsInv(row), RoutinesInv(row, answers), NEW o \in Occurrences, NEW status, NEW thread,
           status \in Outcomes \cup {"running"}, status = "running" => Active(o), Updates(o, status, thread)
    PROVE  /\ Extends(row, row') /\ SameRoutines(row, row')
           /\ \A id \in DOMAIN row : row[id].tab = "occurrence" /\ id # o => row'[id] = row[id]
           /\ row'[o].status = status /\ row'[o].thread = thread
  <1>1. PICK x, n : x = row[o] /\ n = [x EXCEPT !.status = status, !.thread = thread]
    OBVIOUS
  <1>2. o \in DOMAIN row /\ x.tab = "occurrence" /\ Columns(x)
    BY <1>1 DEF Occurrences, OfTab, RowsInv, Formed
  <1>3. PICK key : key = o \o ":" \o status \o ":" \o ToString(thread)
    OBVIOUS
  <1>4. PICK B, J, r2 : /\ B = [row EXCEPT ![o].status = status, ![o].thread = thread]
                        /\ J = IF key \in DOMAIN row THEN << >> ELSE Journal(key, x.task, {o})
                        /\ r2 = row'
    OBVIOUS
  <1>5. r2 = B ++ J
    BY <1>1, <1>3, <1>4 DEF Updates
  <1>6. DOMAIN B = DOMAIN row /\ B[o] = n /\ \A id \in DOMAIN row \ {o} : B[id] = row[id]
    BY <1>1, <1>2, <1>4
  <1>7. /\ DOMAIN r2 = DOMAIN row \cup DOMAIN J /\ r2[o] = n
        /\ \A id \in DOMAIN row \ {o} : r2[id] = row[id]
        /\ \A id \in DOMAIN r2 \ DOMAIN row : id \in DOMAIN J /\ r2[id] = J[id]
    BY <1>2, <1>5, <1>6 DEF ++
  <1>8. /\ DOMAIN n = DOMAIN x /\ n.status = status /\ n.thread = thread
        /\ \A c \in DOMAIN x \ {"status", "thread"} : n[c] = x[c]
    <2>1. {"status", "thread"} \subseteq DOMAIN x
      BY <1>2 DEF Columns
    <2> QED
      BY <1>1, <2>1
  <1>9. n.status = "running" => IsActive(x)
    BY <1>1, <1>8 DEF Active, IsActive
  <1>10. Rewritten(row, x, n)
    BY <1>2, <1>8, <1>9, OccurrenceRewritten
  <1>11. \A id \in DOMAIN row : Rewritten(row, row[id], r2[id])
    BY <1>1, <1>7, <1>10, Stays DEF RowsInv, Formed
  <1>12. x.task \in DOMAIN row /\ row[x.task].tab = "object"
    <2>1. x.task # None
      BY <1>1, <1>2 DEF RoutinesInv
    <2>2. "task" \in DOMAIN ForeignKeys \cap DOMAIN x /\ ForeignKeys["task"] = "object"
      BY <1>2 DEF Columns, ForeignKeys
    <2> QED
      BY <1>1, <1>2, <2>1, <2>2 DEF RowsInv, Sound
  <1>13. \A id \in DOMAIN r2 \ DOMAIN row : Inserted(row, r2, r2[id]) /\ r2[id].tab \in {"run", "event"}
    <2>1. CASE key \in DOMAIN row
      BY <1>4, <1>7, <2>1
    <2>2. CASE key \notin DOMAIN row
      <3>1. J = Journal(key, x.task, {o})
        BY <1>4, <2>2
      <3>2. key \in DOMAIN r2 /\ r2[key] = J[key] /\ row[x.task].tab \in {"object", "link"}
        BY <1>7, <1>12, <2>2, <3>1, JournalRows
      <3>3. \A id \in DOMAIN J : Inserted(row, r2, J[id]) /\ J[id].tab \in {"run", "event"}
        BY <1>12, <2>2, <3>1, <3>2, JournalInserted
      <3> QED
        BY <1>7, <3>3
    <2> QED
      BY <2>1, <2>2
  <1>14. Extends(row, r2)
    BY <1>7, <1>11, <1>13, Extending
  <1>15. SameRoutines(row, r2)
    BY <1>1, <1>2, <1>7, <1>13 DEF SameRoutines
  <1> QED
    BY <1>4, <1>7, <1>8, <1>14, <1>15

LEMMA ConfigureStep ==
    ASSUME RowsInv(row), RoutinesInv(row, answers), ClockInv, NEW q, Request(q), Configure(q)
    PROVE  Extends(row, row') /\ SameOccurrences(row, row') /\ RoutinesInv(row', answers')
  <1>1. PICK t, id, rev : t = q.on /\ id = RoutineOf(t) /\ rev = row[t].rev + 1
    OBVIOUS
  <1>2. PICK n, x : /\ n = [row[t] EXCEPT !.rev = rev]
                    /\ x = [tab |-> "routine", task |-> t, enabled |-> q.enabled, approves |-> rev,
                            next |-> IF q.enabled THEN now + 1 ELSE None, says |-> {}]
    OBVIOUS
  <1>3. PICK A, B, J, r2, ans2 : /\ A = Only(t, n) /\ B = Only(id, x) /\ J = Journal(q.key, t, {})
                                 /\ r2 = row' /\ ans2 = answers'
    OBVIOUS
  <1>4. /\ t \in DOMAIN row /\ row[t].tab = "object" /\ row[t].kind = "task"
        /\ q.key \notin DOMAIN row /\ q.key # id
        /\ id \in DOMAIN row => row[id].tab = "routine"
        /\ r2 = A ++ B ++ row ++ J
        /\ t \in Tasks /\ q.enabled \in BOOLEAN
    BY <1>1, <1>2, <1>3 DEF Configure, Objects, OfTab, Routines, Request
  <1>5. ans2 = IF q.enabled THEN answers \cup {[asked |-> q, how |-> "approved", on |-> row[t].text]} ELSE answers
    BY <1>1, <1>3 DEF Configure
  <1>6. id # t
    BY <1>4
  <1>7. DOMAIN A = {t} /\ A[t] = n /\ DOMAIN B = {id} /\ B[id] = x
    BY <1>3 DEF Only
  <1>8. PICK C, D : C = A ++ B /\ D = C ++ row /\ r2 = D ++ J
    BY <1>4
  <1>9. DOMAIN C = {t, id} /\ C[t] = n /\ C[id] = x
    BY <1>6, <1>7, <1>8 DEF ++
  <1>10. DOMAIN D = DOMAIN row \cup {id} /\ D[t] = n /\ D[id] = x /\ \A i \in DOMAIN row \ {t, id} : D[i] = row[i]
    BY <1>4, <1>8, <1>9 DEF ++
  <1>11. /\ DOMAIN r2 = DOMAIN row \cup {id} \cup DOMAIN J /\ r2[t] = n /\ r2[id] = x
         /\ \A i \in DOMAIN row \ {t, id} : r2[i] = row[i]
         /\ \A i \in DOMAIN r2 \ DOMAIN row : i # id => i \in DOMAIN J /\ r2[i] = J[i]
    BY <1>4, <1>8, <1>10 DEF ++
  <1>12. Columns(row[t]) /\ row[t].rev \in Nat \ {0}
    BY <1>4 DEF RowsInv, Formed, Columns
  <1>13. n = [row[t] EXCEPT !.rev = @ + 1]
    BY <1>1, <1>2
  <1>14. Rewritten(row, row[t], n)
    BY <1>4, <1>12, <1>13, Counted
  <1>15. n.rev = rev /\ n.text = row[t].text /\ n.tab = "object" /\ n.kind = "task" /\ rev \in Nat
    <2>1. {"tab", "kind", "rev", "text"} \subseteq DOMAIN row[t]
      BY <1>4, <1>12 DEF Columns
    <2> QED
      BY <1>1, <1>2, <1>4, <1>12, <2>1
  <1>16. /\ x.tab = "routine" /\ x.task = t /\ x.enabled = q.enabled /\ x.approves = rev
         /\ x.next = (IF q.enabled THEN now + 1 ELSE None)
         /\ DOMAIN x = {"tab", "task", "enabled", "approves", "next", "says"}
    BY <1>2
  <1>17. Columns(x)
    <2>1. now + 1 # None
      BY IdsAssumption DEF ClockInv
    <2> QED
      BY <1>4, <1>16, <2>1 DEF Columns
  <1>18. \A r : t \in DOMAIN r /\ r[t].tab = "object" => Keyed(x, r)
    <2>1. DOMAIN ForeignKeys \cap DOMAIN x = {"task"} /\ ForeignKeys["task"] = "object"
      BY <1>16 DEF ForeignKeys
    <2> QED
      BY <1>16, <2>1 DEF Keyed
  <1>19. ASSUME id \in DOMAIN row PROVE Rewritten(row, row[id], x)
    <2>1. row[id].task = t
      <3>1. RoutineInv(row, answers, id)
        BY <1>4, <1>19 DEF RoutinesInv
      <3> QED
        BY <1>1, <1>4, <3>1, IdsAssumption DEF RoutineInv
    <2>2. Evolves(row[id], x)
      BY <1>4, <1>16, <1>19, <2>1 DEF Evolves
    <2> QED
      BY <1>4, <1>17, <1>18, <2>2 DEF Rewritten
  <1>20. \A i \in DOMAIN row : Rewritten(row, row[i], r2[i])
    <2> SUFFICES ASSUME NEW i \in DOMAIN row PROVE Rewritten(row, row[i], r2[i])
      OBVIOUS
    <2>1. CASE i = t
      BY <1>11, <1>14, <2>1
    <2>2. CASE i = id
      BY <1>11, <1>19, <2>2
    <2>3. CASE i \notin {t, id}
      BY <1>11, <2>3, Stays DEF RowsInv, Formed
    <2> QED
      BY <2>1, <2>2, <2>3
  <1>21. q.key \in DOMAIN r2 /\ r2[q.key] = J[q.key] /\ row[t].tab \in {"object", "link"}
    BY <1>3, <1>4, <1>11, JournalRows
  <1>22. \A i \in DOMAIN J : Inserted(row, r2, J[i]) /\ J[i].tab \in {"run", "event"}
    BY <1>3, <1>4, <1>21, JournalInserted
  <1>23. Inserted(row, r2, x)
    <2>1. t \in DOMAIN r2 /\ r2[t].tab = "object"
      BY <1>4, <1>11, <1>15
    <2> QED
      BY <1>16, <1>17, <1>18, <2>1 DEF Inserted, Resource, IsBatch
  <1>24. \A i \in DOMAIN r2 \ DOMAIN row : Inserted(row, r2, r2[i]) /\ (i # id => r2[i].tab \in {"run", "event"})
    BY <1>11, <1>22, <1>23
  <1>25. Extends(row, r2)
    BY <1>11, <1>20, <1>24, Extending
  <1>26. SameOccurrences(row, r2)
    BY <1>4, <1>11 DEF SameOccurrences
  <1>27. answers \subseteq ans2
    BY <1>5
  <1>28. RoutinesInv(r2, ans2)
    <2>1. RoutineInv(r2, ans2, id)
      <3>1. r2[id].task = t /\ r2[id].approves = rev /\ r2[id].enabled = q.enabled /\ r2[t] = n
        BY <1>11, <1>16
      <3>2. q.enabled => n.text \in Approvals(ans2, t)
        <4> SUFFICES ASSUME q.enabled PROVE n.text \in Approvals(ans2, t)
          OBVIOUS
        <4>1. PICK a : a = [asked |-> q, how |-> "approved", on |-> row[t].text]
          OBVIOUS
        <4>2. a \in ans2 /\ a.how = "approved" /\ a.asked.on = t /\ a.on = n.text
          BY <1>1, <1>5, <1>15, <4>1
        <4> QED
          BY <4>2 DEF Approvals
      <3>3. t \in DOMAIN r2 /\ n.tab = "object" /\ n.kind = "task" /\ n.rev = rev /\ rev <= rev
        BY <1>4, <1>11, <1>15
      <3> QED
        BY <1>1, <1>4, <1>15, <3>1, <3>2, <3>3 DEF RoutineInv
    <2>2. ASSUME NEW i \in DOMAIN r2, r2[i].tab = "routine", i # id PROVE RoutineInv(r2, ans2, i)
      <3>1. i \in DOMAIN row /\ r2[i] = row[i]
        BY <1>11, <1>15, <1>24, <2>2
      <3>2. RoutineInv(row, answers, i) /\ row[i].tab = "routine"
        BY <2>2, <3>1 DEF RoutinesInv
      <3>3. r2[i].approves = row[i].approves /\ (r2[i].enabled => row[i].enabled)
        BY <3>1
      <3> QED
        BY <1>25, <1>27, <3>1, <3>2, <3>3, RoutineOn DEF Extends
    <2>3. \A i \in DOMAIN r2 \ DOMAIN row : r2[i].tab # "occurrence"
      BY <1>11, <1>16, <1>24
    <2>4. /\ \A i \in DOMAIN r2 : r2[i].tab = "occurrence" => r2[i].task \in Tasks \ {None}
          /\ ~Overlaps(r2)
      BY <1>25, <2>3, OccurrencesOn DEF Extends
    <2> QED
      BY <2>1, <2>2, <2>4 DEF RoutinesInv
  <1> QED
    BY <1>3, <1>25, <1>26, <1>28

\* What a poll claims: of the rows that are there it rewrites pending occurrences
\* and routines that are due, and it adds an occurrence beside no active one.
ClaimedRow(o, n) ==
    \/ n = o
    \/ /\ o.tab = "occurrence" /\ o.status = "pending"
       /\ n = [o EXCEPT !.status = "skipped"]
    \/ /\ o.tab = "routine" /\ o.enabled = TRUE
       /\ n = [o EXCEPT !.next = now + 1]
AddedOccurrence(r2, id, t) ==
    /\ t \in DOMAIN row /\ row[t].tab = "object"
    /\ id = Occurrence(t, row[RoutineOf(t)].next)
    /\ r2[id] = [tab |-> "occurrence", task |-> t, at |-> row[RoutineOf(t)].next,
                 rev |-> row[RoutineOf(t)].approves, status |-> "pending", thread |-> None, says |-> {}]
    /\ \A o \in DOMAIN row : row[o].tab = "occurrence" /\ row[o].task = t => ~IsActive(r2[o])
Claims(r2) ==
    /\ DOMAIN row \subseteq DOMAIN r2
    /\ \A id \in DOMAIN row : ClaimedRow(row[id], r2[id])
    /\ \A id \in DOMAIN r2 \ DOMAIN row : \E t \in Tasks : AddedOccurrence(r2, id, t)
    /\ \A o \in Occurrences \cap DOMAIN starts : r2[o] = row[o]

LEMMA ClaimRows ==
    ASSUME RowsInv(row), RoutinesInv(row, answers), ClaimDue
    PROVE  Claims(row')
  <1>1. PICK skipped, due : /\ skipped = {o \in Occurrences : Stale(o)}
                            /\ due = {t \in {row[r].task : r \in Routines} : Due(t)}
    OBVIOUS
  <1>2. PICK new : new = {t \in due : Inserts(t, skipped)}
    OBVIOUS
  <1>3. PICK A, B, C :
            /\ A = [i \in {Occurrence(t, row[RoutineOf(t)].next) : t \in new} |->
                       LET t == CHOOSE x \in new : Occurrence(x, row[RoutineOf(x)].next) = i
                       IN [tab |-> "occurrence", task |-> t, at |-> row[RoutineOf(t)].next,
                           rev |-> row[RoutineOf(t)].approves, status |-> "pending", thread |-> None, says |-> {}]]
            /\ B = [o \in skipped |-> [row[o] EXCEPT !.status = "skipped"]]
            /\ C = [r \in {RoutineOf(t) : t \in due} |-> [row[r] EXCEPT !.next = now + 1]]
    OBVIOUS
  <1>4. PICK r2, D, E : r2 = row' /\ D = A ++ B /\ E = D ++ C
    OBVIOUS
  <1>5. r2 = E ++ row
    BY <1>1, <1>2, <1>3, <1>4 DEF ClaimDue
  <1>6. \A id \in DOMAIN A : id \notin DOMAIN row
    <2> SUFFICES ASSUME NEW id \in DOMAIN A PROVE id \notin DOMAIN row
      OBVIOUS
    <2>1. PICK t \in new : id = Occurrence(t, row[RoutineOf(t)].next)
      BY <1>3
    <2> QED
      BY <1>2, <2>1 DEF Inserts
  <1>7. DOMAIN B = skipped /\ \A o \in skipped : o \in DOMAIN row /\ row[o].tab = "occurrence" /\ row[o].status = "pending"
    BY <1>1, <1>3 DEF Occurrences, OfTab, Stale
  <1>8. \A id \in DOMAIN C : id \in DOMAIN row /\ row[id].tab = "routine" /\ row[id].enabled = TRUE
    <2> SUFFICES ASSUME NEW id \in DOMAIN C PROVE id \in DOMAIN row /\ row[id].tab = "routine" /\ row[id].enabled = TRUE
      OBVIOUS
    <2>1. PICK t \in due : id = RoutineOf(t)
      BY <1>3
    <2>2. Due(t)
      BY <1>1
    <2>3. RoutineOf(t) \in Routines /\ row[RoutineOf(t)].enabled
      BY <2>2 DEF Due, Approved
    <2>4. id \in DOMAIN row /\ row[id].tab = "routine"
      BY <2>1, <2>3 DEF Routines, OfTab
    <2>5. row[id].enabled \in BOOLEAN
      BY <2>4 DEF RowsInv, Formed, Columns
    <2> QED
      BY <2>1, <2>3, <2>4, <2>5
  <1>9. /\ DOMAIN D = DOMAIN A \cup skipped
        /\ \A id \in DOMAIN A : D[id] = A[id]
        /\ \A id \in skipped : D[id] = B[id]
    BY <1>4, <1>6, <1>7 DEF ++
  <1>10. /\ DOMAIN E = DOMAIN A \cup skipped \cup DOMAIN C
         /\ \A id \in DOMAIN A : E[id] = A[id]
         /\ \A id \in skipped : E[id] = B[id]
         /\ \A id \in DOMAIN C : E[id] = C[id]
    <2>1. \A id \in DOMAIN C : id \notin DOMAIN D
      BY <1>6, <1>7, <1>8, <1>9
    <2> QED
      BY <1>4, <1>9, <2>1 DEF ++
  <1>11. /\ DOMAIN r2 = DOMAIN row \cup DOMAIN A
         /\ \A id \in DOMAIN A : r2[id] = A[id]
         /\ \A id \in skipped : r2[id] = B[id]
         /\ \A id \in DOMAIN C : r2[id] = C[id]
         /\ \A id \in DOMAIN row : id \notin skipped \cup DOMAIN C => r2[id] = row[id]
    BY <1>5, <1>6, <1>7, <1>8, <1>10 DEF ++
  <1>12. ASSUME NEW id \in DOMAIN row PROVE ClaimedRow(row[id], r2[id])
    <2>1. CASE id \in skipped
      <3>1. r2[id] = [row[id] EXCEPT !.status = "skipped"]
        BY <1>3, <1>11, <2>1
      <3> QED
        BY <1>7, <2>1, <3>1 DEF ClaimedRow
    <2>2. CASE id \in DOMAIN C
      <3>1. r2[id] = [row[id] EXCEPT !.next = now + 1]
        BY <1>3, <1>11, <2>2
      <3> QED
        BY <1>8, <2>2, <3>1 DEF ClaimedRow
    <2>3. CASE id \notin skipped \cup DOMAIN C
      BY <1>11, <2>3 DEF ClaimedRow
    <2> QED
      BY <2>1, <2>2, <2>3
  <1>13. ASSUME NEW id \in DOMAIN r2 \ DOMAIN row PROVE \E t \in Tasks : AddedOccurrence(r2, id, t)
    <2>1. id \in DOMAIN A /\ r2[id] = A[id]
      BY <1>11
    <2>2. \E x \in new : Occurrence(x, row[RoutineOf(x)].next) = id
      BY <1>3, <2>1
    <2>3. PICK t : t = CHOOSE x \in new : Occurrence(x, row[RoutineOf(x)].next) = id
      OBVIOUS
    <2>4. t \in new /\ Occurrence(t, row[RoutineOf(t)].next) = id
      BY <2>2, <2>3
    <2>5. r2[id] = [tab |-> "occurrence", task |-> t, at |-> row[RoutineOf(t)].next,
                    rev |-> row[RoutineOf(t)].approves, status |-> "pending", thread |-> None, says |-> {}]
      BY <1>3, <2>1, <2>3
    <2>6. PICK r \in Routines : t = row[r].task
      BY <1>1, <1>2, <2>4
    <2>7. t \in Tasks /\ t \in DOMAIN row /\ row[t].tab = "object"
      BY <2>6 DEF RoutinesInv, RoutineInv, Routines, OfTab
    <2>8. ASSUME NEW o \in DOMAIN row, row[o].tab = "occurrence", row[o].task = t PROVE ~IsActive(r2[o])
      <3>1. Active(o) => o \in skipped
        BY <1>2, <2>4, <2>8 DEF Inserts, OccurrencesOf, Occurrences, OfTab
      <3>2. CASE o \in skipped
        <4>1. r2[o] = [row[o] EXCEPT !.status = "skipped"]
          BY <1>3, <1>11, <3>2
        <4>2. "status" \in DOMAIN row[o]
          BY <2>8 DEF RowsInv, Formed, Columns
        <4> QED
          BY <4>1, <4>2 DEF IsActive
      <3>3. CASE o \notin skipped
        <4>1. r2[o] = row[o]
          BY <1>8, <1>11, <2>8, <3>3
        <4> QED
          BY <3>1, <3>3, <4>1 DEF IsActive, Active
      <3> QED
        BY <3>2, <3>3
    <2> QED
      BY <2>4, <2>5, <2>7, <2>8 DEF AddedOccurrence
  <1>14. ASSUME NEW o \in Occurrences \cap DOMAIN starts PROVE r2[o] = row[o]
    <2>1. o \in DOMAIN row /\ row[o].tab = "occurrence"
      BY DEF Occurrences, OfTab
    <2>2. o \notin skipped
      BY <1>1 DEF ClaimDue
    <2>3. o \notin DOMAIN C
      BY <1>8, <2>1
    <2> QED
      BY <1>11, <2>1, <2>2, <2>3
  <1>15. Claims(r2)
    BY <1>11, <1>12, <1>13, <1>14 DEF Claims
  <1> QED
    BY <1>4, <1>15

LEMMA ClaimDueStep ==
    ASSUME RowsInv(row), RoutinesInv(row, answers), ClockInv, ClaimDue
    PROVE  /\ Extends(row, row') /\ RoutinesInv(row', answers)
           /\ \A id \in DOMAIN row : row[id].tab = "occurrence" /\ row'[id] # row[id] =>
                 row[id].status = "pending" /\ row'[id].thread = row[id].thread
           /\ \A o \in Occurrences \cap DOMAIN starts : row'[o] = row[o]
  <1>1. PICK r2 : r2 = row'
    OBVIOUS
  <1>2. Claims(r2)
    BY <1>1, ClaimRows
  <1>3. ASSUME NEW id \in DOMAIN row
        PROVE  /\ Rewritten(row, row[id], r2[id])
               /\ row[id].tab = "routine" => r2[id].approves = row[id].approves /\ (r2[id].enabled => row[id].enabled)
               /\ row[id].tab = "occurrence" /\ r2[id] # row[id] =>
                     row[id].status = "pending" /\ r2[id].thread = row[id].thread
    <2>1. PICK o, n : o = row[id] /\ n = r2[id]
      OBVIOUS
    <2>2. Columns(o)
      BY <2>1 DEF RowsInv, Formed
    <2>3. CASE n = o
      <3>1. Rewritten(row, o, o)
        BY <2>2, Stays
      <3> QED
        BY <2>1, <2>3, <3>1
    <2>4. CASE o.tab = "occurrence" /\ o.status = "pending" /\ n = [o EXCEPT !.status = "skipped"]
      <3>1. {"status", "thread"} \subseteq DOMAIN o
        BY <2>2, <2>4 DEF Columns
      <3>2. /\ DOMAIN n = DOMAIN o /\ n.status = "skipped" /\ n.thread = o.thread
            /\ \A c \in DOMAIN o \ {"status", "thread"} : n[c] = o[c]
        BY <2>4, <3>1
      <3>3. n.status \in Outcomes \cup {"running"} /\ (n.status = "running" => IsActive(o))
        BY <3>2 DEF Outcomes
      <3>4. Rewritten(row, o, n)
        BY <2>2, <2>4, <3>2, <3>3, OccurrenceRewritten
      <3> QED
        BY <2>1, <2>4, <3>2, <3>4
    <2>5. CASE o.tab = "routine" /\ o.enabled = TRUE /\ n = [o EXCEPT !.next = now + 1]
      <3>1. {"tab", "says", "task", "enabled", "approves", "next"} \subseteq DOMAIN o
        BY <2>2, <2>5 DEF Columns
      <3>2. DOMAIN n = DOMAIN o /\ n.next = now + 1 /\ \A c \in DOMAIN o \ {"next"} : n[c] = o[c]
        BY <2>5, <3>1
      <3>3. n.tab = "routine" /\ n.task = o.task /\ n.approves = o.approves /\ n.enabled = TRUE
        BY <2>5, <3>1, <3>2
      <3>4. now + 1 # None
        BY IdsAssumption DEF ClockInv
      <3>5. Columns(n)
        BY <3>1, <3>2, <3>3, <3>4 DEF Columns
      <3>6. Evolves(o, n)
        BY <2>5, <3>3 DEF Evolves
      <3>7. \A c \in DOMAIN ForeignKeys \cap DOMAIN n : c \in DOMAIN o /\ n[c] = o[c]
        BY <3>2 DEF ForeignKeys
      <3>8. Rewritten(row, o, n)
        BY <3>5, <3>6, <3>7 DEF Rewritten, Keyed
      <3> QED
        BY <2>1, <2>5, <3>3, <3>8
    <2> QED
      BY <1>2, <2>1, <2>3, <2>4, <2>5 DEF Claims, ClaimedRow
  <1>4. ASSUME NEW id \in DOMAIN r2 \ DOMAIN row
        PROVE  /\ Inserted(row, r2, r2[id]) /\ r2[id].tab = "occurrence" /\ r2[id].task \in Tasks \ {None}
               /\ id = Occurrence(r2[id].task, row[RoutineOf(r2[id].task)].next)
               /\ \A o \in DOMAIN row : row[o].tab = "occurrence" /\ row[o].task = r2[id].task => ~IsActive(r2[o])
    <2>1. PICK t \in Tasks : AddedOccurrence(r2, id, t)
      BY <1>2 DEF Claims
    <2>2. PICK x : x = r2[id]
      OBVIOUS
    <2>3. /\ x.tab = "occurrence" /\ x.task = t /\ x.status = "pending"
          /\ DOMAIN x = {"tab", "task", "at", "rev", "status", "thread", "says"}
      BY <2>1, <2>2 DEF AddedOccurrence
    <2>4. t \in DOMAIN r2 /\ r2[t].tab = "object" /\ t # None
      BY <1>2, <1>3, <2>1 DEF Claims, AddedOccurrence, Rewritten, Evolves, RowsInv, Nameless
    <2>5. Keyed(x, r2)
      <3>1. DOMAIN ForeignKeys \cap DOMAIN x = {"task"} /\ ForeignKeys["task"] = "object"
        BY <2>3 DEF ForeignKeys
      <3> QED
        BY <2>3, <2>4, <3>1 DEF Keyed
    <2>6. Columns(x)
      BY <2>3 DEF Columns
    <2>7. Inserted(row, r2, x)
      BY <2>3, <2>5, <2>6 DEF Inserted, Resource, IsBatch
    <2>8. \A o \in DOMAIN row : row[o].tab = "occurrence" /\ row[o].task = t => ~IsActive(r2[o])
      BY <2>1 DEF AddedOccurrence
    <2>9. id = Occurrence(t, row[RoutineOf(t)].next)
      BY <2>1 DEF AddedOccurrence
    <2> QED
      BY <2>2, <2>3, <2>4, <2>7, <2>8, <2>9
  <1>5. Extends(row, r2)
    BY <1>2, <1>3, <1>4, Extending DEF Claims
  <1>6. ASSUME NEW id \in DOMAIN r2, r2[id].tab = "routine" PROVE RoutineInv(r2, answers, id)
    <2>1. id \in DOMAIN row
      BY <1>4, <1>6
    <2>2. row[id].tab = "routine"
      BY <1>3, <1>6, <2>1 DEF Rewritten, Evolves
    <2>3. RoutineInv(row, answers, id) /\ r2[id].approves = row[id].approves /\ (r2[id].enabled => row[id].enabled)
      BY <1>3, <2>1, <2>2 DEF RoutinesInv
    <2> QED
      BY <1>5, <2>1, <2>2, <2>3, RoutineOn DEF Extends
  <1>7. ASSUME NEW id \in DOMAIN row, r2[id].tab = "occurrence"
        PROVE  /\ row[id].tab = "occurrence" /\ r2[id].task = row[id].task
               /\ IsActive(r2[id]) => IsActive(row[id])
    BY <1>3, <1>7 DEF Rewritten, Evolves
  <1>8. \A id \in DOMAIN r2 : r2[id].tab = "occurrence" => r2[id].task \in Tasks \ {None}
    BY <1>4, <1>7 DEF RoutinesInv
  <1>9. ~Overlaps(r2)
    <2> SUFFICES ASSUME NEW o \in DOMAIN r2, NEW p \in DOMAIN r2, o # p,
                        r2[o].tab = "occurrence", r2[p].tab = "occurrence", r2[o].task = r2[p].task,
                        IsActive(r2[o]), IsActive(r2[p])
                 PROVE  FALSE
      BY DEF Overlaps
    <2>1. CASE o \in DOMAIN row /\ p \in DOMAIN row
      BY <1>7, <2>1 DEF RoutinesInv, Overlaps
    <2>2. CASE o \notin DOMAIN row /\ p \in DOMAIN row
      BY <1>4, <1>7, <2>2
    <2>3. CASE o \in DOMAIN row /\ p \notin DOMAIN row
      BY <1>4, <1>7, <2>3
    <2>4. CASE o \notin DOMAIN row /\ p \notin DOMAIN row
      BY <1>4, <2>4
    <2> QED
      BY <2>1, <2>2, <2>3, <2>4
  <1>10. RoutinesInv(r2, answers)
    BY <1>6, <1>8, <1>9 DEF RoutinesInv
  <1>11. \A o \in Occurrences \cap DOMAIN starts : r2[o] = row[o]
    BY <1>2 DEF Claims
  <1> QED
    BY <1>1, <1>3, <1>5, <1>10, <1>11

-----------------------------------------------------------------------------
(* What is prepared                                                        *)

\* The names in a batch that is acceptable, and the ids derived from them.
LEMMA BatchNames ==
    ASSUME NEW q \in Captures, Request(q), NEW b, b = Batch(q), Acceptable(b)
    PROVE  /\ b.key \in Keys /\ b.key = KeyOf(q)
           /\ NamesApart(b)
           /\ \A x \in b.objects \cup b.contents \cup b.edges : x.name \in AllNames
           /\ IsFiniteSet(b.objects) /\ IsFiniteSet(b.contents) /\ IsFiniteSet(b.edges)
           /\ \A x, y \in b.objects \cup b.contents \cup b.edges : Id(b.key, x.name) = Id(b.key, y.name) => x = y
           /\ \A x \in b.objects \cup b.contents \cup b.edges : Id(b.key, x.name) # None
  <1>1. b.key \in Keys /\ b.key = KeyOf(q)
    BY DEF Keys, KeyOf
  <1>2. \A x \in b.objects \cup b.contents \cup b.edges : x.name \in AllNames
    BY DEF AllNames, NamesIn, Resources_
  <1>3. q.do \in {"capture", "batch"}
    BY DEF Captures
  <1>4. /\ IsFiniteSet(b.objects) /\ IsFiniteSet(b.contents) /\ IsFiniteSet(b.edges)
        /\ \A o \in b.objects : DOMAIN o = {"name", "kind", "uri"}
        /\ \A c \in b.contents : DOMAIN c = {"name", "of", "body", "whole"}
        /\ \A e \in b.edges : DOMAIN e = {"name", "src", "kind", "dst"}
    BY <1>3 DEF Request
  <1>5. \A x, y \in b.objects \cup b.contents \cup b.edges : x.name = y.name => x = y
    BY DEF Acceptable
  <1>6. "uri" \in {"name", "kind", "uri"} /\ "uri" \notin {"name", "of", "body", "whole"} /\ "uri" \notin {"name", "src", "kind", "dst"}
    OBVIOUS
  <1>7. "of" \in {"name", "of", "body", "whole"} /\ "of" \notin {"name", "src", "kind", "dst"}
    OBVIOUS
  <1>8. \A x \in b.objects, y \in b.contents \cup b.edges : x.name # y.name
    <2> SUFFICES ASSUME NEW x \in b.objects, NEW y \in b.contents \cup b.edges, x = y PROVE FALSE
      BY <1>5
    <2>1. "uri" \in DOMAIN x
      BY <1>4
    <2>2. "uri" \notin DOMAIN y
      BY <1>4
    <2> QED
      BY <2>1, <2>2
  <1>9. \A x \in b.contents, y \in b.edges : x.name # y.name
    <2> SUFFICES ASSUME NEW x \in b.contents, NEW y \in b.edges, x = y PROVE FALSE
      BY <1>5
    <2>1. "of" \in DOMAIN x
      BY <1>4
    <2>2. "of" \notin DOMAIN y
      BY <1>4
    <2> QED
      BY <2>1, <2>2
  <1>10. \A x, y \in b.objects \cup b.contents \cup b.edges : Id(b.key, x.name) = Id(b.key, y.name) => x = y
    BY <1>1, <1>2, <1>5, IdsAssumption
  <1>11. \A x \in b.objects \cup b.contents \cup b.edges : Id(b.key, x.name) # None
    BY <1>1, <1>2, IdsAssumption
  <1> QED
    BY <1>1, <1>2, <1>4, <1>8, <1>9, <1>10, <1>11 DEF NamesApart

\* What a finite set is mapped onto is finite.
LEMMA FiniteImage ==
    ASSUME NEW S, IsFiniteSet(S), NEW T, NEW f, f \in [S -> T], \A x \in T : \E y \in S : f[y] = x
    PROVE  IsFiniteSet(T)
  <1>1. f \in Surjection(S, T)
    BY DEF Surjection
  <1> QED
    BY <1>1, FS_Surjection

\* Connections prepared for a batch.
EdgesInv(b, E) ==
    /\ IsFiniteSet(E) /\ DistinctIds(E) /\ Named_(b.key, E, b.edges)
    /\ \A l \in E : None \notin {l.src, l.dst}

LEMMA ResolvedRef ==
    ASSUME RowsInv(row), NEW q \in Captures, Request(q), NEW b, b = Batch(q), Acceptable(b),
           NEW ref, Resolvable(b, ref)
    PROVE  Resolved(b, ref) # None
  <1>1. CASE ref \in Names(b)
    <2>1. PICK o \in b.objects : ref = o.name
      BY <1>1 DEF Names
    <2>2. Id(b.key, o.name) # None
      BY BatchNames
    <2> QED
      BY <1>1, <2>1, <2>2 DEF Resolved
  <1>2. CASE ref \notin Names(b)
    <2>1. ref \in DOMAIN row /\ row[ref].tab = "object"
      BY <1>2 DEF Resolvable, Live, OfTab
    <2> QED
      BY <1>2, <2>1 DEF Resolved, RowsInv, Nameless
  <1> QED
    BY <1>1, <1>2

LEMMA PreparedEdges ==
    ASSUME RowsInv(row), NEW q \in Captures, Request(q), NEW b, b = Batch(q), Acceptable(b),
           NEW E, E = Prepared(b).edges
    PROVE  EdgesInv(b, E)
  <1> DEFINE edge(e) == [id |-> Id(b.key, e.name), src |-> Resolved(b, e.src), kind |-> e.kind,
                         dst |-> Resolved(b, e.dst)]
  <1>1. E = {edge(e) : e \in b.edges}
    BY DEF Prepared
  <1>2. /\ IsFiniteSet(b.edges)
        /\ \A x, y \in b.edges : Id(b.key, x.name) = Id(b.key, y.name) => x = y
    BY BatchNames
  <1>3. IsFiniteSet(E)
    <2>1. PICK f : f = [e \in b.edges |-> edge(e)]
      OBVIOUS
    <2> HIDE DEF edge
    <2>2. f \in [b.edges -> E] /\ \A x \in E : \E y \in b.edges : f[y] = x
      BY <1>1, <2>1
    <2> QED
      BY <1>2, <2>2, FiniteImage
  <1>4. \A e \in b.edges : edge(e).id = Id(b.key, e.name) /\ edge(e).src # None /\ edge(e).dst # None
    <2> SUFFICES ASSUME NEW e \in b.edges
                 PROVE  edge(e).id = Id(b.key, e.name) /\ edge(e).src # None /\ edge(e).dst # None
      OBVIOUS
    <2>1. Resolvable(b, e.src) /\ Resolvable(b, e.dst)
      BY DEF Acceptable
    <2>2. Resolved(b, e.src) # None
      BY <2>1, ResolvedRef
    <2>3. Resolved(b, e.dst) # None
      BY <2>1, ResolvedRef
    <2> QED
      BY <2>2, <2>3
  <1> HIDE DEF edge
  <1>5. DistinctIds(E)
    BY <1>1, <1>2, <1>4 DEF DistinctIds
  <1>6. Named_(b.key, E, b.edges)
    BY <1>1, <1>4 DEF Named_
  <1>7. \A l \in E : None \notin {l.src, l.dst}
    BY <1>1, <1>4
  <1> QED
    BY <1>3, <1>5, <1>6, <1>7 DEF EdgesInv

\* A batch is written as it was asked for.
LEMMA PreparedBatch ==
    ASSUME RowsInv(row), NEW q \in Captures, Request(q), NEW b, b = Batch(q), Acceptable(b),
           NEW p, p = Prepared(b)
    PROVE  PlanInv(q, p)
  <1> DEFINE obj(o) == [id |-> Id(b.key, o.name), kind |-> o.kind, uri |-> o.uri]
             cont(c) == [id |-> Id(b.key, c.name), object |-> Resolved(b, c.of), pred |-> None,
                         body |-> c.body, whole |-> c.whole]
  <1>1. p.objects = {obj(o) : o \in b.objects} /\ p.contents = {cont(c) : c \in b.contents} /\ p.adopts = {}
    BY DEF Prepared
  <1>2. EdgesInv(b, p.edges)
    BY PreparedEdges
  <1>3. /\ b.key = KeyOf(q) /\ NamesApart(b)
        /\ IsFiniteSet(b.objects) /\ IsFiniteSet(b.contents)
        /\ \A x, y \in b.objects \cup b.contents \cup b.edges : Id(b.key, x.name) = Id(b.key, y.name) => x = y
    BY BatchNames
  <1>4. \A o \in b.objects : obj(o).id = Id(b.key, o.name) /\ obj(o).kind # "task"
    <2>1. \A o \in b.objects : o.kind # "task"
      BY DEF Captures, Request
    <2> QED
      BY <2>1
  <1>5. \A c \in b.contents : cont(c).id = Id(b.key, c.name) /\ cont(c).object # None
    <2> SUFFICES ASSUME NEW c \in b.contents PROVE cont(c).id = Id(b.key, c.name) /\ cont(c).object # None
      OBVIOUS
    <2>1. Resolvable(b, c.of)
      BY DEF Acceptable
    <2>2. Resolved(b, c.of) # None
      BY <2>1, ResolvedRef
    <2> QED
      BY <2>2
  <1>6. IsFiniteSet(p.objects) /\ IsFiniteSet(p.contents)
    <2>1. IsFiniteSet(p.objects)
      <3>1. PICK f : f = [o \in b.objects |-> obj(o)]
        OBVIOUS
      <3> HIDE DEF obj
      <3>2. f \in [b.objects -> p.objects] /\ \A x \in p.objects : \E y \in b.objects : f[y] = x
        BY <1>1, <3>1
      <3> QED
        BY <1>3, <3>2, FiniteImage
    <2>2. IsFiniteSet(p.contents)
      <3>1. PICK f : f = [c \in b.contents |-> cont(c)]
        OBVIOUS
      <3> HIDE DEF cont
      <3>2. f \in [b.contents -> p.contents] /\ \A x \in p.contents : \E y \in b.contents : f[y] = x
        BY <1>1, <3>1
      <3> QED
        BY <1>3, <3>2, FiniteImage
    <2> QED
      BY <2>1, <2>2
  <1> HIDE DEF obj, cont
  <1>7. DistinctIds(p.objects) /\ DistinctIds(p.contents)
    BY <1>1, <1>3, <1>4, <1>5 DEF DistinctIds
  <1>8. Named_(b.key, p.objects, b.objects) /\ Named_(b.key, p.contents, b.contents)
    BY <1>1, <1>4, <1>5 DEF Named_
  <1>9. Named_(b.key, Fresh(p), b.objects)
    BY <1>8 DEF Named_, Fresh
  <1>10. (\A o \in p.objects : o.kind # "task") /\ (\A c \in p.contents : c.object # None)
    BY <1>1, <1>4, <1>5
  <1> QED
    BY <1>1, <1>2, <1>3, <1>6, <1>7, <1>8, <1>9, <1>10 DEF PlanInv, EdgesInv

\* The plan of a capture, for the Source s.
Shaped(p) ==
    /\ DOMAIN p = {"objects", "contents", "edges", "on", "adopts", "chat"}
    /\ \A o \in p.objects : DOMAIN o = {"id", "kind", "uri"}
    /\ \A c \in p.contents : DOMAIN c = {"id", "object", "pred", "body", "whole"}
    /\ \A l \in p.edges : DOMAIN l = {"id", "src", "kind", "dst"}
Asked(q, p, s) ==
    \A e \in q.edges :
        (\E l \in p.edges : l.src = s /\ l.kind = e.kind /\ l.dst = e.dst) \/ SameLink(s, e.kind, e.dst) # {}
Captured(q, p, s) ==
    /\ Shaped(p) /\ p.on = {s} /\ s # None
    /\ p.objects = {} \/ (\E o : p.objects = {o} /\ o.id = s /\ o.kind = "source")
    /\ p.objects # {} => s = Id(q.key, "source") \/ p.adopts = {s}
    /\ p.contents = {} \/ (\E c : /\ p.contents = {c} /\ c.id = Id(q.key, "content") /\ c.object = s
                                  /\ c.body = q.body /\ c.whole = TRUE)
    /\ p.contents = {} => Copies(s, q.body) # {}
    /\ p.adopts = {} \/ (p.adopts = {s} /\ p.contents # {})
    /\ EdgesInv(SourceBatch(q), p.edges) /\ Asked(q, p, s)

\* Such a plan is what the transaction relies on.
LEMMA CapturedPlan ==
    ASSUME NEW q \in Captures, q.do = "capture", Request(q), Acceptable(SourceBatch(q)),
           NEW p, NEW s, Captured(q, p, s), NEW P
    PROVE  PlanInv(q, p) /\ Promises(row, P, q, p)
  <1>1. PICK b : b = Batch(q)
    OBVIOUS
  <1>2. /\ b = SourceBatch(q) /\ b.key = q.key /\ KeyOf(q) = q.key
        /\ \E o \in b.objects : o.name = "source"
        /\ \E c \in b.contents : c.name = "content"
    BY <1>1 DEF Batch, SourceBatch, KeyOf
  <1>3. NamesApart(b)
    BY <1>1, <1>2, BatchNames
  <1>4. EdgesInv(b, p.edges)
    BY <1>2 DEF Captured
  <1>5. p.objects = {} \/ (\E o : p.objects = {o} /\ o.id = s /\ o.kind = "source")
    BY DEF Captured
  <1>6. p.contents = {} \/ (\E c : /\ p.contents = {c} /\ c.id = Id(q.key, "content") /\ c.object = s
                                   /\ c.body = q.body /\ c.whole = TRUE)
    BY DEF Captured
  <1>7. IsFiniteSet(p.objects) /\ IsFiniteSet(p.contents)
    <2>1. IsFiniteSet({})
      BY FS_EmptySet
    <2>2. \A x : IsFiniteSet({x})
      BY FS_Singleton
    <2> QED
      BY <1>5, <1>6, <2>1, <2>2
  <1>8. DistinctIds(p.objects) /\ DistinctIds(p.contents) /\ (\A o \in p.objects : o.kind # "task")
    BY <1>5, <1>6 DEF DistinctIds
  <1>9. Named_(KeyOf(q), Fresh(p), b.objects)
    <2> SUFFICES ASSUME NEW o \in Fresh(p) PROVE o.id = Id(q.key, "source")
      BY <1>2 DEF Named_
    <2>1. o \in p.objects /\ o.id \notin p.adopts /\ o.id = s
      BY <1>5 DEF Fresh
    <2> QED
      BY <2>1 DEF Captured
  <1>10. Named_(KeyOf(q), p.contents, b.contents) /\ \A c \in p.contents : c.object # None
    BY <1>2, <1>6 DEF Named_, Captured
  <1>11. p.adopts = {} \/ (\E x \in p.adopts : p.adopts = {x} /\ p.on = {x}
                              /\ \E c \in p.contents : c.whole /\ c.object = x)
    BY <1>6 DEF Captured
  <1>12. PlanInv(q, p)
    BY <1>1, <1>2, <1>3, <1>4, <1>7, <1>8, <1>9, <1>10, <1>11 DEF PlanInv, EdgesInv
  <1>13. Promises(row, P, q, p)
    <2>1. p.on = {s}
      BY DEF Captured
    <2>2. (\E c \in p.contents : c.object = s /\ c.body = q.body) \/ Kept(row, P, s, q.body)
      <3>1. Copies(s, q.body) # {} => Kept(row, P, s, q.body)
        BY DEF Copies, OfTab, Kept, IsCopy
      <3> QED
        BY <1>6, <3>1 DEF Captured
    <2>3. \A e \in q.edges :
              (\E l \in p.edges : l.src = s /\ l.kind = e.kind /\ l.dst = e.dst) \/ Made(row, P, s, e.kind, e.dst)
      <3>1. \A e \in q.edges : SameLink(s, e.kind, e.dst) # {} => Made(row, P, s, e.kind, e.dst)
        BY DEF SameLink, OfTab, Made, Connects
      <3> QED
        BY <3>1 DEF Captured, Asked
    <2> QED
      BY <2>1, <2>2, <2>3 DEF Promises
  <1> QED
    BY <1>12, <1>13

\* A Source captured for the first time.
LEMMA PreparedSource ==
    ASSUME RowsInv(row), NEW q \in Captures, q.do = "capture", Request(q), Acceptable(SourceBatch(q)),
           NEW p, p = Prepared(SourceBatch(q))
    PROVE  /\ Captured(q, p, Id(q.key, "source")) /\ p.objects # {} /\ p.contents # {} /\ p.adopts = {}
           /\ \A e \in q.edges :
                 /\ e.dst # Id(q.key, "source")
                 /\ \E l \in p.edges : l.src = Id(q.key, "source") /\ l.kind = e.kind /\ l.dst = e.dst
  <1>1. PICK b, s : b = Batch(q) /\ s = Id(q.key, "source")
    OBVIOUS
  <1>2. PICK x, c : /\ x = [name |-> "source", kind |-> "source", uri |-> q.uri]
                    /\ c = [name |-> "content", of |-> "source", body |-> q.body, whole |-> TRUE]
    OBVIOUS
  <1>3. /\ b = SourceBatch(q) /\ b.key = q.key /\ b.objects = {x} /\ b.contents = {c}
        /\ \A e \in q.edges : \E y \in b.edges : y.src = "source" /\ y.kind = e.kind /\ y.dst = e.dst
    <2>1. \A e \in q.edges : [name |-> e.kind \o "-" \o e.dst, src |-> "source", kind |-> e.kind, dst |-> e.dst] \in b.edges
      BY <1>1 DEF Batch, SourceBatch
    <2> QED
      BY <1>1, <1>2, <2>1 DEF Batch, SourceBatch
  <1>4. Names(b) = {"source"} /\ Resolved(b, "source") = s
    BY <1>1, <1>2, <1>3 DEF Names, Resolved
  <1>5. PICK o, d : /\ o = [id |-> Id(b.key, x.name), kind |-> x.kind, uri |-> x.uri]
                    /\ d = [id |-> Id(b.key, c.name), object |-> Resolved(b, c.of), pred |-> None,
                            body |-> c.body, whole |-> c.whole]
    OBVIOUS
  <1>6. p.objects = {o} /\ p.contents = {d} /\ p.adopts = {} /\ p.on = {s}
    <2>1. p = Prepared(b)
      BY <1>3
    <2>2. /\ p.objects = {[id |-> Id(b.key, y.name), kind |-> y.kind, uri |-> y.uri] : y \in b.objects}
          /\ p.contents = {[id |-> Id(b.key, y.name), object |-> Resolved(b, y.of), pred |-> None,
                            body |-> y.body, whole |-> y.whole] : y \in b.contents}
          /\ p.on = {Id(b.key, y.name) : y \in b.objects} /\ p.adopts = {}
      BY <2>1 DEF Prepared
    <2>3. p.objects = {o}
      BY <1>3, <1>5, <2>2
    <2>4. p.contents = {d}
      BY <1>3, <1>5, <2>2
    <2>5. p.on = {s}
      BY <1>1, <1>2, <1>3, <2>2
    <2> QED
      BY <2>2, <2>3, <2>4, <2>5
  <1>7. o.id = s /\ o.kind = "source" /\ DOMAIN o = {"id", "kind", "uri"}
    BY <1>1, <1>2, <1>3, <1>5
  <1>8. /\ d.id = Id(q.key, "content") /\ d.object = s /\ d.body = q.body /\ d.whole = TRUE
        /\ DOMAIN d = {"id", "object", "pred", "body", "whole"}
    BY <1>2, <1>3, <1>4, <1>5
  <1>9. DOMAIN p = {"objects", "contents", "edges", "on", "adopts", "chat"} /\ (\A l \in p.edges : DOMAIN l = {"id", "src", "kind", "dst"})
    BY DEF Prepared
  <1>10. s # None
    <2>1. \A y \in b.objects : Id(b.key, y.name) # None
      BY <1>1, <1>3, BatchNames
    <2> QED
      BY <1>1, <1>2, <1>3, <2>1
  <1>11. \A e \in q.edges : Resolved(b, e.dst) = e.dst
    BY <1>4 DEF Request, Resolved
  <1>12. \A e \in q.edges : e.dst # s
    BY <1>3, <1>4, <1>11 DEF Acceptable
  <1>13. \A e \in q.edges : \E l \in p.edges : l.src = s /\ l.kind = e.kind /\ l.dst = e.dst
    <2> SUFFICES ASSUME NEW e \in q.edges
                 PROVE  \E l \in p.edges : l.src = s /\ l.kind = e.kind /\ l.dst = e.dst
      OBVIOUS
    <2>1. PICK y \in b.edges : y.src = "source" /\ y.kind = e.kind /\ y.dst = e.dst
      BY <1>3
    <2>2. [id |-> Id(b.key, y.name), src |-> Resolved(b, y.src), kind |-> y.kind, dst |-> Resolved(b, y.dst)] \in p.edges
      BY <1>1, <1>3 DEF Prepared
    <2> QED
      BY <1>4, <1>11, <2>1, <2>2
  <1>14. EdgesInv(b, p.edges)
    BY <1>1, <1>3, PreparedEdges
  <1>15. Shaped(p)
    BY <1>6, <1>7, <1>8, <1>9 DEF Shaped
  <1>16. Captured(q, p, s)
    BY <1>1, <1>3, <1>6, <1>7, <1>8, <1>10, <1>13, <1>14, <1>15 DEF Captured, Asked
  <1> QED
    BY <1>1, <1>6, <1>12, <1>13, <1>16

\* The same, for a Source that is there.
MovedTo(q, m, s) ==
    /\ Shaped(m) /\ m.on = {s} /\ m.adopts = {}
    /\ \E o : m.objects = {o} /\ o.id = s /\ o.kind = "source"
    /\ \E c : m.contents = {c} /\ c.id = Id(q.key, "content") /\ c.object = s /\ c.body = q.body /\ c.whole = TRUE
    /\ EdgesInv(SourceBatch(q), m.edges) /\ Asked(q, m, s)

LEMMA MovedSource ==
    ASSUME RowsInv(row), NEW q \in Captures, q.do = "capture", Request(q), Acceptable(SourceBatch(q)),
           NEW s, s # None, NEW m, m = Moved(Prepared(SourceBatch(q)), s)
    PROVE  MovedTo(q, m, s)
  <1>1. PICK p, z : p = Prepared(SourceBatch(q)) /\ z = Id(q.key, "source")
    OBVIOUS
  <1>2. /\ Captured(q, p, z) /\ p.objects # {} /\ p.contents # {} /\ p.adopts = {}
        /\ \A e \in q.edges : e.dst # z
    BY <1>1, PreparedSource
  <1>3. /\ Shaped(p) /\ p.on = {z}
        /\ \E o : p.objects = {o} /\ o.id = z /\ o.kind = "source"
        /\ \E c : /\ p.contents = {c} /\ c.id = Id(q.key, "content") /\ c.object = z
                  /\ c.body = q.body /\ c.whole = TRUE
        /\ EdgesInv(SourceBatch(q), p.edges) /\ Asked(q, p, z)
    BY <1>2 DEF Captured
  <1>4. PICK o : p.objects = {o} /\ o.id = z /\ o.kind = "source" /\ DOMAIN o = {"id", "kind", "uri"}
    BY <1>3 DEF Shaped
  <1>5. PICK c : /\ p.contents = {c} /\ c.id = Id(q.key, "content") /\ c.object = z
                 /\ c.body = q.body /\ c.whole = TRUE /\ DOMAIN c = {"id", "object", "pred", "body", "whole"}
    BY <1>3 DEF Shaped
  <1> DEFINE At(ref) == IF ref \in p.on THEN s ELSE ref
             edge(e) == [e EXCEPT !.src = At(e.src), !.dst = At(e.dst)]
  <1>6. PICK x, d : x = [o EXCEPT !.id = s] /\ d = [c EXCEPT !.object = At(c.object)]
    OBVIOUS
  <1>7. m = [p EXCEPT !.on = {s}, !.objects = {[y EXCEPT !.id = s] : y \in @},
                      !.contents = {[y EXCEPT !.object = At(y.object)] : y \in @},
                      !.edges = {edge(y) : y \in @}]
    BY <1>1 DEF Moved
  <1>8. DOMAIN p = {"objects", "contents", "edges", "on", "adopts", "chat"}
    BY <1>3 DEF Shaped
  <1>9. /\ DOMAIN m = DOMAIN p /\ m.on = {s} /\ m.adopts = {}
        /\ m.objects = {[y EXCEPT !.id = s] : y \in p.objects}
        /\ m.contents = {[y EXCEPT !.object = At(y.object)] : y \in p.contents}
        /\ m.edges = {edge(y) : y \in p.edges}
    BY <1>2, <1>7, <1>8
  <1>10. m.objects = {x} /\ x.id = s /\ x.kind = "source" /\ DOMAIN x = {"id", "kind", "uri"}
    BY <1>4, <1>6, <1>9
  <1>11. /\ m.contents = {d} /\ d.id = Id(q.key, "content") /\ d.object = s /\ d.body = q.body /\ d.whole = TRUE
         /\ DOMAIN d = {"id", "object", "pred", "body", "whole"}
    <2>1. m.contents = {d}
      BY <1>5, <1>6, <1>9
    <2>2. c.object \in p.on
      BY <1>3, <1>5
    <2>3. d = [c EXCEPT !.object = s]
      BY <1>6, <2>2
    <2> QED
      BY <1>5, <2>1, <2>3
  <1>12. \A e \in p.edges : /\ DOMAIN edge(e) = {"id", "src", "kind", "dst"}
                            /\ edge(e).id = e.id /\ edge(e).kind = e.kind
                            /\ edge(e).src = At(e.src) /\ edge(e).dst = At(e.dst)
    BY <1>3 DEF Shaped
  <1>13. /\ IsFiniteSet(p.edges) /\ DistinctIds(p.edges) /\ Named_(SourceBatch(q).key, p.edges, SourceBatch(q).edges)
         /\ \A l \in p.edges : None \notin {l.src, l.dst}
    BY <1>3 DEF EdgesInv
  <1>14. \A ref : ref # None => At(ref) # None
    OBVIOUS
  <1> HIDE DEF edge, At
  <1>15. EdgesInv(SourceBatch(q), m.edges)
    <2>1. IsFiniteSet(m.edges)
      <3>1. PICK f : f = [y \in p.edges |-> edge(y)]
        OBVIOUS
      <3>2. f \in [p.edges -> m.edges] /\ \A y \in m.edges : \E e \in p.edges : f[e] = y
        BY <1>9, <3>1
      <3> QED
        BY <1>13, <3>2, FiniteImage
    <2>2. DistinctIds(m.edges)
      BY <1>9, <1>12, <1>13 DEF DistinctIds
    <2>3. Named_(SourceBatch(q).key, m.edges, SourceBatch(q).edges)
      BY <1>9, <1>12, <1>13 DEF Named_
    <2>4. \A l \in m.edges : None \notin {l.src, l.dst}
      BY <1>9, <1>12, <1>13, <1>14
    <2> QED
      BY <2>1, <2>2, <2>3, <2>4 DEF EdgesInv
  <1>16. Asked(q, m, s)
    <2> SUFFICES ASSUME NEW e \in q.edges
                 PROVE  (\E l \in m.edges : l.src = s /\ l.kind = e.kind /\ l.dst = e.dst) \/ SameLink(s, e.kind, e.dst) # {}
      BY DEF Asked
    <2>1. \E l \in p.edges : l.src = z /\ l.kind = e.kind /\ l.dst = e.dst
      BY <1>1, PreparedSource
    <2>2. PICK l \in p.edges : l.src = z /\ l.kind = e.kind /\ l.dst = e.dst
      BY <2>1
    <2>3. At(z) = s /\ At(e.dst) = e.dst
      BY <1>2, <1>3 DEF At
    <2> QED
      BY <1>9, <1>12, <2>2, <2>3
  <1>17. Shaped(m)
    BY <1>8, <1>9, <1>10, <1>11, <1>12 DEF Shaped
  <1> QED
    BY <1>9, <1>10, <1>11, <1>15, <1>16, <1>17 DEF MovedTo

\* A Connection that another has made is not made again.
LEMMA LackingCaptured ==
    ASSUME NEW q, NEW p, NEW s, Captured(q, p, s), NEW m, m = Lacking(p)
    PROVE  Captured(q, m, s)
  <1>1. PICK E : E = {e \in p.edges : SameLink(e.src, e.kind, e.dst) \subseteq {e.id}}
    OBVIOUS
  <1>2. m = [p EXCEPT !.edges = E]
    BY <1>1 DEF Lacking
  <1>3. Shaped(p) /\ EdgesInv(SourceBatch(q), p.edges) /\ Asked(q, p, s)
    BY DEF Captured
  <1>4. DOMAIN p = {"objects", "contents", "edges", "on", "adopts", "chat"}
    BY <1>3 DEF Shaped
  <1>5. /\ DOMAIN m = DOMAIN p /\ m.edges = E /\ m.on = p.on /\ m.objects = p.objects
        /\ m.contents = p.contents /\ m.adopts = p.adopts
    BY <1>2, <1>4
  <1>6. E \subseteq p.edges
    BY <1>1
  <1>7. IsFiniteSet(E)
    BY <1>3, <1>6, FS_Subset DEF EdgesInv
  <1>8. EdgesInv(SourceBatch(q), m.edges)
    BY <1>3, <1>5, <1>6, <1>7 DEF EdgesInv, DistinctIds, Named_
  <1>9. Asked(q, m, s)
    <2> SUFFICES ASSUME NEW e \in q.edges, SameLink(s, e.kind, e.dst) = {}
                 PROVE  \E l \in E : l.src = s /\ l.kind = e.kind /\ l.dst = e.dst
      BY <1>5 DEF Asked
    <2>1. PICK l \in p.edges : l.src = s /\ l.kind = e.kind /\ l.dst = e.dst
      BY <1>3 DEF Asked
    <2> QED
      BY <1>1, <2>1
  <1>10. Shaped(m)
    BY <1>3, <1>4, <1>5, <1>6 DEF Shaped
  <1> QED
    BY <1>5, <1>8, <1>9, <1>10 DEF Captured

LEMMA AdoptingCaptured ==
    ASSUME NEW q, NEW p, NEW s, s # None, MovedTo(q, Moved(p, s), s), NEW m, m = Adopting(p, s)
    PROVE  Captured(q, m, s)
  <1>1. PICK v : v = Moved(p, s)
    OBVIOUS
  <1>2. MovedTo(q, v, s) /\ m = [v EXCEPT !.adopts = {s}]
    BY <1>1 DEF Adopting
  <1>3. Shaped(v) /\ v.on = {s} /\ EdgesInv(SourceBatch(q), v.edges) /\ Asked(q, v, s)
    BY <1>2 DEF MovedTo
  <1>4. DOMAIN v = {"objects", "contents", "edges", "on", "adopts", "chat"}
    BY <1>3 DEF Shaped
  <1>5. /\ DOMAIN m = DOMAIN v /\ m.adopts = {s} /\ m.on = {s} /\ m.objects = v.objects
        /\ m.contents = v.contents /\ m.edges = v.edges
    BY <1>2, <1>3, <1>4
  <1>6. Shaped(m)
    BY <1>3, <1>5 DEF Shaped
  <1>7. Asked(q, m, s)
    BY <1>3, <1>5 DEF Asked
  <1>8. /\ \E o : m.objects = {o} /\ o.id = s /\ o.kind = "source"
        /\ \E c : m.contents = {c} /\ c.id = Id(q.key, "content") /\ c.object = s /\ c.body = q.body /\ c.whole = TRUE
    BY <1>2, <1>5 DEF MovedTo
  <1>9. m.contents # {}
    BY <1>8
  <1> QED
    BY <1>3, <1>5, <1>6, <1>7, <1>8, <1>9 DEF Captured

LEMMA SupersedingCaptured ==
    ASSUME NEW q, NEW p, NEW s, s # None, MovedTo(q, Moved(p, s), s), NEW pred, NEW m, m = Superseding(p, s, pred)
    PROVE  Captured(q, m, s)
  <1>1. PICK v : v = Moved(p, s)
    OBVIOUS
  <1>2. MovedTo(q, v, s) /\ m = [v EXCEPT !.objects = {}, !.contents = {[c EXCEPT !.pred = pred] : c \in @}]
    BY <1>1 DEF Superseding
  <1>3. Shaped(v) /\ v.on = {s} /\ v.adopts = {} /\ EdgesInv(SourceBatch(q), v.edges) /\ Asked(q, v, s)
    BY <1>2 DEF MovedTo
  <1>4. DOMAIN v = {"objects", "contents", "edges", "on", "adopts", "chat"}
    BY <1>3 DEF Shaped
  <1>5. /\ DOMAIN m = DOMAIN v /\ m.adopts = {} /\ m.on = {s} /\ m.objects = {}
        /\ m.contents = {[c EXCEPT !.pred = pred] : c \in v.contents} /\ m.edges = v.edges
    BY <1>2, <1>3, <1>4
  <1>6. PICK c : v.contents = {c} /\ c.id = Id(q.key, "content") /\ c.object = s /\ c.body = q.body /\ c.whole = TRUE
    BY <1>2 DEF MovedTo
  <1>7. DOMAIN c = {"id", "object", "pred", "body", "whole"}
    BY <1>3, <1>6 DEF Shaped
  <1>8. PICK d : d = [c EXCEPT !.pred = pred]
    OBVIOUS
  <1>9. /\ m.contents = {d} /\ d.id = Id(q.key, "content") /\ d.object = s /\ d.body = q.body /\ d.whole = TRUE
        /\ DOMAIN d = {"id", "object", "pred", "body", "whole"}
    BY <1>5, <1>6, <1>7, <1>8
  <1>10. Shaped(m)
    BY <1>3, <1>5, <1>9 DEF Shaped
  <1>11. Asked(q, m, s)
    BY <1>3, <1>5 DEF Asked
  <1>12. m.contents # {}
    BY <1>9
  <1> QED
    BY <1>3, <1>5, <1>9, <1>10, <1>11, <1>12 DEF Captured

LEMMA ReusingCaptured ==
    ASSUME NEW q, NEW p, NEW s, s # None, MovedTo(q, Moved(p, s), s), Copies(s, q.body) # {},
           NEW m, m = Reusing(p, s)
    PROVE  Captured(q, m, s)
  <1>1. PICK v : v = Moved(p, s)
    OBVIOUS
  <1>2. MovedTo(q, v, s) /\ m = [v EXCEPT !.objects = {}, !.contents = {}]
    BY <1>1 DEF Reusing
  <1>3. Shaped(v) /\ v.on = {s} /\ v.adopts = {} /\ EdgesInv(SourceBatch(q), v.edges) /\ Asked(q, v, s)
    BY <1>2 DEF MovedTo
  <1>4. DOMAIN v = {"objects", "contents", "edges", "on", "adopts", "chat"}
    BY <1>3 DEF Shaped
  <1>5. /\ DOMAIN m = DOMAIN v /\ m.adopts = {} /\ m.on = {s} /\ m.objects = {}
        /\ m.contents = {} /\ m.edges = v.edges
    BY <1>2, <1>3, <1>4
  <1>6. Shaped(m)
    BY <1>3, <1>5 DEF Shaped
  <1>7. Asked(q, m, s)
    BY <1>3, <1>5 DEF Asked
  <1> QED
    BY <1>3, <1>5, <1>6, <1>7 DEF Captured

\* Whatever a capture settles on, it has the content and the Connections asked for.
LEMMA SettledCaptured ==
    ASSUME RowsInv(row), NEW q \in Captures, q.do = "capture", Request(q), Acceptable(SourceBatch(q)),
           NEW p, p = Settled(Prepared(SourceBatch(q)), q), p # Refused
    PROVE  \E s : Captured(q, p, s)
  <1>1. PICK p1 : p1 = Prepared(SourceBatch(q))
    OBVIOUS
  <1>2. CASE Rivals(q) = {}
    <2>1. Captured(q, p1, Id(q.key, "source"))
      BY <1>1, PreparedSource
    <2> QED
      BY <1>1, <1>2, <2>1 DEF Settled
  <1>3. CASE Rivals(q) # {}
    <2>1. PICK s : s = CHOOSE x \in Rivals(q) : TRUE
      OBVIOUS
    <2>2. s \in Rivals(q)
      BY <1>3, <2>1
    <2>3. s # None
      BY <2>2 DEF Rivals, Objects, OfTab, RowsInv, Nameless
    <2>4. MovedTo(q, Moved(p1, s), s)
      BY <1>1, <2>3, MovedSource
    <2>5. PICK pred : pred = IF row[s].current = None THEN None ELSE row[row[s].current].pred
      OBVIOUS
    <2>6. Captured(q, Adopting(p1, s), s)
      BY <2>3, <2>4, AdoptingCaptured
    <2>7. Captured(q, Lacking(Superseding(p1, s, pred)), s) /\ Captured(q, Lacking(Superseding(p1, s, row[s].current)), s)
      <3>1. Captured(q, Superseding(p1, s, pred), s)
        BY <2>3, <2>4, SupersedingCaptured
      <3>2. Captured(q, Superseding(p1, s, row[s].current), s)
        BY <2>3, <2>4, SupersedingCaptured
      <3> QED
        BY <3>1, <3>2, LackingCaptured
    <2>8. Copies(s, q.body) # {} => Captured(q, Lacking(Reusing(p1, s)), s)
      BY <2>3, <2>4, ReusingCaptured, LackingCaptured
    <2>9. \/ p = Adopting(p1, s) \/ p = Lacking(Superseding(p1, s, pred))
          \/ p = Lacking(Superseding(p1, s, row[s].current))
          \/ Copies(s, q.body) # {} /\ p = Lacking(Reusing(p1, s))
      BY <1>1, <1>3, <2>1, <2>5 DEF Settled
    <2> QED
      BY <2>6, <2>7, <2>8, <2>9
  <1> QED
    BY <1>2, <1>3

-----------------------------------------------------------------------------
(* What is answered                                                        *)

\* As many Events as there are things written: then each has one.
Tag(n, S) == {<<n, x>> : x \in S}

LEMMA Tagged ==
    ASSUME NEW S, IsFiniteSet(S), NEW n, NEW T, T = Tag(n, S)
    PROVE  IsFiniteSet(T) /\ Cardinality(T) = Cardinality(S)
  <1>1. PICK f : f = [x \in S |-> <<n, x>>]
    OBVIOUS
  <1>2. f \in [S -> T] /\ \A y \in T : \E x \in S : f[x] = y
    BY <1>1 DEF Tag
  <1>3. f \in Surjection(S, T)
    BY <1>2 DEF Surjection
  <1>4. \A x, y \in S : f[x] = f[y] => x = y
    BY <1>1
  <1>5. f \in Injection(S, T)
    BY <1>2, <1>4 DEF Injection, IsInjective
  <1> QED
    BY <1>3, <1>5, FS_Surjection

LEMMA Counts ==
    ASSUME NEW A, NEW B, NEW C, IsFiniteSet(A), IsFiniteSet(B), IsFiniteSet(C),
           NEW T, T = Tag(1, A) \cup Tag(2, B) \cup Tag(3, C),
           NEW E, Cardinality(E) = Cardinality(A) + Cardinality(B) + Cardinality(C),
           NEW f, f \in [E -> T], \A x, y \in E : f[x] = f[y] => x = y
    PROVE  \A x \in T : \E e \in E : f[e] = x
  <1>1. IsFiniteSet(Tag(1, A)) /\ Cardinality(Tag(1, A)) = Cardinality(A)
    BY Tagged
  <1>2. IsFiniteSet(Tag(2, B)) /\ Cardinality(Tag(2, B)) = Cardinality(B)
    BY Tagged
  <1>3. IsFiniteSet(Tag(3, C)) /\ Cardinality(Tag(3, C)) = Cardinality(C)
    BY Tagged
  <1>4. Cardinality(A) \in Nat /\ Cardinality(B) \in Nat /\ Cardinality(C) \in Nat
    BY FS_CardinalityType
  <1>5. PICK AB : AB = Tag(1, A) \cup Tag(2, B)
    OBVIOUS
  <1>6. Tag(1, A) \cap Tag(2, B) = {} /\ AB \cap Tag(3, C) = {} /\ T = AB \cup Tag(3, C)
    BY <1>5 DEF Tag
  <1>7. Cardinality({}) = 0
    BY FS_EmptySet
  <1>8. IsFiniteSet(AB) /\ Cardinality(AB) = Cardinality(A) + Cardinality(B)
    <2>1. /\ IsFiniteSet(AB)
          /\ Cardinality(AB) = Cardinality(Tag(1, A)) + Cardinality(Tag(2, B)) - Cardinality(Tag(1, A) \cap Tag(2, B))
      BY <1>1, <1>2, <1>5, FS_Union
    <2>2. Cardinality(Tag(1, A) \cap Tag(2, B)) = 0
      BY <1>6, <1>7
    <2>3. Cardinality(AB) = Cardinality(A) + Cardinality(B) - 0
      BY <1>1, <1>2, <2>1, <2>2
    <2> QED
      BY <1>4, <2>1, <2>3
  <1>9. IsFiniteSet(T) /\ Cardinality(T) = Cardinality(A) + Cardinality(B) + Cardinality(C)
    <2>1. /\ IsFiniteSet(T)
          /\ Cardinality(T) = Cardinality(AB) + Cardinality(Tag(3, C)) - Cardinality(AB \cap Tag(3, C))
      BY <1>3, <1>6, <1>8, FS_Union
    <2>2. Cardinality(AB \cap Tag(3, C)) = 0
      BY <1>6, <1>7
    <2>3. Cardinality(T) = Cardinality(A) + Cardinality(B) + Cardinality(C) - 0
      BY <1>3, <1>8, <2>1, <2>2
    <2> QED
      BY <1>4, <2>1, <2>3
  <1>10. f \in Injection(E, T)
    BY DEF Injection, IsInjective
  <1>11. f \in Surjection(E, T)
    BY <1>9, <1>10, FS_Injection
  <1> QED
    BY <1>11 DEF Surjection

\* A batch that is replayed: all its Objects and Connections are there, and so is
\* what it was asked for.
LEMMA ReplayIsWhole ==
    ASSUME RowsInv(row), NEW P, NEW id, BatchRun(row, P, id), NEW payload, payload = row[id].payload,
           NEW n, n = Cardinality(payload[1]) + Cardinality(payload[2]) + Cardinality(payload[3]),
           Cardinality(EventsOfRun(id)) = n
    PROVE  {x.id : x \in payload[1] \cup payload[3]} \subseteq DOMAIN row
  <1>1. PICK key, E, T : /\ key = row[id].manifest.key /\ E = EventsOfRun(id)
                         /\ T = Tag(1, payload[1]) \cup Tag(2, payload[2]) \cup Tag(3, payload[3])
    OBVIOUS
  <1>2. IsFiniteSet(payload[1]) /\ IsFiniteSet(payload[2]) /\ IsFiniteSet(payload[3])
    BY DEF BatchRun
  <1> DEFINE Of(e, x) ==
                 \/ x[1] = 1 /\ e = IntakeEventId(x[2], key) /\ row[e].target = x[2].id
                 \/ x[1] = 2 /\ e = EventId(x[2])
                 \/ x[1] = 3 /\ e = EventId(x[2]) /\ row[e].target = x[2].id
  <1>3. \A e \in E : \E x \in T : Of(e, x)
    <2> SUFFICES ASSUME NEW e \in E PROVE \E x \in T : Of(e, x)
      OBVIOUS
    <2>1. Notes(key, payload, e, row[e])
      BY <1>1 DEF EventsOfRun, OfTab, BatchRun
    <2>2. CASE \E o \in payload[1] : e = IntakeEventId(o, key) /\ row[e].target = o.id
      <3>1. PICK o \in payload[1] : e = IntakeEventId(o, key) /\ row[e].target = o.id
        BY <2>2
      <3>2. <<1, o>> \in T /\ Of(e, <<1, o>>)
        BY <1>1, <3>1 DEF Tag
      <3> QED
        BY <3>2
    <2>3. CASE \E c \in payload[2] : e = EventId(c)
      <3>1. PICK c \in payload[2] : e = EventId(c)
        BY <2>3
      <3>2. <<2, c>> \in T /\ Of(e, <<2, c>>)
        BY <1>1, <3>1 DEF Tag
      <3> QED
        BY <3>2
    <2>4. CASE \E l \in payload[3] : e = EventId(l) /\ row[e].target = l.id
      <3>1. PICK l \in payload[3] : e = EventId(l) /\ row[e].target = l.id
        BY <2>4
      <3>2. <<3, l>> \in T /\ Of(e, <<3, l>>)
        BY <1>1, <3>1 DEF Tag
      <3> QED
        BY <3>2
    <2> QED
      BY <2>1, <2>2, <2>3, <2>4 DEF Notes
  <1>4. PICK f : f = [e \in E |-> CHOOSE x \in T : Of(e, x)]
    OBVIOUS
  <1>5. f \in [E -> T] /\ \A e \in E : Of(e, f[e])
    <2>1. \A e \in E : f[e] \in T /\ Of(e, f[e])
      <3> SUFFICES ASSUME NEW e \in E PROVE f[e] \in T /\ Of(e, f[e])
        OBVIOUS
      <3>1. f[e] = CHOOSE x \in T : Of(e, x)
        BY <1>4
      <3> HIDE DEF Of
      <3> QED
        BY <1>3, <3>1
    <2>2. f = [e \in E |-> f[e]]
      BY <1>4
    <2> QED
      BY <2>1, <2>2
  <1>6. \A x, y \in E : f[x] = f[y] => x = y
    BY <1>5
  <1>7. \A x \in T : \E e \in E : f[e] = x
    BY <1>1, <1>2, <1>5, <1>6, Counts
  <1>8. \A e \in E : row[e].target \in DOMAIN row
    BY <1>1 DEF EventsOfRun, OfTab, RowsInv, Targets
  <1>9. ASSUME NEW o \in payload[1] PROVE o.id \in DOMAIN row
    <2>1. <<1, o>> \in T
      BY <1>1 DEF Tag
    <2>2. PICK e \in E : f[e] = <<1, o>>
      BY <1>7, <2>1
    <2>3. Of(e, <<1, o>>)
      BY <1>5, <2>2
    <2>4. row[e].target = o.id
      BY <2>3
    <2> QED
      BY <1>8, <2>4
  <1>10. ASSUME NEW l \in payload[3] PROVE l.id \in DOMAIN row
    <2>1. <<3, l>> \in T
      BY <1>1 DEF Tag
    <2>2. PICK e \in E : f[e] = <<3, l>>
      BY <1>7, <2>1
    <2>3. Of(e, <<3, l>>)
      BY <1>5, <2>2
    <2>4. row[e].target = l.id
      BY <2>3
    <2> QED
      BY <1>8, <2>4
  <1> QED
    BY <1>9, <1>10

\* Answers that say nothing of what a capture has written.
Muted(ans1, ans2) ==
    /\ ans1 \subseteq ans2
    /\ \A a \in ans2 \ ans1 : a.how # "replayed" /\ (a.asked.do = "capture" => a.how # "committed")

LEMMA SaidMuted ==
    ASSUME NEW q, NEW how, NEW on, Said(q, how, on), how # "replayed", q.do = "capture" => how # "committed"
    PROVE  Muted(answers, answers')
  <1>1. PICK a : a = [asked |-> q, how |-> how, on |-> on]
    OBVIOUS
  <1>2. answers' = answers \cup {a} /\ a.asked = q /\ a.how = how
    BY <1>1 DEF Said
  <1> QED
    BY <1>2 DEF Muted

LEMMA MutedAnswers ==
    ASSUME NEW r, NEW P, NEW ans1, NEW ans2, AnswersInv(r, P, ans1), Muted(ans1, ans2)
    PROVE  AnswersInv(r, P, ans2)
  BY DEF AnswersInv, Muted, Answered200

LEMMA Requested == ASSUME ClockInv, NEW q \in todo PROVE q \in Sent_ /\ Request(q)
  BY ScenariosAssumption DEF ClockInv, Sent_

LEMMA PrepareStep ==
    ASSUME RowsInv(row), ClockInv, NEW P, CallsInv(row, P, calls), NEW q \in todo, Prepare(q)
    PROVE  UNCHANGED <<row, now, horizon, receipts>> /\ CallsInv(row, P, calls') /\ Muted(answers, answers')
  <1>1. q \in Captures /\ Request(q) /\ q.do \in {"capture", "batch"}
    BY Requested DEF Prepare, Captures
  <1>2. PICK p : p = IF ~Acceptable(Batch(q)) THEN Refused ELSE
                     IF q.do = "batch" THEN Prepared(q.batch) ELSE Settled(Prepared(SourceBatch(q)), q)
    OBVIOUS
  <1>3. /\ IF p = Refused THEN Said(q, "refused", {}) /\ UNCHANGED calls
           ELSE calls' = calls \cup {[asked |-> q, plan |-> p, pc |-> "status"]} /\ UNCHANGED answers
        /\ UNCHANGED <<row, now, horizon, receipts>>
    BY <1>2 DEF Prepare, store
  <1>4. CASE p = Refused
    <2>1. Said(q, "refused", {}) /\ calls' = calls
      BY <1>3, <1>4
    <2>2. Muted(answers, answers')
      BY <2>1, SaidMuted
    <2> QED
      BY <1>3, <2>1, <2>2
  <1>5. CASE p # Refused
    <2>1. PICK c : c = [asked |-> q, plan |-> p, pc |-> "status"]
      OBVIOUS
    <2>2. calls' = calls \cup {c} /\ answers' = answers
      BY <1>3, <1>5, <2>1
    <2>3. Acceptable(Batch(q))
      BY <1>2, <1>5
    <2>4. PlanInv(q, p) /\ Promises(row, P, q, p)
      <3>1. CASE q.do = "batch"
        <4>1. p = Prepared(Batch(q))
          BY <1>2, <2>3, <3>1 DEF Batch
        <4>2. PlanInv(q, p)
          BY <1>1, <2>3, <4>1, PreparedBatch
        <4> QED
          BY <3>1, <4>2 DEF Promises
      <3>2. CASE q.do = "capture"
        <4>1. Batch(q) = SourceBatch(q)
          BY <3>2 DEF Batch
        <4>2. p = Settled(Prepared(SourceBatch(q)), q) /\ Acceptable(SourceBatch(q))
          BY <1>2, <2>3, <3>2, <4>1
        <4>3. PICK s : Captured(q, p, s)
          BY <1>1, <1>5, <3>2, <4>2, SettledCaptured
        <4> QED
          BY <1>1, <3>2, <4>2, <4>3, CapturedPlan
      <3> QED
        BY <1>1, <3>1, <3>2
    <2>5. CallInv(row, P, c)
      BY <1>1, <2>1, <2>4 DEF CallInv
    <2>6. CallsInv(row, P, calls')
      BY <2>2, <2>5 DEF CallsInv
    <2> QED
      BY <1>3, <2>2, <2>6 DEF Muted
  <1> QED
    BY <1>4, <1>5

\* The Run of a batch under this key has the manifest, the payload and the Events.
LEMMA SameRun ==
    ASSUME RowsInv(row), NEW P, BatchesInv(row, P), NEW q, NEW p, Committed(KeyOf(q)), SameBatch(q, p)
    PROVE  LET id == RunOf(KeyOf(q)) IN
           /\ BatchRun(row, P, id) /\ row[id].payload = Payload(p)
           /\ {x.id : x \in p.objects \cup p.edges} \subseteq DOMAIN row
  <1>1. PICK id, payload : id = RunOf(KeyOf(q)) /\ payload = Payload(p)
    OBVIOUS
  <1>2. id \in DOMAIN row /\ IsBatch(row[id])
    BY <1>1 DEF Committed, OfTab, IsBatch
  <1>3. BatchRun(row, P, id)
    BY <1>2 DEF BatchesInv
  <1>4. payload[1] = p.objects /\ payload[2] = p.contents /\ payload[3] = p.edges
    BY <1>1 DEF Payload
  <1>5. row[id].payload = payload /\ Cardinality(EventsOfRun(id)) = Resources(p)
    BY <1>1 DEF SameBatch
  <1>6. Cardinality(EventsOfRun(id)) = Cardinality(payload[1]) + Cardinality(payload[2]) + Cardinality(payload[3])
    BY <1>4, <1>5 DEF Resources
  <1>7. {x.id : x \in payload[1] \cup payload[3]} \subseteq DOMAIN row
    BY <1>3, <1>5, <1>6, ReplayIsWhole
  <1> QED
    BY <1>1, <1>3, <1>4, <1>5, <1>7

LEMMA StatusStep ==
    ASSUME RowsInv(row), NEW P, BatchesInv(row, P), CallsInv(row, P, calls), AnswersInv(row, P, answers),
           NEW c \in calls, Status(c)
    PROVE  /\ UNCHANGED <<row, now, horizon, todo, receipts>>
           /\ CallsInv(row, P, calls') /\ AnswersInv(row, P, answers') /\ answers \subseteq answers'
           /\ \A a \in answers' \ answers : a.how = "replayed" =>
                 {x.id : x \in row[RunOf(KeyOf(a.asked))].payload[1] \cup row[RunOf(KeyOf(a.asked))].payload[3]}
                     \subseteq DOMAIN row
  <1>1. PICK q, p : q = c.asked /\ p = c.plan
    OBVIOUS
  <1>2. CallInv(row, P, c) /\ UNCHANGED <<row, now, horizon, todo, receipts>>
    BY DEF CallsInv, Status, store
  <1>3. CASE Committed(KeyOf(q)) /\ SameBatch(q, p)
    <2>1. calls' = calls \ {c} /\ Said(q, "replayed", p.on)
      BY <1>1, <1>3 DEF Status
    <2>2. PICK a : a = [asked |-> q, how |-> "replayed", on |-> p.on]
      OBVIOUS
    <2>3. answers' = answers \cup {a} /\ a.asked = q /\ a.how = "replayed" /\ a.on = p.on
      BY <2>1, <2>2 DEF Said
    <2>4. PICK id : id = RunOf(KeyOf(q))
      OBVIOUS
    <2>5. /\ BatchRun(row, P, id) /\ row[id].payload = Payload(p)
          /\ {x.id : x \in p.objects \cup p.edges} \subseteq DOMAIN row
      BY <1>3, <2>4, SameRun
    <2>6. row[id].payload[1] = p.objects /\ row[id].payload[2] = p.contents /\ row[id].payload[3] = p.edges
      BY <2>5 DEF Payload
    <2>7. /\ \A x \in p.contents : Kept(row, P, x.object, x.body)
          /\ \A l \in p.edges : Made(row, P, l.src, l.kind, l.dst)
      BY <2>5, <2>6 DEF BatchRun
    <2>8. Promises(row, P, q, p)
      BY <1>1, <1>2 DEF CallInv
    <2>9. q.do = "capture" => \A s \in p.on : Kept(row, P, s, q.body) /\ \A e \in q.edges : Made(row, P, s, e.kind, e.dst)
      BY <2>7, <2>8 DEF Promises
    <2>10. AnswersInv(row, P, answers')
      BY <2>3, <2>9 DEF AnswersInv
    <2>11. CallsInv(row, P, calls')
      BY <2>1 DEF CallsInv
    <2> QED
      BY <1>2, <2>3, <2>4, <2>5, <2>6, <2>10, <2>11
  <1>4. CASE Committed(KeyOf(q)) /\ ~SameBatch(q, p)
    <2>1. calls' = calls \ {c} /\ Said(q, "refused", {})
      BY <1>1, <1>4 DEF Status
    <2>2. Muted(answers, answers')
      BY <2>1, SaidMuted
    <2>3. AnswersInv(row, P, answers')
      BY <2>2, MutedAnswers
    <2>4. CallsInv(row, P, calls')
      BY <2>1 DEF CallsInv
    <2> QED
      BY <1>2, <2>2, <2>3, <2>4 DEF Muted
  <1>5. CASE ~Committed(KeyOf(q))
    <2>1. PICK d : d = [c EXCEPT !.pc = "write"]
      OBVIOUS
    <2>2. calls' = (calls \ {c}) \cup {d} /\ answers' = answers
      BY <1>1, <1>5, <2>1 DEF Status
    <2>3. d.asked = c.asked /\ d.plan = c.plan /\ d.pc \in {"status", "write"}
      BY <1>2, <2>1 DEF Status
    <2>4. CallInv(row, P, d)
      BY <1>2, <2>3 DEF CallInv
    <2>5. CallsInv(row, P, calls')
      BY <2>2, <2>4 DEF CallsInv
    <2> QED
      BY <1>2, <2>2, <2>5
  <1> QED
    BY <1>3, <1>4, <1>5

LEMMA LostStep ==
    ASSUME NEW P, CallsInv(row, P, calls), NEW c \in calls, Lost(c)
    PROVE  UNCHANGED <<row, now, horizon, todo, answers, receipts>> /\ CallsInv(row, P, calls')
  <1>1. calls' = calls \ {c} /\ UNCHANGED <<row, now, horizon, todo, answers, receipts>>
    BY DEF Lost, store
  <1> QED
    BY <1>1 DEF CallsInv

-----------------------------------------------------------------------------
(* What is written for a batch                                             *)

WrittenEvent(q, p, id, x) ==
    \/ \E o \in p.objects : id = IntakeEventId(o, KeyOf(q)) /\ x = ObjectEvent(RunOf(KeyOf(q)), o.id, {})
    \/ \E c \in p.contents : id = EventId(c) /\ x = ObjectEvent(RunOf(KeyOf(q)), c.object, {c.id})
    \/ \E l \in p.edges : id = EventId(l) /\ x = ObjectEvent(RunOf(KeyOf(q)), l.id, {l.src, l.dst})
FreshIds(p) == {o.id : o \in Fresh(p)}
ContentIds(p) == {c.id : c \in p.contents}
WrittenObject(q, p, id, x) == \E o \in Fresh(p) : id = o.id /\ x = Filled(Born(q, o), p, id)
WrittenArtifact(p, id, x) == \E c \in p.contents : id = c.id /\ x = Artifact(c.object, c.body, c.pred)
WrittenLink(p, id, x) == \E l \in p.edges : id = l.id /\ x = Link(l.src, l.kind, l.dst)

\* The rows of a batch, the first of each id.
LEMMA WrittenRows ==
    ASSUME NEW q, NEW p, NEW N, N = NewRows(q, p),
           NEW run, run = RunOf(KeyOf(q)), NEW F, F = FreshIds(p), NEW C, C = ContentIds(p)
    PROVE  /\ run \in DOMAIN N /\ N[run] = IntakeRun(q, p)
           /\ \A id \in DOMAIN N \ {run} :
                 \/ WrittenObject(q, p, id, N[id]) \/ WrittenArtifact(p, id, N[id])
                 \/ WrittenLink(p, id, N[id]) \/ WrittenEvent(q, p, id, N[id])
           /\ \A o \in Fresh(p) : o.id # run => o.id \in DOMAIN N /\ WrittenObject(q, p, o.id, N[o.id])
           /\ \A c \in p.contents :
                 c.id \notin F \cup {run} => c.id \in DOMAIN N /\ WrittenArtifact(p, c.id, N[c.id])
           /\ \A l \in p.edges :
                 l.id \notin C \cup F \cup {run} => l.id \in DOMAIN N /\ WrittenLink(p, l.id, N[l.id])
  <1>1. PICK NO, NA, NL, OE, CE, LE :
            /\ NO = NewObjects(q, p) /\ NA = NewArtifacts(p) /\ NL = NewLinks(p)
            /\ OE = ObjectEvents(q, p) /\ CE = ContentEvents(q, p) /\ LE = LinkEvents(q, p)
    OBVIOUS
  <1>2. DOMAIN NO = F /\ \A id \in F : WrittenObject(q, p, id, NO[id])
    <2>1. \A id \in F : \E o \in Fresh(p) : o.id = id
      BY DEF FreshIds
    <2>2. \A id \in F : LET o == CHOOSE x \in Fresh(p) : x.id = id IN o \in Fresh(p) /\ o.id = id
      BY <2>1
    <2>3. DOMAIN NO = F /\ \A id \in F : LET o == CHOOSE x \in Fresh(p) : x.id = id IN NO[id] = Filled(Born(q, o), p, id)
      BY <1>1 DEF NewObjects, FreshIds
    <2> QED
      BY <2>2, <2>3 DEF WrittenObject
  <1>3. DOMAIN NA = C /\ \A id \in C : WrittenArtifact(p, id, NA[id])
    <2>1. \A id \in C : \E c \in p.contents : c.id = id
      BY DEF ContentIds
    <2>2. \A id \in C : LET c == CHOOSE x \in p.contents : x.id = id IN c \in p.contents /\ c.id = id
      BY <2>1
    <2>3. DOMAIN NA = C /\ \A id \in C : LET c == CHOOSE x \in p.contents : x.id = id
                                         IN NA[id] = Artifact(c.object, c.body, c.pred)
      BY <1>1 DEF NewArtifacts, ContentIds
    <2> QED
      BY <2>2, <2>3 DEF WrittenArtifact
  <1>4. /\ DOMAIN NL = {l.id : l \in p.edges}
        /\ \A id \in DOMAIN NL : WrittenLink(p, id, NL[id])
    <2>1. DOMAIN NL = {l.id : l \in p.edges} /\ \A id \in DOMAIN NL : LET l == CHOOSE x \in p.edges : x.id = id
                                                                     IN NL[id] = Link(l.src, l.kind, l.dst)
      BY <1>1 DEF NewLinks
    <2>2. \A id \in DOMAIN NL : LET l == CHOOSE x \in p.edges : x.id = id IN l \in p.edges /\ l.id = id
      BY <2>1
    <2> QED
      BY <2>1, <2>2 DEF WrittenLink
  <1>5. \A id \in DOMAIN OE : WrittenEvent(q, p, id, OE[id])
    <2>1. /\ DOMAIN OE = {IntakeEventId(o, KeyOf(q)) : o \in p.objects}
          /\ \A id \in DOMAIN OE : LET o == CHOOSE x \in p.objects : id = IntakeEventId(x, KeyOf(q))
                                   IN OE[id] = ObjectEvent(RunOf(KeyOf(q)), o.id, {})
      BY <1>1 DEF ObjectEvents
    <2>2. \A id \in DOMAIN OE : LET o == CHOOSE x \in p.objects : id = IntakeEventId(x, KeyOf(q))
                                IN o \in p.objects /\ id = IntakeEventId(o, KeyOf(q))
      BY <2>1
    <2> QED
      BY <2>1, <2>2 DEF WrittenEvent
  <1>6. \A id \in DOMAIN CE : WrittenEvent(q, p, id, CE[id])
    <2>1. /\ DOMAIN CE = {EventId(c) : c \in p.contents}
          /\ \A id \in DOMAIN CE : LET c == CHOOSE x \in p.contents : id = EventId(x)
                                   IN CE[id] = ObjectEvent(RunOf(KeyOf(q)), c.object, {c.id})
      BY <1>1 DEF ContentEvents
    <2>2. \A id \in DOMAIN CE : LET c == CHOOSE x \in p.contents : id = EventId(x)
                                IN c \in p.contents /\ id = EventId(c)
      BY <2>1
    <2> QED
      BY <2>1, <2>2 DEF WrittenEvent
  <1>7. \A id \in DOMAIN LE : WrittenEvent(q, p, id, LE[id])
    <2>1. /\ DOMAIN LE = {EventId(l) : l \in p.edges}
          /\ \A id \in DOMAIN LE : LET l == CHOOSE x \in p.edges : id = EventId(x)
                                   IN LE[id] = ObjectEvent(RunOf(KeyOf(q)), l.id, {l.src, l.dst})
      BY <1>1 DEF LinkEvents
    <2>2. \A id \in DOMAIN LE : LET l == CHOOSE x \in p.edges : id = EventId(x)
                                IN l \in p.edges /\ id = EventId(l)
      BY <2>1
    <2> QED
      BY <2>1, <2>2 DEF WrittenEvent
  <1>8. PICK A0 : A0 = Only(run, IntakeRun(q, p))
    OBVIOUS
  <1>9. DOMAIN A0 = {run} /\ A0[run] = IntakeRun(q, p)
    BY <1>8, OneRow
  <1>10. PICK A1, A2, A3, A4, A5 :
             A1 = A0 ++ NO /\ A2 = A1 ++ NA /\ A3 = A2 ++ NL /\ A4 = A3 ++ OE /\ A5 = A4 ++ CE
    OBVIOUS
  <1>11. N = A5 ++ LE
    BY <1>1, <1>8, <1>10 DEF NewRows
  <1>12. /\ DOMAIN A1 = {run} \cup F /\ A1[run] = IntakeRun(q, p)
         /\ \A id \in F \ {run} : WrittenObject(q, p, id, A1[id])
    <2>1. /\ DOMAIN A1 = DOMAIN A0 \cup DOMAIN NO
          /\ \A id \in DOMAIN A0 : A1[id] = A0[id]
          /\ \A id \in DOMAIN NO \ DOMAIN A0 : A1[id] = NO[id]
      BY <1>10 DEF ++
    <2> QED
      BY <1>2, <1>9, <2>1
  <1>13. /\ DOMAIN A2 = {run} \cup F \cup C /\ A2[run] = IntakeRun(q, p)
         /\ \A id \in F \ {run} : WrittenObject(q, p, id, A2[id])
         /\ \A id \in C \ (F \cup {run}) : WrittenArtifact(p, id, A2[id])
    <2>1. /\ DOMAIN A2 = DOMAIN A1 \cup DOMAIN NA
          /\ \A id \in DOMAIN A1 : A2[id] = A1[id]
          /\ \A id \in DOMAIN NA \ DOMAIN A1 : A2[id] = NA[id]
      BY <1>10 DEF ++
    <2> QED
      BY <1>3, <1>12, <2>1
  <1>14. /\ DOMAIN A3 = {run} \cup F \cup C \cup DOMAIN NL /\ A3[run] = IntakeRun(q, p)
         /\ \A id \in F \ {run} : WrittenObject(q, p, id, A3[id])
         /\ \A id \in C \ (F \cup {run}) : WrittenArtifact(p, id, A3[id])
         /\ \A id \in DOMAIN NL \ (C \cup F \cup {run}) : WrittenLink(p, id, A3[id])
    <2>1. /\ DOMAIN A3 = DOMAIN A2 \cup DOMAIN NL
          /\ \A id \in DOMAIN A2 : A3[id] = A2[id]
          /\ \A id \in DOMAIN NL \ DOMAIN A2 : A3[id] = NL[id]
      BY <1>10 DEF ++
    <2> QED
      BY <1>4, <1>13, <2>1
  <1>15. /\ DOMAIN A4 = DOMAIN A3 \cup DOMAIN OE /\ \A id \in DOMAIN A3 : A4[id] = A3[id]
         /\ \A id \in DOMAIN A4 \ DOMAIN A3 : WrittenEvent(q, p, id, A4[id])
    <2>1. /\ DOMAIN A4 = DOMAIN A3 \cup DOMAIN OE
          /\ \A id \in DOMAIN A3 : A4[id] = A3[id]
          /\ \A id \in DOMAIN OE \ DOMAIN A3 : A4[id] = OE[id]
      BY <1>10 DEF ++
    <2> QED
      BY <1>5, <2>1
  <1>16. /\ DOMAIN A5 = DOMAIN A4 \cup DOMAIN CE /\ \A id \in DOMAIN A4 : A5[id] = A4[id]
         /\ \A id \in DOMAIN A5 \ DOMAIN A4 : WrittenEvent(q, p, id, A5[id])
    <2>1. /\ DOMAIN A5 = DOMAIN A4 \cup DOMAIN CE
          /\ \A id \in DOMAIN A4 : A5[id] = A4[id]
          /\ \A id \in DOMAIN CE \ DOMAIN A4 : A5[id] = CE[id]
      BY <1>10 DEF ++
    <2> QED
      BY <1>6, <2>1
  <1>17. /\ DOMAIN N = DOMAIN A5 \cup DOMAIN LE /\ \A id \in DOMAIN A5 : N[id] = A5[id]
         /\ \A id \in DOMAIN N \ DOMAIN A5 : WrittenEvent(q, p, id, N[id])
    <2>1. /\ DOMAIN N = DOMAIN A5 \cup DOMAIN LE
          /\ \A id \in DOMAIN A5 : N[id] = A5[id]
          /\ \A id \in DOMAIN LE \ DOMAIN A5 : N[id] = LE[id]
      BY <1>11 DEF ++
    <2> QED
      BY <1>7, <2>1
  <1>18. DOMAIN A3 \subseteq DOMAIN N /\ \A id \in DOMAIN A3 : N[id] = A3[id]
    BY <1>15, <1>16, <1>17
  <1>19. \A id \in DOMAIN N \ DOMAIN A3 : WrittenEvent(q, p, id, N[id])
    BY <1>15, <1>16, <1>17
  <1>20. \A id \in DOMAIN N \ {run} :
             \/ WrittenObject(q, p, id, N[id]) \/ WrittenArtifact(p, id, N[id])
             \/ WrittenLink(p, id, N[id]) \/ WrittenEvent(q, p, id, N[id])
    BY <1>14, <1>18, <1>19
  <1>21. run \in DOMAIN N /\ N[run] = IntakeRun(q, p)
    BY <1>14, <1>18
  <1>22. \A id \in F \ {run} : id \in DOMAIN N /\ WrittenObject(q, p, id, N[id])
    BY <1>14, <1>18
  <1>23. \A id \in C \ (F \cup {run}) : id \in DOMAIN N /\ WrittenArtifact(p, id, N[id])
    BY <1>14, <1>18
  <1>24. \A id \in DOMAIN NL \ (C \cup F \cup {run}) : id \in DOMAIN N /\ WrittenLink(p, id, N[id])
    BY <1>14, <1>18
  <1>25. (\A o \in Fresh(p) : o.id \in F) /\ (\A c \in p.contents : c.id \in C) /\ (\A l \in p.edges : l.id \in DOMAIN NL)
    BY <1>4 DEF FreshIds, ContentIds
  <1> QED
    BY <1>20, <1>21, <1>22, <1>23, <1>24, <1>25

\* An Object that gains content: its revision counts it, and content stays current.
LEMMA FilledRow ==
    ASSUME NEW old, Columns(old), old.tab = "object", NEW p, IsFiniteSet(p.contents),
           \A c \in p.contents : c.id # None, NEW o, NEW n, n = Filled(old, p, o)
    PROVE  /\ DOMAIN n = DOMAIN old /\ n.rev \in Nat \ {0} /\ old.rev <= n.rev
           /\ \A col \in DOMAIN old \ {"rev", "current"} : n[col] = old[col]
           /\ old.kind # "source" => \A col \in DOMAIN old \ {"rev"} : n[col] = old[col]
           /\ old.kind = "source" => /\ n.current = old.current \/ n.current # None
                                     /\ (\E c \in p.contents : c.whole /\ c.object = o) => n.current # None
  <1>1. /\ {"tab", "kind", "rev"} \subseteq DOMAIN old /\ old.rev \in Nat \ {0}
        /\ old.kind = "source" => "current" \in DOMAIN old
    BY DEF Columns
  <1>2. PICK cs, whole : cs = ContentsOf(p, o) /\ whole = {c.id : c \in {x \in cs : x.whole}}
    OBVIOUS
  <1>3. Cardinality(cs) \in Nat
    <2>1. IsFiniteSet(cs)
      BY <1>2, FS_Subset DEF ContentsOf
    <2> QED
      BY <2>1, FS_CardinalityType
  <1>4. PICK new : new = [old EXCEPT !.rev = @ + Cardinality(cs)]
    OBVIOUS
  <1>5. /\ DOMAIN new = DOMAIN old /\ new.rev = old.rev + Cardinality(cs)
        /\ \A col \in DOMAIN old \ {"rev"} : new[col] = old[col]
    BY <1>1, <1>4
  <1>6. new.rev \in Nat \ {0} /\ old.rev <= new.rev
    BY <1>1, <1>3, <1>5
  <1>7. n = IF old.kind = "source" /\ whole # {} THEN [new EXCEPT !.current = CHOOSE a \in whole : TRUE] ELSE new
    BY <1>2, <1>4 DEF Filled
  <1>8. CASE old.kind = "source" /\ whole # {}
    <2>1. PICK a : a = CHOOSE x \in whole : TRUE
      OBVIOUS
    <2>2. a \in whole
      BY <1>8, <2>1
    <2>3. a # None
      BY <1>2, <2>2 DEF ContentsOf
    <2>4. n = [new EXCEPT !.current = a]
      BY <1>7, <1>8, <2>1
    <2>5. /\ DOMAIN n = DOMAIN new /\ n.current = a
          /\ \A col \in DOMAIN new \ {"current"} : n[col] = new[col]
      BY <1>1, <1>5, <1>8, <2>4
    <2>6. n.rev = new.rev
      BY <1>1, <1>5, <2>5
    <2> QED
      BY <1>5, <1>6, <1>8, <2>3, <2>5, <2>6
  <1>9. CASE ~(old.kind = "source" /\ whole # {})
    <2>1. n = new
      BY <1>7, <1>9
    <2>2. old.kind = "source" => n.current = old.current
      BY <1>1, <1>5, <2>1
    <2>3. old.kind = "source" => ~(\E c \in p.contents : c.whole /\ c.object = o)
      BY <1>2, <1>9 DEF ContentsOf
    <2> QED
      BY <1>5, <1>6, <2>1, <2>2, <2>3
  <1> QED
    BY <1>8, <1>9

\* An Object a batch creates.
LEMMA BornRow ==
    ASSUME NEW q, NEW o, o.kind # "task", NEW x, x = Born(q, o)
    PROVE  Columns(x) /\ x.tab = "object" /\ (x.kind = "source" => x.past = None)
  <1>1. CASE o.kind = "source"
    <2>1. PICK m, g : /\ m = [uri |-> o.uri, guarded |-> TRUE, by |-> KeyOf(q), past |-> None, current |-> None]
                      /\ g = [tab |-> "object", kind |-> "source", rev |-> 1, live |-> TRUE, says |-> {}]
      OBVIOUS
    <2>2. x = m ++ g
      BY <1>1, <2>1 DEF Born, SourceObject, Object
    <2>3. /\ DOMAIN x = {"uri", "guarded", "by", "past", "current", "tab", "kind", "rev", "live", "says"}
          /\ x.past = None /\ x.tab = "object" /\ x.kind = "source" /\ x.rev = 1 /\ x.live = TRUE
      BY <2>1, <2>2 DEF ++
    <2>4. x.rev \in Nat \ {0} /\ x.live \in BOOLEAN
      <3>1. x.rev \in Nat \ {0}
        BY <2>3
      <3>2. x.live \in BOOLEAN
        BY <2>3
      <3> QED
        BY <3>1, <3>2
    <2>5. Columns(x)
      BY <2>3, <2>4 DEF Columns
    <2> QED
      BY <2>3, <2>5
  <1>2. CASE o.kind # "source"
    <2>1. PICK g : g = [tab |-> "object", kind |-> o.kind, rev |-> 1, live |-> TRUE, says |-> {}]
      OBVIOUS
    <2>2. x = << >> ++ g
      BY <1>2, <2>1 DEF Born, Object
    <2>3. /\ DOMAIN x = {"tab", "kind", "rev", "live", "says"}
          /\ x.tab = "object" /\ x.kind = o.kind /\ x.rev = 1 /\ x.live = TRUE
      BY <2>1, <2>2 DEF ++
    <2>4. x.rev \in Nat \ {0} /\ x.live \in BOOLEAN
      <3>1. x.rev \in Nat \ {0}
        BY <2>3
      <3>2. x.live \in BOOLEAN
        BY <2>3
      <3> QED
        BY <3>1, <3>2
    <2>5. Columns(x)
      BY <1>2, <2>3, <2>4 DEF Columns
    <2> QED
      BY <1>2, <2>3, <2>5
  <1> QED
    BY <1>1, <1>2

\* The Run of a batch.
LEMMA IntakeRunRow ==
    ASSUME NEW q, NEW p, NEW x, x = IntakeRun(q, p)
    PROVE  /\ Columns(x) /\ IsBatch(x) /\ ~Resource(x) /\ x.manifest = Batch(q) /\ x.payload = Payload(p)
           /\ \A s : p.on = {s} => x.primary = s
  <1> DEFINE says == p.on \cup {c.id : c \in p.contents} \cup {e.dst : e \in p.edges}
             primary == IF Cardinality(p.on) = 1 THEN CHOOSE o \in p.on : TRUE ELSE None
             chat == IF \E e \in p.edges : e.id = Id(KeyOf(q), "originating-chat") THEN q.chat ELSE None
  <1>0. IntakeRun(q, p) =
            NewRun("intake", "completed",
                   [manifest |-> Batch(q), payload |-> Payload(p), says |-> says, primary |-> primary, chat |-> chat])
    BY DEF IntakeRun
  <1> HIDE DEF says, primary, chat
  <1>1. PICK m, g :
            /\ m = [manifest |-> Batch(q), payload |-> Payload(p), says |-> says, primary |-> primary, chat |-> chat]
            /\ g = [tab |-> "run", kind |-> "intake", status |-> "completed", chat |-> None, parent |-> None,
                    primary |-> None, pinned |-> FALSE, trace |-> {}, review |-> 0, says |-> {}]
    OBVIOUS
  <1>2. x = m ++ g
    BY <1>0, <1>1 DEF NewRun
  <1>3. /\ DOMAIN m = {"manifest", "payload", "says", "primary", "chat"}
        /\ m.manifest = Batch(q) /\ m.payload = Payload(p)
        /\ m.primary = primary
    BY <1>1
  <1>4. /\ DOMAIN x = DOMAIN m \cup {"tab", "kind", "status", "parent", "pinned", "trace", "review"}
        /\ \A c \in DOMAIN m : x[c] = m[c]
        /\ x.tab = "run" /\ x.kind = "intake"
    BY <1>1, <1>2, <1>3 DEF ++
  <1>5. x.manifest = m.manifest /\ x.payload = m.payload /\ x.primary = m.primary
    BY <1>3, <1>4
  <1>6. \A s : p.on = {s} => x.primary = s
    <2> SUFFICES ASSUME NEW s, p.on = {s} PROVE x.primary = s
      OBVIOUS
    <2>1. Cardinality(p.on) = 1
      BY FS_Singleton
    <2> QED
      BY <1>3, <1>5, <2>1 DEF primary
  <1>7. Columns(x)
    BY <1>3, <1>4 DEF Columns
  <1> QED
    BY <1>3, <1>4, <1>5, <1>6, <1>7 DEF IsBatch, Resource

LEMMA EventColumns ==
    ASSUME NEW run, NEW target, NEW says, NEW x, x = ObjectEvent(run, target, says)
    PROVE  Columns(x) /\ x.tab = "event" /\ x.run = run /\ x.target = target
  BY DEF ObjectEvent, Columns

\* The ids of what a plan writes differ, from each other and from those of other keys.
LEMMA PlanIds ==
    ASSUME NEW q \in Captures, Request(q), NEW p, PlanInv(q, p), NEW key, key = KeyOf(q), NEW run, run = RunOf(key),
           NEW F, F = FreshIds(p), NEW C, C = ContentIds(p)
    PROVE  /\ key \in Keys /\ run \in IdsUnder(key) /\ run # None
           /\ \A k \in Keys : k # key => IdsUnder(k) \cap IdsUnder(key) = {}
           /\ \A k \in Keys : k # key => RunOf(k) # run
           /\ \A o \in Fresh(p) : o.id \in IdsUnder(key) /\ o.id \notin {run, None}
           /\ \A c \in p.contents : c.id \in IdsUnder(key) /\ c.id \notin F \cup {run, None}
           /\ \A l \in p.edges : l.id \in IdsUnder(key) /\ l.id \notin C \cup F \cup {run, None}
  <1>1. PICK b : b = Batch(q)
    OBVIOUS
  <1>2. key \in Keys /\ "run" \in AllNames /\ run = Id(key, "run")
    BY DEF Keys, AllNames, RunOf
  <1>3. \A x \in b.objects \cup b.contents \cup b.edges : x.name \in AllNames /\ x.name # "run"
    <2>1. \A x \in b.objects \cup b.contents \cup b.edges : x.name \in NamesIn(q)
      BY <1>1 DEF NamesIn, Resources_
    <2>2. "run" \notin NamesIn(q)
      BY DEF Captures, Request
    <2> QED
      BY <2>1, <2>2 DEF AllNames
  <1>4. /\ NamesApart(b) /\ Named_(key, Fresh(p), b.objects)
        /\ Named_(key, p.contents, b.contents) /\ Named_(key, p.edges, b.edges)
    BY <1>1 DEF PlanInv
  <1>5. \A n, m \in AllNames : Id(key, n) = Id(key, m) => n = m
    BY <1>2, IdsAssumption
  <1>6. \A n \in AllNames : Id(key, n) \in IdsUnder(key) /\ Id(key, n) # None
    BY <1>2, IdsAssumption DEF IdsUnder
  <1>7. \A k \in Keys : k # key => IdsUnder(k) \cap IdsUnder(key) = {}
    BY <1>2, IdsAssumption DEF IdsUnder
  <1>8. \A k \in Keys : k # key => RunOf(k) # run
    BY <1>2, IdsAssumption DEF RunOf
  <1>9. \A o \in Fresh(p) : \E x \in b.objects : o.id = Id(key, x.name)
    BY <1>4 DEF Named_
  <1>10. \A c \in p.contents : \E x \in b.contents : c.id = Id(key, x.name)
    BY <1>4 DEF Named_
  <1>11. \A l \in p.edges : \E x \in b.edges : l.id = Id(key, x.name)
    BY <1>4 DEF Named_
  <1>12. \A x \in b.objects \cup b.contents \cup b.edges :
             Id(key, x.name) \in IdsUnder(key) /\ Id(key, x.name) \notin {run, None}
    BY <1>2, <1>3, <1>5, <1>6
  <1>13. \A x \in b.objects, y \in b.contents \cup b.edges : Id(key, x.name) # Id(key, y.name)
    BY <1>3, <1>4, <1>5 DEF NamesApart
  <1>14. \A x \in b.contents, y \in b.edges : Id(key, x.name) # Id(key, y.name)
    BY <1>3, <1>4, <1>5 DEF NamesApart
  <1>15. \A o \in Fresh(p) : o.id \in IdsUnder(key) /\ o.id \notin {run, None}
    BY <1>9, <1>12
  <1>16. \A c \in p.contents : c.id \in IdsUnder(key) /\ c.id \notin F \cup {run, None}
    BY <1>9, <1>10, <1>12, <1>13 DEF FreshIds
  <1>17. \A l \in p.edges : l.id \in IdsUnder(key) /\ l.id \notin C \cup F \cup {run, None}
    BY <1>9, <1>10, <1>11, <1>12, <1>13, <1>14 DEF FreshIds, ContentIds
  <1> QED
    BY <1>2, <1>6, <1>7, <1>8, <1>15, <1>16, <1>17

\* The rows a batch rewrites: the Source it adopts, and those that gain content.
LEMMA UpdatedRow ==
    ASSUME RowsInv(row), NEW q, NEW p, PlanInv(q, p), \A c \in p.contents : c.id # None,
           \A s \in p.adopts : Adoptable(s),
           NEW U, U = Updated(q, p), NEW o \in DOMAIN U, row[o].tab = "object"
    PROVE  o \in DOMAIN row /\ Columns(U[o]) /\ Evolves(row[o], U[o])
  <1>1. PICK old, n : old = row[o] /\ n = U[o]
    OBVIOUS
  <1>2. /\ o \in DOMAIN row /\ old.tab = "object"
        /\ n = IF o \in p.adopts
               THEN Filled([old EXCEPT !.rev = @ + 1, !.guarded = TRUE, !.past = old.by,
                                       !.by = KeyOf(q), !.uri = q.uri], p, o)
               ELSE Filled(old, p, o)
    BY <1>1 DEF Updated
  <1>3. Columns(old) /\ IsFiniteSet(p.contents)
    BY <1>1, <1>2 DEF RowsInv, Formed, PlanInv
  <1>4. /\ {"tab", "says", "kind", "rev", "live"} \subseteq DOMAIN old /\ old.rev \in Nat \ {0} /\ old.live \in BOOLEAN
        /\ old.kind = "source" => /\ {"uri", "guarded", "by", "past", "current"} \subseteq DOMAIN old
                                  /\ old.past # None => old.current # None
        /\ old.kind = "task" => {"status", "ready", "text"} \subseteq DOMAIN old
    BY <1>2, <1>3 DEF Columns
  <1>5. CASE o \in p.adopts
    <2>1. old.kind = "source" /\ old.current = None
      BY <1>1, <1>5 DEF Adoptable, Objects
    <2>2. old.past = None
      BY <1>4, <2>1
    <2>3. PICK m : m = [old EXCEPT !.rev = @ + 1, !.guarded = TRUE, !.past = old.by, !.by = KeyOf(q), !.uri = q.uri]
      OBVIOUS
    <2>4. /\ DOMAIN m = DOMAIN old /\ m.rev = old.rev + 1
          /\ \A c \in DOMAIN old \ {"rev", "guarded", "past", "by", "uri"} : m[c] = old[c]
      BY <1>4, <2>1, <2>3
    <2>5. PICK k : k = [old EXCEPT !.rev = old.rev + 1]
      OBVIOUS
    <2>6. \E c \in p.contents : c.whole /\ c.object = o
      BY <1>5 DEF PlanInv
    <2>7. n = Filled(m, p, o)
      BY <1>2, <1>5, <2>3
    <2>8. PICK cs, whole : cs = ContentsOf(p, o) /\ whole = {c.id : c \in {x \in cs : x.whole}}
      OBVIOUS
    <2>9. Cardinality(cs) \in Nat
      <3>1. IsFiniteSet(cs)
        BY <1>3, <2>8, FS_Subset DEF ContentsOf
      <3> QED
        BY <3>1, FS_CardinalityType
    <2>10. PICK a : a = CHOOSE x \in whole : TRUE
      OBVIOUS
    <2>11. whole # {} /\ a # None
      <3>1. whole # {}
        BY <2>6, <2>8 DEF ContentsOf
      <3>2. a \in whole
        BY <2>10, <3>1
      <3> QED
        BY <2>8, <3>1, <3>2 DEF ContentsOf
    <2>12. PICK v : v = [m EXCEPT !.rev = @ + Cardinality(cs)]
      OBVIOUS
    <2>13. /\ DOMAIN v = DOMAIN old /\ v.rev = m.rev + Cardinality(cs)
           /\ \A c \in DOMAIN old \ {"rev"} : v[c] = m[c]
      BY <1>4, <2>4, <2>12
    <2>14. m.kind = "source"
      BY <1>4, <2>1, <2>4
    <2>15. n = [v EXCEPT !.current = a]
      BY <2>7, <2>8, <2>10, <2>11, <2>12, <2>14 DEF Filled
    <2>16. /\ DOMAIN n = DOMAIN old /\ n.current = a
           /\ \A c \in DOMAIN old \ {"current"} : n[c] = v[c]
      BY <1>4, <2>1, <2>13, <2>15
    <2>17. n.tab = "object" /\ n.kind = "source" /\ n.live = old.live /\ n.rev = old.rev + 1 + Cardinality(cs)
      BY <1>2, <1>4, <2>1, <2>4, <2>13, <2>16
    <2>18. n.rev \in Nat \ {0} /\ old.rev <= n.rev
      BY <1>4, <2>9, <2>17
    <2>19. Columns(n)
      BY <1>4, <2>1, <2>11, <2>16, <2>17, <2>18 DEF Columns
    <2>20. Evolves(old, n)
      BY <1>2, <2>1, <2>2, <2>17, <2>18 DEF Evolves
    <2> QED
      BY <1>1, <1>2, <2>19, <2>20
  <1>6. CASE o \notin p.adopts
    <2>1. n = Filled(old, p, o)
      BY <1>2, <1>6
    <2>2. /\ DOMAIN n = DOMAIN old /\ n.rev \in Nat \ {0} /\ old.rev <= n.rev
          /\ \A col \in DOMAIN old \ {"rev", "current"} : n[col] = old[col]
          /\ old.kind # "source" => \A col \in DOMAIN old \ {"rev"} : n[col] = old[col]
          /\ old.kind = "source" => n.current = old.current \/ n.current # None
      BY <1>2, <1>3, <2>1, FilledRow
    <2>3. /\ n.tab = "object" /\ n.kind = old.kind /\ n.live = old.live
          /\ old.kind = "task" => n.text = old.text
          /\ old.kind = "source" => n.past = old.past
      BY <1>2, <1>4, <2>2
    <2>4. Columns(n)
      BY <1>4, <2>2, <2>3 DEF Columns
    <2>5. Evolves(old, n)
      BY <1>2, <2>2, <2>3 DEF Evolves
    <2> QED
      BY <1>1, <1>2, <2>4, <2>5
  <1> QED
    BY <1>5, <1>6

\* What a batch adds.
Wrote(q, p, r2) ==
    LET run == RunOf(KeyOf(q)) IN
    /\ run \notin DOMAIN row /\ run \in DOMAIN r2 /\ r2[run] = IntakeRun(q, p)
    /\ \A c \in p.contents : c.id \in DOMAIN r2 /\ IsCopy(r2[c.id], c.object, c.body)
    /\ \A l \in p.edges : l.id \in DOMAIN r2 /\ Connects(r2[l.id], l.src, l.kind, l.dst)
    /\ \A id \in DOMAIN r2 \ DOMAIN row :
          /\ r2[id].tab \notin {"routine", "occurrence"}
          /\ Resource(r2[id]) => id \in IdsUnder(KeyOf(q)) /\ id # None
          /\ IsBatch(r2[id]) => id = run
          /\ r2[id].tab = "event" => r2[id].run = run /\ Notes(KeyOf(q), Payload(p), id, r2[id])

LEMMA ArtifactRow ==
    ASSUME NEW s, s # None, NEW body, NEW pred, NEW x, x = Artifact(s, body, pred)
    PROVE  Columns(x) /\ x.tab = "artifact" /\ IsCopy(x, s, body)
  <1>1. PICK age : age = Max({0} \cup {row[a].age : a \in OfTab("artifact")}) + 1
    OBVIOUS
  <1>2. x = [tab |-> "artifact", object |-> s, body |-> body, pred |-> pred, says |-> {}, age |-> age]
    BY <1>1 DEF Artifact
  <1> QED
    BY <1>2 DEF Columns, IsCopy

LEMMA LinkRow ==
    ASSUME NEW src, NEW kind, NEW dst, src # None, dst # None, NEW x, x = Link(src, kind, dst)
    PROVE  Columns(x) /\ x.tab = "link" /\ Connects(x, src, kind, dst)
  <1>1. x = [tab |-> "link", src |-> src, kind |-> kind, dst |-> dst, live |-> TRUE, says |-> {}]
    BY DEF Link
  <1> QED
    BY <1>1 DEF Columns, Connects

\* A row that is written for a batch, by its kind.
LEMMA WrittenRow ==
    ASSUME NEW q, NEW p, PlanInv(q, p), \A c \in p.contents : c.id # None, NEW id, NEW x,
           \/ WrittenObject(q, p, id, x) \/ WrittenArtifact(p, id, x)
           \/ WrittenLink(p, id, x) \/ WrittenEvent(q, p, id, x)
    PROVE  /\ Columns(x) /\ ~IsBatch(x) /\ x.tab \in {"object", "artifact", "link", "event"}
           /\ x.tab = "object" => \E o \in Fresh(p) : id = o.id
           /\ x.tab = "artifact" => \E c \in p.contents : id = c.id /\ IsCopy(x, c.object, c.body)
           /\ x.tab = "link" => \E l \in p.edges : id = l.id /\ Connects(x, l.src, l.kind, l.dst)
           /\ x.tab = "event" => /\ x.run = RunOf(KeyOf(q)) /\ Notes(KeyOf(q), Payload(p), id, x)
                                 /\ \/ \E o \in p.objects : x.target = o.id
                                    \/ \E c \in p.contents : x.target = c.object
                                    \/ \E l \in p.edges : x.target = l.id
  <1>1. CASE WrittenObject(q, p, id, x)
    <2>1. PICK o \in Fresh(p) : id = o.id /\ x = Filled(Born(q, o), p, id)
      BY <1>1 DEF WrittenObject
    <2>2. PICK old : old = Born(q, o)
      OBVIOUS
    <2>3. o.kind # "task" /\ IsFiniteSet(p.contents)
      BY <2>1 DEF PlanInv, Fresh
    <2>4. Columns(old) /\ old.tab = "object" /\ (old.kind = "source" => old.past = None)
      BY <2>2, <2>3, BornRow
    <2>5. x = Filled(old, p, id)
      BY <2>1, <2>2
    <2>6. /\ DOMAIN x = DOMAIN old /\ x.rev \in Nat \ {0}
          /\ \A col \in DOMAIN old \ {"rev", "current"} : x[col] = old[col]
      BY <2>3, <2>4, <2>5, FilledRow
    <2>7. /\ {"tab", "says", "kind", "rev", "live"} \subseteq DOMAIN old /\ old.live \in BOOLEAN
          /\ old.kind = "source" => {"uri", "guarded", "by", "past", "current"} \subseteq DOMAIN old
          /\ old.kind = "task" => {"status", "ready", "text"} \subseteq DOMAIN old
      BY <2>4 DEF Columns
    <2>8. x.tab = "object" /\ x.kind = old.kind /\ x.live = old.live /\ (x.kind = "source" => x.past = None)
      BY <2>4, <2>6, <2>7
    <2>9. Columns(x)
      BY <2>6, <2>7, <2>8 DEF Columns
    <2> QED
      BY <2>1, <2>8, <2>9 DEF IsBatch
  <1>2. CASE WrittenArtifact(p, id, x)
    <2>1. PICK c \in p.contents : id = c.id /\ x = Artifact(c.object, c.body, c.pred)
      BY <1>2 DEF WrittenArtifact
    <2>2. c.object # None
      BY DEF PlanInv
    <2>3. Columns(x) /\ x.tab = "artifact" /\ IsCopy(x, c.object, c.body)
      BY <2>1, <2>2, ArtifactRow
    <2> QED
      BY <2>1, <2>3 DEF IsBatch
  <1>3. CASE WrittenLink(p, id, x)
    <2>1. PICK l \in p.edges : id = l.id /\ x = Link(l.src, l.kind, l.dst)
      BY <1>3 DEF WrittenLink
    <2>2. l.src # None /\ l.dst # None
      BY DEF PlanInv
    <2>3. Columns(x) /\ x.tab = "link" /\ Connects(x, l.src, l.kind, l.dst)
      BY <2>1, <2>2, LinkRow
    <2> QED
      BY <2>1, <2>3 DEF IsBatch
  <1>4. CASE WrittenEvent(q, p, id, x)
    <2>1. PICK run, payload : run = RunOf(KeyOf(q)) /\ payload = Payload(p)
      OBVIOUS
    <2>2. payload[1] = p.objects /\ payload[2] = p.contents /\ payload[3] = p.edges
      BY <2>1 DEF Payload
    <2>3. CASE \E o \in p.objects : id = IntakeEventId(o, KeyOf(q)) /\ x = ObjectEvent(run, o.id, {})
      <3>1. PICK o \in p.objects : id = IntakeEventId(o, KeyOf(q)) /\ x = ObjectEvent(run, o.id, {})
        BY <2>3
      <3>2. Columns(x) /\ x.tab = "event" /\ x.run = run /\ x.target = o.id
        BY <3>1, EventColumns
      <3> QED
        BY <2>1, <2>2, <3>1, <3>2 DEF Notes, IsBatch
    <2>4. CASE \E c \in p.contents : id = EventId(c) /\ x = ObjectEvent(run, c.object, {c.id})
      <3>1. PICK c \in p.contents : id = EventId(c) /\ x = ObjectEvent(run, c.object, {c.id})
        BY <2>4
      <3>2. Columns(x) /\ x.tab = "event" /\ x.run = run /\ x.target = c.object
        BY <3>1, EventColumns
      <3> QED
        BY <2>1, <2>2, <3>1, <3>2 DEF Notes, IsBatch
    <2>5. CASE \E l \in p.edges : id = EventId(l) /\ x = ObjectEvent(run, l.id, {l.src, l.dst})
      <3>1. PICK l \in p.edges : id = EventId(l) /\ x = ObjectEvent(run, l.id, {l.src, l.dst})
        BY <2>5
      <3>2. Columns(x) /\ x.tab = "event" /\ x.run = run /\ x.target = l.id
        BY <3>1, EventColumns
      <3> QED
        BY <2>1, <2>2, <3>1, <3>2 DEF Notes, IsBatch
    <2> QED
      BY <1>4, <2>1, <2>3, <2>4, <2>5 DEF WrittenEvent
  <1> QED
    BY <1>1, <1>2, <1>3, <1>4

LEMMA WriteRows ==
    ASSUME RowsInv(row), NEW q \in Captures, Request(q), NEW p, PlanInv(q, p), Writable(q, p),
           NEW r2, r2 = NewRows(q, p) ++ Updated(q, p) ++ row
    PROVE  Grows(row, r2) /\ SameRoutines(row, r2) /\ SameOccurrences(row, r2) /\ Wrote(q, p, r2)
  <1>1. PICK key, run, F, C, N, U :
            /\ key = KeyOf(q) /\ run = RunOf(key) /\ F = FreshIds(p) /\ C = ContentIds(p)
            /\ N = NewRows(q, p) /\ U = Updated(q, p)
    OBVIOUS
  <1>2. /\ run \in IdsUnder(key) /\ run # None
        /\ \A o \in Fresh(p) : o.id \in IdsUnder(key) /\ o.id \notin {run, None}
        /\ \A c \in p.contents : c.id \in IdsUnder(key) /\ c.id \notin F \cup {run, None}
        /\ \A l \in p.edges : l.id \in IdsUnder(key) /\ l.id \notin C \cup F \cup {run, None}
    <2>1. key = KeyOf(q)
      BY <1>1
    <2>2. run = RunOf(key)
      BY <1>1
    <2>3. F = FreshIds(p)
      BY <1>1
    <2>4. C = ContentIds(p)
      BY <1>1
    <2>5. /\ key \in Keys /\ run \in IdsUnder(key) /\ run # None
          /\ \A k \in Keys : k # key => IdsUnder(k) \cap IdsUnder(key) = {}
          /\ \A k \in Keys : k # key => RunOf(k) # run
          /\ \A o \in Fresh(p) : o.id \in IdsUnder(key) /\ o.id \notin {run, None}
          /\ \A c \in p.contents : c.id \in IdsUnder(key) /\ c.id \notin F \cup {run, None}
          /\ \A l \in p.edges : l.id \in IdsUnder(key) /\ l.id \notin C \cup F \cup {run, None}
      BY <2>1, <2>2, <2>3, <2>4, PlanIds
    <2> QED
      BY <2>5
  <1>3. /\ run \in DOMAIN N /\ N[run] = IntakeRun(q, p)
        /\ \A id \in DOMAIN N \ {run} :
              \/ WrittenObject(q, p, id, N[id]) \/ WrittenArtifact(p, id, N[id])
              \/ WrittenLink(p, id, N[id]) \/ WrittenEvent(q, p, id, N[id])
        /\ \A o \in Fresh(p) : o.id # run => o.id \in DOMAIN N /\ WrittenObject(q, p, o.id, N[o.id])
        /\ \A c \in p.contents :
              c.id \notin F \cup {run} => c.id \in DOMAIN N /\ WrittenArtifact(p, c.id, N[c.id])
        /\ \A l \in p.edges :
              l.id \notin C \cup F \cup {run} => l.id \in DOMAIN N /\ WrittenLink(p, l.id, N[l.id])
    BY <1>1, WrittenRows
  <1>4. DOMAIN N \cap DOMAIN row = {} /\ Sound(r2) /\ \A o \in p.adopts : Adoptable(o)
    BY <1>1 DEF Writable
  <1>5. DOMAIN U \subseteq DOMAIN row
    BY <1>1 DEF Updated
  <1>6. PICK A : A = N ++ U
    OBVIOUS
  <1>7. /\ DOMAIN A = DOMAIN N \cup DOMAIN U
        /\ \A id \in DOMAIN N : A[id] = N[id]
        /\ \A id \in DOMAIN U \ DOMAIN N : A[id] = U[id]
    BY <1>6 DEF ++
  <1>8. /\ DOMAIN r2 = DOMAIN A \cup DOMAIN row
        /\ \A id \in DOMAIN A : r2[id] = A[id]
        /\ \A id \in DOMAIN row \ DOMAIN A : r2[id] = row[id]
    <2>1. r2 = A ++ row
      BY <1>1, <1>6
    <2> QED
      BY <2>1 DEF ++
  <1>9. /\ DOMAIN r2 = DOMAIN N \cup DOMAIN row
        /\ \A id \in DOMAIN N : r2[id] = N[id]
        /\ \A id \in DOMAIN U : r2[id] = U[id]
        /\ \A id \in DOMAIN row \ DOMAIN U : r2[id] = row[id]
    BY <1>4, <1>5, <1>7, <1>8
  <1>10. \A c \in p.contents : c.id # None
    BY <1>2
  <1>11. ASSUME NEW id \in DOMAIN N \ {run}
         PROVE  /\ Columns(N[id]) /\ ~IsBatch(N[id]) /\ N[id].tab \in {"object", "artifact", "link", "event"}
                /\ N[id].tab = "object" => \E o \in Fresh(p) : id = o.id
                /\ N[id].tab = "artifact" => \E c \in p.contents : id = c.id /\ IsCopy(N[id], c.object, c.body)
                /\ N[id].tab = "link" => \E l \in p.edges : id = l.id /\ Connects(N[id], l.src, l.kind, l.dst)
                /\ N[id].tab = "event" => /\ N[id].run = RunOf(KeyOf(q)) /\ Notes(KeyOf(q), Payload(p), id, N[id])
                                          /\ \/ \E o \in p.objects : N[id].target = o.id
                                             \/ \E c \in p.contents : N[id].target = c.object
                                             \/ \E l \in p.edges : N[id].target = l.id
    <2>1. PICK x : x = N[id]
      OBVIOUS
    <2>2. \/ WrittenObject(q, p, id, x) \/ WrittenArtifact(p, id, x)
          \/ WrittenLink(p, id, x) \/ WrittenEvent(q, p, id, x)
      BY <1>3, <2>1
    <2>3. /\ Columns(x) /\ ~IsBatch(x) /\ x.tab \in {"object", "artifact", "link", "event"}
          /\ x.tab = "object" => \E o \in Fresh(p) : id = o.id
          /\ x.tab = "artifact" => \E c \in p.contents : id = c.id /\ IsCopy(x, c.object, c.body)
          /\ x.tab = "link" => \E l \in p.edges : id = l.id /\ Connects(x, l.src, l.kind, l.dst)
          /\ x.tab = "event" => /\ x.run = RunOf(KeyOf(q)) /\ Notes(KeyOf(q), Payload(p), id, x)
                                /\ \/ \E o \in p.objects : x.target = o.id
                                   \/ \E c \in p.contents : x.target = c.object
                                   \/ \E l \in p.edges : x.target = l.id
      BY <1>10, <2>2, WrittenRow
    <2> QED
      BY <2>1, <2>3
  <1>12. Columns(N[run]) /\ IsBatch(N[run]) /\ ~Resource(N[run])
    BY <1>3, IntakeRunRow
  <1>13. ASSUME NEW c \in p.contents PROVE c.id \in DOMAIN r2 /\ IsCopy(r2[c.id], c.object, c.body)
    <2>1. c.id \in DOMAIN N /\ WrittenArtifact(p, c.id, N[c.id])
      BY <1>2, <1>3
    <2>2. PICK d \in p.contents : c.id = d.id /\ N[c.id] = Artifact(d.object, d.body, d.pred)
      BY <2>1 DEF WrittenArtifact
    <2>3. d = c
      BY <2>2 DEF PlanInv, DistinctIds
    <2>4. c.object # None
      BY DEF PlanInv
    <2>5. IsCopy(N[c.id], c.object, c.body)
      BY <2>2, <2>3, <2>4, ArtifactRow
    <2> QED
      BY <1>9, <2>1, <2>5
  <1>14. ASSUME NEW l \in p.edges
         PROVE  l.id \in DOMAIN r2 /\ r2[l.id].tab = "link" /\ Connects(r2[l.id], l.src, l.kind, l.dst)
    <2>1. l.id \in DOMAIN N /\ WrittenLink(p, l.id, N[l.id])
      BY <1>2, <1>3
    <2>2. PICK d \in p.edges : l.id = d.id /\ N[l.id] = Link(d.src, d.kind, d.dst)
      BY <2>1 DEF WrittenLink
    <2>3. d = l
      BY <2>2 DEF PlanInv, DistinctIds
    <2>4. l.src # None /\ l.dst # None
      BY DEF PlanInv
    <2>5. N[l.id].tab = "link" /\ Connects(N[l.id], l.src, l.kind, l.dst)
      BY <2>2, <2>3, <2>4, LinkRow
    <2> QED
      BY <1>9, <2>1, <2>5
  <1>15. ASSUME NEW c \in p.contents PROVE c.object \in DOMAIN r2 /\ r2[c.object].tab = "object"
    <2>1. c.object # None /\ c.id \in DOMAIN r2 /\ r2[c.id].object = c.object /\ r2[c.id].tab = "artifact"
      BY <1>13 DEF PlanInv, IsCopy
    <2>2. c.id \in DOMAIN N \ {run} /\ r2[c.id] = N[c.id]
      BY <1>2, <1>3, <1>9
    <2>3. Columns(r2[c.id])
      BY <1>11, <2>2
    <2>4. "object" \in DOMAIN ForeignKeys \cap DOMAIN r2[c.id] /\ ForeignKeys["object"] = "object"
      BY <2>1, <2>3 DEF Columns, ForeignKeys
    <2> QED
      BY <1>4, <2>1, <2>4 DEF Sound
  <1>16. ASSUME NEW o \in DOMAIN U PROVE row[o].tab = "object" /\ Columns(U[o]) /\ Evolves(row[o], U[o])
    <2>1. o \in p.adopts \/ \E c \in p.contents : o = c.object
      BY <1>1 DEF Updated, Touched
    <2>2. CASE o \in p.adopts
      <3>1. row[o].tab = "object"
        BY <1>4, <2>2 DEF Adoptable, Objects, OfTab
      <3> QED
        BY <1>1, <1>4, <1>10, <3>1, UpdatedRow
    <2>3. CASE o \notin p.adopts
      <3>1. r2[o] = U[o] /\ r2[o].tab = "object"
        BY <1>9, <1>15, <2>1, <2>3
      <3>2. U[o] = Filled(row[o], p, o)
        BY <1>1, <2>3 DEF Updated
      <3>3. row[o].tab = "object"
        <4>1. PICK cs, whole, old : cs = ContentsOf(p, o) /\ whole = {c.id : c \in {x \in cs : x.whole}} /\ old = row[o]
          OBVIOUS
        <4>2. PICK new, a : new = [old EXCEPT !.rev = @ + Cardinality(cs)] /\ a = CHOOSE x \in whole : TRUE
          OBVIOUS
        <4>3. U[o] = [new EXCEPT !.current = a] \/ U[o] = new
          BY <3>2, <4>1, <4>2 DEF Filled
        <4>4. "tab" \in DOMAIN old /\ DOMAIN new = DOMAIN old /\ new.tab = old.tab
          BY <1>5, <4>1, <4>2 DEF RowsInv, Formed, Columns
        <4> QED
          BY <3>1, <4>1, <4>3, <4>4
      <3> QED
        BY <1>1, <1>4, <1>10, <3>3, UpdatedRow
    <2> QED
      BY <2>2, <2>3
  <1>17. ASSUME NEW id \in DOMAIN row PROVE id \in DOMAIN r2 /\ Columns(r2[id]) /\ Evolves(row[id], r2[id])
    <2>1. CASE id \in DOMAIN U
      BY <1>9, <1>16, <2>1
    <2>2. CASE id \notin DOMAIN U
      <3>1. r2[id] = row[id] /\ Columns(row[id])
        BY <1>9, <2>2 DEF RowsInv, Formed
      <3>2. PICK x : x = row[id]
        OBVIOUS
      <3>3. Rewritten(row, x, x)
        BY <3>1, <3>2, Stays
      <3> QED
        BY <1>9, <3>1, <3>2, <3>3 DEF Rewritten
    <2> QED
      BY <2>1, <2>2
  <1>18. Formed(r2)
    <2>1. \A id \in DOMAIN N : Columns(r2[id])
      BY <1>9, <1>11, <1>12
    <2> QED
      BY <1>9, <1>17, <2>1 DEF Formed
  <1>19. Nameless(r2)
    <2> SUFFICES ASSUME NEW id \in DOMAIN r2, r2[id].tab = "object" PROVE id # None
      BY DEF Nameless
    <2>1. CASE id \in DOMAIN row
      BY <1>17, <2>1 DEF Evolves, RowsInv, Nameless
    <2>2. CASE id \notin DOMAIN row
      BY <1>2, <1>9, <1>11, <2>2
    <2> QED
      BY <2>1, <2>2
  <1>20. \A o \in p.objects : o.id \in DOMAIN r2 /\ r2[o.id].tab = "object"
    <2> SUFFICES ASSUME NEW o \in p.objects PROVE o.id \in DOMAIN r2 /\ r2[o.id].tab = "object"
      OBVIOUS
    <2>1. CASE o.id \in p.adopts
      <3>1. o.id \in DOMAIN row /\ row[o.id].tab = "object"
        BY <1>4, <2>1 DEF Adoptable, Objects, OfTab
      <3> QED
        BY <1>17, <3>1 DEF Evolves
    <2>2. CASE o.id \notin p.adopts
      <3>1. o \in Fresh(p)
        BY <2>2 DEF Fresh
      <3>2. o.id \in DOMAIN N /\ WrittenObject(q, p, o.id, N[o.id])
        BY <1>2, <1>3, <3>1
      <3>0. PICK x, id : id = o.id /\ x = N[id]
        OBVIOUS
      <3>3. PICK o2 \in Fresh(p) : id = o.id /\ x = N[id] /\ x = Filled(Born(q, o2), p, id)
        BY <3>0, <3>2 DEF WrittenObject
      <3>4. x.tab = "object"
        <4>1. PICK old : old = Born(q, o2)
          OBVIOUS
        <4>2. o2.kind # "task" /\ IsFiniteSet(p.contents)
          BY DEF PlanInv, Fresh
        <4>3. Columns(old) /\ old.tab = "object"
          BY <4>1, <4>2, BornRow
        <4>4. x = Filled(old, p, id)
          BY <3>3, <4>1
        <4>5. \A col \in DOMAIN old \ {"rev", "current"} : x[col] = old[col]
          BY <1>10, <4>2, <4>3, <4>4, FilledRow
        <4> QED
          BY <4>3, <4>5 DEF Columns
      <3> QED
        BY <1>9, <3>2, <3>3, <3>4
    <2> QED
      BY <2>1, <2>2
  <1>21. Targets(r2)
    <2> SUFFICES ASSUME NEW id \in DOMAIN r2, r2[id].tab = "event"
                 PROVE  r2[id].target \in DOMAIN r2 /\ r2[r2[id].target].tab \in {"object", "link"}
      BY DEF Targets
    <2>1. CASE id \in DOMAIN row
      <3>1. row[id].tab = "event" /\ r2[id] = row[id]
        BY <1>17, <2>1 DEF Evolves
      <3>2. row[id].target \in DOMAIN row /\ row[row[id].target].tab \in {"object", "link"}
        BY <2>1, <3>1 DEF RowsInv, Targets
      <3> QED
        BY <1>17, <3>1, <3>2 DEF Evolves
    <2>2. CASE id \notin DOMAIN row
      <3>1. id \in DOMAIN N \ {run} /\ r2[id] = N[id]
        BY <1>9, <1>12, <2>2 DEF IsBatch
      <3>2. \/ \E o \in p.objects : r2[id].target = o.id
            \/ \E c \in p.contents : r2[id].target = c.object
            \/ \E l \in p.edges : r2[id].target = l.id
        BY <1>11, <3>1
      <3> QED
        BY <1>14, <1>15, <1>20, <3>2
    <2> QED
      BY <2>1, <2>2
  <1>22. Grows(row, r2)
    BY <1>4, <1>17, <1>18, <1>19, <1>21 DEF Grows, RowsInv
  <1>23. \A id \in DOMAIN r2 \ DOMAIN row :
             id = run \/ r2[id].tab \in {"object", "artifact", "link", "event"}
    BY <1>9, <1>11
  <1>24. r2[run] = IntakeRun(q, p) /\ r2[run].tab = "run"
    BY <1>3, <1>9, <1>12 DEF IsBatch
  <1>25. SameRoutines(row, r2) /\ SameOccurrences(row, r2)
    <2>1. \A id \in DOMAIN row : row[id].tab \in {"routine", "occurrence"} => r2[id] = row[id]
      BY <1>9, <1>16
    <2> QED
      BY <1>23, <1>24, <2>1 DEF SameRoutines, SameOccurrences
  <1>26. ASSUME NEW id \in DOMAIN r2 \ DOMAIN row
         PROVE  /\ r2[id].tab \notin {"routine", "occurrence"}
                /\ Resource(r2[id]) => id \in IdsUnder(key) /\ id # None
                /\ IsBatch(r2[id]) => id = run
                /\ r2[id].tab = "event" => r2[id].run = run /\ Notes(key, Payload(p), id, r2[id])
    <2>1. CASE id = run
      BY <1>24, <2>1 DEF Resource
    <2>2. CASE id # run
      <3>1. id \in DOMAIN N \ {run} /\ r2[id] = N[id]
        BY <1>9, <2>2
      <3>2. Resource(r2[id]) => id \in IdsUnder(key) /\ id # None
        BY <1>2, <1>11, <3>1 DEF Resource
      <3>3. r2[id].tab = "event" => r2[id].run = run /\ Notes(key, Payload(p), id, r2[id])
        BY <1>1, <1>11, <3>1
      <3> QED
        BY <1>11, <3>1, <3>2, <3>3
    <2> QED
      BY <2>1, <2>2
  <1>27. Wrote(q, p, r2)
    BY <1>1, <1>3, <1>4, <1>9, <1>13, <1>14, <1>24, <1>26 DEF Wrote
  <1> QED
    BY <1>22, <1>25, <1>27

\* The Run of a batch that was written, and those of the batches before it.
LEMMA WriteBatches ==
    ASSUME RowsInv(row), NEW P, BatchesInv(row, P), NEW q \in Captures, Request(q), NEW p, PlanInv(q, p),
           NEW r2, Grows(row, r2), Wrote(q, p, r2)
    PROVE  BatchesInv(r2, P)
  <1>1. PICK key, run, F, C : key = KeyOf(q) /\ run = RunOf(key) /\ F = FreshIds(p) /\ C = ContentIds(p)
    OBVIOUS
  <1>2. /\ key \in Keys /\ run # None
        /\ \A o \in Fresh(p) : o.id \in IdsUnder(key)
        /\ \A c \in p.contents : c.id \in IdsUnder(key)
        /\ \A l \in p.edges : l.id \in IdsUnder(key)
    <2>1. /\ key \in Keys /\ run \in IdsUnder(key) /\ run # None
          /\ \A k \in Keys : k # key => IdsUnder(k) \cap IdsUnder(key) = {}
          /\ \A k \in Keys : k # key => RunOf(k) # run
          /\ \A o \in Fresh(p) : o.id \in IdsUnder(key) /\ o.id \notin {run, None}
          /\ \A c \in p.contents : c.id \in IdsUnder(key) /\ c.id \notin F \cup {run, None}
          /\ \A l \in p.edges : l.id \in IdsUnder(key) /\ l.id \notin C \cup F \cup {run, None}
      BY <1>1, PlanIds
    <2> QED
      BY <2>1
  <1>3. Keeps(row, P, r2, P)
    BY GrowsKeeps
  <1>4. /\ run \notin DOMAIN row /\ run \in DOMAIN r2 /\ r2[run] = IntakeRun(q, p)
        /\ \A c \in p.contents : c.id \in DOMAIN r2 /\ IsCopy(r2[c.id], c.object, c.body)
        /\ \A l \in p.edges : l.id \in DOMAIN r2 /\ Connects(r2[l.id], l.src, l.kind, l.dst)
        /\ \A id \in DOMAIN r2 \ DOMAIN row :
              /\ IsBatch(r2[id]) => id = run
              /\ r2[id].tab = "event" => r2[id].run = run /\ Notes(key, Payload(p), id, r2[id])
    BY <1>1 DEF Wrote
  <1>5. \A e \in DOMAIN row : row[e].tab = "event" => r2[e] = row[e] /\ row[e].run # run
    <2> SUFFICES ASSUME NEW e \in DOMAIN row, row[e].tab = "event" PROVE r2[e] = row[e] /\ row[e].run # run
      OBVIOUS
    <2>1. r2[e] = row[e]
      BY DEF Grows, Evolves
    <2>2. "run" \in DOMAIN ForeignKeys \cap DOMAIN row[e]
      BY DEF RowsInv, Formed, Columns, ForeignKeys
    <2>3. row[e].run # None => row[e].run \in DOMAIN row
      BY <2>2 DEF RowsInv, Sound
    <2> QED
      BY <1>2, <1>4, <2>1, <2>3
  <1>6. BatchRun(r2, P, run)
    <2>1. PICK x, payload : x = r2[run] /\ payload = Payload(p)
      OBVIOUS
    <2>2. x.manifest = Batch(q) /\ x.payload = payload /\ \A s : p.on = {s} => x.primary = s
      BY <1>4, <2>1, IntakeRunRow
    <2>3. x.manifest.key = key
      BY <1>1, <2>2 DEF KeyOf
    <2>4. /\ payload[1] = p.objects /\ payload[2] = p.contents /\ payload[3] = p.edges
          /\ payload = <<payload[1], payload[2], payload[3]>>
      BY <2>1 DEF Payload
    <2>5. IsFiniteSet(p.objects) /\ IsFiniteSet(p.contents) /\ IsFiniteSet(p.edges)
      BY DEF PlanInv
    <2>6. \A o \in p.objects : o.id \in IdsUnder(key) \/ o.id = x.primary
      <3> SUFFICES ASSUME NEW o \in p.objects, o.id \in p.adopts PROVE o.id = x.primary
        BY <1>2 DEF Fresh
      <3>1. PICK s : p.adopts = {s} /\ p.on = {s}
        BY DEF PlanInv
      <3> QED
        BY <2>2, <3>1
    <2>7. \A c \in p.contents : c.id \in IdsUnder(key) /\ Kept(r2, P, c.object, c.body)
      BY <1>2, <1>4 DEF Kept
    <2>8. \A l \in p.edges : l.id \in IdsUnder(key) /\ Made(r2, P, l.src, l.kind, l.dst)
      BY <1>2, <1>4 DEF Made
    <2>9. \A e \in DOMAIN r2 : r2[e].tab = "event" /\ r2[e].run = run => Notes(key, payload, e, r2[e])
      <3> SUFFICES ASSUME NEW e \in DOMAIN r2, r2[e].tab = "event", r2[e].run = run
                   PROVE  Notes(key, payload, e, r2[e])
        OBVIOUS
      <3>1. CASE e \in DOMAIN row
        <4>1. row[e].tab = "event"
          BY <3>1 DEF Grows, Evolves
        <4> QED
          BY <1>5, <3>1, <4>1
      <3>2. CASE e \notin DOMAIN row
        BY <1>4, <2>1, <3>2
      <3> QED
        BY <3>1, <3>2
    <2> QED
      BY <1>1, <1>2, <2>1, <2>2, <2>3, <2>4, <2>5, <2>6, <2>7, <2>8, <2>9 DEF BatchRun
  <1> SUFFICES ASSUME NEW id \in DOMAIN r2, IsBatch(r2[id]), id # run PROVE BatchRun(r2, P, id)
    BY <1>6 DEF BatchesInv
  <1>7. id \in DOMAIN row
    BY <1>4
  <1>8. IsBatch(row[id])
    BY <1>7 DEF Grows, Evolves, IsBatch
  <1>9. /\ r2[id].manifest = row[id].manifest /\ r2[id].payload = row[id].payload
        /\ r2[id].primary = row[id].primary
    BY <1>7, <1>8 DEF Grows, Evolves, IsBatch
  <1>10. \A e \in DOMAIN r2 : r2[e].tab = "event" /\ r2[e].run = id => e \in DOMAIN row /\ row[e] = r2[e]
    <2> SUFFICES ASSUME NEW e \in DOMAIN r2, r2[e].tab = "event", r2[e].run = id
                 PROVE  e \in DOMAIN row /\ row[e] = r2[e]
      OBVIOUS
    <2>1. e \in DOMAIN row
      BY <1>4
    <2>2. row[e].tab = "event"
      BY <2>1 DEF Grows, Evolves
    <2> QED
      BY <1>5, <2>1, <2>2
  <1>11. BatchRun(row, P, id)
    BY <1>7, <1>8 DEF BatchesInv
  <1> QED
    BY <1>3, <1>9, <1>10, <1>11, BatchRunOn

\* Nothing that an earlier batch wrote, and that is gone, is written by another.
NoComeback(r1, r2) ==
    \A r \in DOMAIN r1 :
        IsBatch(r1[r]) => \A id \in WrittenBy(r1[r]) : id \in DOMAIN r2 /\ Resource(r2[id]) => id \in DOMAIN r1

LEMMA WrittenIds ==
    ASSUME NEW P, NEW r, NEW id, BatchRun(r, P, id), NEW i \in WrittenBy(r[id])
    PROVE  i \in IdsUnder(r[id].manifest.key) \/ i = r[id].primary
  <1>1. PICK payload : payload = r[id].payload
    OBVIOUS
  <1>2. payload = <<payload[1], payload[2], payload[3]>>
    BY <1>1 DEF BatchRun
  <1>3. Range(payload) = {payload[1], payload[2], payload[3]}
    <2>1. DOMAIN payload = {1, 2, 3}
      BY <1>2
    <2> QED
      BY <2>1 DEF Range
  <1>4. \E x \in payload[1] \cup payload[2] \cup payload[3] : i = x.id
    BY <1>1, <1>3 DEF WrittenBy
  <1> QED
    BY <1>1, <1>4 DEF BatchRun

LEMMA WriteNoComeback ==
    ASSUME RowsInv(row), NEW P, BatchesInv(row, P), NEW q \in Captures, Request(q), NEW p, PlanInv(q, p),
           NEW r2, Grows(row, r2), Wrote(q, p, r2)
    PROVE  NoComeback(row, r2)
  <1>1. PICK key, run, F, C : key = KeyOf(q) /\ run = RunOf(key) /\ F = FreshIds(p) /\ C = ContentIds(p)
    OBVIOUS
  <1>2. key \in Keys /\ \A k \in Keys : k # key => IdsUnder(k) \cap IdsUnder(key) = {}
    <2>1. /\ key \in Keys /\ run \in IdsUnder(key) /\ run # None
          /\ \A k \in Keys : k # key => IdsUnder(k) \cap IdsUnder(key) = {}
          /\ \A k \in Keys : k # key => RunOf(k) # run
          /\ \A o \in Fresh(p) : o.id \in IdsUnder(key) /\ o.id \notin {run, None}
          /\ \A c \in p.contents : c.id \in IdsUnder(key) /\ c.id \notin F \cup {run, None}
          /\ \A l \in p.edges : l.id \in IdsUnder(key) /\ l.id \notin C \cup F \cup {run, None}
      BY <1>1, PlanIds
    <2> QED
      BY <2>1
  <1>3. /\ run \notin DOMAIN row
        /\ \A id \in DOMAIN r2 \ DOMAIN row : Resource(r2[id]) => id \in IdsUnder(key) /\ id # None
    BY <1>1 DEF Wrote
  <1> SUFFICES ASSUME NEW r \in DOMAIN row, IsBatch(row[r]), NEW id \in WrittenBy(row[r]),
                      id \in DOMAIN r2, Resource(r2[id]), id \notin DOMAIN row
               PROVE  FALSE
    BY DEF NoComeback
  <1>4. id \in IdsUnder(key) /\ id # None
    BY <1>3
  <1>5. BatchRun(row, P, r)
    BY DEF BatchesInv
  <1>6. id \in IdsUnder(row[r].manifest.key) \/ id = row[r].primary
    BY <1>5, WrittenIds
  <1>7. row[r].manifest.key \in Keys /\ row[r].manifest.key # key
    BY <1>1, <1>3, <1>5 DEF BatchRun
  <1>8. id # row[r].primary
    <2>1. "primary" \in DOMAIN ForeignKeys \cap DOMAIN row[r]
      BY DEF RowsInv, Formed, Columns, ForeignKeys, IsBatch
    <2>2. row[r].primary # None => row[r].primary \in DOMAIN row
      BY <2>1 DEF RowsInv, Sound
    <2> QED
      BY <1>4, <2>2
  <1> QED
    BY <1>2, <1>4, <1>6, <1>7, <1>8

LEMMA WriteStep ==
    ASSUME RowsInv(row), NEW P, BatchesInv(row, P), CallsInv(row, P, calls), AnswersInv(row, P, answers),
           NEW c \in calls, Write(c)
    PROVE  /\ UNCHANGED <<now, horizon, todo, receipts>>
           /\ Grows(row, row') /\ SameRoutines(row, row') /\ SameOccurrences(row, row') /\ NoComeback(row, row')
           /\ BatchesInv(row', P) /\ CallsInv(row', P, calls') /\ AnswersInv(row', P, answers')
           /\ answers \subseteq answers' /\ \A a \in answers' \ answers : a.how = "committed"
  <1>1. PICK q, p, r2 : q = c.asked /\ p = c.plan /\ r2 = row'
    OBVIOUS
  <1>2. q \in Captures /\ PlanInv(q, p) /\ Promises(row, P, q, p)
    BY <1>1 DEF CallsInv, CallInv
  <1>3. Request(q)
    BY <1>2, ScenariosAssumption DEF Captures, Sent_
  <1>4. /\ Writable(q, p) /\ r2 = NewRows(q, p) ++ Updated(q, p) ++ row
        /\ calls' = calls \ {c} /\ Said(q, "committed", p.on) /\ UNCHANGED <<now, horizon, todo, receipts>>
    BY <1>1 DEF Write
  <1>5. Grows(row, r2) /\ SameRoutines(row, r2) /\ SameOccurrences(row, r2) /\ Wrote(q, p, r2)
    <2>1. Writable(q, p)
      BY <1>4
    <2>2. r2 = NewRows(q, p) ++ Updated(q, p) ++ row
      BY <1>4
    <2> QED
      BY <1>2, <1>3, <2>1, <2>2, WriteRows
  <1>6. BatchesInv(r2, P)
    BY <1>2, <1>3, <1>5, WriteBatches
  <1>7. NoComeback(row, r2)
    BY <1>2, <1>3, <1>5, WriteNoComeback
  <1>8. Keeps(row, P, r2, P)
    BY <1>5, GrowsKeeps
  <1>9. CallsInv(r2, P, calls')
    <2>1. CallsInv(row, P, calls')
      BY <1>4 DEF CallsInv
    <2> QED
      BY <1>8, <2>1, CallsOn
  <1>10. PICK a : a = [asked |-> q, how |-> "committed", on |-> p.on]
    OBVIOUS
  <1>11. answers' = answers \cup {a} /\ a.asked = q /\ a.how = "committed" /\ a.on = p.on
    BY <1>4, <1>10 DEF Said
  <1>12. q.do = "capture" => \A s \in p.on : Kept(r2, P, s, q.body) /\ \A e \in q.edges : Made(r2, P, s, e.kind, e.dst)
    <2>1. Promises(r2, P, q, p)
      BY <1>2, <1>8, PromisesOn
    <2>2. \A x \in p.contents : Kept(r2, P, x.object, x.body)
      BY <1>5 DEF Wrote, Kept
    <2>3. \A l \in p.edges : Made(r2, P, l.src, l.kind, l.dst)
      BY <1>5 DEF Wrote, Made
    <2> QED
      BY <2>1, <2>2, <2>3 DEF Promises
  <1>13. AnswersInv(r2, P, answers)
    BY <1>8, AnswersOn
  <1>14. AnswersInv(r2, P, answers')
    BY <1>11, <1>12, <1>13 DEF AnswersInv
  <1> QED
    BY <1>1, <1>4, <1>5, <1>6, <1>7, <1>9, <1>11, <1>14

-----------------------------------------------------------------------------
(* What a purge takes                                                      *)

LEMMA GoneRows ==
    ASSUME RowsInv(row), NEW q, Named(q) \subseteq DOMAIN row, Reconcilable(q), NEW gone, gone = Gone(q)
    PROVE  /\ gone \subseteq DOMAIN row
           /\ q.cancel # {} => gone = {} /\ q.detach = {}
           /\ \A e \in DOMAIN row : row[e].tab = "event" /\ row[e].target \in gone => e \in gone
  <1>1. PICK S, W : S = q.select \cup {x.old : x \in q.retire} /\ W = WithOwned(S)
    OBVIOUS
  <1>2. gone = WithOwned(W)
    BY <1>1 DEF Gone
  <1>3. S \subseteq DOMAIN row
    BY <1>1 DEF Named
  <1>4. W \subseteq DOMAIN row /\ gone \subseteq DOMAIN row
    BY <1>1, <1>2, <1>3 DEF WithOwned
  <1>5. q.cancel # {} => gone = {} /\ q.detach = {}
    <2> SUFFICES ASSUME q.cancel # {} PROVE gone = {} /\ q.detach = {}
      OBVIOUS
    <2>1. q.select = {} /\ q.detach = {} /\ q.retire = {}
      BY DEF Reconcilable
    <2>2. S = {}
      BY <1>1, <2>1
    <2> QED
      BY <1>1, <1>2, <2>1, <2>2 DEF WithOwned
  <1>6. ASSUME NEW e \in DOMAIN row, row[e].tab = "event", row[e].target \in gone PROVE e \in gone
    <2>1. PICK t : t = row[e].target
      OBVIOUS
    <2>2. t \in DOMAIN row /\ row[t].tab \in {"object", "link"} /\ t \in gone
      BY <1>6, <2>1 DEF RowsInv, Targets
    <2>3. Owners(row[e]) = {t}
      BY <1>6, <2>1 DEF Owners
    <2>4. t \in W => e \in gone
      BY <1>2, <2>3 DEF WithOwned
    <2>5. ASSUME NEW o \in W, row[o].tab = "object" PROVE o \in S
      <3>1. Owners(row[o]) = {}
        BY <2>5 DEF Owners
      <3> QED
        BY <1>1, <2>5, <3>1 DEF WithOwned
    <2>6. ASSUME t \notin W PROVE FALSE
      <3>1. PICK o \in Owners(row[t]) : o \in W
        BY <1>2, <2>2, <2>6 DEF WithOwned
      <3>2. row[t].tab = "link"
        BY <2>2, <3>1 DEF Owners
      <3>3. Owners(row[t]) = {row[t].src, row[t].dst}
        BY <3>2 DEF Owners
      <3>4. /\ {"src", "dst"} \subseteq DOMAIN ForeignKeys \cap DOMAIN row[t]
            /\ ForeignKeys["src"] = "object" /\ ForeignKeys["dst"] = "object"
            /\ row[t].src # None /\ row[t].dst # None
        BY <2>2, <3>2 DEF RowsInv, Formed, Columns, ForeignKeys
      <3>5. row[row[t].src].tab = "object" /\ row[row[t].dst].tab = "object"
        BY <2>2, <3>4 DEF RowsInv, Sound
      <3>6. o \in S
        BY <2>5, <3>1, <3>3, <3>5
      <3>7. t \in W
        BY <1>1, <2>2, <3>1, <3>6 DEF WithOwned
      <3> QED
        BY <2>6, <3>7
    <2> QED
      BY <2>4, <2>6
  <1> QED
    BY <1>4, <1>5, <1>6

\* The rows a purge leaves, and the fences it puts.
Left(q, gone, r2) ==
    /\ DOMAIN row \ DOMAIN r2 = gone /\ gone \subseteq DOMAIN row
    /\ \A id \in DOMAIN row \ gone :
          /\ id \in DOMAIN r2
          /\ id \in q.cancel => r2[id] = [row[id] EXCEPT !.status = "cancelled"]
          /\ id \notin q.cancel => r2[id] = Detached(q, id)
    /\ \A id \in DOMAIN r2 \ DOMAIN row : gone = {} /\ r2[id].tab = "fence" /\ DOMAIN r2[id] = {"tab", "thread", "runs", "says"}

LEMMA PurgeRows ==
    ASSUME RowsInv(row), NEW r, Purge(r), NEW q, q = r.asked, NEW gone, gone = Gone(q), NEW r2, r2 = row'
    PROVE  /\ Named(q) \subseteq DOMAIN row /\ Reconcilable(q) /\ Manifest(q) = r.manifest /\ Blockers(q, gone) = {}
           /\ Left(q, gone, r2) /\ ~Replayed(r)
           /\ receipts' = Append(receipts, [asked |-> q, gone |-> Facts(gone)])
           /\ UNCHANGED <<now, horizon, starts, calls, todo, answers, reviewed>>
  <1> DEFINE fence(c) == [tab |-> "fence", thread |-> row[c].chat, runs |-> Beside(c), says |-> {}]
             Changed(id) == IF id \in q.cancel THEN [row[id] EXCEPT !.status = "cancelled"] ELSE Detached(q, id)
  <1>1. PICK fences : fences = [f \in {c \o ":fence" : c \in q.cancel} |->
                                   LET c == CHOOSE x \in q.cancel : f = x \o ":fence" IN fence(c)]
    OBVIOUS
  <1>2. PICK kept : kept = [id \in DOMAIN row \ gone |-> Changed(id)]
    OBVIOUS
  <1>3. /\ ~Replayed(r) /\ Unchanged(r) /\ Manifest(q).blockers = {}
        /\ r2 = kept ++ fences
        /\ receipts' = Append(receipts, [asked |-> q, gone |-> Facts(gone)])
        /\ UNCHANGED <<now, horizon, starts, calls, todo, answers, reviewed>>
    BY <1>1, <1>2 DEF Purge
  <1>4. Named(q) \subseteq DOMAIN row /\ Reconcilable(q) /\ Manifest(q) = r.manifest
    BY <1>3 DEF Unchanged
  <1>5. Blockers(q, gone) = {}
    BY <1>3 DEF Manifest
  <1>6. gone \subseteq DOMAIN row /\ (q.cancel # {} => gone = {})
    BY <1>4, GoneRows
  <1>7. DOMAIN fences = {c \o ":fence" : c \in q.cancel} /\ \A f \in DOMAIN fences : \E c : fences[f] = fence(c)
    <2>1. \A f \in DOMAIN fences : fences[f] = LET c == CHOOSE x \in q.cancel : f = x \o ":fence" IN fence(c)
      BY <1>1
    <2> HIDE DEF fence
    <2> QED
      BY <1>1, <2>1
  <1>8. \A f \in DOMAIN fences :
            /\ q.cancel # {} /\ fences[f].tab = "fence"
            /\ DOMAIN fences[f] = {"tab", "thread", "runs", "says"}
    <2> SUFFICES ASSUME NEW f \in DOMAIN fences
                 PROVE  /\ q.cancel # {} /\ fences[f].tab = "fence"
                        /\ DOMAIN fences[f] = {"tab", "thread", "runs", "says"}
      OBVIOUS
    <2>1. q.cancel # {}
      BY <1>7
    <2>2. PICK c, x : x = fences[f] /\ x = fence(c)
      BY <1>7
    <2>3. x.tab = "fence" /\ DOMAIN x = {"tab", "thread", "runs", "says"}
      BY <2>2
    <2> QED
      BY <2>1, <2>2, <2>3
  <1>9. DOMAIN kept = DOMAIN row \ gone /\ \A id \in DOMAIN row \ gone : kept[id] = Changed(id)
    BY <1>2
  <1> HIDE DEF fence, Changed
  <1>10. /\ DOMAIN r2 = DOMAIN kept \cup DOMAIN fences
         /\ \A id \in DOMAIN kept : r2[id] = kept[id]
         /\ \A id \in DOMAIN fences \ DOMAIN kept : r2[id] = fences[id]
    BY <1>3 DEF ++
  <1>11. DOMAIN row \ DOMAIN r2 = gone
    BY <1>6, <1>8, <1>9, <1>10
  <1>12. \A id \in DOMAIN r2 \ DOMAIN row :
             gone = {} /\ r2[id].tab = "fence" /\ DOMAIN r2[id] = {"tab", "thread", "runs", "says"}
    BY <1>6, <1>8, <1>9, <1>10
  <1>13. \A id \in DOMAIN row \ gone : id \in DOMAIN r2 /\ r2[id] = Changed(id)
    BY <1>9, <1>10
  <1>14. \A id \in DOMAIN row \ gone :
             /\ id \in DOMAIN r2
             /\ id \in q.cancel => r2[id] = [row[id] EXCEPT !.status = "cancelled"]
             /\ id \notin q.cancel => r2[id] = Detached(q, id)
    BY <1>13 DEF Changed
  <1>15. Left(q, gone, r2)
    BY <1>6, <1>11, <1>12, <1>14 DEF Left
  <1> QED
    BY <1>3, <1>4, <1>5, <1>15

\* A row that stays is as it was, but for Runs that are cancelled or detached.
LEMMA LeftRow ==
    ASSUME RowsInv(row), NEW q, Named(q) \subseteq DOMAIN row, Reconcilable(q), NEW gone, gone = Gone(q),
           NEW r2, Left(q, gone, r2), NEW id \in DOMAIN row \ gone
    PROVE  /\ Columns(r2[id]) /\ Evolves(row[id], r2[id]) /\ (row[id].tab # "run" => r2[id] = row[id])
           /\ Refs(r2[id]) \subseteq Refs(Detached(q, id)) /\ Refs(Detached(q, id)) \subseteq Refs(row[id])
           /\ DOMAIN r2[id] = DOMAIN row[id]
           /\ \A c \in DOMAIN row[id] \cap DOMAIN ForeignKeys : r2[id][c] \in {row[id][c], None}
           /\ r2[id].tab = "run" /\ ~Terminal(r2[id]) => r2[id] = row[id]
  <1>1. PICK o, n : o = row[id] /\ n = r2[id]
    OBVIOUS
  <1>2. Columns(o)
    BY <1>1 DEF RowsInv, Formed
  <1>3. CASE id \in q.cancel
    <2>1. n = [o EXCEPT !.status = "cancelled"] /\ q.detach = {}
      BY <1>1, <1>3, GoneRows DEF Left
    <2>2. o.tab = "run" /\ o.kind = "slack_interaction" /\ o.status = "running"
      BY <1>1, <1>3 DEF Reconcilable, Cancellable
    <2>3. {"tab", "says", "kind", "status", "chat", "parent", "primary", "trace", "review", "pinned"} \subseteq DOMAIN o
      BY <1>2, <2>2 DEF Columns
    <2>4. DOMAIN n = DOMAIN o /\ n.status = "cancelled" /\ \A c \in DOMAIN o \ {"status"} : n[c] = o[c]
      BY <2>1, <2>3
    <2>5. n.tab = "run" /\ n.kind = "slack_interaction"
      BY <2>2, <2>3, <2>4
    <2>6. Columns(n)
      BY <2>3, <2>4, <2>5 DEF Columns
    <2>7. ~Terminal(o) /\ Terminal(n)
      BY <2>2, <2>4, <2>5 DEF Terminal
    <2>8. Evolves(o, n)
      BY <2>2, <2>5, <2>7 DEF Evolves
    <2>9. \A c \in DOMAIN o \cap DOMAIN ForeignKeys : n[c] = o[c]
      BY <2>4 DEF ForeignKeys
    <2>10. Refs(n) = Refs(o)
      BY <2>4, <2>9 DEF Refs
    <2>11. Detached(q, id) = o
      BY <1>1, <2>1 DEF Detached
    <2> QED
      BY <1>1, <2>2, <2>4, <2>6, <2>7, <2>8, <2>9, <2>10, <2>11
  <1>4. CASE id \notin q.cancel /\ \E d \in q.detach : d.run = id
    <2>1. n = [o EXCEPT !.chat = None] /\ Detached(q, id) = n
      BY <1>1, <1>4 DEF Left, Detached
    <2>2. o.tab = "run" /\ Terminal(o)
      BY <1>1, <1>4 DEF Reconcilable, Detachable
    <2>3. {"tab", "says", "kind", "status", "chat", "parent", "primary", "trace", "review", "pinned"} \subseteq DOMAIN o
      BY <1>2, <2>2 DEF Columns
    <2>4. DOMAIN n = DOMAIN o /\ n.chat = None /\ \A c \in DOMAIN o \ {"chat"} : n[c] = o[c]
      BY <2>1, <2>3
    <2>5. n.tab = "run" /\ n.kind = o.kind /\ n.status = o.status /\ n.primary = o.primary
      BY <2>2, <2>3, <2>4
    <2>6. o.kind = "intake" => {"manifest", "payload"} \subseteq DOMAIN o
      BY <1>2, <2>2 DEF Columns
    <2>7. o.kind = "intake" => n.manifest = o.manifest /\ n.payload = o.payload
      BY <2>4, <2>6
    <2>8. Columns(n)
      BY <2>3, <2>4, <2>5, <2>6 DEF Columns
    <2>9. Evolves(o, n) /\ Terminal(n)
      BY <2>2, <2>5, <2>7 DEF Evolves, Terminal
    <2>10. \A c \in DOMAIN o \cap DOMAIN ForeignKeys : n[c] \in {o[c], None}
      BY <2>4
    <2>11. Refs(n) \subseteq Refs(o)
      BY <2>4, <2>10 DEF Refs
    <2> QED
      BY <1>1, <2>1, <2>2, <2>4, <2>8, <2>9, <2>10, <2>11
  <1>5. CASE id \notin q.cancel /\ ~\E d \in q.detach : d.run = id
    <2>1. n = o /\ Detached(q, id) = o
      BY <1>1, <1>5 DEF Left, Detached
    <2>2. Rewritten(row, o, o)
      BY <1>2, Stays
    <2> QED
      BY <1>1, <1>2, <2>1, <2>2 DEF Rewritten
  <1> QED
    BY <1>3, <1>4, <1>5

\* What a purge takes is in its receipt: with those facts nothing is forgotten.
LEMMA PurgeKeeps ==
    ASSUME NEW P1, NEW P2, NEW gone, P2 = P1 \cup Facts(gone), NEW r2,
           \A id \in DOMAIN row \ gone : id \in DOMAIN r2 /\ Evolves(row[id], r2[id])
    PROVE  Keeps(row, P1, r2, P2)
  <1>1. \A id \in DOMAIN row : id \in gone => <<id, row[id]>> \in P2
    BY DEF Facts
  <1>2. ASSUME NEW s, NEW body, Kept(row, P1, s, body) PROVE Kept(r2, P2, s, body)
    <2>1. CASE \E a \in DOMAIN row : IsCopy(row[a], s, body)
      <3>1. PICK a \in DOMAIN row : IsCopy(row[a], s, body)
        BY <2>1
      <3>2. CASE a \in gone
        <4>1. PICK f : f = <<a, row[a]>>
          OBVIOUS
        <4>2. f \in P2 /\ f[2] = row[a]
          BY <1>1, <3>2, <4>1
        <4> QED
          BY <3>1, <4>2 DEF Kept
      <3>3. CASE a \notin gone
        <4>1. a \in DOMAIN r2 /\ r2[a] = row[a]
          BY <3>1, <3>3 DEF Evolves, IsCopy
        <4> QED
          BY <3>1, <4>1 DEF Kept
      <3> QED
        BY <3>2, <3>3
    <2>2. CASE \E f \in P1 : IsCopy(f[2], s, body)
      BY <2>2 DEF Kept
    <2> QED
      BY <1>2, <2>1, <2>2 DEF Kept
  <1>3. ASSUME NEW s, NEW kind, NEW dst, Made(row, P1, s, kind, dst) PROVE Made(r2, P2, s, kind, dst)
    <2>1. CASE \E l \in DOMAIN row : Connects(row[l], s, kind, dst)
      <3>1. PICK l \in DOMAIN row : Connects(row[l], s, kind, dst)
        BY <2>1
      <3>2. CASE l \in gone
        <4>1. PICK f : f = <<l, row[l]>>
          OBVIOUS
        <4>2. f \in P2 /\ f[2] = row[l]
          BY <1>1, <3>2, <4>1
        <4> QED
          BY <3>1, <4>2 DEF Made
      <3>3. CASE l \notin gone
        <4>1. l \in DOMAIN r2 /\ Connects(r2[l], s, kind, dst)
          BY <3>1, <3>3 DEF Evolves, Connects
        <4> QED
          BY <4>1 DEF Made
      <3> QED
        BY <3>2, <3>3
    <2>2. CASE \E f \in P1 : Connects(f[2], s, kind, dst)
      BY <2>2 DEF Made
    <2> QED
      BY <1>3, <2>1, <2>2 DEF Made
  <1> QED
    BY <1>2, <1>3 DEF Keeps

\* No key of what stays is of what goes, nor any Event of it.
LEMMA PurgeSound ==
    ASSUME RowsInv(row), NEW q, Named(q) \subseteq DOMAIN row, Reconcilable(q), NEW gone, gone = Gone(q),
           Blockers(q, gone) = {}, NEW r2, Left(q, gone, r2)
    PROVE  RowsInv(r2)
  <1>1. ASSUME NEW id \in DOMAIN row \ gone
        PROVE  /\ id \in DOMAIN r2 /\ Columns(r2[id]) /\ Evolves(row[id], r2[id])
               /\ Refs(r2[id]) \subseteq Refs(Detached(q, id))
               /\ DOMAIN r2[id] = DOMAIN row[id]
               /\ \A c \in DOMAIN row[id] \cap DOMAIN ForeignKeys : r2[id][c] \in {row[id][c], None}
               /\ row[id].tab # "run" => r2[id] = row[id]
    <2>1. id \in DOMAIN r2
      BY DEF Left
    <2> QED
      BY <2>1, LeftRow
  <1>2. \A id \in DOMAIN r2 : id \in DOMAIN row => id \in DOMAIN row \ gone
    BY DEF Left
  <1>3. \A id \in DOMAIN r2 \ DOMAIN row :
            r2[id].tab = "fence" /\ DOMAIN r2[id] = {"tab", "thread", "runs", "says"}
    BY DEF Left
  <1>4. Formed(r2)
    <2>1. \A id \in DOMAIN r2 \ DOMAIN row : Columns(r2[id])
      BY <1>3 DEF Columns
    <2> QED
      BY <1>1, <1>2, <2>1 DEF Formed
  <1>5. Nameless(r2)
    <2> SUFFICES ASSUME NEW id \in DOMAIN r2, r2[id].tab = "object" PROVE id # None
      BY DEF Nameless
    <2>1. id \in DOMAIN row \ gone
      BY <1>2, <1>3
    <2>2. row[id].tab = "object"
      BY <1>1, <2>1 DEF Evolves
    <2> QED
      BY <2>1, <2>2 DEF RowsInv, Nameless
  <1>6. Sound(r2)
    <2> SUFFICES ASSUME NEW id \in DOMAIN r2, NEW c \in DOMAIN ForeignKeys \cap DOMAIN r2[id], r2[id][c] # None
                 PROVE  r2[id][c] \in DOMAIN r2 /\ r2[r2[id][c]].tab = ForeignKeys[c]
      BY DEF Sound
    <2>1. CASE id \in DOMAIN row
      <3>1. PICK v : v = r2[id][c]
        OBVIOUS
      <3>2. c \in DOMAIN ForeignKeys \cap DOMAIN row[id] /\ row[id][c] = v
        BY <1>1, <1>2, <2>1, <3>1
      <3>3. v \in DOMAIN row /\ row[v].tab = ForeignKeys[c]
        BY <2>1, <3>1, <3>2 DEF RowsInv, Sound
      <3>4. v \in Refs(r2[id])
        BY <3>1 DEF Refs
      <3>5. v \in Refs(Detached(q, id))
        BY <1>1, <1>2, <2>1, <3>4
      <3>6. v \notin gone
        BY <1>2, <2>1, <3>5 DEF Blockers
      <3>7. v \in DOMAIN r2 /\ r2[v].tab = row[v].tab
        BY <1>1, <3>3, <3>6 DEF Evolves
      <3> QED
        BY <3>1, <3>3, <3>7
    <2>2. CASE id \notin DOMAIN row
      BY <1>3, <2>2 DEF ForeignKeys
    <2> QED
      BY <2>1, <2>2
  <1>7. Targets(r2)
    <2> SUFFICES ASSUME NEW id \in DOMAIN r2, r2[id].tab = "event"
                 PROVE  r2[id].target \in DOMAIN r2 /\ r2[r2[id].target].tab \in {"object", "link"}
      BY DEF Targets
    <2>1. id \in DOMAIN row \ gone
      BY <1>2, <1>3
    <2>2. row[id].tab = "event" /\ r2[id] = row[id]
      BY <1>1, <2>1 DEF Evolves
    <2>3. PICK t : t = row[id].target
      OBVIOUS
    <2>4. t \in DOMAIN row /\ row[t].tab \in {"object", "link"}
      BY <2>1, <2>2, <2>3 DEF RowsInv, Targets
    <2>5. t \notin gone
      BY <2>1, <2>2, <2>3, GoneRows
    <2>6. t \in DOMAIN r2 /\ r2[t].tab = row[t].tab
      BY <1>1, <2>4, <2>5 DEF Evolves
    <2> QED
      BY <2>2, <2>3, <2>4, <2>6
  <1> QED
    BY <1>4, <1>5, <1>6, <1>7 DEF RowsInv


\* The rows a purge leaves keep what the batches, the routines and the requests need.
Spares(gone, r2) ==
    /\ RowsInv(r2) /\ gone \subseteq DOMAIN row
    /\ \A id \in DOMAIN row \ gone :
          id \in DOMAIN r2 /\ Evolves(row[id], r2[id]) /\ (row[id].tab # "run" => r2[id] = row[id])
    /\ \A id \in DOMAIN r2 : id \in DOMAIN row => id \in DOMAIN row \ gone
    /\ \A id \in DOMAIN r2 \ DOMAIN row : r2[id].tab = "fence"

LEMMA PurgeSpares ==
    ASSUME RowsInv(row), NEW q, Named(q) \subseteq DOMAIN row, Reconcilable(q), NEW gone, gone = Gone(q),
           Blockers(q, gone) = {}, NEW r2, Left(q, gone, r2)
    PROVE  Spares(gone, r2)
  <1>1. RowsInv(r2)
    BY PurgeSound
  <1>2. ASSUME NEW id \in DOMAIN row \ gone
        PROVE  id \in DOMAIN r2 /\ Evolves(row[id], r2[id]) /\ (row[id].tab # "run" => r2[id] = row[id])
    <2>1. id \in DOMAIN r2
      BY DEF Left
    <2> QED
      BY <2>1, LeftRow
  <1>3. /\ gone \subseteq DOMAIN row
        /\ \A id \in DOMAIN r2 : id \in DOMAIN row => id \in DOMAIN row \ gone
        /\ \A id \in DOMAIN r2 \ DOMAIN row : r2[id].tab = "fence"
    BY DEF Left
  <1> QED
    BY <1>1, <1>2, <1>3 DEF Spares

LEMMA PurgeBatches ==
    ASSUME NEW P1, BatchesInv(row, P1), NEW gone, NEW r2, Spares(gone, r2), NEW P2, Keeps(row, P1, r2, P2)
    PROVE  BatchesInv(r2, P2)
  <1> SUFFICES ASSUME NEW id \in DOMAIN r2, IsBatch(r2[id]) PROVE BatchRun(r2, P2, id)
    BY DEF BatchesInv
  <1>1. id \in DOMAIN row \ gone
    BY DEF Spares, IsBatch
  <1>2. Evolves(row[id], r2[id])
    BY <1>1 DEF Spares
  <1>3. IsBatch(row[id])
    BY <1>2 DEF Evolves, IsBatch
  <1>4. BatchRun(row, P1, id)
    BY <1>1, <1>3 DEF BatchesInv
  <1>5. r2[id].manifest = row[id].manifest /\ r2[id].payload = row[id].payload /\ r2[id].primary = row[id].primary
    BY <1>2, <1>3 DEF Evolves, IsBatch
  <1>6. ASSUME NEW e \in DOMAIN r2, r2[e].tab = "event" PROVE e \in DOMAIN row /\ row[e] = r2[e]
    <2>1. e \in DOMAIN row \ gone
      BY <1>6 DEF Spares
    <2>2. Evolves(row[e], r2[e]) /\ (row[e].tab # "run" => r2[e] = row[e])
      BY <2>1 DEF Spares
    <2> QED
      BY <1>6, <2>1, <2>2 DEF Evolves
  <1>7. \A e \in DOMAIN r2 : r2[e].tab = "event" /\ r2[e].run = id => e \in DOMAIN row /\ row[e] = r2[e]
    BY <1>6
  <1> QED
    BY <1>4, <1>5, <1>7, BatchRunOn

LEMMA PurgeRoutines ==
    ASSUME RowsInv(row), NEW ans, RoutinesInv(row, ans), NEW gone, NEW r2, Spares(gone, r2)
    PROVE  RoutinesInv(r2, ans)
  <1>1. ASSUME NEW id \in DOMAIN r2, r2[id].tab \in {"routine", "occurrence", "object"}
        PROVE  id \in DOMAIN row /\ row[id] = r2[id]
    <2>1. id \in DOMAIN row \ gone
      BY <1>1 DEF Spares
    <2>2. Evolves(row[id], r2[id]) /\ (row[id].tab # "run" => r2[id] = row[id])
      BY <2>1 DEF Spares
    <2> QED
      BY <1>1, <2>1, <2>2 DEF Evolves
  <1>2. ASSUME NEW id \in DOMAIN r2, r2[id].tab = "routine" PROVE RoutineInv(r2, ans, id)
    <2>1. PICK x, t : x = row[id] /\ t = x.task
      OBVIOUS
    <2>2. id \in DOMAIN row /\ r2[id] = x /\ row[id] = x /\ x.tab = "routine"
      BY <1>1, <1>2, <2>1
    <2>3. RoutineInv(row, ans, id)
      BY <2>2 DEF RoutinesInv
    <2>4. t \in DOMAIN row /\ row[t].tab = "object"
      BY <2>1, <2>2, <2>3 DEF RoutineInv
    <2>5. t # None
      BY <2>4 DEF RowsInv, Nameless
    <2>6. "task" \in DOMAIN ForeignKeys \cap DOMAIN x /\ ForeignKeys["task"] = "object"
      BY <2>2 DEF ForeignKeys, RowsInv, Formed, Columns
    <2>7. t \in DOMAIN r2 /\ r2[t].tab = "object"
      BY <1>2, <2>1, <2>2, <2>5, <2>6 DEF Spares, RowsInv, Sound
    <2>8. r2[t] = row[t]
      BY <1>1, <2>7
    <2> QED
      BY <2>1, <2>2, <2>3, <2>7, <2>8 DEF RoutineInv
  <1>3. \A id \in DOMAIN r2 : r2[id].tab = "occurrence" => r2[id].task \in Tasks \ {None}
    BY <1>1 DEF RoutinesInv
  <1>4. ~Overlaps(r2)
    <2>1. \A o \in DOMAIN r2 : r2[o].tab = "occurrence" => o \in DOMAIN row /\ row[o] = r2[o]
      BY <1>1
    <2>2. ~Overlaps(row)
      BY DEF RoutinesInv
    <2> QED
      BY <2>1, <2>2 DEF Overlaps
  <1> QED
    BY <1>2, <1>3, <1>4 DEF RoutinesInv

\* Receipts are only added, each with a key of its own.
LEMMA PurgeReceipts ==
    ASSUME ReceiptsInv, NEW r, ~Replayed(r), NEW facts,
           receipts' = Append(receipts, [asked |-> r.asked, gone |-> facts])
    PROVE  /\ PurgedFacts' = PurgedFacts \cup facts /\ ReceiptsInv' /\ Purges
           /\ Last(receipts').asked = r.asked
  <1>1. PICK S : receipts \in Seq(S)
    BY DEF ReceiptsInv
  <1>2. PICK n, x, more : n = Len(receipts) /\ x = [asked |-> r.asked, gone |-> facts] /\ more = Append(receipts, x)
    OBVIOUS
  <1>3. n \in Nat /\ DOMAIN receipts = 1..n
    BY <1>1, <1>2
  <1>4. /\ more \in Seq(S \cup {x}) /\ Len(more) = n + 1 /\ DOMAIN more = 1..(n + 1)
        /\ \A i \in 1..n : more[i] = receipts[i]
        /\ more[n + 1] = x
    <2>1. receipts \in Seq(S \cup {x})
      BY <1>1
    <2> QED
      BY <1>2, <2>1
  <1>5. receipts' = more
    BY <1>2
  <1>6. Purges
    BY <1>2, <1>4, <1>5, <1>3 DEF Purges
  <1>7. Last(receipts').asked = r.asked
    BY <1>2, <1>3, <1>4, <1>5 DEF Last
  <1>8. PurgedFacts' = PurgedFacts \cup facts
    <2>1. PurgedFacts' = UNION {more[i].gone : i \in DOMAIN more}
      BY <1>5 DEF PurgedFacts
    <2>2. DOMAIN more = 1..n \cup {n + 1}
      BY <1>3, <1>4
    <2>3. UNION {more[i].gone : i \in DOMAIN more} = (UNION {more[i].gone : i \in 1..n}) \cup more[n + 1].gone
      BY <2>2
    <2>4. more[n + 1].gone = facts
      BY <1>2, <1>4
    <2>5. UNION {more[i].gone : i \in 1..n} = PurgedFacts
      BY <1>3, <1>4 DEF PurgedFacts
    <2> QED
      BY <2>1, <2>3, <2>4, <2>5
  <1>9. PurgedOnce'
    <2> SUFFICES ASSUME NEW i \in DOMAIN more, NEW j \in DOMAIN more, more[i].asked.key = more[j].asked.key
                 PROVE  i = j
      BY <1>5 DEF PurgedOnce
    <2>1. \A k \in 1..n : receipts[k].asked.key # r.asked.key
      BY <1>3 DEF Replayed
    <2>2. more[n + 1].asked.key = r.asked.key
      BY <1>2, <1>4
    <2>3. i \in 1..n \/ i = n + 1
      BY <1>3, <1>4
    <2>4. j \in 1..n \/ j = n + 1
      BY <1>3, <1>4
    <2>5. CASE i \in 1..n /\ j \in 1..n
      BY <1>3, <1>4, <2>5 DEF ReceiptsInv, PurgedOnce
    <2>6. CASE i = n + 1 /\ j \in 1..n
      BY <1>4, <2>1, <2>2, <2>6
    <2>7. CASE i \in 1..n /\ j = n + 1
      BY <1>4, <2>1, <2>2, <2>7
    <2> QED
      BY <2>3, <2>4, <2>5, <2>6, <2>7
  <1>10. (\E T : receipts \in Seq(T))'
    BY <1>4, <1>5
  <1> QED
    BY <1>6, <1>7, <1>8, <1>9, <1>10 DEF ReceiptsInv

\* Active work and corrected evidence, as PurgeSparesWhatIsUsed has them.
InUse(x) == (x.tab = "run" /\ ~Terminal(x)) \/ (x.tab = "occurrence" /\ x.status \notin Outcomes) \/ x.tab = "correction"
Uses(id, x) == Mentions(id, x) \cup (IF x.tab = "correction" THEN {x.target} ELSE {})

\* What blocks a purge is all that might still use what it takes.
LEMMA PurgeUses ==
    ASSUME RowsInv(row), NEW q, Named(q) \subseteq DOMAIN row, Reconcilable(q), NEW gone, gone = Gone(q),
           Blockers(q, gone) = {}, NEW r2, Left(q, gone, r2), gone # {}
    PROVE  /\ \A e \in gone : row[e].tab = "event" => row[e].target \in gone
           /\ \A id \in DOMAIN r2 : InUse(r2[id]) => Uses(id, r2[id]) \cap gone = {}
  <1>1. \A e \in gone : row[e].tab = "event" => row[e].target \in gone
    BY DEF Blockers
  <1>2. ASSUME NEW id \in DOMAIN r2, InUse(r2[id]) PROVE Uses(id, r2[id]) \cap gone = {}
    <2>1. id \in DOMAIN row \ gone
      BY DEF Left
    <2>2. PICK o, x : o = row[id] /\ x = r2[id]
      OBVIOUS
    <2>3. /\ Columns(r2[id]) /\ Evolves(row[id], r2[id]) /\ (row[id].tab # "run" => r2[id] = row[id])
          /\ Refs(r2[id]) \subseteq Refs(Detached(q, id))
          /\ r2[id].tab = "run" /\ ~Terminal(r2[id]) => r2[id] = row[id]
      BY <2>1, LeftRow
    <2>4. x.tab = o.tab /\ Columns(x)
      BY <2>2, <2>3 DEF Evolves
    <2>5. o.tab # "run" \/ ~Terminal(x) => x = o
      BY <2>2, <2>3, <2>4
    <2>6. CASE x.tab = "run" /\ ~Terminal(x)
      <3>1. x = o
        BY <2>5, <2>6
      <3>2. Mentions(id, row[id]) \cap gone = {}
        BY <2>1, <2>2, <2>6, <3>1 DEF Blockers, OfTab
      <3> QED
        BY <2>2, <2>6, <3>1, <3>2 DEF Uses
    <2>7. CASE x.tab = "occurrence" /\ x.status \notin Outcomes
      <3>1. x = o
        BY <2>4, <2>5, <2>7
      <3>2. x.status \in {"pending", "running"}
        BY <2>4, <2>7 DEF Columns
      <3>3. Mentions(id, row[id]) \cap gone = {}
        BY <2>1, <2>2, <2>7, <3>1, <3>2 DEF Blockers, OfTab
      <3> QED
        BY <2>2, <2>7, <3>1, <3>3 DEF Uses
    <2>8. CASE x.tab = "correction"
      <3>1. x = o
        BY <2>4, <2>5, <2>8
      <3>2. x.says = {x.target} /\ Owners(x) = {}
        BY <2>4, <2>8 DEF Columns, Owners
      <3>3. row[id].target \notin gone
        BY <2>1, <2>2, <2>8, <3>1 DEF Blockers, OfTab
      <3>4. Refs(Detached(q, id)) \cap gone = {}
        BY <2>1 DEF Blockers
      <3>5. Refs(x) \cap gone = {}
        BY <2>2, <2>3, <3>4
      <3>6. Mentions(id, x) = {id} \cup Refs(x) \cup {x.target}
        BY <3>2 DEF Mentions
      <3>7. x.target \notin gone
        BY <2>2, <3>1, <3>3
      <3> QED
        BY <2>1, <2>2, <2>8, <3>5, <3>6, <3>7 DEF Uses
    <2> QED
      BY <1>2, <2>2, <2>6, <2>7, <2>8 DEF InUse
  <1> QED
    BY <1>1, <1>2

\* A purge by its owner's review.
LEMMA PurgeStep ==
    ASSUME DataInv, ReceiptsInv, NEW r \in reviewed, Purge(r)
    PROVE  /\ DataInv' /\ ReceiptsInv' /\ Purges /\ NoComeback(row, row')
           /\ r.asked = Last(receipts').asked /\ Facts(Deleted) = r.manifest.gone
           /\ \A id \in DOMAIN row \cap DOMAIN row' : Evolves(row[id], row'[id])
           /\ \A id \in Occurrences : id \in DOMAIN row' => row'[id] = row[id]
           /\ (StartsInv => StartsInv') /\ starts' = starts
           /\ Deleted # {} =>
                 /\ \A e \in Deleted : row[e].tab = "event" => row[e].target \in Deleted
                 /\ \A id \in DOMAIN row' : InUse(row'[id]) => Uses(id, row'[id]) \cap Deleted = {}
           /\ UNCHANGED <<todo, answers>>
  <1>1. PICK q, gone, r2 : q = r.asked /\ gone = Gone(r.asked) /\ r2 = row'
    OBVIOUS
  <1>2. q = r.asked /\ gone = Gone(q) /\ r2 = row'
    BY <1>1
  <1>3. RowsInv(row)
    BY DEF DataInv
  <1>4. /\ Named(q) \subseteq DOMAIN row /\ Reconcilable(q) /\ Manifest(q) = r.manifest /\ Blockers(q, gone) = {}
        /\ Left(q, gone, r2) /\ ~Replayed(r)
        /\ receipts' = Append(receipts, [asked |-> q, gone |-> Facts(gone)])
        /\ UNCHANGED <<now, horizon, starts, calls, todo, answers, reviewed>>
    BY <1>2, <1>3, PurgeRows
  <1>5. Spares(gone, r2)
    BY <1>2, <1>3, <1>4, PurgeSpares
  <1>6. receipts' = Append(receipts, [asked |-> r.asked, gone |-> Facts(gone)])
    BY <1>2, <1>4
  <1>7. /\ PurgedFacts' = PurgedFacts \cup Facts(gone) /\ ReceiptsInv' /\ Purges
        /\ Last(receipts').asked = r.asked
    BY <1>4, <1>6, PurgeReceipts
  <1>8. PICK P1, P2 : P1 = PurgedFacts /\ P2 = PurgedFacts'
    OBVIOUS
  <1>9. P2 = P1 \cup Facts(gone)
    BY <1>7, <1>8
  <1>10. \A id \in DOMAIN row \ gone : id \in DOMAIN r2 /\ Evolves(row[id], r2[id])
    BY <1>5 DEF Spares
  <1>11. Keeps(row, P1, r2, P2)
    BY <1>9, <1>10, PurgeKeeps
  <1>12. BatchesInv(row, P1) /\ RoutinesInv(row, answers) /\ CallsInv(row, P1, calls) /\ AnswersInv(row, P1, answers)
    BY <1>8 DEF DataInv
  <1>13. RowsInv(r2)
    BY <1>5 DEF Spares
  <1>14. BatchesInv(r2, P2)
    BY <1>5, <1>11, <1>12, PurgeBatches
  <1>15. RoutinesInv(r2, answers)
    BY <1>3, <1>5, <1>12, PurgeRoutines
  <1>16. CallsInv(r2, P2, calls)
    BY <1>11, <1>12, CallsOn
  <1>17. AnswersInv(r2, P2, answers)
    BY <1>11, <1>12, AnswersOn
  <1>18. ClockInv'
    BY <1>4 DEF DataInv, ClockInv
  <1>19. DataInv'
    BY <1>2, <1>4, <1>8, <1>13, <1>14, <1>15, <1>16, <1>17, <1>18 DEF DataInv
  <1>20. NoComeback(row, r2)
    BY <1>5 DEF NoComeback, Spares, Resource
  <1>21. Deleted = gone
    BY <1>2, <1>4 DEF Deleted, Left
  <1>22. Facts(Deleted) = r.manifest.gone
    <2>1. Manifest(q).gone = Facts(gone)
      BY <1>2 DEF Manifest
    <2> QED
      BY <1>4, <1>21, <2>1
  <1>23. \A id \in DOMAIN row \cap DOMAIN row' : Evolves(row[id], row'[id])
    BY <1>2, <1>5 DEF Spares
  <1>24. \A id \in Occurrences : id \in DOMAIN row' => row'[id] = row[id]
    BY <1>2, <1>5 DEF Spares, Occurrences, OfTab
  <1>25. gone # {} => /\ \A e \in gone : row[e].tab = "event" => row[e].target \in gone
                      /\ \A id \in DOMAIN r2 : InUse(r2[id]) => Uses(id, r2[id]) \cap gone = {}
    BY <1>2, <1>3, <1>4, PurgeUses
  <1>26. ASSUME StartsInv PROVE StartsInv'
    <2> SUFFICES ASSUME NEW o \in DOMAIN starts PROVE o \in Occurrences' /\ Active(o)'
      BY <1>4 DEF StartsInv
    <2>1. o \in DOMAIN row /\ row[o].tab = "occurrence" /\ row[o].status \in {"pending", "running"}
      BY <1>26 DEF StartsInv, Occurrences, OfTab, Active
    <2>2. o \notin gone
      BY <1>4, <2>1 DEF Blockers, Mentions, OfTab
    <2>3. o \in DOMAIN r2 /\ r2[o] = row[o]
      BY <1>5, <2>1, <2>2 DEF Spares
    <2> QED
      BY <1>2, <2>1, <2>3 DEF Occurrences, OfTab, Active
  <1> QED
    BY <1>2, <1>4, <1>7, <1>19, <1>20, <1>21, <1>22, <1>23, <1>24, <1>25, <1>26

-----------------------------------------------------------------------------
(* Steps                                                                   *)

\* What a step that is no purge does: replays are of what is there, outcomes stand,
\* and a start begins as approved and keeps its occurrence active.
Replays ==
    \A a \in answers' \ answers :
        a.how = "replayed" =>
            LET payload == row[RunOf(KeyOf(a.asked))].payload IN {x.id : x \in payload[1] \cup payload[3]} \subseteq DOMAIN row
EndsOnce(o) ==
    row[o].status \in Outcomes /\ row'[o].status # row[o].status =>
        row[o].status = "review" /\ row'[o].status = "completed"
        /\ \E q \in todo \ todo' : q.do = "report" /\ q.who = "human"
StartsApproved == \A o \in DOMAIN starts' \ DOMAIN starts : TextIsApproved(o)
Occurs == StartsInv' /\ StartsApproved /\ \A o \in Occurrences : EndsOnce(o)

Step ==
    /\ DataInv' /\ receipts' = receipts
    /\ Grows(row, row') /\ NoComeback(row, row') /\ Replays /\ Occurs

LEMMA ExtendsNoComeback ==
    ASSUME NEW r1, NEW r2, Extends(r1, r2) PROVE NoComeback(r1, r2)
  BY DEF Extends, NoComeback

LEMMA MutedReplays ==
    ASSUME Muted(answers, answers') PROVE Replays
  BY DEF Muted, Replays

LEMMA SameOccur ==
    ASSUME StartsInv, UNCHANGED starts, SameOccurrences(row, row'), Grows(row, row') PROVE Occurs
  <1>1. \A o \in Occurrences : o \in DOMAIN row /\ row[o].tab = "occurrence" /\ o \in DOMAIN row' /\ row'[o] = row[o]
    BY DEF SameOccurrences, Occurrences, OfTab, Grows
  <1>2. ASSUME NEW o \in DOMAIN starts PROVE o \in Occurrences' /\ Active(o)'
    <2>1. o \in Occurrences /\ Active(o)
      BY DEF StartsInv
    <2>2. o \in DOMAIN row' /\ row'[o] = row[o] /\ row[o].tab = "occurrence"
      BY <1>1, <2>1
    <2> QED
      BY <2>1, <2>2 DEF Occurrences, OfTab, Active
  <1>3. StartsInv'
    BY <1>2 DEF StartsInv
  <1>4. StartsApproved
    BY DEF StartsApproved
  <1>5. \A o \in Occurrences : EndsOnce(o)
    BY <1>1 DEF EndsOnce
  <1> QED
    BY <1>3, <1>4, <1>5 DEF Occurs

\* A step of rows alone.
LEMMA RowsStep ==
    ASSUME DataInv, Extends(row, row'), RoutinesInv(row', answers'), Muted(answers, answers'),
           CallsInv(row, PurgedFacts, calls'), UNCHANGED receipts, ClockInv', Occurs
    PROVE  Step
  <1>1. PICK r2, P, cs, ans : r2 = row' /\ P = PurgedFacts /\ cs = calls' /\ ans = answers'
    OBVIOUS
  <1>2. PurgedFacts' = P
    BY <1>1 DEF PurgedFacts
  <1>3. BatchesInv(row, P) /\ AnswersInv(row, P, answers)
    BY <1>1 DEF DataInv
  <1>4. Extends(row, r2) /\ Muted(answers, ans) /\ CallsInv(row, P, cs)
    BY <1>1
  <1>5. Grows(row, r2)
    BY <1>4 DEF Extends
  <1>6. RowsInv(r2)
    BY <1>5 DEF Grows
  <1>7. BatchesInv(r2, P)
    BY <1>3, <1>4, BatchesOn
  <1>8. Keeps(row, P, r2, P)
    BY <1>5, GrowsKeeps
  <1>9. CallsInv(r2, P, cs)
    BY <1>4, <1>8, CallsOn
  <1>10. AnswersInv(row, P, ans)
    BY <1>3, <1>4, MutedAnswers
  <1>11. AnswersInv(r2, P, ans)
    BY <1>8, <1>10, AnswersOn
  <1>12. DataInv'
    BY <1>1, <1>2, <1>6, <1>7, <1>9, <1>11 DEF DataInv
  <1>13. NoComeback(row, r2)
    BY <1>4, ExtendsNoComeback
  <1>14. Replays
    BY MutedReplays
  <1> QED
    BY <1>1, <1>5, <1>12, <1>13, <1>14 DEF Step

LEMMA QuietStep ==
    ASSUME DataInv, StartsInv, UNCHANGED starts, Quiet(row, row'), Muted(answers, answers'), CallsInv(row, PurgedFacts, calls'),
           UNCHANGED receipts, ClockInv'
    PROVE  Step
  <1>1. PICK r2, ans : r2 = row' /\ ans = answers'
    OBVIOUS
  <1>2. Extends(row, r2) /\ SameRoutines(row, r2) /\ SameOccurrences(row, r2) /\ Grows(row, r2)
    BY <1>1 DEF Quiet, Extends
  <1>3. RoutinesInv(row, answers) /\ RowsInv(row)
    BY DEF DataInv
  <1>4. answers \subseteq ans
    BY <1>1 DEF Muted
  <1>5. RoutinesInv(r2, ans)
    BY <1>2, <1>3, <1>4, RoutinesOn
  <1>6. SameOccurrences(row, row') /\ Grows(row, row')
    BY <1>1, <1>2
  <1>7. Occurs
    BY <1>6, SameOccur
  <1>8. Extends(row, row') /\ RoutinesInv(row', answers')
    BY <1>1, <1>2, <1>5
  <1> QED
    BY <1>7, <1>8, RowsStep

\* A request of one step that leaves the answers, or answers this.
LEMMA QuietRequest ==
    ASSUME DataInv, StartsInv, NEW q \in todo, OneStep(q), Quiet(row, row'), Muted(answers, answers')
    PROVE  Step
  <1>1. UNCHANGED <<now, horizon, starts, calls, receipts>> /\ todo' = todo \ {q}
    BY DEF OneStep, Sent
  <1>2. ClockInv'
    BY <1>1 DEF DataInv, ClockInv
  <1>3. CallsInv(row, PurgedFacts, calls')
    BY <1>1 DEF DataInv
  <1> QED
    BY <1>1, <1>2, <1>3, QuietStep

LEMMA SameAnswers == ASSUME UNCHANGED answers PROVE Muted(answers, answers')
  BY DEF Muted

LEMMA SameRows == ASSUME DataInv, UNCHANGED row PROVE Quiet(row, row')
  <1>1. RowsInv(row)
    BY DEF DataInv
  <1>2. Quiet(row, row)
    BY <1>1, ExtendsSelf
  <1> QED
    BY <1>2

LEMMA EditsStep ==
    ASSUME DataInv, StartsInv, NEW q \in todo, EditSource(q) \/ ArchiveLink(q) \/ Correct(q) \/ EditTask(q)
    PROVE  Step
  <1>1. RowsInv(row) /\ ClockInv
    BY DEF DataInv
  <1>2. Request(q)
    BY <1>1, Requested
  <1>3. OneStep(q) /\ UNCHANGED answers
    BY DEF EditSource, ArchiveLink, Correct, EditTask
  <1>4. Muted(answers, answers')
    BY <1>3, SameAnswers
  <1>5. Quiet(row, row')
    BY <1>1, <1>2, EditSourceStep, ArchiveLinkStep, CorrectStep, EditTaskStep
  <1> QED
    BY <1>3, <1>4, <1>5, QuietRequest

LEMMA RunsStep ==
    ASSUME DataInv, StartsInv, NEW q \in todo,
           Start(q) \/ Trace(q) \/ Charge(q) \/ Finish(q) \/ FinishInteraction(q) \/ Review(q)
    PROVE  Step
  <1>1. RowsInv(row)
    BY DEF DataInv
  <1>2. OneStep(q)
    BY DEF Start, Trace, Charge, Finish, FinishInteraction, Review, Rewrite
  <1>3. \E how \in {"started", "refused", "appended", "finished", "reviewed"} : Said(q, how, {q.run})
    BY DEF Start, Trace, Charge, Finish, FinishInteraction, Review, Rewrite, Answered
  <1>4. PICK how \in {"started", "refused", "appended", "finished", "reviewed"} : Said(q, how, {q.run})
    BY <1>3
  <1>5. how # "replayed" /\ (q.do = "capture" => how # "committed")
    BY <1>4
  <1>6. Muted(answers, answers')
    BY <1>4, <1>5, SaidMuted
  <1>7. Quiet(row, row')
    BY <1>1, StartStep, TraceStep, FinishStep, FinishInteractionStep, ReviewStep
  <1> QED
    BY <1>2, <1>6, <1>7, QuietRequest

LEMMA ConfiguresStep ==
    ASSUME DataInv, StartsInv, NEW q \in todo, Configure(q) PROVE Step
  <1>1. RowsInv(row) /\ RoutinesInv(row, answers) /\ ClockInv
    BY DEF DataInv
  <1>2. Request(q)
    BY <1>1, Requested
  <1>3. Extends(row, row') /\ SameOccurrences(row, row') /\ RoutinesInv(row', answers')
    BY <1>1, <1>2, ConfigureStep
  <1>4. Occurs
    <2>1. UNCHANGED starts /\ Grows(row, row')
      BY <1>3 DEF Configure, OneStep, Extends
    <2> QED
      BY <1>3, <2>1, SameOccur
  <1>5. PICK text : text = row[q.on].text
    OBVIOUS
  <1>6. answers' = answers \/ Said(q, "approved", text)
    BY <1>5 DEF Configure, Said
  <1>7. Muted(answers, answers')
    <2>1. CASE answers' = answers
      BY <2>1, SameAnswers
    <2>2. CASE Said(q, "approved", text)
      BY <2>2, SaidMuted
    <2> QED
      BY <1>6, <2>1, <2>2
  <1>8. UNCHANGED <<now, horizon, calls, receipts>> /\ todo' = todo \ {q}
    BY DEF Configure, OneStep, Sent
  <1>9. ClockInv'
    BY <1>1, <1>8 DEF ClockInv
  <1>10. CallsInv(row, PurgedFacts, calls')
    BY <1>8 DEF DataInv
  <1> QED
    BY <1>3, <1>4, <1>7, <1>8, <1>9, <1>10, RowsStep

LEMMA ClaimsStep ==
    ASSUME DataInv, StartsInv, ClaimDue PROVE Step
  <1>1. RowsInv(row) /\ RoutinesInv(row, answers) /\ ClockInv
    BY DEF DataInv
  <1>2. /\ Extends(row, row') /\ RoutinesInv(row', answers)
        /\ \A id \in DOMAIN row : row[id].tab = "occurrence" /\ row'[id] # row[id] =>
              row[id].status = "pending" /\ row'[id].thread = row[id].thread
        /\ \A o \in Occurrences \cap DOMAIN starts : row'[o] = row[o]
    BY <1>1, ClaimDueStep
  <1>3. UNCHANGED <<now, horizon, starts, calls, todo, answers, receipts>>
    BY DEF ClaimDue
  <1>4. Occurs
    <2>1. ASSUME NEW o \in Occurrences PROVE EndsOnce(o)
      <3>1. o \in DOMAIN row /\ row[o].tab = "occurrence"
        BY DEF Occurrences, OfTab
      <3>2. row'[o] # row[o] => row[o].status = "pending" /\ row'[o].thread = row[o].thread
        BY <1>2, <3>1
      <3>3. "pending" \notin Outcomes
        BY DEF Outcomes
      <3> QED
        BY <3>2, <3>3 DEF EndsOnce
    <2>2. ASSUME NEW o \in DOMAIN starts PROVE o \in Occurrences' /\ Active(o)'
      <3>1. o \in Occurrences /\ Active(o)
        BY DEF StartsInv
      <3>2. o \in DOMAIN row /\ row[o].tab = "occurrence"
        BY <3>1 DEF Occurrences, OfTab
      <3>3. row'[o] = row[o] /\ o \in DOMAIN row'
        BY <1>2, <3>1, <3>2 DEF Extends, Grows
      <3> QED
        BY <3>1, <3>2, <3>3 DEF Occurrences, OfTab, Active
    <2>3. StartsInv' /\ StartsApproved
      BY <1>3, <2>2 DEF StartsInv, StartsApproved
    <2> QED
      BY <2>1, <2>3 DEF Occurs
  <1>5. Muted(answers, answers')
    BY <1>3, SameAnswers
  <1>6. ClockInv'
    BY <1>1, <1>3 DEF ClockInv
  <1>7. CallsInv(row, PurgedFacts, calls')
    BY <1>3 DEF DataInv
  <1>8. RoutinesInv(row', answers')
    BY <1>2, <1>3
  <1> QED
    BY <1>2, <1>3, <1>4, <1>5, <1>6, <1>7, <1>8, RowsStep

\* The update of one occurrence, which is not locked, or no longer.
LEMMA OthersStayLocked ==
    ASSUME StartsInv, NEW o, DOMAIN starts' \subseteq DOMAIN starts \ {o}, Grows(row, row'),
           \A id \in DOMAIN row : row[id].tab = "occurrence" /\ id # o => row'[id] = row[id]
    PROVE  StartsInv'
  <1> SUFFICES ASSUME NEW p \in DOMAIN starts' PROVE p \in Occurrences' /\ Active(p)'
    BY DEF StartsInv
  <1>1. p # o /\ p \in DOMAIN row /\ row[p].tab = "occurrence" /\ Active(p)
    BY DEF StartsInv, Occurrences, OfTab
  <1>2. row'[p] = row[p] /\ p \in DOMAIN row'
    BY <1>1 DEF Grows
  <1> QED
    BY <1>1, <1>2 DEF Occurrences, OfTab, Active

LEMMA UpdateStep ==
    ASSUME DataInv, NEW o \in Occurrences, NEW status, NEW thread,
           status \in Outcomes \cup {"running"}, status = "running" => Active(o), Updates(o, status, thread),
           todo' \subseteq todo, Occurs
    PROVE  Step
  <1>1. RowsInv(row) /\ RoutinesInv(row, answers) /\ ClockInv
    BY DEF DataInv
  <1>2. Extends(row, row') /\ SameRoutines(row, row')
    BY <1>1, UpdatesStep
  <1>3. UNCHANGED <<now, horizon, calls, answers, receipts>>
    BY DEF Updates
  <1>4. PICK r2 : r2 = row'
    OBVIOUS
  <1>5. Grows(row, r2) /\ SameRoutines(row, r2) /\ answers \subseteq answers
    BY <1>2, <1>4 DEF Extends
  <1>6. RoutinesInv(r2, answers)
    BY <1>1, <1>5, RoutinesOn
  <1>7. RoutinesInv(row', answers')
    BY <1>3, <1>4, <1>6
  <1>8. Muted(answers, answers')
    BY <1>3, SameAnswers
  <1>9. ClockInv'
    BY <1>1, <1>3 DEF ClockInv
  <1>10. CallsInv(row, PurgedFacts, calls')
    BY <1>3 DEF DataInv
  <1> QED
    BY <1>2, <1>3, <1>7, <1>8, <1>9, <1>10, RowsStep

\* What a routine approves of its Task, while it is the revision, was approved.
LEMMA ApprovedText ==
    ASSUME RowsInv(row), RoutinesInv(row, answers), NEW t \in Tasks, NEW rev, Approved(t, rev)
    PROVE  row[t].text \in ApprovedTexts(t)
  <1>1. PICK id : id = RoutineOf(t)
    OBVIOUS
  <1>2. id \in DOMAIN row /\ row[id].tab = "routine" /\ row[id].enabled /\ row[id].approves = rev /\ row[t].rev = rev
    BY <1>1 DEF Approved, Routines, OfTab
  <1>3. RoutineInv(row, answers, id)
    BY <1>2 DEF RoutinesInv
  <1>4. PICK u : u = row[id].task
    OBVIOUS
  <1>5. u \in Tasks /\ RoutineOf(u) = RoutineOf(t)
    BY <1>1, <1>3, <1>4 DEF RoutineInv
  <1>6. u = t
    BY <1>5, IdsAssumption
  <1>7. row[t].text \in Approvals(answers, t)
    BY <1>2, <1>3, <1>4, <1>6 DEF RoutineInv
  <1> QED
    BY <1>7 DEF Approvals, ApprovedTexts

\* What is found eligible is approved as its Task is.
LEMMA EligibleText ==
    ASSUME RowsInv(row), RoutinesInv(row, answers), NEW o \in Occurrences, Eligible(o)
    PROVE  TextIsApproved(o)
  <1>1. PICK t, rev : t = row[o].task /\ rev = row[o].rev
    OBVIOUS
  <1>2. o \in DOMAIN row /\ row[o].tab = "occurrence"
    BY DEF Occurrences, OfTab
  <1>3. t \in Tasks
    BY <1>1, <1>2 DEF RoutinesInv
  <1>4. Approved(t, rev)
    BY <1>1 DEF Eligible
  <1>5. row[t].text \in ApprovedTexts(t)
    BY <1>3, <1>4, ApprovedText
  <1> QED
    BY <1>1, <1>5 DEF TextIsApproved

LEMMA CheckStep ==
    ASSUME DataInv, StartsInv, NEW o \in Occurrences, NEW thread, CheckStart(o, thread) PROVE Step
  <1>1. RowsInv(row) /\ RoutinesInv(row, answers) /\ ClockInv /\ CallsInv(row, PurgedFacts, calls)
    BY DEF DataInv
  <1>2. /\ Eligible(o) /\ Active(o) /\ starts' = Only(o, thread) ++ starts
        /\ UNCHANGED <<row, now, horizon, calls, todo, answers, receipts>>
    BY DEF CheckStart, Checks
  <1>3. DOMAIN starts' = DOMAIN starts \cup {o}
    BY <1>2 DEF Only, ++
  <1>4. TextIsApproved(o)
    BY <1>1, <1>2, EligibleText
  <1>5. Occurs
    <2>1. StartsApproved
      BY <1>3, <1>4 DEF StartsApproved
    <2>2. StartsInv'
      BY <1>2, <1>3 DEF StartsInv, Occurrences, OfTab, Active
    <2>3. \A p \in Occurrences : EndsOnce(p)
      BY <1>2 DEF EndsOnce
    <2> QED
      BY <2>1, <2>2, <2>3 DEF Occurs
  <1>6. Extends(row, row')
    BY <1>2, SameRows DEF Quiet
  <1>7. Muted(answers, answers')
    BY <1>2, SameAnswers
  <1>8. CallsInv(row, PurgedFacts, calls') /\ RoutinesInv(row', answers') /\ ClockInv'
    BY <1>1, <1>2 DEF ClockInv
  <1> QED
    BY <1>2, <1>5, <1>6, <1>7, <1>8, RowsStep

LEMMA BindStep ==
    ASSUME DataInv, StartsInv, NEW o \in DOMAIN starts, Bind(o) PROVE Step
  <1>1. RowsInv(row) /\ RoutinesInv(row, answers)
    BY DEF DataInv
  <1>2. o \in Occurrences /\ Active(o)
    BY DEF StartsInv
  <1>3. PICK thread : thread = starts[o]
    OBVIOUS
  <1>4. Updates(o, "running", thread) /\ todo' = todo /\ DOMAIN starts' = DOMAIN starts \ {o}
    BY <1>3 DEF Bind
  <1>5. "running" \in Outcomes \cup {"running"}
    OBVIOUS
  <1>6. /\ \A id \in DOMAIN row : row[id].tab = "occurrence" /\ id # o => row'[id] = row[id]
        /\ Grows(row, row')
    BY <1>1, <1>2, <1>4, <1>5, UpdatesStep DEF Extends
  <1>7. Occurs
    <2>1. ASSUME NEW p \in Occurrences PROVE EndsOnce(p)
      <3>1. CASE p = o
        <4>1. row[o].status \notin Outcomes
          BY <1>2 DEF Active, Outcomes
        <4> QED
          BY <3>1, <4>1 DEF EndsOnce
      <3>2. CASE p # o
        BY <1>6, <3>2 DEF EndsOnce, Occurrences, OfTab
      <3> QED
        BY <3>1, <3>2
    <2>2. StartsInv'
      BY <1>4, <1>6, OthersStayLocked
    <2>3. StartsApproved
      BY <1>4 DEF StartsApproved
    <2> QED
      BY <2>1, <2>2, <2>3 DEF Occurs
  <1>8. todo' \subseteq todo
    BY <1>4
  <1> QED
    BY <1>2, <1>4, <1>5, <1>7, <1>8, UpdateStep

LEMMA ReportStep ==
    ASSUME DataInv, StartsInv, NEW q \in todo, Report(q) PROVE Step
  <1>1. RowsInv(row) /\ RoutinesInv(row, answers) /\ ClockInv
    BY DEF DataInv
  <1>2. Request(q)
    BY <1>1, Requested
  <1>3. PICK o, status, thread : o = q.on /\ status = q.status /\ thread = row[q.on].thread
    OBVIOUS
  <1>4. /\ q.do = "report" /\ o \in Occurrences /\ o \notin DOMAIN starts /\ starts' = starts
        /\ todo' = todo \ {q} /\ Updates(o, status, thread)
        /\ Active(o) \/ (row[o].status = "review" /\ q.who = "human" /\ status = "completed")
    BY <1>3 DEF Report, Sent
  <1>5. status \in Outcomes /\ status # "running"
    BY <1>2, <1>3, <1>4 DEF Request, Outcomes
  <1>6. status \in Outcomes \cup {"running"} /\ (status = "running" => Active(o))
    BY <1>5
  <1>7. /\ \A id \in DOMAIN row : row[id].tab = "occurrence" /\ id # o => row'[id] = row[id]
        /\ row'[o].status = status /\ row'[o].thread = thread /\ Grows(row, row')
    BY <1>1, <1>4, <1>6, UpdatesStep DEF Extends
  <1>8. Occurs
    <2>1. ASSUME NEW p \in Occurrences PROVE EndsOnce(p)
      <3>1. CASE p = o
        <4>1. q \in todo \ todo'
          BY <1>4
        <4>2. Active(o) => row[o].status \notin Outcomes
          BY DEF Active, Outcomes
        <4> QED
          BY <1>4, <1>7, <3>1, <4>1, <4>2 DEF EndsOnce
      <3>2. CASE p # o
        BY <1>7, <3>2 DEF EndsOnce, Occurrences, OfTab
      <3> QED
        BY <3>1, <3>2
    <2>2. DOMAIN starts' \subseteq DOMAIN starts \ {o}
      BY <1>4
    <2>3. StartsInv'
      BY <1>7, <2>2, OthersStayLocked
    <2>4. StartsApproved
      BY <1>4 DEF StartsApproved
    <2> QED
      BY <2>1, <2>3, <2>4 DEF Occurs
  <1>9. todo' \subseteq todo
    BY <1>4
  <1> QED
    BY <1>4, <1>6, <1>8, <1>9, UpdateStep

\* Steps that leave the rows as they are.
LEMMA ReadsStep ==
    ASSUME DataInv, StartsInv, Tick \/ (\E q \in todo : Preview(q) \/ Prepare(q)) \/ (\E c \in calls : Lost(c))
    PROVE  Step
  <1>1. RowsInv(row) /\ ClockInv /\ CallsInv(row, PurgedFacts, calls)
    BY DEF DataInv
  <1>2. PICK P : P = PurgedFacts
    OBVIOUS
  <1>3. CASE Tick
    <2>1. UNCHANGED <<row, horizon, starts, calls, todo, answers, receipts>> /\ now < horizon /\ now' = now + 1
      BY <1>3 DEF Tick
    <2>2. ClockInv'
      BY <1>1, <2>1 DEF ClockInv
    <2>3. Quiet(row, row') /\ Muted(answers, answers') /\ CallsInv(row, PurgedFacts, calls')
      BY <1>1, <2>1, SameRows, SameAnswers
    <2> QED
      BY <2>1, <2>2, <2>3, QuietStep
  <1>4. ASSUME NEW q \in todo, Preview(q) PROVE Step
    <2>1. UNCHANGED <<row, now, horizon, starts, calls, todo, answers, receipts>>
      BY <1>4 DEF Preview, store
    <2>2. ClockInv'
      BY <1>1, <2>1 DEF ClockInv
    <2>3. Quiet(row, row') /\ Muted(answers, answers') /\ CallsInv(row, PurgedFacts, calls')
      BY <1>1, <2>1, SameRows, SameAnswers
    <2> QED
      BY <2>1, <2>2, <2>3, QuietStep
  <1>5. ASSUME NEW q \in todo, Prepare(q) PROVE Step
    <2>1. CallsInv(row, P, calls)
      BY <1>1, <1>2
    <2>2. UNCHANGED <<row, now, horizon, receipts>> /\ CallsInv(row, P, calls') /\ Muted(answers, answers')
      BY <1>1, <1>5, <2>1, PrepareStep
    <2>3. todo' = todo \ {q} /\ UNCHANGED starts
      BY <1>5 DEF Prepare, Sent, store
    <2>4. ClockInv'
      BY <1>1, <2>2, <2>3 DEF ClockInv
    <2>5. Quiet(row, row') /\ CallsInv(row, PurgedFacts, calls')
      BY <1>2, <2>2, SameRows
    <2> QED
      BY <2>2, <2>3, <2>4, <2>5, QuietStep
  <1>6. ASSUME NEW c \in calls, Lost(c) PROVE Step
    <2>1. CallsInv(row, P, calls)
      BY <1>1, <1>2
    <2>2. UNCHANGED <<row, now, horizon, todo, answers, receipts>> /\ CallsInv(row, P, calls')
      BY <1>6, <2>1, LostStep
    <2>3. ClockInv' /\ UNCHANGED starts
      BY <1>1, <1>6, <2>2 DEF ClockInv, Lost, store
    <2>4. Quiet(row, row') /\ Muted(answers, answers') /\ CallsInv(row, PurgedFacts, calls')
      BY <1>2, <2>2, SameRows, SameAnswers
    <2> QED
      BY <2>2, <2>3, <2>4, QuietStep
  <1> QED
    BY <1>3, <1>4, <1>5, <1>6

LEMMA AnswerStep ==
    ASSUME DataInv, StartsInv, NEW c \in calls, Status(c) PROVE Step
  <1>1. RowsInv(row) /\ RoutinesInv(row, answers) /\ ClockInv
    BY DEF DataInv
  <1>2. PICK P, ans : P = PurgedFacts /\ ans = answers'
    OBVIOUS
  <1>3. BatchesInv(row, P) /\ CallsInv(row, P, calls) /\ AnswersInv(row, P, answers)
    BY <1>2 DEF DataInv
  <1>4. /\ UNCHANGED <<row, now, horizon, todo, receipts>>
        /\ CallsInv(row, P, calls') /\ AnswersInv(row, P, answers') /\ answers \subseteq answers'
        /\ \A a \in answers' \ answers : a.how = "replayed" =>
              {x.id : x \in row[RunOf(KeyOf(a.asked))].payload[1] \cup row[RunOf(KeyOf(a.asked))].payload[3]}
                  \subseteq DOMAIN row
    BY <1>1, <1>3, StatusStep
  <1>5. Quiet(row, row') /\ Quiet(row, row)
    BY <1>1, <1>4, SameRows, ExtendsSelf
  <1>6. Grows(row, row) /\ SameRoutines(row, row) /\ answers \subseteq ans
    BY <1>2, <1>4, <1>5 DEF Quiet, Extends
  <1>7. RoutinesInv(row, ans)
    BY <1>1, <1>6, RoutinesOn
  <1>8. PurgedFacts' = P /\ ClockInv'
    BY <1>1, <1>2, <1>4 DEF PurgedFacts, ClockInv
  <1>9. DataInv'
    BY <1>1, <1>2, <1>3, <1>4, <1>7, <1>8 DEF DataInv
  <1>10. NoComeback(row, row')
    BY <1>4 DEF NoComeback
  <1>11. Replays
    BY <1>4 DEF Replays
  <1>12. Occurs
    <2>1. UNCHANGED starts
      BY DEF Status, store
    <2>2. SameOccurrences(row, row') /\ Grows(row, row')
      BY <1>5 DEF Quiet, Extends
    <2> QED
      BY <2>1, <2>2, SameOccur
  <1> QED
    BY <1>4, <1>6, <1>9, <1>10, <1>11, <1>12 DEF Step

LEMMA CommitStep ==
    ASSUME DataInv, StartsInv, NEW c \in calls, Write(c) PROVE Step
  <1>1. RowsInv(row) /\ RoutinesInv(row, answers) /\ ClockInv
    BY DEF DataInv
  <1>2. PICK P, ans, r2 : P = PurgedFacts /\ ans = answers' /\ r2 = row'
    OBVIOUS
  <1>3. BatchesInv(row, P) /\ CallsInv(row, P, calls) /\ AnswersInv(row, P, answers)
    BY <1>2 DEF DataInv
  <1>4. /\ UNCHANGED <<now, horizon, todo, receipts>>
        /\ Grows(row, row') /\ SameRoutines(row, row') /\ SameOccurrences(row, row') /\ NoComeback(row, row')
        /\ BatchesInv(row', P) /\ CallsInv(row', P, calls') /\ AnswersInv(row', P, answers')
        /\ answers \subseteq answers' /\ \A a \in answers' \ answers : a.how = "committed"
    BY <1>1, <1>3, WriteStep
  <1>5. Grows(row, r2) /\ SameRoutines(row, r2) /\ answers \subseteq ans
    BY <1>2, <1>4
  <1>6. RoutinesInv(r2, ans)
    BY <1>1, <1>5, RoutinesOn
  <1>7. PurgedFacts' = P /\ ClockInv'
    BY <1>1, <1>2, <1>4 DEF PurgedFacts, ClockInv
  <1>8. RowsInv(r2)
    BY <1>5 DEF Grows
  <1>9. DataInv'
    BY <1>2, <1>4, <1>6, <1>7, <1>8 DEF DataInv
  <1>10. Replays
    BY <1>4 DEF Replays
  <1>11. Occurs
    <2>1. UNCHANGED starts
      BY DEF Write
    <2> QED
      BY <1>4, <2>1, SameOccur
  <1> QED
    BY <1>4, <1>9, <1>10, <1>11 DEF Step

LEMMA EveryStep ==
    ASSUME IInv, Next, ~\E r \in reviewed : Purge(r) PROVE Step
  <1>1. DataInv /\ StartsInv
    BY DEF IInv
  <1>2. CASE Requests
    <2>1. PICK q \in todo : \/ Prepare(q) \/ EditSource(q) \/ ArchiveLink(q) \/ Correct(q)
                            \/ Start(q) \/ Trace(q) \/ Charge(q) \/ Finish(q) \/ FinishInteraction(q) \/ Review(q)
                            \/ EditTask(q) \/ Configure(q) \/ Report(q)
      BY <1>2 DEF Requests
    <2>2. CASE Prepare(q)
      BY <1>1, <2>2, ReadsStep
    <2>3. CASE EditSource(q) \/ ArchiveLink(q) \/ Correct(q) \/ EditTask(q)
      BY <1>1, <2>3, EditsStep
    <2>4. CASE Start(q) \/ Trace(q) \/ Charge(q) \/ Finish(q) \/ FinishInteraction(q) \/ Review(q)
      BY <1>1, <2>4, RunsStep
    <2>5. CASE Configure(q)
      BY <1>1, <2>5, ConfiguresStep
    <2>6. CASE Report(q)
      BY <1>1, <2>6, ReportStep
    <2> QED
      BY <2>1, <2>2, <2>3, <2>4, <2>5, <2>6
  <1>3. CASE Intake
    <2>1. PICK c \in calls : Status(c) \/ Write(c) \/ Lost(c)
      BY <1>3 DEF Intake
    <2>2. CASE Status(c)
      BY <1>1, <2>2, AnswerStep
    <2>3. CASE Write(c)
      BY <1>1, <2>3, CommitStep
    <2>4. CASE Lost(c)
      BY <1>1, <2>4, ReadsStep
    <2> QED
      BY <2>1, <2>2, <2>3, <2>4
  <1>4. CASE Tick
    BY <1>1, <1>4, ReadsStep
  <1>5. CASE ClaimDue
    BY <1>1, <1>5, ClaimsStep
  <1>6. CASE Dispatch
    <2>1. PICK o \in Occurrences, thread \in Threads : CheckStart(o, thread)
      BY <1>6 DEF Dispatch
    <2> QED
      BY <1>1, <2>1, CheckStep
  <1>7. CASE Binding
    <2>1. PICK o \in DOMAIN starts : Bind(o)
      BY <1>7 DEF Binding
    <2> QED
      BY <1>1, <2>1, BindStep
  <1>8. CASE Purging
    <2>1. PICK q \in todo : Preview(q)
      BY <1>8 DEF Purging
    <2> QED
      BY <1>1, <2>1, ReadsStep
  <1> QED
    BY <1>2, <1>3, <1>4, <1>5, <1>6, <1>7, <1>8 DEF Next

LEMMA InitInv == Init => IInv
  <1> SUFFICES ASSUME Init PROVE IInv
    OBVIOUS
  <1>1. PICK s \in Scenarios : row = s.rows /\ todo = s.todo /\ horizon = s.horizon
    BY DEF Init
  <1>2. now = 0 /\ starts = << >> /\ calls = {} /\ answers = {} /\ receipts = << >>
    BY DEF Init
  <1>3. /\ s.horizon \in Nat /\ None \notin DOMAIN s.rows
        /\ \A id \in DOMAIN s.rows :
              /\ Columns(s.rows[id]) /\ s.rows[id].tab \notin {"routine", "occurrence"}
              /\ s.rows[id].tab = "run" => s.rows[id].kind # "intake"
        /\ Sound(s.rows) /\ Targets(s.rows)
    BY ScenariosAssumption
  <1>4. RowsInv(row)
    BY <1>1, <1>3 DEF RowsInv, Formed, Nameless
  <1>5. BatchesInv(row, PurgedFacts)
    BY <1>1, <1>3 DEF BatchesInv, IsBatch
  <1>6. RoutinesInv(row, answers)
    BY <1>1, <1>3 DEF RoutinesInv, Overlaps
  <1>7. CallsInv(row, PurgedFacts, calls) /\ AnswersInv(row, PurgedFacts, answers)
    BY <1>2 DEF CallsInv, AnswersInv
  <1>8. ClockInv
    BY <1>1, <1>2, <1>3 DEF ClockInv, Sent_
  <1>9. ReceiptsInv
    <2>1. receipts \in Seq({})
      BY <1>2
    <2>2. PurgedOnce
      BY <1>2 DEF PurgedOnce
    <2> QED
      BY <2>1, <2>2 DEF ReceiptsInv
  <1>10. StartsInv
    BY <1>2 DEF StartsInv
  <1> QED
    BY <1>4, <1>5, <1>6, <1>7, <1>8, <1>9, <1>10 DEF IInv, DataInv

LEMMA StepReceipts == ASSUME ReceiptsInv, UNCHANGED receipts PROVE ReceiptsInv'
  BY DEF ReceiptsInv, PurgedOnce

LEMMA NextInv == IInv /\ [Next]_vars => IInv'
  <1> SUFFICES ASSUME IInv, [Next]_vars PROVE IInv'
    OBVIOUS
  <1>1. DataInv /\ StartsInv /\ ReceiptsInv
    BY DEF IInv
  <1>2. CASE UNCHANGED vars
    <2>1. UNCHANGED <<row, now, horizon, starts, calls, todo, answers, receipts>>
      BY <1>2 DEF vars
    <2>2. PurgedFacts' = PurgedFacts /\ ClockInv' /\ ReceiptsInv'
      BY <1>1, <2>1, StepReceipts DEF PurgedFacts, DataInv, ClockInv
    <2>3. DataInv'
      BY <1>1, <2>1, <2>2 DEF DataInv
    <2>4. StartsInv'
      BY <1>1, <2>1 DEF StartsInv, Occurrences, OfTab, Active
    <2> QED
      BY <2>2, <2>3, <2>4 DEF IInv
  <1>3. CASE Next /\ \E r \in reviewed : Purge(r)
    <2>1. PICK r \in reviewed : Purge(r)
      BY <1>3
    <2>2. DataInv' /\ StartsInv' /\ ReceiptsInv'
      BY <1>1, <2>1, PurgeStep
    <2> QED
      BY <2>2 DEF IInv
  <1>4. CASE Next /\ ~\E r \in reviewed : Purge(r)
    <2>1. DataInv' /\ StartsInv' /\ receipts' = receipts
      BY <1>4, EveryStep DEF Step, Occurs
    <2>2. ReceiptsInv'
      BY <1>1, <2>1, StepReceipts
    <2> QED
      BY <2>1, <2>2 DEF IInv
  <1> QED
    BY <1>2, <1>3, <1>4

\* The invariant holds of every behaviour.
THEOREM InvariantHolds == Spec => []IInv
  BY InitInv, NextInv, PTL DEF Spec

-----------------------------------------------------------------------------
(* What it gives                                                           *)

\* Whatever races, rows are well-formed, no foreign key dangles, and a Task never
\* has two executions at once.
THEOREM StoreStaysSound == Spec => []StoreIsSound
<1>1. IInv => StoreIsSound
  <2> SUFFICES ASSUME IInv PROVE StoreIsSound
    OBVIOUS
  <2>1. RowsInv(row) /\ RoutinesInv(row, answers) /\ ClockInv /\ CallsInv(row, PurgedFacts, calls)
    BY DEF IInv, DataInv
  <2>2. \A id \in DOMAIN row : Columns(row[id])
    BY <2>1 DEF RowsInv, Formed
  <2>3. now \in 0..horizon
    BY <2>1 DEF ClockInv
  <2>4. \A c \in calls : c.pc \in {"status", "write"}
    BY <2>1 DEF CallsInv, CallInv
  <2>5. \A o \in OfTab("object") : row[o].rev \in Nat \ {0} /\ row[o].live \in BOOLEAN
    BY <2>2 DEF OfTab, Columns
  <2>6. \A r \in Routines : row[r].enabled = (row[r].next # None)
    BY <2>2 DEF OfTab, Routines, Columns
  <2>7. \A r \in Routines : row[r].task \in Objects("task")
    <3> SUFFICES ASSUME NEW r \in Routines PROVE row[r].task \in Objects("task")
      OBVIOUS
    <3>1. RoutineInv(row, answers, r)
      BY <2>1 DEF RoutinesInv, Routines, OfTab
    <3> QED
      BY <3>1 DEF RoutineInv, Objects, OfTab
  <2>8. \A o \in Occurrences : row[o].status \in Outcomes \cup {"pending", "running"}
    BY <2>2 DEF OfTab, Occurrences, Columns
  <2>9. TypeOK
    <3>1. DOMAIN starts \subseteq {o \in Occurrences : Active(o)}
      BY DEF IInv, StartsInv
    <3> QED
      BY <2>3, <2>4, <2>5, <2>6, <2>7, <2>8, <3>1 DEF TypeOK
  <2>10. NothingDangles
    BY <2>1 DEF NothingDangles, RowsInv
  <2>11. OccurrencesDoNotOverlap
    BY <2>1 DEF RoutinesInv, Overlaps, OccurrencesDoNotOverlap, Occurrences, OfTab, Active, IsActive
  <2> QED
    BY <2>9, <2>10, <2>11 DEF StoreIsSound
<1> QED
  BY <1>1, InvariantHolds, PTL

\* However captures, retries, edits and purges race, the content and Connections of a
\* capture that was answered as committed, or replayed, are there or were purged
\* since, and one key purges once.
THEOREM AnswersStayTrue == Spec => []AnswersStand
<1>1. IInv => AnswersStand
  <2> SUFFICES ASSUME IInv PROVE AnswersStand
    OBVIOUS
  <2>1. AnswersInv(row, PurgedFacts, answers) /\ PurgedOnce
    BY DEF IInv, DataInv, ReceiptsInv
  <2>2. ASSUME NEW a \in answers, a.asked.do = "capture", Answered200(a), NEW s \in a.on
        PROVE  /\ Kept(row, PurgedFacts, s, a.asked.body)
               /\ \A e \in a.asked.edges : Made(row, PurgedFacts, s, e.kind, e.dst)
    BY <2>1, <2>2 DEF AnswersInv
  <2>3. CommittedContentIsKept
    <3> SUFFICES ASSUME NEW a \in answers, a.asked.do = "capture", Answered200(a), NEW s \in a.on
                 PROVE  Copies(s, a.asked.body) # {} \/ \E f \in PurgedFacts : IsCopy(f[2], s, a.asked.body)
      BY DEF CommittedContentIsKept
    <3>1. PICK body : body = a.asked.body
      OBVIOUS
    <3>2. Kept(row, PurgedFacts, s, body)
      BY <2>2, <3>1
    <3>3. (\E x \in DOMAIN row : IsCopy(row[x], s, body)) => Copies(s, body) # {}
      BY DEF IsCopy, Copies, OfTab
    <3> QED
      BY <3>1, <3>2, <3>3 DEF Kept
  <2>4. CommittedLinksAreMade
    BY <2>2 DEF CommittedLinksAreMade, Made
  <2> QED
    BY <2>1, <2>3, <2>4 DEF AnswersStand
<1> QED
  BY <1>1, InvariantHolds, PTL

\* What every step but a stutter leaves, whoever takes it.
LEMMA AnyStep ==
    ASSUME IInv, Next
    PROVE  /\ \A id \in DOMAIN row \cap DOMAIN row' : Evolves(row[id], row'[id])
           /\ NoComeback(row, row') /\ Replays
           /\ StartsApproved /\ \A o \in Occurrences : o \in DOMAIN row' => EndsOnce(o)
           /\ Deleted # {} => \E r \in reviewed : Purge(r)
  <1>1. DataInv /\ ReceiptsInv
    BY DEF IInv
  <1>2. CASE \E r \in reviewed : Purge(r)
    <2>1. PICK r \in reviewed : Purge(r)
      BY <1>2
    <2>2. /\ NoComeback(row, row')
          /\ \A id \in DOMAIN row \cap DOMAIN row' : Evolves(row[id], row'[id])
          /\ \A id \in Occurrences : id \in DOMAIN row' => row'[id] = row[id]
          /\ UNCHANGED <<todo, answers, starts>>
      BY <1>1, <2>1, PurgeStep
    <2>3. Replays
      BY <2>2 DEF Replays
    <2>4. StartsApproved /\ \A o \in Occurrences : o \in DOMAIN row' => EndsOnce(o)
      BY <2>2 DEF StartsApproved, EndsOnce
    <2> QED
      BY <1>2, <2>2, <2>3, <2>4
  <1>3. CASE ~\E r \in reviewed : Purge(r)
    <2>1. Grows(row, row') /\ NoComeback(row, row') /\ Replays /\ Occurs
      BY <1>3, EveryStep DEF Step
    <2>2. DOMAIN row \subseteq DOMAIN row' /\ \A id \in DOMAIN row : Evolves(row[id], row'[id])
      BY <2>1 DEF Grows
    <2>3. Deleted = {}
      BY <2>2 DEF Deleted
    <2> QED
      BY <2>1, <2>2, <2>3 DEF Occurs
  <1> QED
    BY <1>2, <1>3

\* A repeated capture is told it is a replay only while all it wrote is there; while
\* its Run is retained it brings nothing purged back; and a placeholder, once
\* adopted, keeps the record of what it was.
THEOREM RepeatsStayReplays == Spec => RepeatsAreReplays
<1>1. IInv /\ [Next]_vars =>
        [\A a \in answers' \ answers :
            a.how = "replayed" =>
                LET payload == row[RunOf(KeyOf(a.asked))].payload
                IN {x.id : x \in payload[1] \cup payload[3]} \subseteq DOMAIN row]_vars
  BY AnyStep DEF Replays
<1>2. IInv /\ [Next]_vars =>
        [\A r \in OfTab("run") \cap DOMAIN row' :
            row[r].kind = "intake" =>
                \A id \in WrittenBy(row[r]) \cap PurgedIds : id \in DOMAIN row' /\ Resource(row'[id]) => id \in DOMAIN row]_vars
  BY AnyStep DEF NoComeback, IsBatch, OfTab
<1>3. IInv /\ [Next]_vars =>
        [\A s \in Objects("source") :
            s \in DOMAIN row' /\ row[s].past # None => row'[s].past = row[s].past]_vars
  BY AnyStep DEF Evolves, Objects, OfTab
<1>4. Spec => ReplaysAreWhole
  BY <1>1, InvariantHolds, PTL DEF Spec, ReplaysAreWhole
<1>5. Spec => PurgedNeverReturns
  BY <1>2, InvariantHolds, PTL DEF Spec, PurgedNeverReturns
<1>6. Spec => AdoptionKeepsPast
  BY <1>3, InvariantHolds, PTL DEF Spec, AdoptionKeepsPast
<1> QED
  BY <1>4, <1>5, <1>6 DEF RepeatsAreReplays

\* Rows are deleted only by a purge, just as its owner reviewed them, and never the
\* history of a row that stays, what active work mentions, or corrected evidence.
THEOREM PurgesStayReviewed == Spec => PurgesAreReviewed
<1>1. ASSUME IInv, Next, Deleted # {}
      PROVE  /\ Purges
             /\ \E r \in reviewed : r.asked = Last(receipts').asked /\ Facts(Deleted) = r.manifest.gone
             /\ \A e \in Deleted : row[e].tab = "event" => row[e].target \in Deleted
             /\ \A id \in DOMAIN row' : InUse(row'[id]) => Uses(id, row'[id]) \cap Deleted = {}
  <2>1. DataInv /\ ReceiptsInv
    BY <1>1 DEF IInv
  <2>2. PICK r \in reviewed : Purge(r)
    BY <1>1, AnyStep
  <2> QED
    BY <1>1, <2>1, <2>2, PurgeStep
<1>2. IInv /\ [Next]_vars =>
        [Deleted # {} =>
            /\ Purges
            /\ \E r \in reviewed : r.asked = Last(receipts').asked /\ Facts(Deleted) = r.manifest.gone]_vars
  BY <1>1
<1>3. IInv /\ [Next]_vars =>
        [Deleted # {} =>
            /\ \A e \in Deleted : row[e].tab = "event" => row[e].target \in Deleted
            /\ \A r \in DOMAIN row' :
                  (row'[r].tab = "run" /\ ~Terminal(row'[r])) \/ (row'[r].tab = "occurrence" /\ row'[r].status \notin Outcomes)
                      \/ row'[r].tab = "correction"
                  => (Mentions(r, row'[r]) \cup (IF row'[r].tab = "correction" THEN {row'[r].target} ELSE {}))
                         \cap Deleted = {}]_vars
  BY <1>1 DEF InUse, Uses
<1>4. Spec => DeletionsAreReviewed
  BY <1>2, InvariantHolds, PTL DEF Spec, DeletionsAreReviewed
<1>5. Spec => PurgeSparesWhatIsUsed
  BY <1>3, InvariantHolds, PTL DEF Spec, PurgeSparesWhatIsUsed
<1> QED
  BY <1>4, <1>5 DEF PurgesAreReviewed

\* The first outcome of a Run stands, and that of an occurrence but for a review a
\* human completes; the start of an execution begins only of a text of its Task that
\* somebody approved, which is also all that is ever called eligible.
THEOREM OutcomesStayFinal == Spec => OutcomesStand
<1>1. IInv /\ [Next]_vars =>
        [\A r \in OfTab("run") :
            r \in DOMAIN row' /\ Terminal(row[r]) => row'[r].status = row[r].status]_vars
  BY AnyStep DEF Evolves, OfTab
<1>2. IInv /\ [Next]_vars =>
        [\A o \in Occurrences :
            o \in DOMAIN row' /\ row[o].status \in Outcomes /\ row'[o].status # row[o].status =>
                row[o].status = "review" /\ row'[o].status = "completed"
                /\ \E q \in todo \ todo' : q.do = "report" /\ q.who = "human"]_vars
  BY AnyStep DEF EndsOnce
<1>3. IInv /\ [Next]_vars => [\A o \in DOMAIN starts' \ DOMAIN starts : TextIsApproved(o)]_vars
  BY AnyStep DEF StartsApproved
<1>4. IInv => EligibleIsApproved
  BY EligibleText DEF IInv, DataInv, EligibleIsApproved
<1>5. Spec => RunOutcomesStand
  BY <1>1, InvariantHolds, PTL DEF Spec, RunOutcomesStand
<1>6. Spec => OccurrencesEndOnce
  BY <1>2, InvariantHolds, PTL DEF Spec, OccurrencesEndOnce
<1>7. Spec => StartsAreApproved
  BY <1>3, InvariantHolds, PTL DEF Spec, StartsAreApproved
<1>8. Spec => []EligibleIsApproved
  BY <1>4, InvariantHolds, PTL
<1> QED
  BY <1>5, <1>6, <1>7, <1>8 DEF OutcomesStand
=============================================================================
