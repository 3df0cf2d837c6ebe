------------------------ MODULE EmbeddingQueue_proofs ------------------------
(***************************************************************************)
(* Proofs about EmbeddingQueue for any Objects, texts, workers and limits. *)
(* The type invariant has to follow the workers' snapshots and jobs, whose *)
(* texts reach the rows again; VectorsKept then holds step by step.        *)
(***************************************************************************)
EXTENDS EmbeddingQueue, TLAPS

\* What a worker may have in hand.
Local ==
    [pc : {"idle", "queued"}]
    \cup [pc : {"queueing"}, want : [Objects -> Texts \cup {Nothing}]]
    \cup [pc : {"claiming"}, rows : [Objects -> Row], texts : [Objects -> Texts]]
    \cup [pc : {"embedding", "storing", "failing"}, object : Objects,
          hash : Texts \cup {Nothing}, text : Texts]

IInv == TypeOK /\ worker \in [Workers -> Local]

\* A row that is completed exactly when it has a vector.
Sound(r) == r \in Row /\ (r.vector # Nothing <=> r.status = "completed")

\* What each update of a row returns.
LEMMA PendingSound ==
    ASSUME NEW t \in Texts \cup {Nothing}
    PROVE  Sound(Pending(t)) /\ Sound(Absent)
<1>1. 0 \in 0..Limit
  BY BoundsAssumption
<1>2. ASSUME NEW u \in Texts \cup {Nothing}
      PROVE  Sound(Pending(u)) /\ Pending(u).vector = Nothing
  BY <1>1 DEF Sound, Row, Pending
<1>3. ASSUME NEW r \in Row, r.vector = Nothing
      PROVE  Sound([r EXCEPT !.status = "absent"])
  BY <1>3 DEF Sound, Row
<1>4. Pending(Nothing) \in Row
  BY <1>2 DEF Sound
<1>5. Sound(Absent)
  BY <1>2, <1>3, <1>4 DEF Absent
<1> QED
  BY <1>2, <1>5

LEMMA RecoveredSound ==
    ASSUME NEW r \in Row, Sound(r)
    PROVE  /\ r.status = "running" => Sound(Recovered(r))
           /\ Sound(Failed(r))
  BY DEF Sound, Recovered, Failed, Row

LEMMA ClaimedSound ==
    ASSUME NEW r \in Row, Sound(r), Claimable(r)
    PROVE  Sound(Claimed(r))
<1> DEFINE n == r.attempts + 1
<1>1. n \in 0..Limit
  BY BoundsAssumption DEF Claimable, Row
<1>2. r.status \in {"pending", "failed"} /\ r.vector = Nothing
  BY DEF Claimable, Sound
<1>3. Claimed(r) = [r EXCEPT !.status = "running", !.attempts = n, !.lapsed = FALSE]
  BY DEF Claimed
<1> HIDE DEF n
<1> QED
  BY <1>1, <1>2, <1>3 DEF Sound, Row

LEMMA StoredSound ==
    ASSUME NEW r \in Row, Sound(r), NEW t \in Texts
    PROVE  Sound([r EXCEPT !.status = "completed", !.vector = t, !.lapsed = FALSE])
  BY NothingAssumption DEF Sound, Row

LEMMA InitInvariant == Init => IInv
<1> SUFFICES ASSUME Init PROVE IInv
  OBVIOUS
<1>1. text \in [Objects -> Texts] /\ edits \in 0..MaxEdits
  BY BoundsAssumption DEF Init
<1>2. \A o \in Objects : Sound(row[o])
  BY PendingSound DEF Init
<1>3. row \in [Objects -> Row]
  BY <1>2 DEF Init, Sound
<1>4. worker \in [Workers -> Local]
  BY DEF Init, Idle, Local
<1> QED
  BY <1>1, <1>2, <1>3, <1>4 DEF IInv, TypeOK, Sound

\* What has to be shown of a step: its rows are sound, its workers typed.
LEMMA Assembled ==
    ASSUME text' \in [Objects -> Texts], edits' \in 0..MaxEdits,
           worker' \in [Workers -> Local],
           row' = [o \in Objects |-> row'[o]],
           \A o \in Objects : Sound(row'[o])
    PROVE  IInv'
<1>1. row' \in [Objects -> Row]
  BY DEF Sound
<1> QED
  BY <1>1 DEF IInv, TypeOK, Sound

LEMMA Typed ==
    ASSUME IInv
    PROVE  /\ row \in [Objects -> Row]
           /\ row = [o \in Objects |-> row[o]]
           /\ \A o \in Objects : row[o] \in Row /\ Sound(row[o])
           /\ text \in [Objects -> Texts]
           /\ edits \in 0..MaxEdits
           /\ worker \in [Workers -> Local]
  BY DEF IInv, TypeOK, Sound

\* What a worker in each of its steps has in hand.
LEMMA InHand ==
    ASSUME NEW w \in Workers, worker \in [Workers -> Local]
    PROVE  /\ At(w, "queueing") => worker[w].want \in [Objects -> Texts \cup {Nothing}]
           /\ At(w, "claiming") => worker[w].texts \in [Objects -> Texts]
           /\ worker[w].pc \in {"embedding", "storing", "failing"} =>
                /\ worker[w].object \in Objects
                /\ worker[w].hash \in Texts \cup {Nothing}
                /\ worker[w].text \in Texts
                /\ worker[w] = [pc |-> worker[w].pc, object |-> worker[w].object,
                                hash |-> worker[w].hash, text |-> worker[w].text]
  BY DEF Local, At

LEMMA QueueReadInvariant == ASSUME NEW w \in Workers, IInv, QueueRead(w) PROVE IInv'
<1>1. worker' \in [Workers -> Local]
  <2>1. [o \in Objects |-> IF row[o].hash = text[o] THEN Nothing ELSE text[o]]
          \in [Objects -> Texts \cup {Nothing}]
    BY Typed
  <2> QED
    BY <2>1, Typed DEF QueueRead, Local
<1>2. row' = row /\ text' = text /\ edits' = edits
  BY DEF QueueRead
<1> QED
  BY <1>1, <1>2, Typed, Assembled

LEMMA QueueWriteInvariant == ASSUME NEW w \in Workers, IInv, QueueWrite(w) PROVE IInv'
<1>1. ASSUME NEW o \in Objects PROVE Sound(Upserted(o, worker[w].want[o]))
  <2>1. worker[w].want[o] \in Texts \cup {Nothing}
    BY Typed, InHand DEF QueueWrite
  <2> QED
    BY <2>1, Typed, PendingSound DEF Upserted
<1>2. \A o \in Objects : Sound(row'[o])
  BY <1>1 DEF QueueWrite
<1>3. row' = [o \in Objects |-> row'[o]]
  BY DEF QueueWrite
<1>4. worker' \in [Workers -> Local]
  BY Typed DEF QueueWrite, Local
<1>5. text' = text /\ edits' = edits
  BY DEF QueueWrite
<1> QED
  BY <1>2, <1>3, <1>4, <1>5, Typed, Assembled

LEMMA ClaimReadInvariant == ASSUME NEW w \in Workers, IInv, ClaimRead(w) PROVE IInv'
<1>1. worker' \in [Workers -> Local]
  BY Typed DEF ClaimRead, Local
<1>2. row' = row /\ text' = text /\ edits' = edits
  BY DEF ClaimRead
<1> QED
  BY <1>1, <1>2, Typed, Assembled

LEMMA ClaimWriteInvariant == ASSUME NEW w \in Workers, IInv, ClaimWrite(w) PROVE IInv'
<1> DEFINE seen == worker[w].rows
           expired == {o \in Objects : Expired(seen[o]) /\ Expired(row[o])}
           open == {o \in Objects : Claimable(seen[o]) /\ Claimable(row[o])}
<1>1. \A p \in Objects : p \in expired => Sound(Recovered(row[p]))
  BY Typed, RecoveredSound DEF Expired
<1>2. \A p \in open : Sound(Claimed(row[p]))
  BY Typed, ClaimedSound
<1>3. \A p \in Objects : Sound(row[p])
  BY Typed
<1>4. text' = text /\ edits' = edits
  BY DEF ClaimWrite
<1>5. worker \in [Workers -> Local] /\ row \in [Objects -> Row]
  BY Typed
<1>6. ASSUME NEW o \in open,
             row' = [p \in Objects |-> IF p = o THEN Claimed(row[p])
                                       ELSE IF p \in expired THEN Recovered(row[p])
                                       ELSE row[p]],
             worker' = [worker EXCEPT ![w] =
                          [pc |-> "embedding", object |-> o, hash |-> row[o].hash,
                           text |-> worker[w].texts[o]]]
      PROVE  IInv'
  <2>1. worker[w].texts[o] \in Texts
    BY <1>5, InHand DEF ClaimWrite
  <2>2. row[o].hash \in Texts \cup {Nothing}
    BY <1>5 DEF Row
  <2>3. worker' \in [Workers -> Local]
    BY <1>5, <1>6, <2>1, <2>2 DEF Local
  <2>4. \A p \in Objects : Sound(row'[p])
    <3> HIDE DEF expired, open
    <3> QED
      BY <1>1, <1>2, <1>3, <1>6
  <2>5. row' = [p \in Objects |-> row'[p]]
    BY <1>6
  <2> QED
    BY <1>4, <2>3, <2>4, <2>5, Typed, Assembled
<1>7. ASSUME row' = [p \in Objects |-> IF p \in expired THEN Recovered(row[p]) ELSE row[p]],
             worker' = [worker EXCEPT ![w] = Idle]
      PROVE  IInv'
  <2>1. worker' \in [Workers -> Local]
    BY <1>5, <1>7 DEF Idle, Local
  <2>2. \A p \in Objects : Sound(row'[p])
    <3> HIDE DEF expired
    <3> QED
      BY <1>1, <1>3, <1>7
  <2>3. row' = [p \in Objects |-> row'[p]]
    BY <1>7
  <2> QED
    BY <1>4, <2>1, <2>2, <2>3, Typed, Assembled
<1> QED
  BY <1>6, <1>7 DEF ClaimWrite

\* Any step that replaces one row by a sound one, or none.
LEMMA OneRow ==
    ASSUME IInv, NEW o \in Objects, NEW r, Sound(r),
           row' = [row EXCEPT ![o] = r] \/ row' = row,
           worker' \in [Workers -> Local],
           text' \in [Objects -> Texts], edits' \in 0..MaxEdits
    PROVE  IInv'
<1>1. \A p \in Objects : Sound(row'[p])
  BY Typed
<1>2. row' = [p \in Objects |-> row'[p]]
  BY Typed
<1> QED
  BY <1>1, <1>2, Assembled

LEMMA LapseInvariant == ASSUME NEW o \in Objects, IInv, Lapse(o) PROVE IInv'
<1>1. Sound([row[o] EXCEPT !.lapsed = TRUE])
  BY Typed DEF Sound, Row
<1>2. row' = [row EXCEPT ![o] = [row[o] EXCEPT !.lapsed = TRUE]]
  BY Typed DEF Lapse
<1>3. worker' = worker /\ text' = text /\ edits' = edits
  BY DEF Lapse
<1> QED
  BY <1>1, <1>2, <1>3, Typed, OneRow

LEMMA EmbedInvariant == ASSUME NEW w \in Workers, IInv, Embed(w) PROVE IInv'
<1>1. worker' \in [Workers -> Local]
  <2>1. PICK pc \in {"storing", "failing"} : worker' = [worker EXCEPT ![w].pc = pc]
    BY DEF Embed
  <2>2. [worker[w] EXCEPT !.pc = pc] \in Local
    BY Typed, InHand DEF Embed, At, Local
  <2> QED
    BY <2>1, <2>2, Typed
<1>2. row' = row /\ text' = text /\ edits' = edits
  BY DEF Embed
<1> QED
  BY <1>1, <1>2, Typed, Assembled

LEMMA StoreInvariant == ASSUME NEW w \in Workers, IInv, Store(w) PROVE IInv'
<1> DEFINE o == worker[w].object
           r == [row[o] EXCEPT !.status = "completed", !.vector = worker[w].text,
                               !.lapsed = FALSE]
<1>1. /\ worker \in [Workers -> Local]
      /\ o \in Objects
      /\ worker[w].text \in Texts
      /\ Sound(row[o]) /\ row[o] \in Row
  BY Typed, InHand DEF Store, At
<1>2. Sound(r)
  BY <1>1, StoredSound
<1>3. row' = [row EXCEPT ![o] = r] \/ row' = row
  BY DEF Store
<1>4. worker' \in [Workers -> Local]
  <2>1. [worker[w] EXCEPT !.pc = "failing"] \in Local
    BY Typed, InHand DEF Store, At, Local
  <2> QED
    BY <1>1, <2>1 DEF Store, Idle, Local
<1>5. text' = text /\ edits' = edits
  BY DEF Store
<1> HIDE DEF o, r
<1> QED
  BY <1>1, <1>2, <1>3, <1>4, <1>5, Typed, OneRow

LEMMA FailInvariant == ASSUME NEW w \in Workers, IInv, Fail(w) PROVE IInv'
<1> DEFINE o == worker[w].object
<1>1. o \in Objects /\ worker \in [Workers -> Local] /\ Sound(row[o]) /\ row[o] \in Row
  BY Typed, InHand DEF Fail, At
<1>2. Sound(Failed(row[o]))
  BY <1>1, RecoveredSound
<1>3. row' = [row EXCEPT ![o] = Failed(row[o])]
  BY DEF Fail
<1>4. worker' \in [Workers -> Local]
  BY <1>1 DEF Fail, Idle, Local
<1>5. text' = text /\ edits' = edits
  BY DEF Fail
<1> HIDE DEF o
<1> QED
  BY <1>1, <1>2, <1>3, <1>4, <1>5, Typed, OneRow

LEMMA CrashInvariant == ASSUME NEW w \in Workers, IInv, Crash(w) PROVE IInv'
<1>1. worker' \in [Workers -> Local]
  BY Typed DEF Crash, Idle, Local
<1>2. row' = row /\ text' = text /\ edits' = edits
  BY DEF Crash
<1> QED
  BY <1>1, <1>2, Typed, Assembled

LEMMA EditInvariant ==
    ASSUME NEW o \in Objects, NEW t \in Texts, IInv, Edit(o, t) PROVE IInv'
<1>1. Sound(Invalidated(row[o], t))
  BY Typed, PendingSound DEF Invalidated
<1>2. row' = [row EXCEPT ![o] = Invalidated(row[o], t)]
  BY DEF Edit
<1>3. worker' = worker /\ text' \in [Objects -> Texts] /\ edits' \in 0..MaxEdits
  BY Typed, BoundsAssumption DEF Edit
<1> QED
  BY <1>1, <1>2, <1>3, Typed, OneRow

LEMMA NextInvariant == IInv /\ [Next]_vars => IInv'
<1> SUFFICES ASSUME IInv, [Next]_vars PROVE IInv'
  OBVIOUS
<1>1. ASSUME NEW w \in Workers, WorkerStep(w) PROVE IInv'
  BY <1>1, QueueReadInvariant, QueueWriteInvariant, ClaimReadInvariant,
     ClaimWriteInvariant, EmbedInvariant, StoreInvariant, FailInvariant DEF WorkerStep
<1>2. ASSUME NEW w \in Crashable, Crash(w) PROVE IInv'
  BY <1>2, CrashInvariant, CrashableAssumption
<1>3. CASE UNCHANGED vars
  BY <1>3 DEF vars, IInv, TypeOK
<1> QED
  BY <1>1, <1>2, <1>3, LapseInvariant, EditInvariant DEF Next

-----------------------------------------------------------------------------
\* Rows, texts and attempts stay within their columns, and a row has a vector
\* exactly when it is completed, for any Objects, workers and limits.
THEOREM TypeCorrect == Spec => []TypeOK
<1>1. IInv => TypeOK
  BY DEF IInv
<1> QED
  BY InitInvariant, NextInvariant, <1>1, PTL DEF Spec

\* A completed row loses its vector to a new text only: a step of any worker
\* leaves it alone unless it puts a row of another hash in its place.
LEMMA StepKeepsVectors ==
    ASSUME IInv, [Next]_vars, NEW o \in Objects,
           row[o].status = "completed", row'[o].status # "completed"
    PROVE  row'[o] = Pending(row'[o].hash) /\ row'[o].hash # row[o].hash
<1> DEFINE Replaced == \E u : row'[o] = Pending(u) /\ u # row[o].hash
<1>1. ASSUME NEW w \in Workers, WorkerStep(w) PROVE Replaced
  <2>1. row'[o] # row[o]
    OBVIOUS
  <2>2. CASE QueueWrite(w)
    <3>1. row'[o] = Upserted(o, worker[w].want[o])
      BY <2>2 DEF QueueWrite
    <3> QED
      BY <2>1, <3>1 DEF Upserted
  <2>3. CASE ClaimWrite(w)
    <3>1. ~Claimable(row[o]) /\ ~Expired(row[o])
      BY DEF Claimable, Expired
    <3>2. row'[o] = row[o]
      BY <2>3, <3>1 DEF ClaimWrite
    <3> QED
      BY <2>1, <3>2
  <2>4. CASE Store(w)
    BY <2>1, <2>4, Typed DEF Store
  <2>5. CASE Fail(w)
    BY <2>1, <2>5, Typed DEF Fail, Failed
  <2>6. CASE QueueRead(w) \/ ClaimRead(w) \/ Embed(w)
    BY <2>1, <2>6 DEF QueueRead, ClaimRead, Embed
  <2> QED
    BY <1>1, <2>2, <2>3, <2>4, <2>5, <2>6 DEF WorkerStep
<1>2. ASSUME NEW p \in Objects, NEW t \in Texts, Edit(p, t) PROVE Replaced
  BY <1>2, Typed DEF Edit, Invalidated
<1>3. ASSUME NEW p \in Objects, Lapse(p) PROVE FALSE
  BY <1>3, Typed DEF Lapse
<1>4. ASSUME NEW w \in Crashable, Crash(w) PROVE FALSE
  BY <1>4 DEF Crash
<1>5. CASE UNCHANGED vars
  BY <1>5 DEF vars
<1>6. Replaced
  BY <1>1, <1>2, <1>3, <1>4, <1>5 DEF Next
<1>7. \A u : Pending(u).hash = u
  BY DEF Pending
<1> QED
  BY <1>6, <1>7

\* No late failure, expired lease or second worker discards a stored vector.
THEOREM VectorsAreKept == Spec => VectorsKept
<1>1. IInv /\ [Next]_vars =>
        [\A o \in Objects :
           row[o].status = "completed" /\ row'[o].status # "completed"
           => row'[o] = Pending(row'[o].hash) /\ row'[o].hash # row[o].hash]_vars
  BY StepKeepsVectors
<1> QED
  BY InitInvariant, NextInvariant, <1>1, PTL DEF Spec, VectorsKept
=============================================================================
