-------------------------- MODULE CuratorRuns_proofs --------------------------
(***************************************************************************)
(* Theorems about CuratorRuns, for any number of Runs, workers, clients    *)
(* and actors.  `status` is the key to all of them: a running Run has an   *)
(* attempt that has not committed yet, and a completed one has a commit    *)
(* that has not been undone yet.                                           *)
(***************************************************************************)
EXTENDS CuratorRuns, FiniteSetTheorems, SequenceTheorems, TLAPS

LEMMA LimitInRange == MaxAttempts \in Nat /\ Limit \in Nat /\ Limit <= MaxAttempts
  BY MaxAttemptsAssumption DEF Limit

LEMMA LocalTypes ==
    ASSUME TypeOK, NEW p \in Processes
    PROVE  /\ proc[p] \in Local
           /\ proc[p].pc \in {"working", "failing", "memory", "event"} => proc[p].run \in Runs
           /\ proc[p].pc \in {"memory", "event"} => proc[p].plan \in Plans
  BY DEF TypeOK, Local

LEMMA StateTypes ==
    /\ Idle \in Local
    /\ State("dead", 0, NoPlan, FALSE) \in Local
    /\ \A r \in Runs : State("working", r, NoPlan, FALSE) \in Local
    /\ \A r \in Runs, again \in BOOLEAN : Failing(r, again) \in Local
    /\ \A pc \in {"memory", "event"}, r \in Runs, plan \in Plans :
         State(pc, r, plan, FALSE) \in Local
  BY DEF State, Idle, Failing, Local

\* Updates of a Run's row that keep it well typed.
LEMMA RowTypes ==
    ASSUME NEW row \in RunRow
    PROVE  /\ row.attempts \in 0..MaxAttempts
           /\ \A s \in Status : [row EXCEPT !.status = s] \in RunRow
           /\ \A plan \in Plans : [row EXCEPT !.plan = plan] \in RunRow
           /\ [row EXCEPT !.lapsed = TRUE] \in RunRow
  BY DEF RunRow

LEMMA BatchTypes ==
    ASSUME NEW s \in Seq(Batch), NEW i \in 1..Len(s)
    PROVE  /\ s[i] \in Batch
           /\ [s[i] EXCEPT !.state = "archived"] \in Batch
           /\ [s[i] EXCEPT !.state = "changed"] \in Batch
  <1>1. s[i] \in Batch
    OBVIOUS
  <1>2. QED
    BY <1>1 DEF Batch

LEMMA ClaimedRowType ==
    ASSUME NEW row \in RunRow, NEW s \in Status, NEW w \in Workers \cup {Api},
           NEW n \in 0..MaxAttempts
    PROVE  [row EXCEPT !.status = s, !.worker = w, !.attempts = n] \in RunRow
  BY DEF RunRow

LEMMA StartedRowType ==
    ASSUME NEW row \in RunRow, NEW n \in 0..MaxAttempts, NEW plan \in Plans
    PROVE  [row EXCEPT !.worker = Api, !.attempts = n, !.plan = plan] \in RunRow
  BY DEF RunRow

LEMMA InitTypeOK == Init => TypeOK
  <1> SUFFICES ASSUME Init PROVE TypeOK
    OBVIOUS
  <1>1. run \in [Runs -> RunRow]
    BY LimitInRange DEF Init, RunRow, Status
  <1>2. journal \in [Runs -> Seq(Batch)]
    BY DEF Init
  <1>3. proc \in [Processes -> Local]
    BY DEF Init, Idle, State, Local
  <1>4. QED
    BY <1>1, <1>2, <1>3 DEF Init, TypeOK

\* The row and batch a commit leaves are well typed.
LEMMA CompleteTypeOK ==
    ASSUME TypeOK, NEW r \in Runs, NEW row \in RunRow, NEW batch \in Batch,
           Complete(r, row, batch)
    PROVE  /\ run' \in [Runs -> RunRow]
           /\ journal' \in [Runs -> Seq(Batch)]
           /\ curated' \in [Chats -> Runs \cup {0}]
           /\ undone' = undone /\ cutover' = cutover /\ fenced' = fenced
  <1>1. [row EXCEPT !.status = "completed"] \in RunRow
    BY DEF RunRow, Status
  <1>2. Append(journal[r], batch) \in Seq(Batch)
    BY DEF TypeOK
  <1>3. QED
    BY <1>1, <1>2, ChatOfAssumption DEF Complete, TypeOK

LEMMA StartedTypeOK ==
    ASSUME TypeOK, NEW r \in Runs, NEW plan \in Plans,
           Started(r, plan).attempts <= MaxAttempts
    PROVE  Started(r, plan) \in RunRow
  <1>1. run[r] \in RunRow
    BY DEF TypeOK
  <1>2. CASE run[r].status = "running"
    BY <1>1, <1>2, RowTypes DEF Started
  <1>3. CASE run[r].status # "running"
    <2>1. Started(r, plan) = [run[r] EXCEPT !.worker = Api, !.attempts = run[r].attempts + 1,
                                            !.plan = plan]
      BY <1>3 DEF Started
    <2>2. Started(r, plan).attempts = run[r].attempts + 1
      BY <1>1, <2>1 DEF RunRow
    <2>3. run[r].attempts + 1 \in 0..MaxAttempts
      <3>1. run[r].attempts \in 0..MaxAttempts
        BY <1>1, RowTypes
      <3>2. run[r].attempts + 1 <= MaxAttempts
        BY <2>2
      <3>3. QED
        BY <3>1, <3>2, LimitInRange
    <2>4. \A n \in 0..MaxAttempts :
            [run[r] EXCEPT !.worker = Api, !.attempts = n, !.plan = plan] \in RunRow
      BY <1>1, StartedRowType
    <2>5. QED
      BY <2>1, <2>3, <2>4
  <1>4. QED
    BY <1>2, <1>3

LEMMA NewBatchTypeOK ==
    ASSUME NEW by \in Workers \cup {Api}, NEW kind \in {"memory", "event"}, NEW plan
    PROVE  NewBatch(by, kind, plan) \in Batch
  BY DEF NewBatch, Batch

LEMMA ReconcileTypeOK ==
    ASSUME TypeOK, NEW r \in Runs, NEW plan \in Plans, NEW by \in Workers \cup {Api},
           Reconcile(r, plan, by)
    PROVE  /\ run' \in [Runs -> RunRow]
           /\ journal' \in [Runs -> Seq(Batch)]
           /\ curated' \in [Chats -> Runs \cup {0}]
           /\ undone' = undone /\ cutover' = cutover /\ fenced' = fenced
  BY StartedTypeOK, NewBatchTypeOK, CompleteTypeOK DEF Reconcile

LEMMA NextTypeOK == TypeOK /\ [Next]_vars => TypeOK'
  <1> SUFFICES ASSUME TypeOK, [Next]_vars PROVE TypeOK'
    OBVIOUS
  <1> USE LimitInRange
  <1>1. ASSUME NEW r \in Runs, Queue(r) PROVE TypeOK'
    BY <1>1 DEF Queue, TypeOK, RunRow, Status
  <1>2. ASSUME NEW r \in Runs, LeaseElapses(r) PROVE TypeOK'
    BY <1>2 DEF LeaseElapses, TypeOK, RunRow
  <1>3. ASSUME NEW w \in Workers, Claim(w) PROVE TypeOK'
    <2>1. PICK r \in Runs :
             /\ run[r].attempts < Limit
             /\ run' = [run EXCEPT ![r] = [run[r] EXCEPT !.status = "running", !.worker = w,
                                                         !.attempts = run[r].attempts + 1]]
             /\ proc' = [proc EXCEPT ![w] = State("working", r, NoPlan, FALSE)]
             /\ UNCHANGED <<journal, curated, undone, cutover, fenced>>
      BY <1>3 DEF Claim, Claimable
    <2>2. run' \in [Runs -> RunRow]
      <3>1. run[r] \in RunRow
        BY DEF TypeOK
      <3>2. run[r].attempts + 1 \in 0..MaxAttempts
        <4>1. run[r].attempts \in 0..MaxAttempts
          BY <3>1, RowTypes
        <4>2. QED
          BY <2>1, <4>1, LimitInRange
      <3>3. [run[r] EXCEPT !.status = "running", !.worker = w,
                           !.attempts = run[r].attempts + 1] \in RunRow
        BY <3>1, <3>2, ClaimedRowType DEF Status
      <3>4. QED
        BY <2>1, <3>3 DEF TypeOK
    <2>3. proc' \in [Processes -> Local]
      BY <2>1, StateTypes DEF TypeOK
    <2>4. QED
      BY <2>1, <2>2, <2>3 DEF TypeOK
  <1>4. ASSUME NEW w \in Workers, Plan(w) PROVE TypeOK'
    <2>1. proc[w].run \in Runs
      BY <1>4, LocalTypes DEF Plan, At, Processes
    <2>2. proc' \in [Processes -> Local]
      BY <1>4, <2>1, StateTypes DEF Plan, TypeOK
    <2>3. QED
      BY <1>4, <2>2 DEF Plan, TypeOK
  <1>5. ASSUME NEW w \in Crashable, Crash(w) PROVE TypeOK'
    BY <1>5 DEF Crash, TypeOK, Local, State
  <1>6. ASSUME NEW w \in Workers, CommitMemory(w) PROVE TypeOK'
    <2>1. proc[w].run \in Runs /\ proc[w].plan \in Plans
      BY <1>6, LocalTypes DEF CommitMemory, At, Processes
    <2>2. proc' \in [Processes -> Local]
      BY <1>6, <2>1, StateTypes DEF CommitMemory, TypeOK
    <2>3. CASE Reconcile(proc[w].run, proc[w].plan, w)
      BY <2>1, <2>2, <2>3, ReconcileTypeOK DEF TypeOK
    <2>4. CASE UNCHANGED <<run, journal, curated, undone, cutover, fenced>>
      BY <2>2, <2>4 DEF TypeOK
    <2>5. QED
      BY <1>6, <2>3, <2>4 DEF CommitMemory
  <1>7. ASSUME NEW w \in Workers, CommitEvents(w) PROVE TypeOK'
    <2>1. proc[w].run \in Runs /\ proc[w].plan \in Plans
      BY <1>7, LocalTypes DEF CommitEvents, At, Processes
    <2>2. proc' \in [Processes -> Local]
      BY <1>7, <2>1, StateTypes DEF CommitEvents, TypeOK
    <2> DEFINE row == [run[proc[w].run] EXCEPT !.plan = proc[w].plan]
               batch == NewBatch(w, "event", proc[w].plan)
    <2>3. CASE Complete(proc[w].run, row, batch)
      <3>1. row \in RunRow /\ batch \in Batch
        BY <2>1, NewBatchTypeOK DEF TypeOK, RunRow
      <3>2. QED
        BY <2>1, <2>2, <2>3, <3>1, CompleteTypeOK DEF TypeOK
    <2>4. CASE UNCHANGED <<run, journal, curated, undone, cutover, fenced>>
      BY <2>2, <2>4 DEF TypeOK
    <2>5. QED
      BY <1>7, <2>3, <2>4 DEF CommitEvents
  <1>8. ASSUME NEW c \in Clients, NEW r \in Runs, NEW plan \in Plans, Submit(c, r, plan)
        PROVE  TypeOK'
    <2>1. proc' \in [Processes -> Local]
      BY <1>8, StateTypes DEF Submit, TypeOK
    <2>2. CASE Reconcile(r, plan, Api)
      BY <2>1, <2>2, ReconcileTypeOK DEF TypeOK
    <2>3. CASE UNCHANGED <<run, journal, curated, undone, cutover, fenced>>
      BY <2>1, <2>3 DEF TypeOK
    <2>4. QED
      BY <1>8, <2>2, <2>3 DEF Submit
  <1>9. ASSUME NEW p \in Processes, RecordFailure(p) PROVE TypeOK'
    <2>1. proc[p].run \in Runs
      BY <1>9, LocalTypes DEF RecordFailure, At
    <2>2. proc' \in [Processes -> Local]
      BY <1>9, <2>1, StateTypes DEF RecordFailure, TypeOK
    <2>3. run' \in [Runs -> RunRow]
      <3>1. [run[proc[p].run] EXCEPT !.status = "failed"] \in RunRow
        BY <2>1, RowTypes DEF TypeOK, Status
      <3>2. QED
        BY <1>9, <2>1, <3>1 DEF RecordFailure, TypeOK
    <2>4. QED
      BY <1>9, <2>2, <2>3 DEF RecordFailure, TypeOK
  <1>10. ASSUME NEW a \in Actors, NEW r \in Runs, Undo(a, r) PROVE TypeOK'
    <2>1. run' \in [Runs -> RunRow]
      <3>1. [run[r] EXCEPT !.status = "reversed"] \in RunRow
        BY RowTypes DEF TypeOK, Status
      <3>2. QED
        BY <1>10, <3>1 DEF Undo, TypeOK
    <2>2. journal' \in [Runs -> Seq(Batch)]
      <3> DEFINE archived == [i \in 1..Len(journal[r]) |-> Archived(journal[r][i])]
      <3>1. journal[r] \in Seq(Batch)
        BY DEF TypeOK
      <3>2. \A i \in 1..Len(journal[r]) : Archived(journal[r][i]) \in Batch
        BY <3>1, BatchTypes DEF Archived
      <3>3. archived \in Seq(Batch)
        <4>1. archived \in [1..Len(journal[r]) -> Batch] /\ Len(journal[r]) \in Nat
          BY <3>1, <3>2
        <4>2. QED
          BY <4>1, SeqDef
      <3>4. QED
        BY <1>10, <3>3 DEF Undo, TypeOK
    <2>3. QED
      BY <1>10, <2>1, <2>2 DEF Undo, TypeOK
  <1>11. ASSUME NEW r \in Runs, NEW i \in 1..Len(journal[r]), Touch(r, i) PROVE TypeOK'
    <2>1. journal' \in [Runs -> Seq(Batch)]
      <3>1. journal[r] \in Seq(Batch)
        BY DEF TypeOK
      <3>2. [journal[r][i] EXCEPT !.state = "changed"] \in Batch
        BY <3>1, BatchTypes
      <3>3. [journal[r] EXCEPT ![i] = [journal[r][i] EXCEPT !.state = "changed"]] \in Seq(Batch)
        BY <3>1, <3>2, ExceptSeq
      <3>4. QED
        BY <1>11, <3>3 DEF Touch, TypeOK
    <2>2. QED
      BY <1>11, <2>1 DEF Touch, TypeOK
  <1>12. ASSUME Cutover PROVE TypeOK'
    BY <1>12 DEF Cutover, TypeOK
  <1>13. ASSUME NEW c \in FenceableChats, Fence(c) PROVE TypeOK'
    BY <1>13 DEF Fence, TypeOK
  <1>14. CASE UNCHANGED vars
    BY <1>14 DEF vars, TypeOK
  <1>15. QED
    BY <1>1, <1>2, <1>3, <1>4, <1>5, <1>6, <1>7, <1>8, <1>9, <1>10, <1>11, <1>12,
       <1>13, <1>14 DEF Next, WorkerStep, Processes

\* The columns of the rows, the journals and the processes keep their types.
THEOREM TypeCorrect == Spec => []TypeOK
  BY InitTypeOK, NextTypeOK, PTL DEF Spec

-----------------------------------------------------------------------------
(* What one step does to one Run.                                          *)

Kept(r) ==
    /\ Len(journal'[r]) = Len(journal[r])
    /\ run'[r].attempts = run[r].attempts
    /\ run'[r].status \in {"running", "completed"} => run[r].status = run'[r].status
    /\ UndosOf(r)' = UndosOf(r)

Claimed(r) ==
    /\ Len(journal'[r]) = Len(journal[r])
    /\ run'[r].attempts = run[r].attempts + 1
    /\ run'[r].status = "running"
    /\ UndosOf(r)' = UndosOf(r)

Committed(r) ==
    /\ Len(journal'[r]) = Len(journal[r]) + 1
    /\ run[r].status = "running" => run'[r].attempts = run[r].attempts
    /\ run[r].status # "running" => run'[r].attempts = run[r].attempts + 1
    /\ run'[r].status = "completed"
    /\ UndosOf(r)' = UndosOf(r)

Reversed(r) ==
    /\ Len(journal'[r]) = Len(journal[r])
    /\ run'[r].attempts = run[r].attempts
    /\ run[r].status = "completed" /\ run'[r].status = "reversed"
    /\ \E a \in Actors : <<r, a>> \notin undone /\ UndosOf(r)' = UndosOf(r) \cup {<<r, a>>}

Effect(r) == Kept(r) \/ Claimed(r) \/ Committed(r) \/ Reversed(r)

LEMMA RowFacts ==
    ASSUME TypeOK, NEW r \in Runs
    PROVE  /\ run[r] \in RunRow
           /\ run[r].attempts \in Nat
           /\ journal[r] \in Seq(Batch)
           /\ Len(journal[r]) \in Nat
  BY LimitInRange DEF TypeOK, RunRow

LEMMA UnchangedEffect ==
    ASSUME TypeOK, NEW r \in Runs, run'[r] = run[r], journal'[r] = journal[r], undone' = undone
    PROVE  Kept(r)
  BY DEF Kept, UndosOf

\* A commit extends the journal of its Run by its batch and touches no other Run.
LEMMA CompleteEffect ==
    ASSUME TypeOK, NEW r \in Runs, NEW row \in RunRow, NEW batch \in Batch,
           Complete(r, row, batch)
    PROVE  /\ journal'[r] = Append(journal[r], batch)
           /\ Len(journal'[r]) = Len(journal[r]) + 1
           /\ journal'[r][Len(journal'[r])] = batch
           /\ run'[r].status = "completed"
           /\ run'[r].attempts = row.attempts
           /\ undone' = undone
           /\ \A q \in Runs \ {r} : run'[q] = run[q] /\ journal'[q] = journal[q]
  <1>1. journal'[r] = Append(journal[r], batch) /\ run'[r] = [row EXCEPT !.status = "completed"]
    BY DEF Complete, TypeOK
  <1>2. Len(journal'[r]) = Len(journal[r]) + 1 /\ journal'[r][Len(journal'[r])] = batch
    BY <1>1, RowFacts
  <1>3. run'[r].status = "completed" /\ run'[r].attempts = row.attempts
    BY <1>1 DEF RunRow
  <1>4. QED
    BY <1>1, <1>2, <1>3 DEF Complete, TypeOK

LEMMA StartedAttempts ==
    ASSUME TypeOK, NEW r \in Runs, NEW plan
    PROVE  Started(r, plan).attempts =
             IF run[r].status = "running" THEN run[r].attempts ELSE run[r].attempts + 1
  BY RowFacts DEF Started, RunRow

LEMMA ReconcileEffect ==
    ASSUME TypeOK, NEW r \in Runs, NEW plan \in Plans, NEW by \in Workers \cup {Api},
           Reconcile(r, plan, by)
    PROVE  /\ Committed(r)
           /\ journal'[r][Len(journal'[r])] = NewBatch(by, "memory", plan)
           /\ \A q \in Runs \ {r} : Kept(q)
  <1>1. Started(r, plan) \in RunRow /\ NewBatch(by, "memory", plan) \in Batch
    BY StartedTypeOK, NewBatchTypeOK DEF Reconcile
  <1>2. Complete(r, Started(r, plan), NewBatch(by, "memory", plan))
    BY DEF Reconcile
  <1>3. UndosOf(r)' = UndosOf(r)
    BY <1>2 DEF Complete, UndosOf
  <1>4. Committed(r)
    BY <1>1, <1>2, <1>3, CompleteEffect, StartedAttempts DEF Committed
  <1>5. QED
    BY <1>1, <1>2, <1>4, CompleteEffect, UnchangedEffect

LEMMA CommitEventsEffect ==
    ASSUME TypeOK, NEW w \in Workers, CommitEvents(w), NEW r \in Runs, r = proc[w].run
    PROVE  \/ UNCHANGED <<run, journal, curated, undone, cutover, fenced>>
           \/ /\ Committed(r)
              /\ run[r].worker = w
              /\ journal'[r][Len(journal'[r])].kind = "event"
              /\ journal'[r][Len(journal'[r])].by = w
              /\ \A q \in Runs \ {r} : Kept(q)
  <1> DEFINE row == [run[r] EXCEPT !.plan = proc[w].plan]
             batch == NewBatch(w, "event", proc[w].plan)
  <1>1. proc[w].plan \in Plans
    BY LocalTypes DEF CommitEvents, At, Processes
  <1>2. CASE run[r].status = "running" /\ run[r].worker = w /\ Complete(r, row, batch)
    <2>1. row \in RunRow /\ batch \in Batch /\ row.attempts = run[r].attempts
      BY <1>1, NewBatchTypeOK, RowFacts DEF RunRow
    <2>2. batch.kind = "event" /\ batch.by = w
      BY DEF NewBatch
    <2>3. UndosOf(r)' = UndosOf(r)
      <3>1. undone' = undone
        BY <1>2 DEF Complete
      <3>2. QED
        BY <3>1 DEF UndosOf
    <2>4. Committed(r)
      <3> HIDE DEF row, batch
      <3>1. QED
        BY <1>1, <1>2, <2>1, <2>3, CompleteEffect DEF Committed
    <2>5. journal'[r][Len(journal'[r])] = batch /\ \A q \in Runs \ {r} : Kept(q)
      <3> HIDE DEF row, batch
      <3>1. QED
        BY <1>1, <1>2, <2>1, CompleteEffect, UnchangedEffect
    <2>6. QED
      BY <1>2, <2>2, <2>4, <2>5
  <1>3. QED
    BY <1>2 DEF CommitEvents

LEMMA UndoEffect ==
    ASSUME TypeOK, NEW a \in Actors, NEW r \in Runs, Undo(a, r)
    PROVE  Reversed(r) /\ \A q \in Runs \ {r} : Kept(q)
  <1>1. journal'[r] = [i \in 1..Len(journal[r]) |-> Archived(journal[r][i])]
    BY DEF Undo, TypeOK
  <1>2. Len(journal'[r]) = Len(journal[r])
    BY <1>1, RowFacts
  <1>3. run'[r] = [run[r] EXCEPT !.status = "reversed"] /\ run[r].status = "completed"
    BY DEF Undo, TypeOK
  <1>4. run'[r].attempts = run[r].attempts /\ run'[r].status = "reversed"
    BY <1>3, RowFacts DEF RunRow
  <1>5. <<r, a>> \notin undone /\ UndosOf(r)' = UndosOf(r) \cup {<<r, a>>}
    BY DEF Undo, UndosOf
  <1>6. ASSUME NEW q \in Runs \ {r} PROVE Kept(q)
    <2>1. UndosOf(q)' = UndosOf(q)
      BY <1>6 DEF Undo, UndosOf
    <2>2. run'[q] = run[q] /\ journal'[q] = journal[q]
      BY <1>6 DEF Undo, TypeOK
    <2>3. QED
      BY <2>1, <2>2 DEF Kept
  <1>7. QED
    BY <1>2, <1>3, <1>4, <1>5, <1>6 DEF Reversed

LEMMA TouchEffect ==
    ASSUME TypeOK, NEW r \in Runs, NEW i \in 1..Len(journal[r]), Touch(r, i), NEW q \in Runs
    PROVE  Kept(q)
  <1>1. run' = run /\ UndosOf(q)' = UndosOf(q)
    BY DEF Touch, UndosOf
  <1>2. Len(journal'[q]) = Len(journal[q])
    <2> DEFINE changed == [journal[r][i] EXCEPT !.state = "changed"]
    <2>1. journal' = [journal EXCEPT ![r] = [journal[r] EXCEPT ![i] = changed]]
      BY DEF Touch, TypeOK
    <2>2. changed \in Batch
      BY RowFacts, BatchTypes
    <2> HIDE DEF changed
    <2>3. Len([journal[r] EXCEPT ![i] = changed]) = Len(journal[r])
      BY <2>2, RowFacts, ExceptSeq
    <2>4. QED
      BY <2>1, <2>3 DEF TypeOK
  <1>3. QED
    BY <1>1, <1>2 DEF Kept

LEMMA ClaimEffect ==
    ASSUME TypeOK, NEW w \in Workers, Claim(w), NEW q \in Runs
    PROVE  Effect(q)
  <1>1. PICK r \in Runs :
           /\ run' = [run EXCEPT ![r] = [run[r] EXCEPT !.status = "running", !.worker = w,
                                                       !.attempts = run[r].attempts + 1]]
           /\ UNCHANGED <<journal, curated, undone, cutover, fenced>>
    BY DEF Claim
  <1>2. CASE q # r
    BY <1>1, <1>2, UnchangedEffect DEF Effect, TypeOK
  <1>3. CASE q = r
    <2>1. run'[r].status = "running" /\ run'[r].attempts = run[r].attempts + 1
      BY <1>1, RowFacts DEF RunRow, TypeOK
    <2>2. UndosOf(r)' = UndosOf(r)
      BY <1>1 DEF UndosOf
    <2>3. QED
      BY <1>1, <1>3, <2>1, <2>2 DEF Effect, Claimed
  <1>4. QED
    BY <1>2, <1>3

\* Steps that only change the status of one Run, to one that is not terminal
\* success and not running.
LEMMA StatusEffect ==
    ASSUME TypeOK, NEW r \in Runs, NEW s \in {"queued", "failed"}, NEW q \in Runs,
           run' = [run EXCEPT ![r].status = s], journal' = journal, undone' = undone
    PROVE  Kept(q)
  BY RowFacts DEF Kept, UndosOf, RunRow, TypeOK

LEMMA LapseEffect ==
    ASSUME TypeOK, NEW r \in Runs, NEW q \in Runs, LeaseElapses(r)
    PROVE  Kept(q)
  BY RowFacts DEF LeaseElapses, Kept, UndosOf, RunRow, TypeOK

LEMMA StepEffect ==
    ASSUME TypeOK, [Next]_vars, NEW q \in Runs
    PROVE  Effect(q)
  <1>1. ASSUME NEW r \in Runs, Queue(r) PROVE Effect(q)
    BY <1>1, StatusEffect DEF Queue, Effect
  <1>2. ASSUME NEW r \in Runs, LeaseElapses(r) PROVE Effect(q)
    BY <1>2, LapseEffect DEF Effect
  <1>3. ASSUME NEW w \in Workers, Claim(w) PROVE Effect(q)
    BY <1>3, ClaimEffect
  <1>4. ASSUME UNCHANGED <<run, journal, undone>> PROVE Effect(q)
    BY <1>4, UnchangedEffect DEF Effect
  <1>5. ASSUME NEW w \in Workers, CommitMemory(w) PROVE Effect(q)
    <2>1. proc[w].run \in Runs /\ proc[w].plan \in Plans
      BY <1>5, LocalTypes DEF CommitMemory, At, Processes
    <2>2. CASE Reconcile(proc[w].run, proc[w].plan, w)
      BY <2>1, <2>2, ReconcileEffect DEF Effect
    <2>3. CASE UNCHANGED <<run, journal, curated, undone, cutover, fenced>>
      BY <1>4, <2>3
    <2>4. QED
      BY <1>5, <2>2, <2>3 DEF CommitMemory
  <1>6. ASSUME NEW w \in Workers, CommitEvents(w) PROVE Effect(q)
    <2>1. PICK r \in Runs : r = proc[w].run
      BY <1>6, LocalTypes DEF CommitEvents, At, Processes
    <2>2. QED
      BY <1>4, <1>6, <2>1, CommitEventsEffect DEF Effect
  <1>7. ASSUME NEW c \in Clients, NEW r \in Runs, NEW plan \in Plans, Submit(c, r, plan)
        PROVE  Effect(q)
    <2>1. CASE Reconcile(r, plan, Api)
      BY <2>1, ReconcileEffect DEF Effect
    <2>2. CASE UNCHANGED <<run, journal, curated, undone, cutover, fenced>>
      BY <1>4, <2>2
    <2>3. QED
      BY <1>7, <2>1, <2>2 DEF Submit
  <1>8. ASSUME NEW p \in Processes, RecordFailure(p) PROVE Effect(q)
    <2>1. proc[p].run \in Runs
      BY <1>8, LocalTypes DEF RecordFailure, At
    <2>2. QED
      BY <1>4, <1>8, <2>1, StatusEffect DEF RecordFailure, Effect
  <1>9. ASSUME NEW a \in Actors, NEW r \in Runs, Undo(a, r) PROVE Effect(q)
    BY <1>9, UndoEffect DEF Effect
  <1>10. ASSUME NEW r \in Runs, NEW i \in 1..Len(journal[r]), Touch(r, i) PROVE Effect(q)
    BY <1>10, TouchEffect DEF Effect
  <1>11. QED
    BY <1>1, <1>2, <1>3, <1>4, <1>5, <1>6, <1>7, <1>8, <1>9, <1>10
    DEF Next, WorkerStep, Plan, Crash, Cutover, Fence, vars, Processes

-----------------------------------------------------------------------------
(* CommitsWithinAttempts                                                   *)

\* The strengthening: a running Run has an attempt that has not committed, so the
\* commit that completes it cannot exceed the attempts.
AttemptInv ==
    \A r \in Runs :
        /\ Len(journal[r]) <= run[r].attempts
        /\ run[r].status = "running" => Len(journal[r]) < run[r].attempts

LEMMA AttemptInvInductive == TypeOK /\ AttemptInv /\ [Next]_vars => AttemptInv'
  <1> SUFFICES ASSUME TypeOK, AttemptInv, [Next]_vars, NEW r \in Runs
               PROVE  /\ Len(journal'[r]) <= run'[r].attempts
                      /\ run'[r].status = "running" => Len(journal'[r]) < run'[r].attempts
    BY DEF AttemptInv
  <1>1. /\ Len(journal[r]) <= run[r].attempts
        /\ run[r].status = "running" => Len(journal[r]) < run[r].attempts
    BY DEF AttemptInv
  <1>2. run[r].attempts \in Nat /\ Len(journal[r]) \in Nat
    BY RowFacts
  <1>3. CASE Kept(r)
    BY <1>1, <1>3 DEF Kept
  <1>4. CASE Claimed(r)
    BY <1>1, <1>2, <1>4 DEF Claimed
  <1>5. CASE Committed(r)
    BY <1>1, <1>2, <1>5 DEF Committed
  <1>6. CASE Reversed(r)
    BY <1>1, <1>6 DEF Reversed
  <1>7. QED
    BY <1>3, <1>4, <1>5, <1>6, StepEffect DEF Effect

\* However claims are stolen and failures recorded late, a Run's changes are
\* committed at most once per counted attempt.
THEOREM CommitsBounded == Spec => []CommitsWithinAttempts
  <1>1. Init => AttemptInv
    BY DEF Init, AttemptInv
  <1>2. AttemptInv => CommitsWithinAttempts
    BY DEF AttemptInv, CommitsWithinAttempts
  <1>3. QED
    BY <1>1, <1>2, TypeCorrect, AttemptInvInductive, PTL DEF Spec

-----------------------------------------------------------------------------
(* UndosMatchCommits                                                       *)

\* The strengthening: a completed Run has a commit that nobody has undone, so the
\* undo that reverses it cannot exceed the commits.
UndoInv ==
    \A r \in Runs :
        /\ IsFiniteSet(UndosOf(r))
        /\ Cardinality(UndosOf(r)) <= Len(journal[r])
        /\ run[r].status = "completed" => Cardinality(UndosOf(r)) < Len(journal[r])

LEMMA UndoInvInductive == TypeOK /\ UndoInv /\ [Next]_vars => UndoInv'
  <1> SUFFICES ASSUME TypeOK, UndoInv, [Next]_vars, NEW r \in Runs
               PROVE  /\ IsFiniteSet(UndosOf(r)')
                      /\ Cardinality(UndosOf(r)') <= Len(journal'[r])
                      /\ run'[r].status = "completed" =>
                           Cardinality(UndosOf(r)') < Len(journal'[r])
    BY DEF UndoInv
  <1>1. /\ IsFiniteSet(UndosOf(r))
        /\ Cardinality(UndosOf(r)) <= Len(journal[r])
        /\ run[r].status = "completed" => Cardinality(UndosOf(r)) < Len(journal[r])
    BY DEF UndoInv
  <1>2. Len(journal[r]) \in Nat /\ Cardinality(UndosOf(r)) \in Nat
    BY <1>1, RowFacts, FS_CardinalityType
  <1>3. CASE Kept(r)
    BY <1>1, <1>3 DEF Kept
  <1>4. CASE Claimed(r)
    BY <1>1, <1>4 DEF Claimed
  <1>5. CASE Committed(r)
    BY <1>1, <1>2, <1>5 DEF Committed
  <1>6. CASE Reversed(r)
    <2>1. PICK a \in Actors :
             <<r, a>> \notin undone /\ UndosOf(r)' = UndosOf(r) \cup {<<r, a>>}
      BY <1>6 DEF Reversed
    <2>2. <<r, a>> \notin UndosOf(r)
      BY <2>1 DEF UndosOf
    <2>3. IsFiniteSet(UndosOf(r)') /\ Cardinality(UndosOf(r)') = Cardinality(UndosOf(r)) + 1
      BY <1>1, <2>1, <2>2, FS_AddElement
    <2>4. QED
      BY <1>1, <1>2, <1>6, <2>3 DEF Reversed
  <1>7. QED
    BY <1>3, <1>4, <1>5, <1>6, StepEffect DEF Effect

\* No commit of a Run is compensated twice, whoever asks and however often.
THEOREM UndosBounded == Spec => []UndosMatchCommits
  <1>1. Init => UndoInv
    <2> SUFFICES ASSUME Init, NEW r \in Runs
                 PROVE  /\ IsFiniteSet(UndosOf(r))
                        /\ Cardinality(UndosOf(r)) <= Len(journal[r])
                        /\ run[r].status # "completed"
      BY DEF UndoInv
    <2>1. UndosOf(r) = {} /\ Len(journal[r]) = 0 /\ run[r].status = "absent"
      BY DEF Init, UndosOf
    <2>2. QED
      BY <2>1, FS_EmptySet
  <1>2. UndoInv => UndosMatchCommits
    BY DEF UndoInv, UndosMatchCommits
  <1>3. QED
    BY <1>1, <1>2, TypeCorrect, UndoInvInductive, PTL DEF Spec

-----------------------------------------------------------------------------
(* Who commits, and what                                                   *)

LastBatch(r) == journal'[r][Len(journal'[r])]

\* A running Run is held by a worker, never by the API and never by nobody.
HolderInv == \A r \in Runs : run[r].status = "running" => run[r].worker \in Workers

\* A worker's commit of a running Run is its holder's; a legacy Memory is committed
\* before the cutover only.
LEMMA VerdictFacts ==
    ASSUME NEW r \in Runs, NEW plan, NEW claimant, Verdict(r, plan, claimant) = "commit"
    PROVE  /\ ~cutover
           /\ run[r].status \notin {"completed", "reversed"}
           /\ run[r].status = "running" => run[r].worker = claimant
  BY DEF Verdict

Sourced(q) ==
    /\ cutover => LastBatch(q).kind = "event"
    /\ run[q].status = "running" => LastBatch(q).by = run[q].worker

LEMMA GrowthSource ==
    ASSUME TypeOK, HolderInv, [Next]_vars, NEW q \in Runs,
           Len(journal'[q]) > Len(journal[q])
    PROVE  Sourced(q)
  <1>1. Len(journal[q]) \in Nat
    BY RowFacts
  <1>2. ~Kept(q) /\ ~UNCHANGED journal
    BY <1>1 DEF Kept
  <1>3. ASSUME NEW w \in Workers, CommitMemory(w) PROVE Sourced(q)
    <2>1. PICK r \in Runs : r = proc[w].run
      BY <1>3, LocalTypes DEF CommitMemory, At, Processes
    <2>2. PICK plan \in Plans : plan = proc[w].plan
      BY <1>3, LocalTypes DEF CommitMemory, At, Processes
    <2>3. Verdict(r, plan, w) = "commit" /\ Reconcile(r, plan, w)
      BY <1>2, <1>3, <2>1, <2>2 DEF CommitMemory
    <2>4. q = r /\ LastBatch(q) = NewBatch(w, "memory", plan)
      BY <1>2, <2>3, ReconcileEffect DEF LastBatch
    <2>5. QED
      BY <2>3, <2>4, VerdictFacts DEF NewBatch, Sourced
  <1>4. ASSUME NEW w \in Workers, CommitEvents(w) PROVE Sourced(q)
    <2>1. PICK r \in Runs : r = proc[w].run
      BY <1>4, LocalTypes DEF CommitEvents, At, Processes
    <2>2. QED
      BY <1>2, <1>4, <2>1, CommitEventsEffect DEF LastBatch, Sourced
  <1>5. ASSUME NEW c \in Clients, NEW r \in Runs, NEW plan \in Plans, Submit(c, r, plan)
        PROVE  Sourced(q)
    <2>1. Verdict(r, plan, NoWorker) = "commit" /\ Reconcile(r, plan, Api)
      BY <1>2, <1>5 DEF Submit
    <2>2. q = r
      BY <1>2, <2>1, ReconcileEffect
    <2>3. run[q].status # "running"
      BY <2>1, <2>2, VerdictFacts, WorkersAssumption DEF HolderInv
    <2>4. ~cutover
      BY <2>1, VerdictFacts
    <2>5. QED
      BY <2>3, <2>4 DEF Sourced
  <1>6. ASSUME NEW p \in Processes, RecordFailure(p) PROVE FALSE
    BY <1>2, <1>6 DEF RecordFailure
  <1>7. ASSUME NEW a \in Actors, NEW r \in Runs, Undo(a, r) PROVE FALSE
    <2>1. Kept(q) \/ Reversed(q)
      BY <1>7, UndoEffect
    <2>2. QED
      BY <1>1, <2>1 DEF Kept, Reversed
  <1>8. ASSUME NEW r \in Runs, NEW i \in 1..Len(journal[r]), Touch(r, i) PROVE FALSE
    BY <1>2, <1>8, TouchEffect
  <1>9. ASSUME NEW r \in Runs, Queue(r) \/ LeaseElapses(r) PROVE FALSE
    BY <1>2, <1>9 DEF Queue, LeaseElapses
  <1>10. ASSUME NEW w, Claim(w) \/ Plan(w) \/ Crash(w) PROVE FALSE
    BY <1>2, <1>10 DEF Claim, Plan, Crash
  <1>11. ASSUME NEW c, Fence(c) PROVE FALSE
    BY <1>2, <1>11 DEF Fence
  <1>12. ~Cutover /\ ~UNCHANGED vars
    BY <1>2 DEF Cutover, vars
  <1>13. QED
    BY <1>3, <1>4, <1>5, <1>6, <1>7, <1>8, <1>9, <1>10, <1>11, <1>12
    DEF Next, WorkerStep, Processes

\* A commit leaves no Run running that was not running under the same worker.
LEMMA ReconcileHolder ==
    ASSUME TypeOK, NEW r \in Runs, NEW plan \in Plans, NEW by \in Workers \cup {Api},
           Reconcile(r, plan, by), NEW q \in Runs, run'[q].status = "running"
    PROVE  run'[q] = run[q]
  <1>1. Started(r, plan) \in RunRow /\ NewBatch(by, "memory", plan) \in Batch
    BY StartedTypeOK, NewBatchTypeOK DEF Reconcile
  <1>2. QED
    BY <1>1, CompleteEffect DEF Reconcile

LEMMA EventsHolder ==
    ASSUME TypeOK, NEW w \in Workers, CommitEvents(w), NEW q \in Runs,
           run'[q].status = "running"
    PROVE  run'[q] = run[q]
  <1>1. PICK r \in Runs : r = proc[w].run
    BY LocalTypes DEF CommitEvents, At, Processes
  <1>2. proc[w].plan \in Plans
    BY LocalTypes DEF CommitEvents, At, Processes
  <1> DEFINE row == [run[r] EXCEPT !.plan = proc[w].plan]
             batch == NewBatch(w, "event", proc[w].plan)
  <1>3. row \in RunRow /\ batch \in Batch
    BY <1>2, RowFacts, NewBatchTypeOK DEF RunRow
  <1>4. run' = run \/ Complete(r, row, batch)
    BY <1>1 DEF CommitEvents
  <1> HIDE DEF row, batch
  <1>5. QED
    BY <1>3, <1>4, CompleteEffect

\* The holder of a Run changes only when a worker claims it or it stops running.
LEMMA HolderInvInductive == TypeOK /\ HolderInv /\ [Next]_vars => HolderInv'
  <1> SUFFICES ASSUME TypeOK, HolderInv, [Next]_vars, NEW q \in Runs,
                      run'[q].status = "running"
               PROVE  run'[q].worker \in Workers
    BY DEF HolderInv
  <1>1. run'[q] = run[q] => run'[q].worker \in Workers
    BY DEF HolderInv
  <1>2. ASSUME NEW r \in Runs, NEW s \in Status \ {"running"}, run' = [run EXCEPT ![r].status = s]
        PROVE  run'[q] = run[q]
    BY <1>2, RowFacts DEF RunRow, TypeOK
  <1>3. ASSUME NEW r \in Runs, LeaseElapses(r) PROVE run'[q].worker \in Workers
    BY <1>3, RowFacts DEF LeaseElapses, RunRow, TypeOK, HolderInv
  <1>4. ASSUME NEW w \in Workers, Claim(w) PROVE run'[q].worker \in Workers
    <2>1. PICK r \in Runs :
             run' = [run EXCEPT ![r] = [run[r] EXCEPT !.status = "running", !.worker = w,
                                                      !.attempts = run[r].attempts + 1]]
      BY <1>4 DEF Claim
    <2>2. CASE q # r
      BY <1>1, <2>1, <2>2 DEF TypeOK
    <2>3. CASE q = r
      BY <2>1, <2>3, RowFacts DEF RunRow, TypeOK
    <2>4. QED
      BY <2>2, <2>3
  <1>5. ASSUME NEW w \in Workers, CommitMemory(w) PROVE run'[q] = run[q]
    <2>1. proc[w].run \in Runs /\ proc[w].plan \in Plans
      BY <1>5, LocalTypes DEF CommitMemory, At, Processes
    <2>2. QED
      BY <1>5, <2>1, ReconcileHolder DEF CommitMemory
  <1>6. ASSUME NEW c \in Clients, NEW r \in Runs, NEW plan \in Plans, Submit(c, r, plan)
        PROVE  run'[q] = run[q]
    BY <1>6, ReconcileHolder DEF Submit
  <1>7. ASSUME NEW p \in Processes, RecordFailure(p) PROVE run'[q] = run[q]
    <2>1. proc[p].run \in Runs
      BY <1>7, LocalTypes DEF RecordFailure, At
    <2>2. QED
      BY <1>2, <1>7, <2>1 DEF RecordFailure, Status
  <1>8. ASSUME NEW r \in Runs, Queue(r) PROVE run'[q] = run[q]
    BY <1>2, <1>8 DEF Queue, Status
  <1>9. ASSUME NEW a \in Actors, NEW r \in Runs, Undo(a, r) PROVE run'[q] = run[q]
    BY <1>2, <1>9 DEF Undo, Status
  <1>10. ASSUME run' = run PROVE run'[q] = run[q]
    BY <1>10
  <1>11. QED
    BY <1>1, <1>3, <1>4, <1>5, <1>6, <1>7, <1>8, <1>9, <1>10, EventsHolder
    DEF Next, WorkerStep, Plan, Crash, Touch, Cutover, Fence, vars, Processes

LEMMA HolderCorrect == Spec => []HolderInv
  <1>1. Init => HolderInv
    BY DEF Init, HolderInv
  <1>2. QED
    BY <1>1, TypeCorrect, HolderInvInductive, PTL DEF Spec

\* A worker that lost its claim, or a client that never had one, commits nothing to
\* a Run another worker is running.
THEOREM CommitsAreTheHolders == Spec => CommitByHolder
  <1>1. TypeOK /\ HolderInv /\ [Next]_vars =>
          [\A r \in Runs :
             run[r].status = "running" /\ Len(journal'[r]) > Len(journal[r])
             => journal'[r][Len(journal'[r])].by = run[r].worker]_vars
    BY GrowthSource DEF Sourced, LastBatch
  <1>2. QED
    BY <1>1, TypeCorrect, HolderCorrect, PTL DEF Spec, CommitByHolder

\* A plan asked for before the events-first cutover is not committed after it.
THEOREM CutoverIsFinal == Spec => NoLegacyMemoryAfterCutover
  <1>1. TypeOK /\ HolderInv /\ [Next]_vars =>
          [cutover => \A r \in Runs : Len(journal'[r]) > Len(journal[r])
                        => journal'[r][Len(journal'[r])].kind = "event"]_vars
    BY GrowthSource DEF Sourced, LastBatch
  <1>2. QED
    BY <1>1, TypeCorrect, HolderCorrect, PTL DEF Spec, NoLegacyMemoryAfterCutover
===============================================================================
