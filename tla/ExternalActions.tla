--------------------------- MODULE ExternalActions ---------------------------
(***************************************************************************)
(* The ledger of external actions (external_actions.rs).                   *)
(*                                                                         *)
(* A workflow reserves an action before it calls a provider and reports    *)
(* what became of the call as events, each under an idempotency key.       *)
(* Requests are retried, duplicated and delivered late.  A request is one  *)
(* READ COMMITTED transaction: advisory locks on keys and identities, and  *)
(* the lock of the action's row, are all that keeps concurrent ones apart. *)
(***************************************************************************)
EXTENDS Integers, FiniteSets, Sequences

CONSTANTS
    Reservations,  \* reserve requests: [by, key, identity, metadata]
    Reports,       \* event requests: [by, key, action, event, expected]
    Tx,            \* concurrent requests
    AnyState,      \* an event without expected_state
    MaxTrace       \* bounds repeats that others than the owner may report

\* Request fields come from clients, but a key is never used for two bodies
\* ("a repeated idempotent write must reuse its original key and identical body").
ASSUME RequestsAssumption ==
    \A r, s \in Reservations \cup Reports : r.by = s.by /\ r.key = s.key => r = s

VARIABLES
    actions,   \* external_action Runs, in the order they were committed
    tx         \* what each transaction is doing and the locks it holds

vars == <<actions, tx>>

States == {"reserved", "previewed", "approved", "attempting", "accepted",
           "reconciliation_required", "delivered", "suppressed", "failed"}

Ids == 1..Len(actions)

-----------------------------------------------------------------------------
(* transition                                                              *)

Steps == {
    <<"reserved", "previewed", "previewed">>, <<"previewed", "previewed", "previewed">>,
    <<"previewed", "approved", "approved">>,
    <<"approved", "attempt_started", "attempting">>,
    <<"attempting", "accepted", "accepted">>,
    <<"reconciliation_required", "reconciled_accepted", "accepted">>,
    <<"attempting", "reconciliation_required", "reconciliation_required">>,
    <<"reconciliation_required", "reconciled_absent", "approved">>,
    <<"accepted", "delivered", "delivered">>, <<"delivered", "delivered", "delivered">>}

\* Fault: an unresolved attempt may be started again.
NextStatesEager(state, event) ==
    {s[3] : s \in {t \in Steps : t[1] = state /\ t[2] = event}}
    \cup {"attempting" : x \in {event} \cap
             (IF state = "reconciliation_required" THEN {"attempt_started"} ELSE {})}

\* The state an event leads to, or none if it is refused.
NextStates(state, event) ==
    {s[3] : s \in {t \in Steps : t[1] = state /\ t[2] = event}}
    \cup (IF event = "suppressed" /\ state \notin {"delivered", "failed"}
          THEN {"suppressed"} ELSE {})
    \cup (IF event = "failed" /\ state \notin {"delivered", "suppressed"}
          THEN {"failed"} ELSE {})

-----------------------------------------------------------------------------
(* Transactions                                                            *)

Idle == [pc |-> "idle", held |-> {}]
At(t, pc) == tx[t].pc = pc
Req(t) == tx[t].req

\* Advisory locks and row locks by name; they last until the transaction ends.
Available(t, lock) == \A o \in Tx \ {t} : lock \notin tx[o].held
Enter(t, pc, lock) ==
    tx' = [tx EXCEPT ![t].pc = pc, ![t].held = @ \cup {lock}]
End(t) == tx' = [tx EXCEPT ![t] = Idle]

ReservationLock(r) == <<"external_action_reservation", r.key>>
IdentityLock(r) == <<"external_action_identity", r.identity>>
EventLock(e) == <<"external_action", e.by, e.key>>
RowLock(n) == <<"row", n>>

\* idempotent_run: an action of this principal that the key reserved, or that has
\* an event recorded under it.
Known(by, key) ==
    {n \in Ids : /\ actions[n].by = by
                 /\ \/ actions[n].key = key
                    \/ \E i \in 1..Len(actions[n].trace) : actions[n].trace[i].key = key}

-----------------------------------------------------------------------------
(* POST /api/v2/external-actions/reserve                                   *)

\* lock_reservation_key: the key, whoever uses it.
Reserve(t, r) ==
    /\ At(t, "idle")
    /\ Available(t, ReservationLock(r))
    /\ tx' = [tx EXCEPT ![t] = [pc |-> "reserving", req |-> r,
                                held |-> {ReservationLock(r)}]]
    /\ UNCHANGED actions

\* A key already used by the principal answers with its action or a conflict, one
\* another principal reserved with answers with a conflict.
LookUpKey(t) ==
    /\ At(t, "reserving")
    /\ IF Known(Req(t).by, Req(t).key) # {} \/ \E n \in Ids : actions[n].key = Req(t).key
       THEN End(t)
       ELSE tx' = [tx EXCEPT ![t].pc = "identifying"]
    /\ UNCHANGED actions

\* Fault: different keys are not serialized.
LockNoIdentity(t) ==
    /\ At(t, "identifying")
    /\ tx' = [tx EXCEPT ![t].pc = "looking"]
    /\ UNCHANGED actions

LockIdentity(t) ==
    /\ At(t, "identifying")
    /\ Available(t, IdentityLock(Req(t)))
    /\ Enter(t, "looking", IdentityLock(Req(t)))
    /\ UNCHANGED actions

\* A known identity answers with its action, or with a conflict if the principal or
\* the metadata differ.
LookUpIdentity(t) ==
    /\ At(t, "looking")
    /\ IF \E n \in Ids : actions[n].identity = Req(t).identity
       THEN End(t)
       ELSE tx' = [tx EXCEPT ![t].pc = "inserting"]
    /\ UNCHANGED actions

New(r) == [by |-> r.by, key |-> r.key, identity |-> r.identity,
           metadata |-> r.metadata, state |-> "reserved", trace |-> <<>>]

\* The unique indexes of runs: the key, and the identity.
Refused(r) == \E n \in Ids : actions[n].key = r.key \/ actions[n].identity = r.identity

\* INSERT and COMMIT, or an error if an index refuses the row.
Insert(t) ==
    /\ At(t, "inserting")
    /\ actions' = IF Refused(Req(t)) THEN actions ELSE Append(actions, New(Req(t)))
    /\ End(t)

-----------------------------------------------------------------------------
(* POST /api/v2/external-actions/{id}/events                               *)

\* Fault: the key is not locked.
ReportUnlocked(t, e) ==
    /\ At(t, "idle")
    /\ e.action \in Ids
    /\ tx' = [tx EXCEPT ![t] = [pc |-> "reporting", req |-> e, held |-> {}]]
    /\ UNCHANGED actions

\* lock_idempotency_key: the key as this principal's.
Report(t, e) ==
    /\ At(t, "idle")
    /\ e.action \in Ids
    /\ Available(t, EventLock(e))
    /\ tx' = [tx EXCEPT ![t] = [pc |-> "reporting", req |-> e, held |-> {EventLock(e)}]]
    /\ UNCHANGED actions

\* A known key answers with its action, or a conflict if it is another one.
CheckKey(t) ==
    /\ At(t, "reporting")
    /\ IF Known(Req(t).by, Req(t).key) # {}
       THEN End(t)
       ELSE tx' = [tx EXCEPT ![t].pc = "loading"]
    /\ UNCHANGED actions

\* Fault: the row is read before its lock is granted.
LoadEarly(t) ==
    LET e == Req(t)
        state == actions[e.action].state
    IN  /\ At(t, "loading")
        /\ IF e.expected \in {AnyState, state} /\ NextStates(state, e.event) # {}
           THEN \E next \in NextStates(state, e.event) :
                  tx' = [tx EXCEPT ![t] = [pc |-> "writing", req |-> e, next |-> next,
                                           held |-> tx[t].held \cup {RowLock(e.action)}]]
           ELSE End(t)
        /\ UNCHANGED actions

\* SELECT ... FOR UPDATE, then expected_state and the transition table, either of
\* which may answer with a conflict.
Load(t) ==
    LET e == Req(t)
        state == actions[e.action].state
    IN  /\ At(t, "loading")
        /\ Available(t, RowLock(e.action))
        /\ IF e.expected \in {AnyState, state} /\ NextStates(state, e.event) # {}
           THEN \E next \in NextStates(state, e.event) :
                  tx' = [tx EXCEPT ![t] = [pc |-> "writing", req |-> e, next |-> next,
                                           held |-> tx[t].held \cup {RowLock(e.action)}]]
           ELSE End(t)
        /\ UNCHANGED actions

Entry(e) == [event |-> e.event, by |-> e.by, key |-> e.key]

\* UPDATE and COMMIT: the state and the entry that explains it, together.
Record(t) ==
    LET e == Req(t)
    IN  /\ At(t, "writing")
        /\ Len(actions[e.action].trace) < MaxTrace
        /\ actions' = [actions EXCEPT ![e.action].state = tx[t].next,
                                      ![e.action].trace = Append(@, Entry(e))]
        /\ End(t)

-----------------------------------------------------------------------------
\* The process or its connection dies: ROLLBACK.
Abort(t) ==
    /\ ~At(t, "idle")
    /\ End(t)
    /\ UNCHANGED actions

Init ==
    /\ actions = <<>>
    /\ tx = [t \in Tx |-> Idle]

ReserveStep(t) == LookUpKey(t) \/ LockIdentity(t) \/ LookUpIdentity(t) \/ Insert(t)
ReportStep(t) == CheckKey(t) \/ Load(t) \/ Record(t)

Next ==
    \/ \E t \in Tx, r \in Reservations : Reserve(t, r)
    \/ \E t \in Tx, e \in Reports : Report(t, e)
    \/ \E t \in Tx : ReserveStep(t)
    \/ \E t \in Tx : ReportStep(t)
    \/ \E t \in Tx : Abort(t)

Spec == Init /\ [][Next]_vars
-----------------------------------------------------------------------------
(* Properties                                                              *)

Action == [by : {r.by : r \in Reservations}, key : {r.key : r \in Reservations},
           identity : {r.identity : r \in Reservations},
           metadata : {r.metadata : r \in Reservations}, state : States,
           trace : Seq([event : {e.event : e \in Reports}, by : {e.by : e \in Reports},
                        key : {e.key : e \in Reports}])]

\* Actions hold what reservations and events put there; no lock has two holders.
TypeOK ==
    /\ actions \in Seq(Action)
    /\ \A t \in Tx : tx[t].pc \in {"idle", "reserving", "identifying", "looking",
                                   "inserting", "reporting", "loading", "writing"}
    /\ \A t, o \in Tx : t # o => tx[t].held \cap tx[o].held = {}

\* A reservation that found neither its key nor its identity can insert them: no
\* concurrent retry, whatever key and principal it comes with, is answered with a
\* database error (tests/external_action_recovery.rs joins two of them).
IndexesNeverRefuse == \A t \in Tx : At(t, "inserting") => ~Refused(Req(t))

\* Reports of an action by its owner, however often they are delivered and
\* whichever run at once, are each recorded at most once in the ledger.
OwnersReportsOnce ==
    \A m, n \in Ids :
      \A i \in 1..Len(actions[m].trace), j \in 1..Len(actions[n].trace) :
        LET a == actions[m].trace[i]
            b == actions[n].trace[j]
        IN  /\ a.by = actions[m].by
            /\ b.by = a.by
            /\ b.key = a.key
            => m = n /\ i = j

\* The states that the events of a trace lead to, one after the other.
StatesAfter(trace) ==
    LET after[i \in 0..Len(trace)] ==
            IF i = 0 THEN {"reserved"}
            ELSE UNION {NextStates(s, trace[i].event) : s \in after[i - 1]}
    IN  after[Len(trace)]

\* The state an action is in is the one its trace leads to, event by event through
\* the transition table: no concurrent report is overwritten or misjudged.
TraceExplainsState ==
    \A n \in Ids : StatesAfter(actions[n].trace) = {actions[n].state}

\* The provider is never called again while an earlier call may have succeeded:
\* between two attempts somebody established that the first one left nothing.
AttemptsReconciled ==
    \A n \in Ids :
        LET trace == actions[n].trace
        IN  \A i, j \in 1..Len(trace) :
              /\ i < j
              /\ trace[i].event = "attempt_started"
              /\ trace[j].event = "attempt_started"
              => \E k \in i..j : trace[k].event = "reconciled_absent"

\* The trace holds each of the owner's reports once, and leads to the state.
TraceIsExact == OwnersReportsOnce /\ TraceExplainsState
=============================================================================
