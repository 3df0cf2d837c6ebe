------------------------ MODULE ExternalActions_proofs ------------------------
(***************************************************************************)
(* Reservations never run into a unique index, for any requests and any    *)
(* number of concurrent transactions.  What a transaction has looked up    *)
(* stays true until it inserts, because every transaction that could make  *)
(* it false needs a lock that it holds.                                    *)
(***************************************************************************)
EXTENDS ExternalActions, TLAPS, WellFoundedInduction

Locks == {ReservationLock(r) : r \in Reservations} \cup {IdentityLock(r) : r \in Reservations}
         \cup {EventLock(e) : e \in Reports} \cup {RowLock(e.action) : e \in Reports}

\* What a transaction may be doing.
Local ==
    [pc : {"idle"}, held : {{}}]
    \cup [pc : {"reserving", "identifying", "looking", "inserting"}, req : Reservations,
          held : SUBSET Locks]
    \cup [pc : {"reporting", "loading"}, req : Reports, held : SUBSET Locks]
    \cup [pc : {"writing"}, req : Reports, next : States, held : SUBSET Locks]

\* What transaction x has looked up, and the locks that keep it true.
Protected(x) ==
    /\ x.pc \in {"reserving", "identifying", "looking", "inserting"}
       => ReservationLock(x.req) \in x.held
    /\ x.pc \in {"looking", "inserting"} => IdentityLock(x.req) \in x.held
    /\ x.pc \in {"identifying", "looking", "inserting"}
       => \A n \in Ids : actions[n].key # x.req.key
    /\ x.pc = "inserting" => \A n \in Ids : actions[n].identity # x.req.identity

Exclusive == \A t, o \in Tx : t # o => tx[t].held \cap tx[o].held = {}

IInv ==
    /\ actions \in Seq(Action)
    /\ tx \in [Tx -> Local]
    /\ Exclusive
    /\ \A t \in Tx : Protected(tx[t])

-----------------------------------------------------------------------------
\* The transition table stays among the states.
LEMMA NextStatesAreStates ==
    ASSUME NEW state, NEW event PROVE NextStates(state, event) \subseteq States
<1>1. \A s \in Steps : s[3] \in States
  BY DEF Steps, States
<1> QED
  BY <1>1 DEF NextStates, States

LEMMA IdleIsProtected == Idle \in Local /\ Protected(Idle) /\ Idle.held = {}
  BY DEF Idle, Local, Protected

\* A step of one transaction that leaves the ledger alone: it has to show its own
\* record, and that it took no lock of another.
LEMMA OneTransaction ==
    ASSUME IInv, NEW t \in Tx, NEW x \in Local, Protected(x),
           \A o \in Tx \ {t} : x.held \cap tx[o].held = {},
           tx' = [tx EXCEPT ![t] = x], actions' = actions
    PROVE  IInv'
<1>1. tx' \in [Tx -> Local]
  BY DEF IInv
<1>2. \A o \in Tx : tx'[o] = IF o = t THEN x ELSE tx[o]
  BY DEF IInv
<1>3. Exclusive'
  BY <1>2 DEF IInv, Exclusive
<1>4. \A o \in Tx : Protected(tx[o])
  BY DEF IInv
<1>5. \A o \in Tx : Protected(tx[o])'
  BY <1>2, <1>4 DEF Protected, Ids, IInv
<1> QED
  BY <1>1, <1>3, <1>5 DEF IInv

LEMMA EndInvariant ==
    ASSUME IInv, NEW t \in Tx, End(t), actions' = actions PROVE IInv'
  BY IdleIsProtected, OneTransaction DEF End

LEMMA ReserveInvariant ==
    ASSUME IInv, NEW t \in Tx, NEW r \in Reservations, Reserve(t, r) PROVE IInv'
<1> DEFINE x == [pc |-> "reserving", req |-> r, held |-> {ReservationLock(r)}]
<1>1. x \in Local /\ Protected(x)
  BY DEF Local, Locks, Protected
<1>2. \A o \in Tx \ {t} : x.held \cap tx[o].held = {}
  BY DEF Reserve, Available
<1>3. tx' = [tx EXCEPT ![t] = x] /\ actions' = actions
  BY DEF Reserve
<1> HIDE DEF x
<1> QED
  BY <1>1, <1>2, <1>3, OneTransaction

LEMMA ReportInvariant ==
    ASSUME IInv, NEW t \in Tx, NEW e \in Reports, Report(t, e) PROVE IInv'
<1> DEFINE x == [pc |-> "reporting", req |-> e, held |-> {EventLock(e)}]
<1>1. x \in Local /\ Protected(x)
  BY DEF Local, Locks, Protected
<1>2. \A o \in Tx \ {t} : x.held \cap tx[o].held = {}
  BY DEF Report, Available
<1>3. tx' = [tx EXCEPT ![t] = x] /\ actions' = actions
  BY DEF Report
<1> HIDE DEF x
<1> QED
  BY <1>1, <1>2, <1>3, OneTransaction

LEMMA LookUpKeyInvariant ==
    ASSUME IInv, NEW t \in Tx, LookUpKey(t) PROVE IInv'
<1>1. CASE End(t)
  BY <1>1, EndInvariant DEF LookUpKey
<1>2. CASE /\ ~\E n \in Ids : actions[n].key = Req(t).key
           /\ tx' = [tx EXCEPT ![t].pc = "identifying"]
  <2> DEFINE x == [tx[t] EXCEPT !.pc = "identifying"]
  <2>1. tx[t] \in Local /\ tx[t].pc = "reserving" /\ Protected(tx[t])
    BY DEF IInv, LookUpKey, At
  <2>2. x \in Local /\ x.pc = "identifying" /\ x.req = tx[t].req /\ x.held = tx[t].held
    BY <2>1 DEF Local
  <2>3. Protected(x)
    BY <1>2, <2>1, <2>2 DEF Protected, Req
  <2>4. \A o \in Tx \ {t} : x.held \cap tx[o].held = {}
    BY <2>2 DEF IInv, Exclusive
  <2>5. tx' = [tx EXCEPT ![t] = x] /\ actions' = actions
    BY <1>2 DEF LookUpKey, IInv
  <2> HIDE DEF x
  <2> QED
    BY <2>2, <2>3, <2>4, <2>5, OneTransaction
<1> QED
  BY <1>1, <1>2 DEF LookUpKey

LEMMA LockIdentityInvariant ==
    ASSUME IInv, NEW t \in Tx, LockIdentity(t) PROVE IInv'
<1> DEFINE lock == IdentityLock(tx[t].req)
           x == [tx[t] EXCEPT !.pc = "looking", !.held = @ \cup {lock}]
<1>1. tx[t] \in Local /\ tx[t].pc = "identifying" /\ Protected(tx[t])
  BY DEF IInv, LockIdentity, At
<1>2. tx[t].req \in Reservations /\ tx[t].held \in SUBSET Locks
  BY <1>1 DEF Local
<1>3. lock \in Locks
  BY <1>2 DEF Locks
<1>4. /\ x \in Local /\ x.pc = "looking" /\ x.req = tx[t].req
      /\ x.held = tx[t].held \cup {lock}
  <2> HIDE DEF lock
  <2> QED
    BY <1>1, <1>2, <1>3 DEF Local
<1>5. Protected(x)
  <2> HIDE DEF x
  <2> QED
    BY <1>1, <1>4 DEF Protected
<1>6. \A o \in Tx \ {t} : x.held \cap tx[o].held = {}
  <2> HIDE DEF x
  <2> QED
    BY <1>4 DEF IInv, Exclusive, LockIdentity, Available, Req
<1>7. tx' = [tx EXCEPT ![t] = x] /\ actions' = actions
  BY DEF LockIdentity, Enter, Req, IInv
<1> HIDE DEF x
<1> QED
  BY <1>4, <1>5, <1>6, <1>7, OneTransaction

LEMMA LookUpIdentityInvariant ==
    ASSUME IInv, NEW t \in Tx, LookUpIdentity(t) PROVE IInv'
<1>1. CASE End(t)
  BY <1>1, EndInvariant DEF LookUpIdentity
<1>2. CASE /\ ~\E n \in Ids : actions[n].identity = Req(t).identity
           /\ tx' = [tx EXCEPT ![t].pc = "inserting"]
  <2> DEFINE x == [tx[t] EXCEPT !.pc = "inserting"]
  <2>1. tx[t] \in Local /\ tx[t].pc = "looking" /\ Protected(tx[t])
    BY DEF IInv, LookUpIdentity, At
  <2>2. x \in Local /\ x.pc = "inserting" /\ x.req = tx[t].req /\ x.held = tx[t].held
    BY <2>1 DEF Local
  <2>3. Protected(x)
    BY <1>2, <2>1, <2>2 DEF Protected, Req
  <2>4. \A o \in Tx \ {t} : x.held \cap tx[o].held = {}
    BY <2>2 DEF IInv, Exclusive
  <2>5. tx' = [tx EXCEPT ![t] = x] /\ actions' = actions
    BY <1>2 DEF LookUpIdentity, IInv
  <2> HIDE DEF x
  <2> QED
    BY <2>2, <2>3, <2>4, <2>5, OneTransaction
<1> QED
  BY <1>1, <1>2 DEF LookUpIdentity

\* The unique indexes accept the row, and nobody else had looked it up.
LEMMA InsertInvariant ==
    ASSUME IInv, NEW t \in Tx, Insert(t) PROVE IInv'
<1> DEFINE r == tx[t].req
<1>1. tx[t] \in Local /\ tx[t].pc = "inserting" /\ Protected(tx[t])
  BY DEF IInv, Insert, At
<1>2. r \in Reservations
  BY <1>1 DEF Local
<1>3. CASE Refused(Req(t))
  BY <1>3, EndInvariant DEF Insert
<1>4. CASE actions' = Append(actions, New(r))
  <2>1. New(r) \in Action
    BY <1>2 DEF New, Action, States
  <2>2. actions' \in Seq(Action)
    BY <1>4, <2>1 DEF IInv
  <2>3. tx' \in [Tx -> Local] /\ \A o \in Tx : tx'[o] = IF o = t THEN Idle ELSE tx[o]
    BY IdleIsProtected DEF IInv, Insert, End
  <2>4. Exclusive'
    BY <2>3, IdleIsProtected DEF Exclusive, IInv
  <2>5. ASSUME NEW n \in Ids'
        PROVE  \/ n \in Ids /\ actions'[n] = actions[n]
               \/ actions'[n].key = r.key /\ actions'[n].identity = r.identity
    BY <1>4 DEF Ids, IInv, New
  <2>6. ASSUME NEW o \in Tx, o # t PROVE Protected(tx[o])'
    <3>1. Protected(tx[o]) /\ tx'[o] = tx[o]
      BY <2>3, <2>6 DEF IInv
    <3>2. /\ ReservationLock(r) \notin tx[o].held
          /\ IdentityLock(r) \notin tx[o].held
      BY <1>1, <2>6 DEF Protected, IInv, Exclusive
    <3>3. tx[o].pc \in {"identifying", "looking", "inserting"} => tx[o].req.key # r.key
      BY <3>1, <3>2 DEF Protected, ReservationLock
    <3>4. tx[o].pc = "inserting" => tx[o].req.identity # r.identity
      BY <3>1, <3>2 DEF Protected, IdentityLock
    <3> HIDE DEF r
    <3> QED
      BY <2>5, <3>1, <3>3, <3>4 DEF Protected
  <2>7. Protected(tx[t])'
    BY <2>3 DEF Protected, Idle
  <2> QED
    BY <2>2, <2>3, <2>4, <2>6, <2>7 DEF IInv
<1> QED
  BY <1>3, <1>4 DEF Insert, Req

LEMMA CheckKeyInvariant ==
    ASSUME IInv, NEW t \in Tx, CheckKey(t) PROVE IInv'
<1>1. CASE End(t)
  BY <1>1, EndInvariant DEF CheckKey
<1>2. CASE tx' = [tx EXCEPT ![t].pc = "loading"]
  <2> DEFINE x == [tx[t] EXCEPT !.pc = "loading"]
  <2>1. tx[t] \in Local /\ tx[t].pc = "reporting"
    BY DEF IInv, CheckKey, At
  <2>2. x \in Local /\ x.pc = "loading" /\ x.held = tx[t].held
    BY <2>1 DEF Local
  <2>3. Protected(x)
    BY <2>2 DEF Protected
  <2>4. \A o \in Tx \ {t} : x.held \cap tx[o].held = {}
    BY <2>2 DEF IInv, Exclusive
  <2>5. tx' = [tx EXCEPT ![t] = x] /\ actions' = actions
    BY <1>2 DEF CheckKey, IInv
  <2> HIDE DEF x
  <2> QED
    BY <2>2, <2>3, <2>4, <2>5, OneTransaction
<1> QED
  BY <1>1, <1>2 DEF CheckKey

LEMMA LoadInvariant ==
    ASSUME IInv, NEW t \in Tx, Load(t) PROVE IInv'
<1> DEFINE e == tx[t].req
           state == actions[e.action].state
           lock == RowLock(e.action)
           x(next) == [pc |-> "writing", req |-> e, next |-> next,
                       held |-> tx[t].held \cup {lock}]
<1>1. CASE End(t)
  BY <1>1, EndInvariant DEF Load
<1>2. ASSUME NEW next \in NextStates(state, e.event), tx' = [tx EXCEPT ![t] = x(next)]
      PROVE  IInv'
  <2>1. tx[t] \in Local /\ tx[t].pc = "loading"
    BY DEF IInv, Load, At
  <2>2. e \in Reports /\ tx[t].held \in SUBSET Locks
    BY <2>1 DEF Local
  <2>3. lock \in Locks /\ next \in States
    BY <2>2, NextStatesAreStates DEF Locks
  <2>4. x(next) \in Local /\ Protected(x(next))
    <3> HIDE DEF lock, e
    <3> QED
      BY <2>2, <2>3 DEF Local, Protected
  <2>5. \A o \in Tx \ {t} : x(next).held \cap tx[o].held = {}
    BY DEF IInv, Exclusive, Load, Available, Req
  <2>6. actions' = actions
    BY DEF Load
  <2> HIDE DEF x
  <2> QED
    BY <1>2, <2>4, <2>5, <2>6, OneTransaction
<1> QED
  BY <1>1, <1>2 DEF Load, Req

LEMMA RecordInvariant ==
    ASSUME IInv, NEW t \in Tx, Record(t) PROVE IInv'
<1> DEFINE e == tx[t].req
           id == e.action
           row == [actions[id] EXCEPT !.state = tx[t].next,
                                      !.trace = Append(@, Entry(e))]
<1>1. tx[t] \in Local /\ tx[t].pc = "writing"
  BY DEF IInv, Record, At
<1>2. e \in Reports /\ tx[t].next \in States
  BY <1>1 DEF Local
<1>3. actions' = [actions EXCEPT ![id] = row]
  BY DEF Record, Req, IInv
<1>4. ASSUME id \in Ids
      PROVE  /\ row \in Action
             /\ row.key = actions[id].key /\ row.identity = actions[id].identity
  <2>1. actions[id] \in Action
    BY <1>4 DEF IInv, Ids
  <2>2. Entry(e) \in [event : {f.event : f \in Reports}, by : {f.by : f \in Reports},
                      key : {f.key : f \in Reports}]
    BY <1>2 DEF Entry
  <2>3. Append(actions[id].trace, Entry(e)) \in
          Seq([event : {f.event : f \in Reports}, by : {f.by : f \in Reports},
               key : {f.key : f \in Reports}])
    BY <2>1, <2>2 DEF Action
  <2> QED
    BY <1>2, <2>1, <2>3 DEF Action
<1>5. /\ actions' \in Seq(Action) /\ Ids' = Ids
      /\ \A n \in Ids : /\ actions'[n].key = actions[n].key
                        /\ actions'[n].identity = actions[n].identity
  <2> HIDE DEF row, id
  <2>1. actions \in Seq(Action)
    BY DEF IInv
  <2>2. CASE id \in Ids
    BY <1>3, <1>4, <2>1, <2>2 DEF Ids
  <2>3. CASE id \notin Ids
    <3>1. actions' = actions
      BY <1>3, <2>1, <2>3 DEF Ids
    <3> QED
      BY <2>1, <3>1 DEF Ids
  <2> QED
    BY <2>2, <2>3
<1>6. tx' \in [Tx -> Local] /\ \A o \in Tx : tx'[o] = IF o = t THEN Idle ELSE tx[o]
  BY IdleIsProtected DEF IInv, Record, End
<1>7. Exclusive'
  BY <1>6, IdleIsProtected DEF Exclusive, IInv
<1>8. \A o \in Tx : Protected(tx'[o])
  BY <1>6, IdleIsProtected DEF IInv
<1>9. \A o \in Tx : Protected(tx[o])'
  BY <1>5, <1>8 DEF Protected
<1> QED
  BY <1>5, <1>6, <1>7, <1>9 DEF IInv

LEMMA AbortInvariant == ASSUME IInv, NEW t \in Tx, Abort(t) PROVE IInv'
  BY EndInvariant DEF Abort

LEMMA InitInvariant == Init => IInv
<1> SUFFICES ASSUME Init PROVE IInv
  OBVIOUS
<1>1. actions \in Seq(Action) /\ tx \in [Tx -> Local]
  BY IdleIsProtected DEF Init
<1>2. \A t \in Tx : tx[t] = Idle
  BY DEF Init
<1> QED
  BY <1>1, <1>2, IdleIsProtected DEF IInv, Exclusive

LEMMA NextInvariant == IInv /\ [Next]_vars => IInv'
<1> SUFFICES ASSUME IInv, [Next]_vars PROVE IInv'
  OBVIOUS
<1>1. ASSUME NEW t \in Tx, ReserveStep(t) PROVE IInv'
  BY <1>1, LookUpKeyInvariant, LockIdentityInvariant, LookUpIdentityInvariant,
     InsertInvariant DEF ReserveStep
<1>2. ASSUME NEW t \in Tx, ReportStep(t) PROVE IInv'
  BY <1>2, CheckKeyInvariant, LoadInvariant, RecordInvariant DEF ReportStep
<1>3. CASE UNCHANGED vars
  BY <1>3 DEF vars, IInv, Exclusive, Protected, Ids
<1> QED
  BY <1>1, <1>2, <1>3, ReserveInvariant, ReportInvariant, AbortInvariant DEF Next

-----------------------------------------------------------------------------
\* Actions hold what reservations and events put there, transactions go through
\* the handlers' statements, and no lock ever has two holders, for any requests.
THEOREM TypeCorrect == Spec => []TypeOK
<1>1. IInv => TypeOK
  BY DEF IInv, TypeOK, Exclusive, Local
<1> QED
  BY InitInvariant, NextInvariant, <1>1, PTL DEF Spec

\* Whoever is about to insert a reservation finds its key and its identity free.
THEOREM ReservationsNeverRefused == Spec => []IndexesNeverRefuse
<1>1. IInv => IndexesNeverRefuse
  BY DEF IInv, IndexesNeverRefuse, Protected, Refused, Req, At
<1> QED
  BY InitInvariant, NextInvariant, <1>1, PTL DEF Spec

-----------------------------------------------------------------------------
(* What the ledger says of the reports                                     *)

\* A run of the transition table: the states p goes through along a trace.
IsRun(p, trace) ==
    /\ p \in [0..Len(trace) -> States]
    /\ p[0] = "reserved"
    /\ \A i \in 1..Len(trace) : p[i] \in NextStates(p[i - 1], trace[i].event)

Follows(a) == \E p : IsRun(p, a.trace) /\ p[Len(a.trace)] = a.state

\* Every attempt in the trace but an open one is known to have left nothing.
Settled(a) ==
    a.state \in {"reserved", "previewed", "approved"} =>
        \A i \in 1..Len(a.trace) : a.trace[i].event = "attempt_started" =>
            \E k \in i..Len(a.trace) : a.trace[k].event = "reconciled_absent"

Reconciled(a) ==
    \A i, j \in 1..Len(a.trace) :
        /\ i < j
        /\ a.trace[i].event = "attempt_started"
        /\ a.trace[j].event = "attempt_started"
        => \E k \in i..j : a.trace[k].event = "reconciled_absent"

\* The entries of action n are reports of n, the owner's under a key each.
EntriesAreReports(n, a) ==
    /\ \A i \in 1..Len(a.trace) :
          \E e \in Reports : e.action = n /\ e.by = a.trace[i].by /\ e.key = a.trace[i].key
    /\ \A i, j \in 1..Len(a.trace) :
          a.trace[i].by = a.by /\ a.trace[j].by = a.by /\ a.trace[i].key = a.trace[j].key => i = j

Explained(n, a) ==
    Follows(a) /\ Settled(a) /\ Reconciled(a) /\ EntriesAreReports(n, a)

\* A report that found its key unused owns the key, and one that found its
\* transition owns the row, until its transaction ends.
Checked(x) ==
    /\ x.pc \in {"reporting", "loading", "writing"} =>
          x.req.action \in Ids /\ EventLock(x.req) \in x.held
    /\ x.pc \in {"loading", "writing"} =>
          \A n \in Ids : actions[n].by = x.req.by =>
              \A i \in 1..Len(actions[n].trace) :
                  actions[n].trace[i].by = x.req.by => actions[n].trace[i].key # x.req.key
    /\ x.pc = "writing" =>
          /\ RowLock(x.req.action) \in x.held
          /\ x.next \in NextStates(actions[x.req.action].state, x.req.event)

LInv ==
    /\ IInv
    /\ \A n \in Ids : Explained(n, actions[n])
    /\ \A t \in Tx : Checked(tx[t])

\* The transition table leads to one state at most.
LEMMA NextStatesAreUnique ==
    ASSUME NEW state, NEW event,
           NEW s \in NextStates(state, event), NEW r \in NextStates(state, event)
    PROVE  s = r
<1>1. \A x, y \in Steps : x[1] = y[1] /\ x[2] = y[2] => x[3] = y[3]
  BY DEF Steps
<1>2. \A x \in Steps : x[2] \notin {"suppressed", "failed"}
  BY DEF Steps
<1> QED
  BY <1>1, <1>2 DEF NextStates

\* An attempt starts from a state in which all earlier ones are settled, and those
\* states are reached from one another or by reconciling.
LEMMA AttemptTransitions ==
    ASSUME NEW state, NEW event, NEW next \in NextStates(state, event)
    PROVE  /\ event = "attempt_started" => state = "approved" /\ next = "attempting"
           /\ next \in {"reserved", "previewed", "approved"} /\ event # "reconciled_absent"
                => state \in {"reserved", "previewed", "approved"}
<1>1. \A x \in Steps :
        /\ x[2] = "attempt_started" => x[1] = "approved" /\ x[3] = "attempting"
        /\ x[3] \in {"reserved", "previewed", "approved"} /\ x[2] # "reconciled_absent"
             => x[1] \in {"reserved", "previewed", "approved"}
  BY DEF Steps
<1> QED
  BY <1>1 DEF NextStates

\* A new action has nothing to explain.
LEMMA NewIsExplained ==
    ASSUME NEW n, NEW r \in Reservations PROVE Explained(n, New(r))
<1> DEFINE a == New(r)
           p == [i \in 0..0 |-> "reserved"]
<1>1. a.trace = <<>> /\ a.state = "reserved" /\ Len(a.trace) = 0
  BY DEF New
<1>2. p \in [0..0 -> States] /\ p[0] = "reserved"
  BY DEF States
<1> HIDE DEF a, p
<1>3. Follows(a)
  BY <1>1, <1>2 DEF Follows, IsRun
<1>4. Settled(a) /\ Reconciled(a) /\ EntriesAreReports(n, a)
  BY <1>1 DEF Settled, Reconciled, EntriesAreReports
<1> QED
  BY <1>3, <1>4 DEF Explained, a

\* An action explains its state also after a report that passed the checks.
LEMMA RecordedIsExplained ==
    ASSUME NEW a \in Action, NEW e \in Reports, NEW n, e.action = n,
           NEW next \in NextStates(a.state, e.event), Explained(n, a), NEW b,
           b = [a EXCEPT !.state = next, !.trace = Append(@, Entry(e))],
           a.by = e.by => \A i \in 1..Len(a.trace) :
                             a.trace[i].by = e.by => a.trace[i].key # e.key
    PROVE  Explained(n, b)
<1> DEFINE N == Len(a.trace)
<1>1. /\ a.trace \in Seq([event : {f.event : f \in Reports}, by : {f.by : f \in Reports},
                          key : {f.key : f \in Reports}])
      /\ Entry(e) \in [event : {f.event : f \in Reports}, by : {f.by : f \in Reports},
                       key : {f.key : f \in Reports}]
  BY DEF Action, Entry
<1>2. /\ b.trace = Append(a.trace, Entry(e)) /\ b.state = next /\ b.by = a.by
  BY DEF Action
<1>3. /\ N \in Nat /\ Len(b.trace) = N + 1
      /\ \A i \in 1..N : b.trace[i] = a.trace[i]
      /\ b.trace[N + 1] = Entry(e)
  BY <1>1, <1>2
<1>4. /\ Entry(e).event = e.event /\ Entry(e).by = e.by /\ Entry(e).key = e.key
  BY DEF Entry
<1> HIDE DEF N
<1>5. Follows(b)
  <2>1. PICK p : IsRun(p, a.trace) /\ p[N] = a.state
    BY DEF Explained, Follows, N
  <2> DEFINE q == [i \in 0..N + 1 |-> IF i = N + 1 THEN next ELSE p[i]]
  <2>2. next \in States
    BY NextStatesAreStates
  <2>3. q \in [0..Len(b.trace) -> States] /\ q[0] = "reserved"
    BY <1>3, <2>1, <2>2 DEF IsRun, N
  <2>4. ASSUME NEW i \in 1..Len(b.trace)
        PROVE  q[i] \in NextStates(q[i - 1], b.trace[i].event)
    <3>1. CASE i = N + 1
      <4>1. q[i] = next /\ q[i - 1] = p[N]
        BY <1>3, <3>1
      <4> QED
        BY <1>3, <1>4, <2>1, <3>1, <4>1
    <3>2. CASE i \in 1..N
      <4>1. q[i] = p[i] /\ q[i - 1] = p[i - 1]
        BY <1>3, <3>2
      <4>2. p[i] \in NextStates(p[i - 1], a.trace[i].event)
        BY <2>1, <3>2 DEF IsRun, N
      <4> QED
        BY <1>3, <3>2, <4>1, <4>2
    <3> QED
      BY <1>3, <3>1, <3>2
  <2>5. q[Len(b.trace)] = b.state
    BY <1>2, <1>3
  <2> HIDE DEF q
  <2> QED
    BY <2>3, <2>4, <2>5 DEF Follows, IsRun
<1>6. Settled(b)
  <2> SUFFICES ASSUME b.state \in {"reserved", "previewed", "approved"},
                      NEW i \in 1..Len(b.trace), b.trace[i].event = "attempt_started"
               PROVE  \E k \in i..Len(b.trace) : b.trace[k].event = "reconciled_absent"
    BY DEF Settled
  <2>1. e.event # "attempt_started"
    BY <1>2, AttemptTransitions
  <2>2. i \in 1..N
    BY <1>3, <1>4, <2>1
  <2>3. CASE e.event = "reconciled_absent"
    BY <1>3, <1>4, <2>2, <2>3
  <2>4. CASE e.event # "reconciled_absent"
    <3>1. a.state \in {"reserved", "previewed", "approved"}
      BY <1>2, <2>4, AttemptTransitions
    <3>2. PICK k \in i..N : a.trace[k].event = "reconciled_absent"
      BY <1>3, <2>2, <3>1 DEF Explained, Settled, N
    <3> QED
      BY <1>3, <2>2, <3>2
  <2> QED
    BY <2>3, <2>4
<1>7. Reconciled(b)
  <2> SUFFICES ASSUME NEW i \in 1..Len(b.trace), NEW j \in 1..Len(b.trace), i < j,
                      b.trace[i].event = "attempt_started",
                      b.trace[j].event = "attempt_started"
               PROVE  \E k \in i..j : b.trace[k].event = "reconciled_absent"
    BY DEF Reconciled
  <2>1. i \in 1..N
    BY <1>3
  <2>2. CASE j \in 1..N
    <3>1. PICK k \in i..j : a.trace[k].event = "reconciled_absent"
      BY <1>3, <2>1, <2>2 DEF Explained, Reconciled, N
    <3> QED
      BY <1>3, <2>1, <2>2, <3>1
  <2>3. CASE j = N + 1
    <3>1. a.state = "approved"
      BY <1>3, <1>4, <2>3, AttemptTransitions
    <3>2. PICK k \in i..N : a.trace[k].event = "reconciled_absent"
      BY <1>3, <2>1, <3>1 DEF Explained, Settled, N
    <3> QED
      BY <1>3, <2>1, <2>3, <3>2
  <2> QED
    BY <1>3, <2>2, <2>3
<1>8. EntriesAreReports(n, b)
  <2>1. ASSUME NEW i \in 1..Len(b.trace)
        PROVE  \E f \in Reports : f.action = n /\ f.by = b.trace[i].by /\ f.key = b.trace[i].key
    <3>1. CASE i = N + 1
      BY <1>3, <1>4, <3>1
    <3>2. CASE i \in 1..N
      BY <1>3, <3>2 DEF Explained, EntriesAreReports, N
    <3> QED
      BY <1>3, <3>1, <3>2
  <2>2. ASSUME NEW i \in 1..Len(b.trace), NEW j \in 1..Len(b.trace),
               b.trace[i].by = b.by, b.trace[j].by = b.by, b.trace[i].key = b.trace[j].key
        PROVE  i = j
    <3>1. ASSUME NEW k \in 1..N, b.trace[k].by = b.by, e.by = b.by PROVE b.trace[k].key # e.key
      BY <1>2, <1>3, <3>1 DEF N
    <3>2. CASE i \in 1..N /\ j \in 1..N
      BY <1>2, <1>3, <2>2, <3>2 DEF Explained, EntriesAreReports, N
    <3> QED
      BY <1>3, <1>4, <2>2, <3>1, <3>2
  <2> QED
    BY <2>1, <2>2 DEF EntriesAreReports
<1> QED
  BY <1>5, <1>6, <1>7, <1>8 DEF Explained

\* A step of one transaction that leaves the ledger alone has to show what the
\* transaction knows.
LEMMA OneTransactionExplained ==
    ASSUME LInv, IInv', NEW t \in Tx, NEW x, Checked(x),
           tx' = [tx EXCEPT ![t] = x], actions' = actions
    PROVE  LInv'
<1>1. \A o \in Tx : tx'[o] = IF o = t THEN x ELSE tx[o]
  BY DEF LInv, IInv
<1>2. \A o \in Tx : Checked(tx'[o])
  BY <1>1 DEF LInv
<1>3. \A o \in Tx : Checked(tx[o])'
  BY <1>2 DEF Checked, Ids
<1>4. \A n \in Ids' : Explained(n, actions[n])'
  BY DEF LInv, Ids
<1> QED
  BY <1>3, <1>4 DEF LInv

LEMMA IdleIsChecked == Checked(Idle)
  BY DEF Idle, Checked

LEMMA EndExplained ==
    ASSUME LInv, IInv', NEW t \in Tx, End(t), actions' = actions PROVE LInv'
  BY IdleIsChecked, OneTransactionExplained DEF End

\* The steps of a reservation before its INSERT know nothing of reports.
LEMMA ReservingExplained ==
    ASSUME LInv, IInv', NEW t \in Tx, actions' = actions,
           \/ \E r \in Reservations : Reserve(t, r)
           \/ LookUpKey(t) \/ LockIdentity(t) \/ LookUpIdentity(t)
    PROVE  LInv'
<1>1. CASE End(t)
  BY <1>1, EndExplained
<1>2. ASSUME NEW x, tx' = [tx EXCEPT ![t] = x], x.pc \in {"reserving", "identifying", "looking", "inserting"}
      PROVE  LInv'
  BY <1>2, OneTransactionExplained DEF Checked
<1>3. tx[t] \in Local
  BY DEF LInv, IInv
<1>4. ASSUME NEW r \in Reservations, Reserve(t, r) PROVE LInv'
  BY <1>2, <1>4 DEF Reserve
<1>5. CASE tx' = [tx EXCEPT ![t].pc = "identifying"] /\ At(t, "reserving")
  <2>1. tx' = [tx EXCEPT ![t] = [tx[t] EXCEPT !.pc = "identifying"]]
    BY <1>5 DEF LInv, IInv
  <2>2. [tx[t] EXCEPT !.pc = "identifying"].pc = "identifying"
    BY <1>3 DEF Local
  <2> QED
    BY <1>2, <2>1, <2>2
<1>6. CASE LockIdentity(t)
  <2> DEFINE x == [tx[t] EXCEPT !.pc = "looking", !.held = @ \cup {IdentityLock(Req(t))}]
  <2>1. tx' = [tx EXCEPT ![t] = x]
    BY <1>6 DEF LockIdentity, Enter, LInv, IInv
  <2>2. x.pc = "looking"
    BY <1>3 DEF Local
  <2> QED
    BY <1>2, <2>1, <2>2
<1>7. CASE tx' = [tx EXCEPT ![t].pc = "inserting"] /\ At(t, "looking")
  <2>1. tx' = [tx EXCEPT ![t] = [tx[t] EXCEPT !.pc = "inserting"]]
    BY <1>7 DEF LInv, IInv
  <2>2. [tx[t] EXCEPT !.pc = "inserting"].pc = "inserting"
    BY <1>3 DEF Local
  <2> QED
    BY <1>2, <2>1, <2>2
<1> QED
  BY <1>1, <1>4, <1>5, <1>6, <1>7 DEF LookUpKey, LookUpIdentity

\* A new row is nobody's report, whoever is reporting.
LEMMA InsertExplained ==
    ASSUME LInv, IInv', NEW t \in Tx, Insert(t) PROVE LInv'
<1> DEFINE r == tx[t].req
<1>1. r \in Reservations /\ actions \in Seq(Action)
  BY DEF LInv, IInv, Insert, At, Local
<1>2. CASE Refused(Req(t))
  BY <1>2, EndExplained DEF Insert
<1>3. CASE actions' = Append(actions, New(r))
  <2>1. /\ Ids \subseteq Ids' /\ \A n \in Ids : actions'[n] = actions[n]
        /\ \A n \in Ids' \ Ids : actions'[n] = New(r)
    BY <1>1, <1>3 DEF Ids
  <2>2. \A n \in Ids' : Explained(n, actions'[n])
    BY <1>1, <2>1, NewIsExplained DEF LInv
  <2>3. \A n \in Ids' : Explained(n, actions[n])'
    BY <2>2
  <2>4. \A o \in Tx : tx'[o] = IF o = t THEN Idle ELSE tx[o]
    BY DEF LInv, IInv, Insert, End
  <2>5. ASSUME NEW o \in Tx PROVE Checked(tx[o])'
    <3>1. Checked(tx'[o])
      BY <2>4, IdleIsChecked DEF LInv
    <3>2. New(r).trace = <<>>
      BY DEF New
    <3>3. tx'[o].pc = "writing" => tx'[o].req.action \in Ids
      BY <3>1 DEF Checked
    <3> HIDE DEF r
    <3> QED
      BY <2>1, <3>1, <3>2, <3>3 DEF Checked
  <2> QED
    BY <2>3, <2>5 DEF LInv
<1> QED
  BY <1>2, <1>3 DEF Insert, Req

LEMMA ReportExplained ==
    ASSUME LInv, IInv', NEW t \in Tx, NEW e \in Reports, Report(t, e) PROVE LInv'
<1> DEFINE x == [pc |-> "reporting", req |-> e, held |-> {EventLock(e)}]
<1>1. Checked(x)
  BY DEF Checked, Report
<1>2. tx' = [tx EXCEPT ![t] = x] /\ actions' = actions
  BY DEF Report
<1> HIDE DEF x
<1> QED
  BY <1>1, <1>2, OneTransactionExplained

LEMMA CheckKeyExplained ==
    ASSUME LInv, IInv', NEW t \in Tx, CheckKey(t) PROVE LInv'
<1>1. CASE End(t)
  BY <1>1, EndExplained DEF CheckKey
<1>2. CASE Known(Req(t).by, Req(t).key) = {} /\ tx' = [tx EXCEPT ![t].pc = "loading"]
  <2> DEFINE x == [tx[t] EXCEPT !.pc = "loading"]
  <2>1. tx[t] \in Local /\ tx[t].pc = "reporting" /\ Checked(tx[t])
    BY DEF LInv, IInv, CheckKey, At
  <2>2. x.pc = "loading" /\ x.held = tx[t].held /\ x.req = tx[t].req
    BY <2>1 DEF Local
  <2>3. Checked(x)
    <3> HIDE DEF x
    <3> QED
      BY <1>2, <2>1, <2>2 DEF Checked, Known, Req
  <2>4. tx' = [tx EXCEPT ![t] = x] /\ actions' = actions
    BY <1>2 DEF CheckKey, LInv, IInv
  <2> HIDE DEF x
  <2> QED
    BY <2>3, <2>4, OneTransactionExplained
<1> QED
  BY <1>1, <1>2 DEF CheckKey

LEMMA LoadExplained ==
    ASSUME LInv, IInv', NEW t \in Tx, Load(t) PROVE LInv'
<1> DEFINE e == tx[t].req
           state == actions[e.action].state
           x(next) == [pc |-> "writing", req |-> e, next |-> next,
                       held |-> tx[t].held \cup {RowLock(e.action)}]
<1>1. CASE End(t)
  BY <1>1, EndExplained DEF Load
<1>2. ASSUME NEW next \in NextStates(state, e.event), tx' = [tx EXCEPT ![t] = x(next)]
      PROVE  LInv'
  <2>1. tx[t].pc = "loading" /\ Checked(tx[t])
    BY DEF LInv, Load, At
  <2>2. /\ x(next).pc = "writing" /\ x(next).req = e /\ x(next).next = next
        /\ x(next).held = tx[t].held \cup {RowLock(e.action)}
    OBVIOUS
  <2>3. Checked(x(next))
    <3> HIDE DEF x
    <3> QED
      BY <1>2, <2>1, <2>2 DEF Checked
  <2>4. actions' = actions
    BY DEF Load
  <2> HIDE DEF x
  <2> QED
    BY <1>2, <2>3, <2>4, OneTransactionExplained
<1> QED
  BY <1>1, <1>2 DEF Load, Req

\* The report is appended to a row that nobody else is writing, under a key that
\* nobody else is using.
LEMMA RecordExplained ==
    ASSUME LInv, IInv', NEW t \in Tx, Record(t) PROVE LInv'
<1> DEFINE e == tx[t].req
           id == e.action
           row == [actions[id] EXCEPT !.state = tx[t].next,
                                      !.trace = Append(@, Entry(e))]
<1>1. tx[t] \in Local /\ tx[t].pc = "writing" /\ Checked(tx[t])
  BY DEF LInv, IInv, Record, At
<1>2. /\ e \in Reports /\ id \in Ids
      /\ tx[t].next \in NextStates(actions[id].state, e.event)
      /\ \A n \in Ids : actions[n].by = e.by =>
            \A i \in 1..Len(actions[n].trace) :
                actions[n].trace[i].by = e.by => actions[n].trace[i].key # e.key
      /\ EventLock(e) \in tx[t].held /\ RowLock(id) \in tx[t].held
  BY <1>1 DEF Local, Checked
<1>3. actions \in Seq(Action) /\ \A n \in Ids : actions[n] \in Action
  BY DEF LInv, IInv, Ids
<1>4. actions' = [actions EXCEPT ![id] = row]
  BY DEF Record, Req, LInv, IInv
<1>5. /\ Ids' = Ids
      /\ \A n \in Ids : actions'[n] = IF n = id THEN row ELSE actions[n]
  BY <1>2, <1>3, <1>4 DEF Ids
<1>6. Explained(id, row)
  <2>1. Explained(id, actions[id])
    BY <1>2 DEF LInv
  <2>2. actions[id] \in Action
    BY <1>2, <1>3
  <2> HIDE DEF e
  <2> QED
    BY <1>2, <2>1, <2>2, RecordedIsExplained
<1>7. \A n \in Ids' : Explained(n, actions[n])'
  <2>1. \A n \in Ids' : Explained(n, actions'[n])
    BY <1>5, <1>6 DEF LInv
  <2> QED
    BY <2>1
<1>8. /\ row.by = actions[id].by
      /\ Len(row.trace) = Len(actions[id].trace) + 1
      /\ \A i \in 1..Len(row.trace) :
            row.trace[i] = IF i = Len(row.trace) THEN Entry(e) ELSE actions[id].trace[i]
  BY <1>2, <1>3 DEF Action
<1>9. \A o \in Tx : tx'[o] = IF o = t THEN Idle ELSE tx[o]
  BY DEF LInv, IInv, Record, End
<1>10. ASSUME NEW o \in Tx, o # t PROVE Checked(tx[o])'
  <2>1. Checked(tx[o]) /\ tx'[o] = tx[o]
    BY <1>9, <1>10 DEF LInv
  <2>2. EventLock(e) \notin tx[o].held /\ RowLock(id) \notin tx[o].held
    BY <1>2, <1>10 DEF LInv, IInv, Exclusive
  <2>3. tx[o].pc \in {"loading", "writing"} => tx[o].req.by # e.by \/ tx[o].req.key # e.key
    BY <2>1, <2>2 DEF Checked, EventLock
  <2>4. tx[o].pc = "writing" => tx[o].req.action # id
    BY <2>1, <2>2 DEF Checked, RowLock
  <2>5. Entry(e).by = e.by /\ Entry(e).key = e.key
    BY DEF Entry
  <2>6. ASSUME tx[o].pc \in {"loading", "writing"}, NEW n \in Ids, actions'[n].by = tx[o].req.by,
               NEW i \in 1..Len(actions'[n].trace), actions'[n].trace[i].by = tx[o].req.by
        PROVE  actions'[n].trace[i].key # tx[o].req.key
    <3>1. \A j \in 1..Len(actions[n].trace) :
             actions[n].by = tx[o].req.by /\ actions[n].trace[j].by = tx[o].req.by
                => actions[n].trace[j].key # tx[o].req.key
      BY <2>1, <2>6 DEF Checked
    <3>2. CASE n # id
      BY <1>5, <2>6, <3>1, <3>2
    <3>3. CASE n = id
      <4>1. actions'[n] = row /\ actions[n].trace \in Seq([event : {f.event : f \in Reports},
               by : {f.by : f \in Reports}, key : {f.key : f \in Reports}])
        BY <1>3, <1>5, <3>3 DEF Action
      <4>2. Len(actions[n].trace) \in Nat
        BY <4>1
      <4> HIDE DEF row, e, id
      <4>3. CASE i = Len(row.trace)
        BY <1>8, <2>3, <2>5, <2>6, <4>1, <4>3
      <4>4. CASE i # Len(row.trace)
        <5>1. i \in 1..Len(actions[n].trace) /\ actions'[n].trace[i] = actions[n].trace[i]
          BY <1>8, <3>3, <4>1, <4>2, <4>4
        <5> QED
          BY <1>8, <2>6, <3>1, <3>3, <4>1, <5>1
      <4> QED
        BY <4>3, <4>4
    <3> QED
      BY <3>2, <3>3
  <2>7. tx[o].pc = "writing" => tx[o].req.action \in Ids
    BY <2>1 DEF Checked
  <2> HIDE DEF e, row, id
  <2> QED
    BY <1>5, <2>1, <2>4, <2>6, <2>7 DEF Checked
<1>11. Checked(tx[t])'
  BY <1>9 DEF Checked, Idle
<1> QED
  BY <1>7, <1>10, <1>11 DEF LInv

LEMMA InitExplained == Init => LInv
<1> SUFFICES ASSUME Init PROVE LInv
  OBVIOUS
<1>1. Ids = {} /\ \A t \in Tx : tx[t] = Idle
  BY DEF Init, Ids
<1> QED
  BY <1>1, InitInvariant, IdleIsChecked DEF LInv

LEMMA NextExplained == LInv /\ [Next]_vars => LInv'
<1> SUFFICES ASSUME LInv, [Next]_vars PROVE LInv'
  OBVIOUS
<1>1. IInv'
  BY NextInvariant DEF LInv
<1>2. ASSUME NEW t \in Tx, ReserveStep(t) PROVE LInv'
  BY <1>1, <1>2, ReservingExplained, InsertExplained
     DEF ReserveStep, LookUpKey, LockIdentity, LookUpIdentity
<1>3. ASSUME NEW t \in Tx, ReportStep(t) PROVE LInv'
  BY <1>1, <1>3, CheckKeyExplained, LoadExplained, RecordExplained DEF ReportStep
<1>4. ASSUME NEW t \in Tx, NEW r \in Reservations, Reserve(t, r) PROVE LInv'
  BY <1>1, <1>4, ReservingExplained DEF Reserve
<1>5. ASSUME NEW t \in Tx, Abort(t) PROVE LInv'
  BY <1>1, <1>5, EndExplained DEF Abort
<1>6. CASE UNCHANGED vars
  BY <1>1, <1>6 DEF vars, LInv, Checked, Ids
<1> QED
  BY <1>1, <1>2, <1>3, <1>4, <1>5, <1>6, ReportExplained DEF Next

-----------------------------------------------------------------------------
\* Whatever is reported, repeated and delivered at once, no second attempt is
\* recorded before the first one is known to have left nothing.
THEOREM AttemptsAreReconciled == Spec => []AttemptsReconciled
<1>1. LInv => AttemptsReconciled
  BY DEF LInv, Explained, Reconciled, AttemptsReconciled
<1> QED
  BY InitExplained, NextExplained, <1>1, PTL DEF Spec

-----------------------------------------------------------------------------
(* Where a trace leads                                                     *)

Less == {ss \in Nat \X Nat : ss[1] < ss[2]}

\* A set of numbers has a least element.
LEMMA LeastNumber ==
    ASSUME NEW S \in SUBSET Nat, S # {} PROVE \E n \in S : \A m \in S : n <= m
<1>1. IsWellFoundedOn(Less, Nat)
  BY NatLessThanWellFounded DEF OpToRel, Less
<1>2. \E n \in S : \A m \in S : ~(<<m, n>> \in Less)
  BY <1>1, WFMin
<1>3. \A n, m \in S : ~(<<m, n>> \in Less) => n <= m
  BY DEF Less
<1> QED
  BY <1>2, <1>3

\* The equation that defines StatesAfter.
IsAfter(f, trace) ==
    f = [i \in 0..Len(trace) |->
            IF i = 0 THEN {"reserved"}
            ELSE UNION {NextStates(s, trace[i].event) : s \in f[i - 1]}]

\* A function that meets the equation gives the states of a run, one at a time:
\* there is no first entry at which it gives another.
LEMMA AfterFollowsRun ==
    ASSUME NEW trace, Len(trace) \in Nat, NEW p, IsRun(p, trace), NEW f, IsAfter(f, trace)
    PROVE  f[Len(trace)] = {p[Len(trace)]}
<1> DEFINE N == Len(trace)
           Off == {i \in 0..N : f[i] # {p[i]}}
<1>1. \A i \in 0..N : f[i] = IF i = 0 THEN {"reserved"}
                             ELSE UNION {NextStates(s, trace[i].event) : s \in f[i - 1]}
  BY DEF IsAfter
<1>2. Off = {}
  <2> SUFFICES ASSUME Off # {} PROVE FALSE
    OBVIOUS
  <2>1. Off \in SUBSET Nat
    OBVIOUS
  <2>2. PICK i \in Off : \A j \in Off : i <= j
    BY <2>1, LeastNumber
  <2>3. i # 0
    BY <1>1 DEF IsRun
  <2>4. i - 1 \in 0..N /\ i - 1 \notin Off
    BY <2>2, <2>3
  <2>5. f[i - 1] = {p[i - 1]}
    BY <2>4
  <2>6. f[i] = NextStates(p[i - 1], trace[i].event)
    <3>1. f[i] = UNION {NextStates(s, trace[i].event) : s \in f[i - 1]}
      BY <1>1, <2>2, <2>3
    <3> QED
      BY <2>5, <3>1
  <2>7. p[i] \in NextStates(p[i - 1], trace[i].event)
    BY <2>2, <2>3 DEF IsRun
  <2>8. f[i] = {p[i]}
    BY <2>6, <2>7, NextStatesAreUnique
  <2> QED
    BY <2>2, <2>8
<1> QED
  BY <1>2

\* A run is all that a trace leads to.
LEMMA StatesAfterRun ==
    ASSUME NEW trace, Len(trace) \in Nat, NEW p, IsRun(p, trace)
    PROVE  StatesAfter(trace) = {p[Len(trace)]}
<1> DEFINE N == Len(trace)
           g == [i \in 0..N |-> {p[i]}]
<1>1. ASSUME NEW i \in 0..N
      PROVE  g[i] = IF i = 0 THEN {"reserved"}
                    ELSE UNION {NextStates(s, trace[i].event) : s \in g[i - 1]}
  <2>1. CASE i = 0
    BY <2>1 DEF IsRun
  <2>2. CASE i # 0
    <3>1. p[i] \in NextStates(p[i - 1], trace[i].event) /\ g[i - 1] = {p[i - 1]} /\ g[i] = {p[i]}
      BY <2>2 DEF IsRun
    <3>2. NextStates(p[i - 1], trace[i].event) = {p[i]}
      BY <3>1, NextStatesAreUnique
    <3> QED
      BY <2>2, <3>1, <3>2
  <2> QED
    BY <2>1, <2>2
<1>2. IsAfter(g, trace)
  BY <1>1 DEF IsAfter
<1>3. IsAfter(CHOOSE f : IsAfter(f, trace), trace)
  BY <1>2
<1>4. StatesAfter(trace) = (CHOOSE f : IsAfter(f, trace))[N]
  BY DEF StatesAfter, IsAfter
<1> HIDE DEF g, N
<1> QED
  BY <1>3, <1>4, AfterFollowsRun DEF N

\* The trace of every action holds each report of its owner once, however often
\* and concurrently it was sent, and leads through the table to its state.
THEOREM TracesAreExact == Spec => []TraceIsExact
<1>1. LInv => OwnersReportsOnce
  <2> SUFFICES ASSUME LInv, NEW m \in Ids, NEW n \in Ids,
                      NEW i \in 1..Len(actions[m].trace), NEW j \in 1..Len(actions[n].trace),
                      actions[m].trace[i].by = actions[m].by,
                      actions[n].trace[j].by = actions[m].trace[i].by,
                      actions[n].trace[j].key = actions[m].trace[i].key
               PROVE  m = n /\ i = j
    BY DEF OwnersReportsOnce
  <2>1. EntriesAreReports(m, actions[m]) /\ EntriesAreReports(n, actions[n])
    BY DEF LInv, Explained
  <2>2. PICK e \in Reports : /\ e.action = m /\ e.by = actions[m].trace[i].by
                             /\ e.key = actions[m].trace[i].key
    BY <2>1 DEF EntriesAreReports
  <2>3. PICK f \in Reports : /\ f.action = n /\ f.by = actions[n].trace[j].by
                             /\ f.key = actions[n].trace[j].key
    BY <2>1 DEF EntriesAreReports
  <2>4. e = f
    BY <2>2, <2>3, RequestsAssumption
  <2> QED
    BY <2>1, <2>2, <2>3, <2>4 DEF EntriesAreReports
<1>2. LInv => TraceExplainsState
  <2> SUFFICES ASSUME LInv, NEW n \in Ids
               PROVE  StatesAfter(actions[n].trace) = {actions[n].state}
    BY DEF TraceExplainsState
  <2>1. Len(actions[n].trace) \in Nat
    BY DEF LInv, IInv, Ids, Action
  <2>2. PICK p : IsRun(p, actions[n].trace) /\ p[Len(actions[n].trace)] = actions[n].state
    BY DEF LInv, Explained, Follows
  <2> QED
    BY <2>1, <2>2, StatesAfterRun
<1> QED
  BY InitExplained, NextExplained, <1>1, <1>2, PTL DEF Spec, TraceIsExact

=============================================================================
