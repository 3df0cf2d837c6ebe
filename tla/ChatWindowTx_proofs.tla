-------------------------- MODULE ChatWindowTx_proofs -------------------------
(***************************************************************************)
(* Theorems about ChatWindowTx, for any Chats, messages, requests and      *)
(* number of concurrent transactions: under the locks the statements take  *)
(* no message becomes visible behind the cursor, and each transaction is   *)
(* one step of ChatWindows.                                                *)
(***************************************************************************)
EXTENDS ChatWindowTx, FiniteSetTheorems, SequenceTheorems, TLAPS

-----------------------------------------------------------------------------
(* Rows in the order of their numbers.  A sort is not computed: the rows are *)
(* kept countable by their numbers from one statement to the next.         *)

\* The numbers of a set of rows, in order: how many are at or before one.
Rank(S, at) == Cardinality({r \in S : r.at <= at})

\* The rows can be counted off by their numbers, one at each rank.
Numbered(S) ==
    /\ IsFiniteSet(S)
    /\ \A r \in S : r.at \in Nat
    /\ \A q, r \in S : q.at = r.at => q = r
    /\ \A i \in 1..Cardinality(S) : \E r \in S : Rank(S, r.at) = i

Before(S, T) == \A q \in S, r \in T : q.at < r.at
Texts(S) == {r.msg : r \in S}
NoRepeats(S) == \A q, r \in S : q.msg = r.msg => q = r

\* The row at a position of the order.
RowAt(S, p) == CHOOSE r \in S : Rank(S, r.at) = p

UpTo(S, at) == {r \in S : r.at <= at}

LEMMA UpToIsFinite ==
    ASSUME NEW S, IsFiniteSet(S), NEW a
    PROVE  /\ IsFiniteSet(UpTo(S, a)) /\ Rank(S, a) = Cardinality(UpTo(S, a))
           /\ Rank(S, a) \in Nat /\ Cardinality(S) \in Nat /\ Rank(S, a) <= Cardinality(S)
  <1>1. UpTo(S, a) \in SUBSET S
    BY DEF UpTo
  <1>2. Rank(S, a) = Cardinality(UpTo(S, a))
    BY DEF Rank, UpTo
  <1>3. IsFiniteSet(UpTo(S, a)) /\ Cardinality(UpTo(S, a)) <= Cardinality(S)
    BY <1>1, FS_Subset
  <1>4. QED
    BY <1>2, <1>3, FS_CardinalityType

\* Ranks follow the numbers, so a rank has one row.
LEMMA RankFacts ==
    ASSUME NEW S, Numbered(S)
    PROVE  /\ Cardinality(S) \in Nat
           /\ \A a \in Nat : Rank(S, a) \in 0..Cardinality(S)
           /\ \A r \in S : Rank(S, r.at) \in 1..Cardinality(S)
           /\ \A r \in S, a \in Nat : r.at <= a <=> Rank(S, r.at) <= Rank(S, a)
           /\ \A q, r \in S : Rank(S, q.at) = Rank(S, r.at) => q = r
  <1>1. IsFiniteSet(S) /\ \A r \in S : r.at \in Nat
    BY DEF Numbered
  <1>2. \A a : Rank(S, a) \in Nat /\ Cardinality(S) \in Nat /\ Rank(S, a) <= Cardinality(S)
    BY <1>1, UpToIsFinite
  <1>3. ASSUME NEW r \in S, NEW a \in Nat, r.at <= a
        PROVE  Rank(S, r.at) <= Rank(S, a)
    <2>1. UpTo(S, r.at) \in SUBSET UpTo(S, a)
      BY <1>1, <1>3 DEF UpTo
    <2>2. QED
      BY <1>1, <2>1, UpToIsFinite, FS_Subset
  <1>4. ASSUME NEW r \in S, NEW a \in Nat, ~(r.at <= a)
        PROVE  Rank(S, a) < Rank(S, r.at)
    <2>1. UpTo(S, a) \in SUBSET UpTo(S, r.at) /\ r \in UpTo(S, r.at) /\ r \notin UpTo(S, a)
      BY <1>1, <1>4 DEF UpTo
    <2>2. UpTo(S, a) # UpTo(S, r.at)
      BY <2>1
    <2>3. Rank(S, a) <= Rank(S, r.at) /\ Rank(S, a) # Rank(S, r.at)
      BY <1>1, <2>1, <2>2, UpToIsFinite, FS_Subset
    <2>4. QED
      BY <1>2, <2>3
  <1>5. \A r \in S, a \in Nat : r.at <= a <=> Rank(S, r.at) <= Rank(S, a)
    BY <1>2, <1>3, <1>4
  <1>6. ASSUME NEW r \in S
        PROVE  Rank(S, r.at) \in 1..Cardinality(S)
    <2>1. r \in UpTo(S, r.at)
      BY <1>1 DEF UpTo
    <2>2. Rank(S, r.at) # 0
      BY <1>1, <2>1, UpToIsFinite, FS_EmptySet
    <2>3. QED
      BY <1>2, <2>2
  <1>7. ASSUME NEW q \in S, NEW r \in S, Rank(S, q.at) = Rank(S, r.at)
        PROVE  q = r
    <2>1. q.at <= r.at /\ r.at <= q.at
      BY <1>1, <1>2, <1>5, <1>7
    <2>2. q.at = r.at
      BY <1>1, <2>1
    <2>3. QED
      BY <2>2 DEF Numbered
  <1>8. QED
    BY <1>2, <1>5, <1>6, <1>7

LEMMA RowAtFacts ==
    ASSUME NEW S, Numbered(S)
    PROVE  /\ \A p \in 1..Cardinality(S) : RowAt(S, p) \in S /\ Rank(S, RowAt(S, p).at) = p
           /\ \A r \in S : RowAt(S, Rank(S, r.at)) = r
  <1>1. ASSUME NEW p \in 1..Cardinality(S)
        PROVE  RowAt(S, p) \in S /\ Rank(S, RowAt(S, p).at) = p
    BY DEF RowAt, Numbered
  <1>2. QED
    BY <1>1, RankFacts

\* Rows numbered after all others follow them.
LEMMA RankOfUnion ==
    ASSUME NEW S, NEW T, Numbered(S), Numbered(T), Before(S, T)
    PROVE  /\ Numbered(S \cup T)
           /\ Cardinality(S \cup T) = Cardinality(S) + Cardinality(T)
           /\ \A a \in Nat : (\A r \in T : a < r.at) => Rank(S \cup T, a) = Rank(S, a)
           /\ \A r \in T : Rank(S \cup T, r.at) = Cardinality(S) + Rank(T, r.at)
  <1>1. /\ IsFiniteSet(S) /\ \A r \in S : r.at \in Nat
        /\ IsFiniteSet(T) /\ \A r \in T : r.at \in Nat
    BY DEF Numbered
  <1>2. S \cap T = {}
    BY <1>1 DEF Before
  <1>3. /\ IsFiniteSet(S \cup T)
        /\ Cardinality(S \cup T) = Cardinality(S) + Cardinality(T)
        /\ Cardinality(S) \in Nat /\ Cardinality(T) \in Nat
    <2>1. Cardinality(S \cap T) = 0
      BY <1>2, FS_EmptySet
    <2>2. QED
      BY <1>1, <2>1, FS_Union, FS_CardinalityType
  <1>4. ASSUME NEW a \in Nat, \A r \in T : a < r.at
        PROVE  Rank(S \cup T, a) = Rank(S, a)
    <2>1. UpTo(S \cup T, a) = UpTo(S, a)
      BY <1>1, <1>4 DEF UpTo
    <2>2. QED
      BY <1>1, <1>3, <2>1, UpToIsFinite
  <1>5. ASSUME NEW r \in T
        PROVE  Rank(S \cup T, r.at) = Cardinality(S) + Rank(T, r.at)
    <2>1. UpTo(S \cup T, r.at) = S \cup UpTo(T, r.at)
      BY <1>1 DEF UpTo, Before
    <2>2. S \cap UpTo(T, r.at) = {}
      BY <1>2 DEF UpTo
    <2>3. IsFiniteSet(UpTo(T, r.at)) /\ Rank(T, r.at) = Cardinality(UpTo(T, r.at))
      BY <1>1, UpToIsFinite
    <2>4. Cardinality(S \cap UpTo(T, r.at)) = 0
      BY <2>2, FS_EmptySet
    <2>5. Cardinality(S \cup UpTo(T, r.at)) = Cardinality(S) + Cardinality(UpTo(T, r.at))
      <3>1. Cardinality(S \cup UpTo(T, r.at))
              = Cardinality(S) + Cardinality(UpTo(T, r.at)) - Cardinality(S \cap UpTo(T, r.at))
        BY <1>1, <2>3, FS_Union
      <3>2. Cardinality(S) \in Nat /\ Cardinality(UpTo(T, r.at)) \in Nat
        BY <1>1, <2>3, FS_CardinalityType
      <3>3. QED
        BY <2>4, <3>1, <3>2
    <2>6. QED
      BY <1>3, <2>1, <2>3, <2>5, UpToIsFinite
  <1>6. \A q, r \in S \cup T : q.at = r.at => q = r
    BY <1>1 DEF Numbered, Before
  <1>7. ASSUME NEW i \in 1..Cardinality(S \cup T)
        PROVE  \E r \in S \cup T : Rank(S \cup T, r.at) = i
    <2>1. CASE i <= Cardinality(S)
      <3>1. i \in 1..Cardinality(S)
        BY <1>3, <2>1
      <3>2. PICK r \in S : Rank(S, r.at) = i
        BY <3>1 DEF Numbered
      <3>3. Rank(S \cup T, r.at) = i
        BY <1>1, <1>4, <3>2 DEF Before
      <3>4. QED
        BY <3>3
    <2>2. CASE ~(i <= Cardinality(S))
      <3>1. i - Cardinality(S) \in 1..Cardinality(T)
        BY <1>3, <2>2
      <3>2. PICK r \in T : Rank(T, r.at) = i - Cardinality(S)
        BY <3>1 DEF Numbered
      <3>3. Rank(S \cup T, r.at) = Cardinality(S) + Rank(T, r.at)
        BY <1>5
      <3>4. QED
        BY <1>3, <3>2, <3>3
    <2>3. QED
      BY <2>1, <2>2
  <1>8. Numbered(S \cup T)
    BY <1>1, <1>3, <1>6, <1>7 DEF Numbered
  <1>9. QED
    BY <1>3, <1>4, <1>5, <1>8

LEMMA RowAtOfUnion ==
    ASSUME NEW S, NEW T, Numbered(S), Numbered(T), Before(S, T)
    PROVE  /\ \A p \in 1..Cardinality(S) : RowAt(S \cup T, p) = RowAt(S, p)
           /\ \A p \in 1..Cardinality(T) : RowAt(S \cup T, Cardinality(S) + p) = RowAt(T, p)
  <1>1. /\ Numbered(S \cup T)
        /\ \A a \in Nat : (\A r \in T : a < r.at) => Rank(S \cup T, a) = Rank(S, a)
        /\ \A r \in T : Rank(S \cup T, r.at) = Cardinality(S) + Rank(T, r.at)
    BY RankOfUnion
  <1>2. ASSUME NEW p \in 1..Cardinality(S)
        PROVE  RowAt(S \cup T, p) = RowAt(S, p)
    <2>1. RowAt(S, p) \in S /\ Rank(S, RowAt(S, p).at) = p
      BY RowAtFacts
    <2>2. Rank(S \cup T, RowAt(S, p).at) = p
      BY <1>1, <2>1 DEF Before, Numbered
    <2>3. QED
      BY <1>1, <2>1, <2>2, RowAtFacts
  <1>3. ASSUME NEW p \in 1..Cardinality(T)
        PROVE  RowAt(S \cup T, Cardinality(S) + p) = RowAt(T, p)
    <2>1. RowAt(T, p) \in T /\ Rank(T, RowAt(T, p).at) = p
      BY RowAtFacts
    <2>2. Rank(S \cup T, RowAt(T, p).at) = Cardinality(S) + p
      BY <1>1, <2>1
    <2>3. QED
      BY <1>1, <2>1, <2>2, RowAtFacts
  <1>4. QED
    BY <1>2, <1>3

LEMMA NumberedEmpty == Numbered({}) /\ Cardinality({}) = 0
  BY FS_EmptySet DEF Numbered

\* An insert draws a number after all that were drawn.
LEMMA NumberedAdd ==
    ASSUME NEW S, Numbered(S), NEW x, x.at \in Nat, \A r \in S : r.at < x.at
    PROVE  Numbered(S \cup {x})
  <1>1. IsFiniteSet({x}) /\ Cardinality({x}) = 1
    BY FS_Singleton
  <1>2. UpTo({x}, x.at) = {x}
    BY DEF UpTo
  <1>3. Rank({x}, x.at) = 1
    BY <1>1, <1>2, UpToIsFinite
  <1>4. Numbered({x})
    BY <1>1, <1>3 DEF Numbered
  <1>5. Before(S, {x})
    BY DEF Before
  <1>6. QED
    BY <1>4, <1>5, RankOfUnion

\* The first and the last row beyond a number.
LEMMA Beyond ==
    ASSUME NEW S, Numbered(S), NEW lo \in Nat, NEW x \in S, x.at > lo
    PROVE  /\ \E f \in S : /\ f.at > lo /\ Rank(S, f.at) = Rank(S, lo) + 1
                           /\ \A r \in S : r.at > lo => f.at <= r.at
           /\ \E l \in S : l.at > lo /\ Rank(S, l.at) = Cardinality(S) /\ \A r \in S : r.at <= l.at
  <1>1. /\ Cardinality(S) \in Nat
        /\ \A a \in Nat : Rank(S, a) \in 0..Cardinality(S)
        /\ \A r \in S : Rank(S, r.at) \in 1..Cardinality(S)
        /\ \A r \in S, a \in Nat : r.at <= a <=> Rank(S, r.at) <= Rank(S, a)
    BY RankFacts
  <1>2. \A r \in S : r.at \in Nat
    BY DEF Numbered
  <1>3. \A r \in S : r.at > lo <=> Rank(S, r.at) >= Rank(S, lo) + 1
    BY <1>1, <1>2
  <1>4. Rank(S, lo) + 1 \in 1..Cardinality(S) /\ Cardinality(S) \in 1..Cardinality(S)
    BY <1>1, <1>2, <1>3
  <1>5. PICK f \in S : Rank(S, f.at) = Rank(S, lo) + 1
    BY <1>4 DEF Numbered
  <1>6. f.at > lo /\ \A r \in S : r.at > lo => f.at <= r.at
    BY <1>1, <1>2, <1>3, <1>5
  <1>7. PICK l \in S : Rank(S, l.at) = Cardinality(S)
    BY <1>4 DEF Numbered
  <1>8. l.at > lo /\ \A r \in S : r.at <= l.at
    BY <1>1, <1>2, <1>3, <1>4, <1>7
  <1>9. QED
    BY <1>5, <1>6, <1>7, <1>8

-----------------------------------------------------------------------------
(* The inductive invariant                                                  *)

Running == [pc : {"begun", "locked", "storing", "queueing", "done"}, req : Requests,
            todo : Seq(Messages), own : SUBSET Row, cut : SUBSET Interval]
Sweeping == [pc : {"sweeping"}, todo : Seq(SlackChats), own : {{}}, cut : SUBSET Interval]

TxTypes ==
    /\ \A h \in Ingesters : tx[h] \in Running \cup {Idle}
    /\ \A w \in Sweepers : tx[w] \in Sweeping \cup {Idle}
    /\ tx = [t \in Tx |-> tx[t]]

TableTypes ==
    /\ rows \subseteq Row /\ IsFiniteSet(rows)
    /\ serial \in 0..MaxSerial
    /\ through = [c \in SlackChats |-> through[c]]
    /\ \A c \in SlackChats : through[c] \in 0..serial
    /\ cuts \subseteq Interval
    /\ fenced \subseteq FenceableChats

LockTypes ==
    /\ advisory \in [SlackChats -> Ingesters \cup {NoTx}]
    /\ runRow \in [SlackChats -> Tx \cup {NoTx}]
    /\ keyShare \in [SlackChats -> SUBSET Ingesters]
    /\ chatRow \in [SlackChats -> Tx \cup {NoTx}]

Started(h) == tx[h].pc \notin {"idle", "begun"}
Chat(h) == Request(h).chat

\* The locks an ingest transaction holds by the statement it is at.
IngestHolds(h) ==
    /\ ~At(h, "idle") => Chat(h) \notin fenced
    /\ Started(h) => advisory[Chat(h)] = h
    /\ tx[h].own # {} => h \in keyShare[Chat(h)]
    /\ tx[h].pc \in {"queueing", "done"} => chatRow[Chat(h)] = h

\* A sweep keeps every Chat it selected locked, and its windows up to date.
SweepHolds(w) ==
    /\ \A i \in 1..Len(tx[w].todo) : chatRow[tx[w].todo[i]] = w
    /\ \A v \in tx[w].cut : /\ chatRow[v.chat] = w /\ v.chat \notin fenced
                            /\ {v} = NextWindow(v.chat, {}, FALSE)

Exclusive == \A c \in SlackChats : chatRow[c] \in Sweepers => keyShare[c] = {}

\* What a transaction has inserted carries numbers beyond all that is visible.
OwnRows(h) ==
    /\ \A r \in tx[h].own : r.chat = Chat(h) /\ r.at <= serial /\ r.at > through[r.chat]
    /\ Numbered(tx[h].own)
    /\ tx[h].own # {} => Before(Stored(Chat(h), {}), tx[h].own) /\ NoRepeats(Stored(Chat(h), tx[h].own))

\* It has stored, or found stored, what it no longer has to do.
Progress(h) ==
    /\ tx[h].pc \in {"begun", "locked"} => tx[h].todo = Request(h).msgs /\ tx[h].own = {}
    /\ tx[h].pc \in {"queueing", "done"} => tx[h].todo = << >>
    /\ ~At(h, "idle") =>
          /\ Range(Request(h).msgs) \subseteq Range(tx[h].todo) \cup Texts(Stored(Chat(h), tx[h].own))
          /\ Range(tx[h].todo) \cup Texts(tx[h].own) \subseteq Range(Request(h).msgs)

OwnCut(h) ==
    /\ tx[h].pc \notin {"idle", "done"} => tx[h].cut = {}
    /\ At(h, "queueing") => Request(h).finished
    /\ At(h, "done") => tx[h].cut = IF Request(h).finished
                                    THEN NextWindow(Chat(h), tx[h].own, Request(h).owned) ELSE {}

Visible ==
    /\ \A r \in rows : r.at <= serial
    /\ \A c \in SlackChats : Numbered(Stored(c, {})) /\ NoRepeats(Stored(c, {}))
    /\ \A w \in cuts : w.first <= w.last /\ w.last <= through[w.chat]

IngestInv(h) == IngestHolds(h) /\ OwnRows(h) /\ Progress(h) /\ OwnCut(h)

Types == TxTypes /\ TableTypes /\ LockTypes

IInv ==
    /\ Types /\ Exclusive /\ Visible
    /\ \A h \in Ingesters : IngestInv(h)
    /\ \A w \in Sweepers : SweepHolds(w)

\* A transaction is between statements of the kind that takes its locks.
LEMMA RunningFacts ==
    ASSUME TxTypes
    PROVE  /\ \A h \in Ingesters : ~At(h, "idle") => tx[h] \in Running /\ Request(h) \in Requests
           /\ \A h \in Ingesters : At(h, "idle") => tx[h].own = {} /\ tx[h].cut = {}
           /\ \A w \in Sweepers : ~At(w, "idle") => tx[w] \in Sweeping
           /\ \A w \in Sweepers : At(w, "idle") => tx[w].todo = << >> /\ tx[w].cut = {}
  <1>1. ASSUME NEW h \in Ingesters
        PROVE  /\ ~At(h, "idle") => tx[h] \in Running /\ Request(h) \in Requests
               /\ At(h, "idle") => tx[h].own = {} /\ tx[h].cut = {}
    <2>1. tx[h] \in Running \/ tx[h] = Idle
      BY DEF TxTypes
    <2>2. tx[h] \in Running => tx[h].pc # "idle" /\ tx[h].req \in Requests
      BY DEF Running
    <2>3. Idle.pc = "idle" /\ Idle.own = {} /\ Idle.cut = {}
      BY DEF Idle
    <2>4. QED
      BY <2>1, <2>2, <2>3 DEF At, Request
  <1>2. ASSUME NEW w \in Sweepers
        PROVE  /\ ~At(w, "idle") => tx[w] \in Sweeping
               /\ At(w, "idle") => tx[w].todo = << >> /\ tx[w].cut = {}
    <2>1. tx[w] \in Sweeping \/ tx[w] = Idle
      BY DEF TxTypes
    <2>2. tx[w] \in Sweeping => tx[w].pc # "idle"
      BY DEF Sweeping
    <2>3. Idle.pc = "idle" /\ Idle.todo = << >> /\ Idle.cut = {}
      BY DEF Idle
    <2>4. QED
      BY <2>1, <2>2, <2>3 DEF At
  <1>3. QED
    BY <1>1, <1>2

LEMMA RequestFacts ==
    ASSUME NEW r \in Requests
    PROVE  /\ r.chat \in SlackChats /\ r.msgs \in Seq(Messages) /\ r.msgs # << >>
           /\ r.finished \in BOOLEAN /\ r.owned \in BOOLEAN /\ r.continues \in BOOLEAN
  <1>1. r \in [chat : SlackChats, msgs : SeqOf(Messages, MaxBatch),
               continues : BOOLEAN, finished : BOOLEAN, owned : BOOLEAN] /\ r.msgs # << >>
    BY DEF Requests
  <1>2. PICK m \in 0..MaxBatch : r.msgs \in [1..m -> Messages]
    BY <1>1 DEF SeqOf
  <1>3. r.msgs \in Seq(Messages)
    BY <1>2, SeqDef, BoundsAssumption
  <1>4. QED
    BY <1>1, <1>3

\* What a transaction that another one steps past relies on.
Undisturbed(t) ==
    /\ serial <= serial' /\ rows \subseteq rows' /\ fenced' = fenced
    /\ \A s \in Tx \ {t} : tx'[s] = tx[s]
    /\ \A s \in Tx \ {t}, c \in SlackChats :
          /\ advisory[c] = s => advisory'[c] = s
          /\ s \in keyShare[c] => s \in keyShare'[c]
          /\ chatRow[c] = s => chatRow'[c] = s
          /\ advisory[c] = s \/ chatRow[c] = s => Stored(c, {})' = Stored(c, {})
          /\ chatRow[c] = s \/ (s \in keyShare[c] /\ advisory[c] = s) => through'[c] = through[c]

LEMMA StoredSplits ==
    ASSUME NEW c, NEW own
    PROVE  Stored(c, own) = Stored(c, {}) \cup {r \in own : r.chat = c}
  BY DEF Stored

LEMMA IngestStays ==
    ASSUME IInv, Types', NEW t \in Tx, Undisturbed(t), NEW h \in Ingesters, h # t
    PROVE  IngestInv(h)'
  <1>1. tx'[h] = tx[h] /\ h \in Tx
    BY DEF Undisturbed, Tx
  <1>2. CASE At(h, "idle")
    BY <1>1, <1>2, NumberedEmpty, RunningFacts
       DEF IInv, Types, At, IngestInv, IngestHolds, OwnRows, Progress, OwnCut, Started, Chat, Request
  <1>3. CASE ~At(h, "idle")
    <2>1. PICK c \in SlackChats : c = Chat(h)
      BY <1>3, RunningFacts, RequestFacts DEF IInv, Types, Chat
    <2>2. Chat(h)' = c /\ Request(h)' = Request(h) /\ Chat(h) = c
      BY <1>1, <2>1 DEF Chat, Request
    <2>3. IngestHolds(h) /\ OwnRows(h) /\ Progress(h) /\ OwnCut(h)
      BY DEF IInv, IngestInv
    <2>4. IngestHolds(h)'
      BY <1>1, <2>2, <2>3 DEF Undisturbed, IngestHolds, At, Started
    <2>0. PICK own : own = tx[h].own /\ own = tx'[h].own
      BY <1>1
    <2>5. Started(h) => Stored(c, {})' = Stored(c, {}) /\ Stored(c, own)' = Stored(c, own)
      <3>1. Started(h) => Stored(c, {})' = Stored(c, {})
        BY <1>1, <2>2, <2>3 DEF Undisturbed, IngestHolds
      <3>2. Stored(c, own)' = Stored(c, {})' \cup {r \in own : r.chat = c}
        BY DEF Stored
      <3>3. Stored(c, own) = Stored(c, {}) \cup {r \in own : r.chat = c}
        BY StoredSplits
      <3>4. QED
        BY <3>1, <3>2, <3>3
    <2>6. own # {} => Started(h) /\ through'[c] = through[c]
      BY <1>1, <1>3, <2>0, <2>2, <2>3 DEF Undisturbed, IngestHolds, Progress, Started, At
    <2>7. OwnRows(h)'
      <3>1. \A r \in own : r.chat = c /\ r.at <= serial' /\ r.at > through'[r.chat]
        <4>1. \A r \in own : r.chat = c /\ r.at \in Nat /\ r.at <= serial /\ r.at > through[c]
          BY <2>0, <2>2, <2>3 DEF OwnRows, Numbered
        <4>2. serial <= serial' /\ serial \in Nat /\ serial' \in Nat
          BY BoundsAssumption DEF Undisturbed, IInv, Types, TableTypes
        <4>3. QED
          BY <2>6, <4>1, <4>2
      <3>2. Numbered(own)
        BY <2>0, <2>3 DEF OwnRows
      <3>3. own # {} => Before(Stored(c, {}), own) /\ NoRepeats(Stored(c, own))
        BY <2>0, <2>2, <2>3 DEF OwnRows
      <3>4. own # {} => Before(Stored(c, {})', own) /\ NoRepeats(Stored(c, own)')
        BY <2>5, <2>6, <3>3
      <3>5. Stored(Chat(h), tx[h].own)' = Stored(c, own)' /\ Stored(Chat(h), {})' = Stored(c, {})'
        BY <2>0, <2>2 DEF Stored
      <3>6. QED
        BY <2>0, <2>2, <3>1, <3>2, <3>4, <3>5 DEF OwnRows, Numbered, Before, NoRepeats, Rank
    <2>8. Progress(h)'
      <3>1. Texts(Stored(c, own)) \subseteq Texts(Stored(c, own)')
        <4>1. Stored(c, own) \subseteq Stored(c, own)'
          BY DEF Stored, Undisturbed
        <4>2. QED
          BY <4>1 DEF Texts
      <3>2. Stored(Chat(h), tx[h].own)' = Stored(c, own)'
        BY <2>0, <2>2 DEF Stored
      <3>3. Range(Request(h).msgs) \subseteq Range(tx[h].todo) \cup Texts(Stored(c, own)')
        BY <1>3, <2>0, <2>2, <2>3, <3>1 DEF Progress
      <3>4. QED
        BY <1>1, <1>3, <2>2, <2>3, <3>2, <3>3 DEF Progress, At, Texts
    <2>9. OwnCut(h)'
      <3>1. At(h, "done") => /\ Stored(c, own)' = Stored(c, own)
                             /\ through'[c] = through[c]
        BY <1>1, <2>2, <2>3, <2>5 DEF Undisturbed, IngestHolds, Started, At
      <3>2. At(h, "done") => NextWindow(Chat(h), tx[h].own, Request(h).owned)'
                                = NextWindow(Chat(h), tx[h].own, Request(h).owned)
        BY <1>1, <2>0, <2>2, <3>1 DEF NextWindow, Unqueued
      <3>3. QED
        BY <1>1, <2>2, <2>3, <3>2 DEF OwnCut, At
    <2>10. QED
      BY <2>4, <2>7, <2>8, <2>9 DEF IngestInv
  <1>4. QED
    BY <1>2, <1>3

LEMMA SweepStays ==
    ASSUME IInv, Types', NEW t \in Tx, Undisturbed(t), NEW w \in Sweepers, w # t
    PROVE  SweepHolds(w)'
  <1>1. tx'[w] = tx[w] /\ w \in Tx
    BY DEF Undisturbed, Tx
  <1>2. SweepHolds(w) /\ fenced' = fenced
    BY DEF IInv, Undisturbed
  <1>3. /\ tx[w].cut \subseteq Interval
        /\ \A i \in 1..Len(tx[w].todo) : tx[w].todo[i] \in SlackChats
    <2>1. CASE At(w, "idle")
      BY <2>1, RunningFacts DEF IInv, Types
    <2>2. CASE ~At(w, "idle")
      <3>1. tx[w] \in Sweeping
        BY <2>2, RunningFacts DEF IInv, Types
      <3>2. QED
        BY <3>1, ElementOfSeq DEF Sweeping
    <2>3. QED
      BY <2>1, <2>2
  <1>4. \A c \in SlackChats : chatRow[c] = w =>
            chatRow'[c] = w /\ through'[c] = through[c] /\ Stored(c, {})' = Stored(c, {})
    BY <1>1 DEF Undisturbed
  <1>5. \A c \in SlackChats : chatRow[c] = w =>
            NextWindow(c, {}, FALSE)' = NextWindow(c, {}, FALSE)
    BY <1>4 DEF NextWindow, Unqueued
  <1>6. \A v \in tx[w].cut : /\ chatRow'[v.chat] = w /\ v.chat \notin fenced'
                             /\ {v} = NextWindow(v.chat, {}, FALSE)'
    BY <1>2, <1>3, <1>4, <1>5 DEF SweepHolds, Interval
  <1>7. \A i \in 1..Len(tx[w].todo) : chatRow'[tx[w].todo[i]] = w
    BY <1>2, <1>3, <1>4 DEF SweepHolds
  <1>8. QED
    BY <1>1, <1>6, <1>7 DEF SweepHolds, NextWindow, Unqueued, Stored, WindowFate

LEMMA Frame ==
    ASSUME IInv, NEW t \in Tx, Types', Exclusive', Visible', Undisturbed(t),
           t \in Ingesters => IngestInv(t)', t \in Sweepers => SweepHolds(t)'
    PROVE  IInv'
  <1>1. ASSUME NEW h \in Ingesters
        PROVE  IngestInv(h)'
    <2>1. CASE h = t
      BY <2>1
    <2>2. CASE h # t
      BY <2>2, IngestStays
    <2>3. QED
      BY <2>1, <2>2
  <1>2. ASSUME NEW w \in Sweepers
        PROVE  SweepHolds(w)'
    <2>1. CASE w = t
      BY <2>1
    <2>2. CASE w # t
      BY <2>2, SweepStays
    <2>3. QED
      BY <2>1, <2>2
  <1>3. QED
    BY <1>1, <1>2 DEF IInv

Fits(t, v) ==
    /\ t \in Ingesters => v \in Running \cup {Idle}
    /\ t \in Sweepers => v \in Sweeping \cup {Idle}

LEMMA TxStep ==
    ASSUME TxTypes, NEW t \in Tx, NEW v, Fits(t, v), tx' = [tx EXCEPT ![t] = v]
    PROVE  TxTypes' /\ tx'[t] = v /\ \A s \in Tx \ {t} : tx'[s] = tx[s]
  <1>1. tx = [s \in Tx |-> tx[s]]
    BY DEF TxTypes
  <1>2. /\ tx'[t] = v /\ \A s \in Tx \ {t} : tx'[s] = tx[s]
        /\ tx' = [s \in Tx |-> tx'[s]]
    BY <1>1
  <1>3. ASSUME NEW h \in Ingesters
        PROVE  tx'[h] \in Running \cup {Idle}
    BY <1>2 DEF TxTypes, Fits, Tx
  <1>4. ASSUME NEW w \in Sweepers
        PROVE  tx'[w] \in Sweeping \cup {Idle}
    BY <1>2 DEF TxTypes, Fits, Tx
  <1>5. (\A h \in Ingesters : tx'[h] \in Running \cup {Idle})
        /\ (\A w \in Sweepers : tx'[w] \in Sweeping \cup {Idle})
    BY <1>3, <1>4
  <1>6. QED
    BY <1>2, <1>5 DEF TxTypes, Running, Sweeping, Idle, Requests, Row, Interval

\* Statements that only take locks, or draw numbers, leave what is visible.
QuietTables == rows' = rows /\ through' = through /\ cuts' = cuts /\ fenced' = fenced

LEMMA QuietFacts ==
    ASSUME IInv, QuietTables, serial' \in 0..MaxSerial, serial <= serial'
    PROVE  TableTypes' /\ Visible' /\ \A c : Stored(c, {})' = Stored(c, {})
  <1>1. serial \in Nat /\ serial' \in Nat
    BY BoundsAssumption DEF IInv, Types, TableTypes
  <1>2. TableTypes'
    <2>1. \A c \in SlackChats : through'[c] \in 0..serial'
      BY <1>1 DEF IInv, Types, TableTypes, QuietTables
    <2>2. QED
      BY <2>1 DEF IInv, Types, TableTypes, QuietTables, Row, Interval
  <1>3. \A c : Stored(c, {})' = Stored(c, {})
    BY DEF QuietTables, Stored
  <1>4. Visible'
    <2>1. \A r \in rows : r.at <= serial'
      <3>1. \A r \in rows : r.at \in Nat /\ r.at <= serial
        BY BoundsAssumption DEF IInv, Types, TableTypes, Visible, Row
      <3>2. QED
        BY <1>1, <3>1
    <2>2. ASSUME NEW c \in SlackChats
          PROVE  Numbered(Stored(c, {}))' /\ NoRepeats(Stored(c, {}))'
      <3>1. PICK S : S = Stored(c, {}) /\ S = Stored(c, {})'
        BY <1>3
      <3>2. Numbered(S) /\ NoRepeats(S)
        BY <3>1 DEF IInv, Visible
      <3>3. QED
        BY <3>1, <3>2 DEF Numbered, NoRepeats, Rank
    <2>3. \A w \in cuts : w.first <= w.last /\ w.last <= through[w.chat]
      BY DEF IInv, Visible
    <2>4. QED
      BY <2>1, <2>2, <2>3 DEF Visible, QuietTables
  <1>5. QED
    BY <1>2, <1>3, <1>4

\* Others' locks stay, while a transaction takes its own.
LocksOfOthersStay(t) ==
    \A s \in Tx \ {t}, c \in SlackChats :
        /\ advisory[c] = s => advisory'[c] = s
        /\ s \in keyShare[c] => s \in keyShare'[c]
        /\ chatRow[c] = s => chatRow'[c] = s

Quiet(t, v) ==
    /\ QuietTables /\ serial' \in 0..MaxSerial /\ serial <= serial'
    /\ Fits(t, v) /\ tx' = [tx EXCEPT ![t] = v]
    /\ LockTypes' /\ LocksOfOthersStay(t) /\ Exclusive'

LEMMA QuietStep ==
    ASSUME IInv, NEW t \in Tx, NEW v, Quiet(t, v),
           t \in Ingesters => IngestInv(t)', t \in Sweepers => SweepHolds(t)'
    PROVE  IInv'
  <1>1. TxTypes' /\ \A s \in Tx \ {t} : tx'[s] = tx[s]
    BY TxStep DEF IInv, Types, Quiet
  <1>2. TableTypes' /\ Visible' /\ \A c : Stored(c, {})' = Stored(c, {})
    BY QuietFacts DEF Quiet
  <1>3. Undisturbed(t)
    BY <1>1, <1>2 DEF Undisturbed, QuietTables, LocksOfOthersStay, Quiet
  <1>4. QED
    BY <1>1, <1>2, <1>3, Frame DEF Types, Quiet

-----------------------------------------------------------------------------
(* The ingest transaction                                                  *)

LEMMA BeginKeeps ==
    ASSUME IInv, NEW h \in Ingesters, NEW r \in Requests, Begin(h, r)
    PROVE  IInv'
  <1> DEFINE v == [pc |-> "begun", req |-> r, todo |-> r.msgs, own |-> {}, cut |-> {}]
  <1>1. h \in Tx /\ h \notin Sweepers
    BY TxAssumption DEF Tx
  <1>2. r.chat \in SlackChats /\ r.msgs \in Seq(Messages)
    BY RequestFacts
  <1>3. v \in Running
    BY <1>2 DEF Running
  <1>4. Fits(h, v) /\ tx' = [tx EXCEPT ![h] = v]
    BY <1>1, <1>3 DEF Fits, Begin
  <1>5. QuietTables /\ UNCHANGED locks /\ serial' = serial /\ serial \in 0..MaxSerial /\ serial \in Nat
    BY BoundsAssumption DEF Begin, QuietTables, tables, IInv, Types, TableTypes
  <1>6. LockTypes' /\ LocksOfOthersStay(h) /\ Exclusive'
    BY <1>5 DEF locks, IInv, Types, LockTypes, LocksOfOthersStay, Exclusive, Tx
  <1>7. tx'[h] = v
    BY <1>1, <1>4, TxStep DEF IInv, Types
  <1>8. /\ tx'[h].pc = "begun" /\ tx'[h].req = r /\ tx'[h].todo = r.msgs
        /\ tx'[h].own = {} /\ tx'[h].cut = {}
    BY <1>7
  <1>9. r.chat \notin fenced'
    BY <1>5 DEF Begin, QuietTables
  <1> HIDE DEF v
  <1>10. IngestHolds(h)'
    BY <1>8, <1>9 DEF IngestHolds, At, Started, Chat, Request
  <1>11. OwnRows(h)'
    BY <1>8, NumberedEmpty DEF OwnRows
  <1>12. Progress(h)' /\ OwnCut(h)'
    BY <1>8 DEF Progress, OwnCut, At, Request, Texts
  <1>13. IngestInv(h)'
    BY <1>10, <1>11, <1>12 DEF IngestInv
  <1>14. Quiet(h, v)
    BY <1>4, <1>5, <1>6 DEF Quiet
  <1>15. QED
    BY <1>1, <1>13, <1>14, QuietStep

RowsKept(h) ==
    /\ tx'[h].req = tx[h].req /\ tx'[h].own = tx[h].own /\ tx'[h].todo = tx[h].todo
    /\ tx'[h].pc # "idle"
    /\ tx'[h].pc \in {"begun", "locked"} => tx[h].pc \in {"begun", "locked"}
    /\ tx'[h].pc \in {"queueing", "done"} => tx[h].todo = << >>

LEMMA RowsKeptFacts ==
    ASSUME IInv, NEW h \in Ingesters, ~At(h, "idle"), QuietTables, serial' = serial, RowsKept(h)
    PROVE  OwnRows(h)' /\ Progress(h)'
  <1>1. OwnRows(h) /\ Progress(h)
    BY DEF IInv, IngestInv
  <1>2. PICK own, c, msgs : /\ own = tx[h].own /\ c = Chat(h) /\ msgs = Request(h).msgs
                            /\ own = tx'[h].own /\ c = Chat(h)' /\ msgs = Request(h)'.msgs
    BY DEF Chat, Request, RowsKept
  <1>3. Stored(c, {})' = Stored(c, {}) /\ Stored(c, own)' = Stored(c, own)
    BY DEF QuietTables, Stored
  <1>4. Stored(Chat(h), tx[h].own)' = Stored(c, own)' /\ Stored(Chat(h), {})' = Stored(c, {})'
    BY <1>2 DEF Stored
  <1>5. OwnRows(h)'
    <2>1. \A r \in own : r.chat = c /\ r.at <= serial /\ r.at > through[r.chat]
      BY <1>1, <1>2 DEF OwnRows
    <2>2. Numbered(own)
      BY <1>1, <1>2 DEF OwnRows
    <2>3. own # {} => Before(Stored(c, {}), own) /\ NoRepeats(Stored(c, own))
      BY <1>1, <1>2 DEF OwnRows
    <2>4. QED
      BY <1>2, <1>3, <1>4, <2>1, <2>2, <2>3 DEF OwnRows, QuietTables, Numbered, Before, NoRepeats, Rank
  <1>6. Progress(h)'
    <2>1. /\ Range(msgs) \subseteq Range(tx[h].todo) \cup Texts(Stored(c, own))
          /\ Range(tx[h].todo) \cup Texts(own) \subseteq Range(msgs)
      BY <1>1, <1>2 DEF Progress
    <2>2. tx[h].pc \in {"begun", "locked"} => tx[h].todo = msgs /\ own = {}
      BY <1>1, <1>2 DEF Progress
    <2>3. QED
      BY <1>2, <1>3, <1>4, <2>1, <2>2 DEF Progress, RowsKept, Texts
  <1>7. QED
    BY <1>5, <1>6

\* The statement of a running ingest transaction finds its request as it began.
LEMMA AtWork ==
    ASSUME IInv, NEW h \in Ingesters, ~At(h, "idle")
    PROVE  /\ h \in Tx /\ h \notin Sweepers /\ tx[h] \in Running
           /\ Request(h) = tx[h].req /\ Chat(h) = Request(h).chat /\ Chat(h) \in SlackChats
           /\ Chat(h) \notin fenced
           /\ IngestHolds(h) /\ OwnRows(h) /\ Progress(h) /\ OwnCut(h)
           /\ serial \in Nat /\ serial \in 0..MaxSerial
  <1>1. tx[h] \in Running /\ Request(h) \in Requests
    BY RunningFacts DEF IInv, Types
  <1>2. Chat(h) \in SlackChats
    BY <1>1, RequestFacts DEF Chat
  <1>3. IngestHolds(h) /\ OwnRows(h) /\ Progress(h) /\ OwnCut(h)
    BY DEF IInv, IngestInv
  <1>4. serial \in Nat /\ serial \in 0..MaxSerial
    BY BoundsAssumption DEF IInv, Types, TableTypes
  <1>5. QED
    BY <1>1, <1>2, <1>3, <1>4, TxAssumption DEF Tx, Request, Chat, IngestHolds

LEMMA AtWorkQuiet ==
    ASSUME IInv, NEW h \in Ingesters, ~At(h, "idle"), NEW v, Fits(h, v), tx' = [tx EXCEPT ![h] = v],
           QuietTables /\ serial' = serial, LockTypes' /\ LocksOfOthersStay(h) /\ Exclusive'
    PROVE  Quiet(h, v) /\ tx'[h] = v
  <1>1. h \in Tx /\ serial \in Nat /\ serial \in 0..MaxSerial
    BY AtWork
  <1>2. TxTypes
    BY DEF IInv, Types
  <1>3. tx'[h] = v
    BY <1>1, <1>2, TxStep
  <1>4. QED
    BY <1>1, <1>3 DEF Quiet

LEMMA LockThreadKeeps ==
    ASSUME IInv, NEW h \in Ingesters, LockThread(h)
    PROVE  IInv'
  <1>1. ~At(h, "idle") /\ tx[h].pc = "begun"
    BY DEF LockThread, At
  <1>2. PICK c \in SlackChats : c = Chat(h) /\ c = Request(h).chat
    BY <1>1, AtWork
  <1>3. PICK v : v = [tx[h] EXCEPT !.pc = "locked"]
    OBVIOUS
  <1>4. tx' = [tx EXCEPT ![h] = v]
    BY <1>3 DEF LockThread
  <1>5. /\ v \in Running /\ v.pc = "locked" /\ v.req = tx[h].req /\ v.todo = tx[h].todo
        /\ v.own = tx[h].own /\ v.cut = tx[h].cut
    BY <1>1, <1>3, AtWork DEF Running
  <1>6. Fits(h, v)
    BY <1>1, <1>5, AtWork DEF Fits
  <1>7. QuietTables /\ serial' = serial /\ UNCHANGED <<runRow, keyShare, chatRow>>
        /\ advisory[c] = NoTx /\ advisory' = [advisory EXCEPT ![c] = h]
    BY <1>2 DEF LockThread, QuietTables, tables
  <1>8. LockTypes' /\ LocksOfOthersStay(h) /\ Exclusive'
    BY <1>7, TxAssumption DEF IInv, Types, LockTypes, LocksOfOthersStay, Exclusive, Tx
  <1>9. Quiet(h, v) /\ tx'[h] = v
    BY <1>1, <1>4, <1>6, <1>7, <1>8, AtWorkQuiet
  <1>10. RowsKept(h)
    BY <1>1, <1>5, <1>9 DEF RowsKept
  <1>11. OwnRows(h)' /\ Progress(h)'
    BY <1>1, <1>7, <1>10, RowsKeptFacts
  <1>12. Chat(h)' = c /\ Request(h)' = Request(h)
    BY <1>2, <1>5, <1>9 DEF Chat, Request
  <1>13. IngestHolds(h)'
    <2>1. advisory'[c] = h
      BY <1>7 DEF IInv, Types, LockTypes
    <2>2. c \notin fenced /\ tx[h].own = {}
      BY <1>1, <1>2, AtWork DEF Progress
    <2>3. QED
      BY <1>5, <1>7, <1>9, <1>12, <2>1, <2>2 DEF IngestHolds, Started, At, QuietTables
  <1>14. OwnCut(h)'
    BY <1>1, <1>5, <1>9, <1>12, AtWork DEF OwnCut, At
  <1>15. IngestInv(h)'
    BY <1>11, <1>13, <1>14 DEF IngestInv
  <1>16. QED
    BY <1>1, <1>9, <1>15, AtWork, QuietStep

LEMMA OpenRunKeeps ==
    ASSUME IInv, NEW h \in Ingesters, OpenRun(h)
    PROVE  IInv'
  <1>1. ~At(h, "idle") /\ tx[h].pc = "locked"
    BY DEF OpenRun, At
  <1>2. PICK c \in SlackChats : c = Chat(h) /\ c = Request(h).chat
    BY <1>1, AtWork
  <1>3. PICK v : v = [tx[h] EXCEPT !.pc = "storing"]
    OBVIOUS
  <1>4. tx' = [tx EXCEPT ![h] = v]
    BY <1>3 DEF OpenRun
  <1>5. /\ v \in Running /\ v.pc = "storing" /\ v.req = tx[h].req /\ v.todo = tx[h].todo
        /\ v.own = tx[h].own /\ v.cut = tx[h].cut
    BY <1>1, <1>3, AtWork DEF Running
  <1>6. Fits(h, v)
    BY <1>1, <1>5, AtWork DEF Fits
  <1>7. QuietTables /\ serial' = serial /\ UNCHANGED <<advisory, chatRow>>
    BY DEF OpenRun, QuietTables, tables
  <1>8. \/ UNCHANGED keyShare /\ runRow' = [runRow EXCEPT ![c] = h]
        \/ /\ UNCHANGED runRow /\ chatRow[c] \notin Sweepers
           /\ keyShare' = [keyShare EXCEPT ![c] = keyShare[c] \cup {h}]
    BY <1>2 DEF OpenRun
  <1>9. LockTypes' /\ LocksOfOthersStay(h) /\ Exclusive'
    BY <1>7, <1>8, TxAssumption DEF IInv, Types, LockTypes, LocksOfOthersStay, Exclusive, Tx
  <1>10. Quiet(h, v) /\ tx'[h] = v
    BY <1>1, <1>4, <1>6, <1>7, <1>9, AtWorkQuiet
  <1>11. RowsKept(h)
    BY <1>1, <1>5, <1>10 DEF RowsKept
  <1>12. OwnRows(h)' /\ Progress(h)'
    BY <1>1, <1>7, <1>11, RowsKeptFacts
  <1>13. Chat(h)' = c /\ Request(h)' = Request(h)
    BY <1>2, <1>5, <1>10 DEF Chat, Request
  <1>14. IngestHolds(h)'
    <2>1. advisory'[c] = h /\ c \notin fenced /\ tx[h].own = {}
      BY <1>1, <1>2, <1>7, AtWork DEF Progress, IngestHolds, Started
    <2>2. QED
      BY <1>5, <1>7, <1>10, <1>13, <2>1 DEF IngestHolds, Started, At, QuietTables
  <1>15. OwnCut(h)'
    BY <1>1, <1>5, <1>10, <1>13, AtWork DEF OwnCut, At
  <1>16. IngestInv(h)'
    BY <1>12, <1>14, <1>15 DEF IngestInv
  <1>17. QED
    BY <1>1, <1>10, <1>16, AtWork, QuietStep

LEMMA TouchKeeps ==
    ASSUME IInv, NEW h \in Ingesters, Touch(h)
    PROVE  IInv'
  <1>1. ~At(h, "idle") /\ tx[h].pc = "storing" /\ tx[h].todo = << >>
    BY DEF Touch, At
  <1>2. PICK c \in SlackChats : c = Chat(h) /\ c = Request(h).chat
    BY <1>1, AtWork
  <1>3. PICK pc : pc = IF Request(h).finished THEN "queueing" ELSE "done"
    OBVIOUS
  <1>4. PICK v : v = [tx[h] EXCEPT !.pc = pc]
    OBVIOUS
  <1>5. tx' = [tx EXCEPT ![h] = v]
    BY <1>3, <1>4 DEF Touch
  <1>6. /\ v \in Running /\ v.pc = pc /\ v.req = tx[h].req /\ v.todo = tx[h].todo
        /\ v.own = tx[h].own /\ v.cut = tx[h].cut
    BY <1>1, <1>3, <1>4, AtWork DEF Running
  <1>7. Fits(h, v)
    BY <1>1, <1>6, AtWork DEF Fits
  <1>8. /\ QuietTables /\ serial' = serial /\ UNCHANGED <<advisory, runRow, keyShare>>
        /\ chatRow[c] \in {NoTx, h} /\ chatRow' = [chatRow EXCEPT ![c] = h]
    BY <1>2 DEF Touch, QuietTables, tables, Free
  <1>9. h \in Tx /\ h \notin Sweepers
    BY <1>1, AtWork
  <1>10. LockTypes' /\ LocksOfOthersStay(h) /\ Exclusive'
    BY <1>8, <1>9, TxAssumption DEF IInv, Types, LockTypes, LocksOfOthersStay, Exclusive
  <1>11. Quiet(h, v) /\ tx'[h] = v
    BY <1>1, <1>5, <1>7, <1>8, <1>10, AtWorkQuiet
  <1>12. RowsKept(h)
    BY <1>1, <1>3, <1>6, <1>11 DEF RowsKept
  <1>13. OwnRows(h)' /\ Progress(h)'
    BY <1>1, <1>8, <1>12, RowsKeptFacts
  <1>14. Chat(h)' = c /\ Request(h)' = Request(h)
    BY <1>2, <1>6, <1>11 DEF Chat, Request
  <1>15. IngestHolds(h)'
    <2>1. /\ advisory'[c] = h /\ c \notin fenced
          /\ tx[h].own # {} => h \in keyShare'[c]
      BY <1>1, <1>2, <1>8, AtWork DEF IngestHolds, Started
    <2>2. chatRow'[c] = h
      BY <1>8 DEF IInv, Types, LockTypes
    <2>3. QED
      BY <1>6, <1>8, <1>11, <1>14, <2>1, <2>2 DEF IngestHolds, Started, At, QuietTables
  <1>16. OwnCut(h)'
    <2>1. tx[h].cut = {}
      BY <1>1, AtWork DEF OwnCut
    <2>2. QED
      BY <1>3, <1>6, <1>11, <1>14, <2>1 DEF OwnCut, At
  <1>17. IngestInv(h)'
    BY <1>13, <1>15, <1>16 DEF IngestInv
  <1>18. QED
    BY <1>9, <1>11, <1>17, QuietStep

-----------------------------------------------------------------------------
(* The window a transaction cuts                                           *)

IsWindow(W, S, c, lo, fate) ==
    \E f, l \in S :
        /\ W = {[chat |-> c, first |-> f.at, last |-> l.at, fate |-> fate]}
        /\ f.at > lo /\ f.at <= l.at /\ \A r \in S : r.at <= l.at
        /\ Rank(S, f.at) = Rank(S, lo) + 1 /\ Rank(S, l.at) = Cardinality(S)

\* queue_next_window: from the first message beyond the cursor to the last one.
LEMMA NextWindowFacts ==
    ASSUME NEW c, NEW own, NEW owned, NEW S, S = Stored(c, own), Numbered(S), through[c] \in Nat
    PROVE  \/ /\ NextWindow(c, own, owned) = {} /\ Unqueued(c, own) = {}
              /\ Rank(S, through[c]) = Cardinality(S) /\ \A r \in S : r.at <= through[c]
           \/ /\ IsWindow(NextWindow(c, own, owned), S, c, through[c], WindowFate(Unqueued(c, own), owned))
              /\ Unqueued(c, own) # {} /\ Rank(S, through[c]) < Cardinality(S)
  <1> DEFINE seen == Unqueued(c, own)
             at == {r.at : r \in seen}
  <1>1. seen = {r \in S : r.at > through[c]} /\ \A r \in S : r.at \in Nat
    BY DEF Unqueued, Numbered
  <1>2. CASE seen = {}
    <2>1. \A r \in S : r.at <= through[c]
      BY <1>1, <1>2
    <2>2. UpTo(S, through[c]) = S
      BY <2>1 DEF UpTo
    <2>3. Rank(S, through[c]) = Cardinality(S)
      BY <2>2, UpToIsFinite DEF Numbered
    <2>4. NextWindow(c, own, owned) = {}
      BY <1>2 DEF NextWindow
    <2>5. QED
      BY <1>2, <2>1, <2>3, <2>4
  <1>3. CASE seen # {}
    <2>1. PICK x \in S : x.at > through[c]
      BY <1>1, <1>3
    <2>2. PICK f \in S : /\ f.at > through[c] /\ Rank(S, f.at) = Rank(S, through[c]) + 1
                         /\ \A r \in S : r.at > through[c] => f.at <= r.at
      BY <2>1, Beyond
    <2>3. PICK l \in S : l.at > through[c] /\ Rank(S, l.at) = Cardinality(S) /\ \A r \in S : r.at <= l.at
      BY <2>1, Beyond
    <2>4. /\ f.at \in at /\ l.at \in at /\ \A y \in at : y \in Nat
          /\ \A y \in at : f.at <= y /\ y <= l.at
      BY <1>1, <2>2, <2>3
    <2> HIDE DEF at
    <2>5. Min(at) = f.at /\ Max(at) = l.at
      BY <2>4 DEF Min, Max
    <2>6. NextWindow(c, own, owned) = {[chat |-> c, first |-> f.at, last |-> l.at,
                                       fate |-> WindowFate(seen, owned)]}
      BY <1>3, <2>5 DEF NextWindow, at
    <2>7. f.at <= l.at
      BY <2>3
    <2>8. Rank(S, through[c]) < Cardinality(S)
      BY <2>2, RankFacts
    <2>9. QED
      BY <1>3, <2>2, <2>3, <2>6, <2>7, <2>8 DEF IsWindow
  <1>4. QED
    BY <1>2, <1>3

\* The rows an ingest transaction sees: the committed ones, and its own after them.
LEMMA SeenFacts ==
    ASSUME IInv, NEW h \in Ingesters, ~At(h, "idle")
    PROVE  /\ Stored(Chat(h), tx[h].own) = Stored(Chat(h), {}) \cup tx[h].own
           /\ Numbered(Stored(Chat(h), {})) /\ Numbered(tx[h].own)
           /\ Before(Stored(Chat(h), {}), tx[h].own)
           /\ Numbered(Stored(Chat(h), tx[h].own)) /\ NoRepeats(Stored(Chat(h), tx[h].own))
           /\ Stored(Chat(h), tx[h].own) \subseteq Row
           /\ through[Chat(h)] \in Nat
  <1>1. OwnRows(h) /\ Chat(h) \in SlackChats /\ tx[h] \in Running
    BY AtWork
  <1>2. Stored(Chat(h), tx[h].own) = Stored(Chat(h), {}) \cup tx[h].own
    BY <1>1 DEF OwnRows, Stored
  <1>3. Numbered(Stored(Chat(h), {})) /\ NoRepeats(Stored(Chat(h), {})) /\ Numbered(tx[h].own)
    BY <1>1 DEF IInv, Visible, OwnRows
  <1>4. Before(Stored(Chat(h), {}), tx[h].own)
    <2>1. CASE tx[h].own = {}
      BY <2>1 DEF Before
    <2>2. CASE tx[h].own # {}
      BY <1>1, <2>2 DEF OwnRows
    <2>3. QED
      BY <2>1, <2>2
  <1>5. NoRepeats(Stored(Chat(h), tx[h].own))
    BY <1>1, <1>3 DEF OwnRows
  <1>6. Stored(Chat(h), tx[h].own) \subseteq Row
    BY <1>1 DEF Stored, IInv, Types, TableTypes, Running
  <1>7. through[Chat(h)] \in Nat
    BY <1>1, BoundsAssumption DEF IInv, Types, TableTypes
  <1>8. Numbered(Stored(Chat(h), {}) \cup tx[h].own)
    BY <1>3, <1>4, RankOfUnion
  <1>9. QED
    BY <1>2, <1>3, <1>4, <1>5, <1>6, <1>7, <1>8

LEMMA WindowIsInterval ==
    ASSUME NEW c \in SlackChats, NEW own, NEW owned, Stored(c, own) \subseteq Row,
           Numbered(Stored(c, own)), through[c] \in Nat
    PROVE  NextWindow(c, own, owned) \subseteq Interval
  <1>1. CASE NextWindow(c, own, owned) = {}
    BY <1>1
  <1>2. CASE NextWindow(c, own, owned) # {}
    <2>1. IsWindow(NextWindow(c, own, owned), Stored(c, own), c, through[c],
                   WindowFate(Unqueued(c, own), owned))
      BY <1>2, NextWindowFacts
    <2>2. WindowFate(Unqueued(c, own), owned) \in {"queued", "skipped"}
      BY DEF WindowFate
    <2>3. QED
      BY <2>1, <2>2 DEF IsWindow, Interval, Row
  <1>3. QED
    BY <1>1, <1>2

LEMMA QueueWindowKeeps ==
    ASSUME IInv, NEW h \in Ingesters, QueueWindow(h)
    PROVE  IInv'
  <1>1. ~At(h, "idle") /\ tx[h].pc = "queueing" /\ At(h, "queueing")
    BY DEF QueueWindow, At
  <1>2. PICK c \in SlackChats : c = Chat(h) /\ c = Request(h).chat
    BY <1>1, AtWork
  <1>3. PICK own, owned, cut : /\ own = tx[h].own /\ owned = Request(h).owned
                               /\ cut = NextWindow(c, own, owned)
    OBVIOUS
  <1>4. PICK v : v = [tx[h] EXCEPT !.pc = "done", !.cut = cut]
    OBVIOUS
  <1>5. tx' = [tx EXCEPT ![h] = v]
    BY <1>2, <1>3, <1>4 DEF QueueWindow
  <1>6. cut \subseteq Interval
    BY <1>1, <1>2, <1>3, SeenFacts, WindowIsInterval
  <1>7. /\ v \in Running /\ v.pc = "done" /\ v.req = tx[h].req /\ v.todo = tx[h].todo
        /\ v.own = tx[h].own /\ v.cut = cut
    BY <1>1, <1>4, <1>6, AtWork DEF Running
  <1>8. Fits(h, v)
    BY <1>1, <1>7, AtWork DEF Fits
  <1>9. QuietTables /\ serial' = serial /\ UNCHANGED <<advisory, runRow, keyShare, chatRow>>
    BY DEF QueueWindow, QuietTables, tables, locks
  <1>10. LockTypes' /\ LocksOfOthersStay(h) /\ Exclusive'
    BY <1>9 DEF IInv, Types, LockTypes, LocksOfOthersStay, Exclusive
  <1>11. Quiet(h, v) /\ tx'[h] = v
    BY <1>1, <1>5, <1>8, <1>9, <1>10, AtWorkQuiet
  <1>12. RowsKept(h)
    BY <1>1, <1>7, <1>11, AtWork DEF RowsKept, Progress
  <1>13. OwnRows(h)' /\ Progress(h)'
    BY <1>1, <1>9, <1>12, RowsKeptFacts
  <1>14. Chat(h)' = c /\ Request(h)' = Request(h)
    BY <1>2, <1>7, <1>11 DEF Chat, Request
  <1>15. IngestHolds(h)'
    <2>1. /\ advisory'[c] = h /\ c \notin fenced /\ chatRow'[c] = h
          /\ tx[h].own # {} => h \in keyShare'[c]
      BY <1>1, <1>2, <1>9, AtWork DEF IngestHolds, Started
    <2>2. QED
      BY <1>7, <1>9, <1>11, <1>14, <2>1 DEF IngestHolds, Started, At, QuietTables
  <1>16. OwnCut(h)'
    <2>1. Request(h).finished
      BY <1>1, AtWork DEF OwnCut
    <2>2. cut = NextWindow(c, own, owned)'
      BY <1>3, <1>9 DEF NextWindow, Unqueued, Stored, QuietTables
    <2>3. NextWindow(Chat(h), tx[h].own, Request(h).owned)' = NextWindow(c, own, owned)'
      BY <1>3, <1>7, <1>11, <1>14 DEF NextWindow, Unqueued, Stored
    <2>4. QED
      BY <1>7, <1>11, <1>14, <2>1, <2>2, <2>3 DEF OwnCut, At
  <1>17. IngestInv(h)'
    BY <1>13, <1>15, <1>16 DEF IngestInv
  <1>18. QED
    BY <1>1, <1>11, <1>17, AtWork, QuietStep

-----------------------------------------------------------------------------
(* Storing a message                                                       *)

LEMMA RangeOfTail ==
    ASSUME NEW X, NEW s \in Seq(X), s # << >>
    PROVE  /\ Head(s) \in X /\ Tail(s) \in Seq(X)
           /\ Range(s) = {Head(s)} \cup Range(Tail(s))
  <1>1. Head(s) \in X /\ Tail(s) \in Seq(X) /\ Len(s) \in Nat /\ Len(s) >= 1
    BY HeadTailProperties, EmptySeq, LenProperties
  <1>2. DOMAIN s = 1..Len(s) /\ DOMAIN Tail(s) = 1..Len(Tail(s)) /\ Len(Tail(s)) = Len(s) - 1
    BY <1>1, HeadTailProperties, LenProperties
  <1>3. \A i \in 1..Len(Tail(s)) : Tail(s)[i] = s[i+1]
    BY <1>1, HeadTailProperties
  <1>4. Head(s) = s[1]
    BY <1>1
  <1>5. ASSUME NEW i \in 1..Len(s)
        PROVE  s[i] \in {Head(s)} \cup Range(Tail(s))
    <2>1. CASE i = 1
      BY <1>4, <2>1
    <2>2. CASE i # 1
      <3>1. i - 1 \in 1..Len(Tail(s)) /\ (i - 1) + 1 = i
        BY <1>1, <1>2, <2>2
      <3>2. Tail(s)[i - 1] = s[i]
        BY <1>3, <3>1
      <3>3. QED
        BY <1>2, <3>1, <3>2 DEF Range
    <2>3. QED
      BY <2>1, <2>2
  <1>6. ASSUME NEW i \in 1..Len(Tail(s))
        PROVE  Tail(s)[i] \in Range(s)
    <2>1. i + 1 \in 1..Len(s)
      BY <1>1, <1>2
    <2>2. QED
      BY <1>2, <1>3, <2>1 DEF Range
  <1>7. Head(s) \in Range(s)
    BY <1>1, <1>2, <1>4 DEF Range
  <1>8. QED
    BY <1>1, <1>2, <1>5, <1>6, <1>7 DEF Range

LEMMA StoreKeeps ==
    ASSUME IInv, NEW h \in Ingesters, Store(h)
    PROVE  IInv'
  <1>1. ~At(h, "idle") /\ tx[h].pc = "storing" /\ tx[h].todo # << >>
    BY DEF Store, At
  <1>2. PICK c \in SlackChats : c = Chat(h) /\ c = Request(h).chat
    BY <1>1, AtWork
  <1>3. PICK m, todo, own, msgs : /\ m = Head(tx[h].todo) /\ todo = Tail(tx[h].todo)
                                  /\ own = tx[h].own /\ msgs = Request(h).msgs
    OBVIOUS
  <1>4. m \in Messages /\ todo \in Seq(Messages) /\ Range(tx[h].todo) = {m} \cup Range(todo)
    BY <1>1, <1>3, AtWork, RangeOfTail DEF Running
  <1>5. /\ OwnRows(h) /\ Progress(h) /\ OwnCut(h) /\ IngestHolds(h)
        /\ serial \in Nat /\ h \in Tx /\ h \notin Sweepers /\ c \notin fenced
    BY <1>1, <1>2, AtWork
  <1>6. PICK new : new = [chat |-> c, msg |-> m, at |-> serial + 1]
    OBVIOUS
  <1>7. QuietTables /\ UNCHANGED <<advisory, runRow, chatRow>> /\ chatRow[c] \notin Sweepers
    BY <1>2 DEF Store, QuietTables
  <1>8. PICK own1 : own1 = tx'[h].own
    OBVIOUS
  <1>9. PICK v : v = [tx[h] EXCEPT !.todo = todo, !.own = own1]
    OBVIOUS
  <1>10. \/ /\ \E r \in Stored(c, own) : r.msg = m
            /\ own1 = own /\ serial' = serial /\ keyShare' = keyShare
            /\ tx' = [tx EXCEPT ![h] = v] /\ own1 \subseteq Row
         \/ /\ ~\E r \in Stored(c, own) : r.msg = m
            /\ own1 = own \cup {new} /\ serial < MaxSerial /\ serial' = serial + 1
            /\ keyShare' = [keyShare EXCEPT ![c] = keyShare[c] \cup {h}]
            /\ tx' = [tx EXCEPT ![h] = v] /\ own1 \subseteq Row
    <2>1. tx[h] \in Running /\ own \subseteq Row
      BY <1>1, <1>3, AtWork DEF Running
    <2>2. tx = [t \in Tx |-> tx[t]]
      BY DEF IInv, Types, TxTypes
    <2>3. CASE \E r \in Stored(c, own) : r.msg = m
      <3>1. tx' = [tx EXCEPT ![h].todo = todo] /\ serial' = serial /\ keyShare' = keyShare
        BY <1>2, <1>3, <2>3 DEF Store
      <3>2. tx'[h] = [tx[h] EXCEPT !.todo = todo]
        BY <1>5, <2>2, <3>1
      <3>3. own1 = own
        BY <1>3, <1>8, <2>1, <3>2 DEF Running
      <3>4. v = [tx[h] EXCEPT !.todo = todo]
        BY <1>3, <1>9, <2>1, <3>3 DEF Running
      <3>5. tx' = [tx EXCEPT ![h] = v]
        BY <3>1, <3>4
      <3>6. QED
        BY <2>1, <2>3, <3>1, <3>3, <3>5
    <2>4. CASE ~\E r \in Stored(c, own) : r.msg = m
      <3>1. /\ tx' = [tx EXCEPT ![h].todo = todo, ![h].own = @ \cup {new}] /\ serial' = serial + 1
            /\ serial < MaxSerial /\ keyShare' = [keyShare EXCEPT ![c] = keyShare[c] \cup {h}]
        BY <1>2, <1>3, <1>6, <2>4 DEF Store
      <3>2. tx'[h] = [tx[h] EXCEPT !.todo = todo, !.own = own \cup {new}]
        BY <1>3, <1>5, <2>1, <2>2, <3>1 DEF Running
      <3>3. own1 = own \cup {new}
        BY <1>8, <2>1, <3>2 DEF Running
      <3>4. tx' = [tx EXCEPT ![h] = v]
        BY <1>3, <1>5, <1>9, <2>1, <2>2, <3>1, <3>3 DEF Running
      <3>5. new \in Row
        BY <1>4, <1>5, <1>6, <3>1, BoundsAssumption DEF Row
      <3>6. QED
        BY <2>1, <2>4, <3>1, <3>3, <3>4, <3>5
    <2>5. QED
      BY <2>3, <2>4
  <1>11. /\ v \in Running /\ v.pc = "storing" /\ v.req = tx[h].req /\ v.todo = todo
         /\ v.own = own1 /\ v.cut = tx[h].cut
    BY <1>1, <1>4, <1>9, <1>10, AtWork DEF Running
  <1>12. Fits(h, v)
    BY <1>5, <1>11 DEF Fits
  <1>13. tx' = [tx EXCEPT ![h] = v] /\ TxTypes
    BY <1>10 DEF IInv, Types
  <1>14. tx'[h] = v
    BY <1>5, <1>12, <1>13, TxStep
  <1>15. serial' \in 0..MaxSerial /\ serial <= serial' /\ serial' \in Nat
    BY <1>5, <1>10, BoundsAssumption DEF IInv, Types, TableTypes
  <1>16. LockTypes' /\ LocksOfOthersStay(h) /\ Exclusive'
    BY <1>7, <1>10, TxAssumption DEF IInv, Types, LockTypes, LocksOfOthersStay, Exclusive, Tx
  <1>17. Quiet(h, v)
    BY <1>7, <1>12, <1>13, <1>15, <1>16 DEF Quiet
  <1>18. Chat(h)' = c /\ Request(h)' = Request(h)
    BY <1>2, <1>11, <1>14 DEF Chat, Request
  <1>19. IngestHolds(h)'
    <2>1. advisory'[c] = h
      BY <1>1, <1>2, <1>5, <1>7 DEF IngestHolds, Started
    <2>2. own1 # {} => h \in keyShare'[c]
      BY <1>2, <1>3, <1>5, <1>10 DEF IngestHolds, IInv, Types, LockTypes
    <2>3. QED
      BY <1>5, <1>7, <1>11, <1>14, <1>18, <2>1, <2>2 DEF IngestHolds, Started, At, QuietTables
  <1>20. OwnCut(h)'
    BY <1>1, <1>5, <1>11, <1>14 DEF OwnCut, At
  <1>21. /\ Stored(c, {})' = Stored(c, {}) /\ Stored(c, own1)' = Stored(c, own1)
         /\ Stored(Chat(h), {})' = Stored(c, {})' /\ Stored(Chat(h), tx[h].own)' = Stored(c, own1)'
    BY <1>7, <1>8, <1>18 DEF Stored, QuietTables
  <1>22. /\ \A r \in own1 : r.chat = c /\ r.at <= serial' /\ r.at > through[r.chat]
         /\ Numbered(own1) /\ Before(Stored(c, {}), own1) /\ NoRepeats(Stored(c, own1))
    <2>1. /\ \A r \in own : r.chat = c /\ r.at <= serial /\ r.at > through[r.chat] /\ r.at \in Nat
          /\ Numbered(own) /\ Before(Stored(c, {}), own) /\ NoRepeats(Stored(c, own))
      BY <1>1, <1>2, <1>3, <1>5, SeenFacts DEF OwnRows, Numbered
    <2>2. CASE own1 = own
      BY <1>5, <1>15, <2>1, <2>2
    <2>3. CASE own1 = own \cup {new} /\ serial' = serial + 1 /\ ~\E r \in Stored(c, own) : r.msg = m
      <3>1. new.at = serial + 1 /\ new.at \in Nat /\ new.chat = c /\ new.msg = m
        BY <1>5, <1>6
      <3>2. \A r \in own : r.at < new.at
        BY <1>5, <2>1, <3>1
      <3>3. Numbered(own1)
        BY <2>1, <2>3, <3>1, <3>2, NumberedAdd
      <3>4. through[c] \in Nat /\ through[c] <= serial
        BY <1>5 DEF IInv, Types, TableTypes
      <3>5. \A r \in own1 : r.chat = c /\ r.at <= serial' /\ r.at > through[r.chat]
        BY <1>5, <2>1, <2>3, <3>1, <3>4
      <3>6. \A q \in Stored(c, {}) : q.at \in Nat /\ q.at <= serial
        <4>1. Stored(c, {}) \subseteq rows /\ Numbered(Stored(c, {}))
          BY DEF Stored, IInv, Visible
        <4>2. QED
          BY <4>1 DEF IInv, Visible, Numbered
      <3>7. Before(Stored(c, {}), own1)
        BY <1>5, <2>1, <2>3, <3>1, <3>6 DEF Before
      <3>8. Stored(c, own1) = Stored(c, own) \cup {new}
        BY <2>3, <3>1 DEF Stored
      <3>9. NoRepeats(Stored(c, own1))
        BY <2>1, <2>3, <3>1, <3>8 DEF NoRepeats
      <3>10. QED
        BY <3>3, <3>5, <3>7, <3>9
    <2>4. QED
      BY <1>10, <2>2, <2>3
  <1>23. OwnRows(h)'
    BY <1>7, <1>8, <1>18, <1>21, <1>22 DEF OwnRows, QuietTables, Numbered, Before, NoRepeats, Rank
  <1>24. Progress(h)'
    <2>1. /\ Range(msgs) \subseteq {m} \cup Range(todo) \cup Texts(Stored(c, own))
          /\ {m} \cup Range(todo) \cup Texts(own) \subseteq Range(msgs)
      BY <1>1, <1>2, <1>3, <1>4, <1>5 DEF Progress
    <2>2. /\ Texts(Stored(c, own)) \cup {m} \subseteq Texts(Stored(c, own1))
          /\ Texts(own1) \subseteq Texts(own) \cup {m}
      <3>1. CASE own1 = own /\ \E r \in Stored(c, own) : r.msg = m
        BY <3>1 DEF Texts
      <3>2. CASE own1 = own \cup {new}
        <4>1. Stored(c, own1) = Stored(c, own) \cup {new} /\ new.msg = m
          BY <1>6, <3>2 DEF Stored
        <4>2. QED
          BY <3>2, <4>1 DEF Texts
      <3>3. QED
        BY <1>10, <3>1, <3>2
    <2>3. /\ Range(msgs) \subseteq Range(todo) \cup Texts(Stored(c, own1))
          /\ Range(todo) \cup Texts(own1) \subseteq Range(msgs)
      BY <2>1, <2>2
    <2>4. Request(h)'.msgs = msgs /\ tx'[h].todo = todo /\ tx'[h].pc = "storing"
      BY <1>3, <1>11, <1>14, <1>18
    <2>5. QED
      BY <1>8, <1>21, <2>3, <2>4 DEF Progress, Texts
  <1>25. IngestInv(h)'
    BY <1>19, <1>20, <1>23, <1>24 DEF IngestInv
  <1>26. QED
    BY <1>5, <1>17, <1>25, QuietStep

-----------------------------------------------------------------------------
(* Ends of transactions                                                    *)

LEMMA ReleaseFacts ==
    ASSUME IInv, NEW t \in Tx, Release(t)
    PROVE  /\ Fits(t, Idle) /\ tx' = [tx EXCEPT ![t] = Idle]
           /\ TxTypes' /\ tx'[t] = Idle /\ \A s \in Tx \ {t} : tx'[s] = tx[s]
           /\ LockTypes' /\ LocksOfOthersStay(t) /\ Exclusive'
           /\ IngestInv(t)' /\ SweepHolds(t)'
  <1>1. Fits(t, Idle) /\ tx' = [tx EXCEPT ![t] = Idle]
    BY DEF Fits, Release
  <1>2. TxTypes
    BY DEF IInv, Types
  <1>3. TxTypes' /\ tx'[t] = Idle /\ \A s \in Tx \ {t} : tx'[s] = tx[s]
    BY <1>1, <1>2, TxStep
  <1>4. LockTypes' /\ LocksOfOthersStay(t)
    BY DEF Release, LocksOfOthersStay, IInv, Types, LockTypes
  <1>5. Exclusive'
    <2>1. ASSUME NEW c \in SlackChats, chatRow'[c] \in Sweepers
          PROVE  keyShare'[c] = {}
      <3>1. chatRow'[c] = chatRow[c]
        BY <2>1, TxAssumption DEF Release, Tx
      <3>2. keyShare[c] = {} /\ keyShare'[c] = keyShare[c] \ {t}
        BY <2>1, <3>1 DEF IInv, Exclusive, Release
      <3>3. QED
        BY <3>2
    <2>2. QED
      BY <2>1 DEF Exclusive
  <1>6. tx'[t].pc = "idle" /\ tx'[t].todo = << >> /\ tx'[t].own = {} /\ tx'[t].cut = {}
    BY <1>3 DEF Idle
  <1>7. IngestInv(t)'
    BY <1>6, NumberedEmpty DEF IngestInv, IngestHolds, OwnRows, Progress, OwnCut, Started, At
  <1>8. SweepHolds(t)'
    BY <1>6 DEF SweepHolds
  <1>9. QED
    BY <1>1, <1>3, <1>4, <1>5, <1>7, <1>8

LEMMA AbortKeeps ==
    ASSUME IInv, NEW t \in Tx, Abort(t)
    PROVE  IInv'
  <1>1. Release(t) /\ QuietTables /\ serial' = serial
    BY DEF Abort, tables, QuietTables
  <1>2. serial \in 0..MaxSerial /\ serial \in Nat
    BY BoundsAssumption DEF IInv, Types, TableTypes
  <1>3. Quiet(t, Idle) /\ IngestInv(t)' /\ SweepHolds(t)'
    BY <1>1, <1>2, ReleaseFacts DEF Quiet
  <1>4. QED
    BY <1>3, QuietStep

\* Where a commit leaves the cursor.
LEMMA CursorAfterFacts ==
    ASSUME NEW new, NEW c \in SlackChats, through[c] \in Nat
    PROVE  /\ (\A v \in new : v.chat # c) => CursorAfter(new)[c] = through[c]
           /\ \A v \in new : v.chat = c /\ v.last \in Nat /\ v.last >= through[c]
                             /\ (\A u \in new : u.chat = c => u = v)
                  => CursorAfter(new)[c] = v.last
  <1>1. CursorAfter(new)[c] = Max({through[c]} \cup {w.last : w \in {v \in new : v.chat = c}})
    BY DEF CursorAfter
  <1>2. \A n \in Nat : Max({n}) = n
    BY DEF Max
  <1>3. \A n, m \in Nat : m >= n => Max({n} \cup {m}) = m
    BY DEF Max
  <1>4. ASSUME \A v \in new : v.chat # c
        PROVE  CursorAfter(new)[c] = through[c]
    <2>1. {through[c]} \cup {w.last : w \in {v \in new : v.chat = c}} = {through[c]}
      BY <1>4
    <2>2. QED
      BY <1>1, <1>2, <2>1
  <1>5. ASSUME NEW v \in new, v.chat = c, v.last \in Nat, v.last >= through[c],
               \A u \in new : u.chat = c => u = v
        PROVE  CursorAfter(new)[c] = v.last
    <2>1. {w.last : w \in {u \in new : u.chat = c}} = {v.last}
      BY <1>5
    <2>2. QED
      BY <1>1, <1>3, <1>5, <2>1
  <1>6. QED
    BY <1>4, <1>5

LEMMA CommitCut ==
    ASSUME IInv, NEW h \in Ingesters, At(h, "done")
    PROVE  \/ tx[h].cut = {}
           \/ \E v : /\ tx[h].cut = {v} /\ v.chat = Chat(h) /\ v.last \in Nat /\ v.first \in Nat
                     /\ v.first <= v.last /\ v.last > through[Chat(h)] /\ v.last <= serial
                     /\ \A r \in Stored(Chat(h), tx[h].own) : r.at <= v.last
  <1>1. ~At(h, "idle")
    BY DEF At
  <1>2. PICK c, own, owned : c = Chat(h) /\ own = tx[h].own /\ owned = Request(h).owned
    OBVIOUS
  <1>3. tx[h].cut = {} \/ tx[h].cut = NextWindow(c, own, owned)
    BY <1>1, <1>2, AtWork DEF OwnCut
  <1>4. PICK S : S = Stored(c, own)
    OBVIOUS
  <1>5. Numbered(S) /\ through[c] \in Nat /\ \A r \in S : r.at \in Nat
    BY <1>1, <1>2, <1>4, SeenFacts DEF Numbered
  <1>6. \A r \in S : r.at <= serial
    BY <1>1, <1>2, <1>4, AtWork DEF OwnRows, IInv, Visible, Stored
  <1>7. CASE tx[h].cut # {}
    <2>1. IsWindow(tx[h].cut, S, c, through[c], WindowFate(Unqueued(c, own), owned))
      BY <1>3, <1>4, <1>5, <1>7, NextWindowFacts
    <2>2. QED
      BY <1>2, <1>4, <1>5, <1>6, <2>1 DEF IsWindow
  <1>8. QED
    BY <1>7

LEMMA CommitRows ==
    ASSUME IInv, NEW h \in Ingesters, Commit(h), NEW c \in SlackChats, c = Chat(h)
    PROVE  /\ ~At(h, "idle") /\ At(h, "done") /\ Release(h)
           /\ rows' = rows \cup tx[h].own /\ serial' = serial /\ fenced' = fenced
           /\ cuts' = cuts \cup tx[h].cut
           /\ Stored(c, {})' = Stored(c, tx[h].own)
           /\ \A d \in SlackChats : d # c =>
                 Stored(d, {})' = Stored(d, {}) /\ through'[d] = through[d]
           /\ \/ tx[h].cut = {} /\ through'[c] = through[c]
              \/ \E v : tx[h].cut = {v} /\ v.chat = c /\ through'[c] = v.last
  <1>1. ~At(h, "idle") /\ At(h, "done") /\ Release(h)
    BY DEF Commit, At
  <1>2. rows' = rows \cup tx[h].own /\ serial' = serial /\ fenced' = fenced /\ cuts' = cuts \cup tx[h].cut
        /\ through' = CursorAfter(tx[h].cut)
    BY DEF Commit
  <1>3. \A r \in tx[h].own : r.chat = Chat(h)
    BY <1>1, AtWork DEF OwnRows
  <1>5. Stored(c, {})' = Stored(c, tx[h].own)
    BY <1>2 DEF Stored
  <1>6. \A d \in SlackChats : through[d] \in Nat
    BY BoundsAssumption DEF IInv, Types, TableTypes
  <1>7. \/ tx[h].cut = {}
        \/ \E v : tx[h].cut = {v} /\ v.chat = c /\ v.last \in Nat /\ v.last >= through[c]
    BY <1>1, <1>6, CommitCut
  <1>8. ASSUME NEW d \in SlackChats, d # c
        PROVE  Stored(d, {})' = Stored(d, {}) /\ through'[d] = through[d]
    <2>1. Stored(d, {})' = Stored(d, {})
      BY <1>2, <1>3, <1>8 DEF Stored
    <2>2. \A v \in tx[h].cut : v.chat # d
      BY <1>7, <1>8
    <2>3. QED
      BY <1>2, <1>6, <2>1, <2>2, CursorAfterFacts
  <1>9. \/ tx[h].cut = {} /\ through'[c] = through[c]
        \/ \E v : tx[h].cut = {v} /\ v.chat = c /\ through'[c] = v.last
    <2>1. CASE tx[h].cut = {}
      <3>1. \A v \in tx[h].cut : v.chat # c
        BY <2>1
      <3>2. QED
        BY <1>2, <1>6, <2>1, <3>1, CursorAfterFacts
    <2>2. ASSUME NEW v, tx[h].cut = {v} /\ v.chat = c /\ v.last \in Nat /\ v.last >= through[c]
          PROVE  tx[h].cut = {v} /\ v.chat = c /\ through'[c] = v.last
      <3>1. v \in tx[h].cut /\ \A u \in tx[h].cut : u.chat = c => u = v
        BY <2>2
      <3>2. CursorAfter(tx[h].cut)[c] = v.last
        BY <1>6, <2>2, <3>1, CursorAfterFacts
      <3>3. QED
        BY <1>2, <2>2, <3>2
    <2>3. QED
      BY <1>7, <2>1, <2>2
  <1>10. QED
    BY <1>1, <1>2, <1>5, <1>8, <1>9

LEMMA CommitKeeps ==
    ASSUME IInv, NEW h \in Ingesters, Commit(h)
    PROVE  IInv'
  <1>1. ~At(h, "idle") /\ At(h, "done")
    BY DEF Commit, At
  <1>2. PICK c \in SlackChats : c = Chat(h)
    BY <1>1, AtWork
  <1>3. PICK own, cut : own = tx[h].own /\ cut = tx[h].cut
    OBVIOUS
  <1>4. /\ Release(h) /\ rows' = rows \cup own /\ serial' = serial /\ fenced' = fenced /\ cuts' = cuts \cup cut
        /\ Stored(c, {})' = Stored(c, own)
        /\ \A d \in SlackChats : d # c => Stored(d, {})' = Stored(d, {}) /\ through'[d] = through[d]
        /\ \/ cut = {} /\ through'[c] = through[c]
           \/ \E v : cut = {v} /\ v.chat = c /\ through'[c] = v.last
    BY <1>2, <1>3, CommitRows
  <1>5. /\ h \in Tx /\ h \notin Sweepers /\ tx[h] \in Running /\ serial \in Nat
        /\ IngestHolds(h) /\ OwnRows(h)
    BY <1>1, AtWork
  <1>6. /\ TxTypes' /\ LockTypes' /\ Exclusive' /\ IngestInv(h)'
        /\ LocksOfOthersStay(h) /\ \A s \in Tx \ {h} : tx'[s] = tx[s]
    BY <1>4, <1>5, ReleaseFacts
  <1>7. \/ cut = {} /\ through'[c] = through[c]
        \/ \E v : /\ cut = {v} /\ v.chat = c /\ through'[c] = v.last /\ v.last \in Nat /\ v.first \in Nat
                  /\ v.first <= v.last /\ v.last > through[c] /\ v.last <= serial
    BY <1>1, <1>2, <1>3, <1>4, CommitCut
  <1>8. \A d \in SlackChats : through[d] \in Nat /\ through[d] <= serial
    BY <1>5 DEF IInv, Types, TableTypes
  <1>9. \A d \in SlackChats : through'[d] \in Nat /\ through'[d] <= serial /\ through[d] <= through'[d]
    BY <1>4, <1>5, <1>7, <1>8
  <1>10. own \subseteq Row /\ IsFiniteSet(own) /\ cut \subseteq Interval /\ \A r \in own : r.at <= serial
    BY <1>3, <1>5 DEF Running, OwnRows, Numbered
  <1>11. TableTypes'
    <2>1. IsFiniteSet(rows \cup own)
      BY <1>10, FS_Union DEF IInv, Types, TableTypes
    <2>2. through' = [d \in SlackChats |-> through'[d]]
      BY DEF Commit, CursorAfter
    <2>3. \A d \in SlackChats : through'[d] \in 0..serial
      BY <1>5, <1>9
    <2>4. QED
      BY <1>4, <1>10, <2>1, <2>2, <2>3 DEF IInv, Types, TableTypes, Row, Interval
  <1>12. Visible'
    <2>1. \A r \in rows \cup own : r.at <= serial
      BY <1>10 DEF IInv, Visible
    <2>2. ASSUME NEW d \in SlackChats
          PROVE  Numbered(Stored(d, {}))' /\ NoRepeats(Stored(d, {}))'
      <3>1. PICK S : S = Stored(d, {})'
        OBVIOUS
      <3>2. Numbered(S) /\ NoRepeats(S)
        <4>1. CASE d = c
          BY <1>1, <1>2, <1>3, <1>4, <3>1, <4>1, SeenFacts
        <4>2. CASE d # c
          BY <1>4, <3>1, <4>2 DEF IInv, Visible
        <4>3. QED
          BY <4>1, <4>2
      <3>3. QED
        BY <3>1, <3>2 DEF Numbered, NoRepeats, Rank
    <2>3. ASSUME NEW w \in cuts \cup cut
          PROVE  w.first <= w.last /\ w.last <= through'[w.chat]
      <3>1. CASE w \in cuts
        <4>1. w.first <= w.last /\ w.last <= through[w.chat] /\ w.chat \in SlackChats
              /\ w.last \in Nat
          BY <3>1, BoundsAssumption DEF IInv, Visible, Types, TableTypes, Interval
        <4>2. QED
          BY <1>8, <1>9, <4>1
      <3>2. CASE w \in cut
        BY <1>7, <3>2
      <3>3. QED
        BY <3>1, <3>2
    <2>4. QED
      BY <1>4, <2>1, <2>2, <2>3 DEF Visible
  <1>13. Undisturbed(h)
    <2>1. advisory[c] = h /\ chatRow[c] = h
      BY <1>1, <1>2, <1>5 DEF IngestHolds, Started, At
    <2>2. \A s \in Tx \ {h}, d \in SlackChats : advisory[d] = s \/ chatRow[d] = s =>
              Stored(d, {})' = Stored(d, {}) /\ through'[d] = through[d]
      BY <1>4, <2>1
    <2>3. QED
      BY <1>4, <1>5, <1>6, <2>2 DEF Undisturbed, LocksOfOthersStay
  <1>14. QED
    BY <1>5, <1>6, <1>11, <1>12, <1>13, Frame DEF Types

LEMMA FenceKeeps ==
    ASSUME IInv, NEW c \in FenceableChats, Fence(c)
    PROVE  IInv'
  <1>1. /\ UNCHANGED <<rows, serial, through, cuts, advisory, runRow, keyShare, chatRow, tx>>
        /\ fenced' = fenced \cup {c} /\ \A t \in Tx : ~HoldsFenceShare(t)
    BY DEF Fence, locks
  <1>2. Types'
    BY <1>1 DEF IInv, Types, TxTypes, TableTypes, LockTypes, Running, Sweeping, Idle, Requests, Row, Interval
  <1>3. Exclusive' /\ Visible'
    BY <1>1 DEF IInv, Exclusive, Visible, Stored, Numbered, NoRepeats, Rank
  <1>4. ASSUME NEW h \in Ingesters
        PROVE  IngestInv(h)'
    <2>1. At(h, "idle")
      BY <1>1 DEF HoldsFenceShare, Tx, At
    <2>2. tx'[h].pc = "idle" /\ tx'[h].own = {}
      BY <1>1, <2>1, RunningFacts DEF IInv, Types, At
    <2>3. QED
      BY <2>2, NumberedEmpty DEF IngestInv, IngestHolds, OwnRows, Progress, OwnCut, Started, At
  <1>5. ASSUME NEW w \in Sweepers
        PROVE  SweepHolds(w)'
    <2>1. tx[w].cut = {}
      BY <1>1, TxAssumption DEF HoldsFenceShare, Tx
    <2>2. QED
      BY <1>1, <2>1 DEF IInv, SweepHolds
  <1>6. QED
    BY <1>2, <1>3, <1>4, <1>5 DEF IInv

-----------------------------------------------------------------------------
(* The inactivity pass                                                     *)

LEMMA SetToSeqFacts ==
    ASSUME NEW S, IsFiniteSet(S)
    PROVE  SetToSeq(S) \in Seq(S)
  <1>1. Cardinality(S) \in Nat /\ ExistsBijection(1..Cardinality(S), S)
    BY FS_CardinalityType
  <1>2. PICK f \in [1..Cardinality(S) -> S] : IsInjective(f)
    <2>1. PICK g : g \in Bijection(1..Cardinality(S), S)
      BY <1>1 DEF ExistsBijection
    <2>2. g \in [1..Cardinality(S) -> S] /\ IsInjective(g)
      BY <2>1 DEF Bijection, Injection
    <2>3. QED
      BY <2>2
  <1>3. SetToSeq(S) \in [1..Cardinality(S) -> S]
    BY <1>2 DEF SetToSeq
  <1>4. QED
    BY <1>1, <1>3, SeqDef

\* Only a Chat with messages waits for a pass, and messages are finitely many.
LEMMA InactiveAreFinite ==
    ASSUME IsFiniteSet(rows), NEW found, \A c \in found : Unqueued(c, {}) # {}
    PROVE  IsFiniteSet(found)
  <1> DEFINE f == [r \in rows |-> r.chat]
             chats == {r.chat : r \in rows}
  <1>1. f \in Surjection(rows, chats)
    BY DEF Surjection
  <1>2. IsFiniteSet(chats)
    BY <1>1, FS_Surjection
  <1>3. found \subseteq chats
    BY DEF Unqueued, Stored
  <1> HIDE DEF chats
  <1>4. QED
    BY <1>2, <1>3, FS_Subset

LEMMA SelectInactiveKeeps ==
    ASSUME IInv, NEW w \in Sweepers, SelectInactive(w)
    PROVE  IInv'
  <1>1. At(w, "idle") /\ tx[w] = Idle /\ w \in Tx /\ w \notin Ingesters
    <2>1. At(w, "idle")
      BY DEF SelectInactive
    <2>2. tx[w] \in Sweeping => tx[w].pc = "sweeping"
      BY DEF Sweeping
    <2>3. tx[w] = Idle
      BY <2>1, <2>2 DEF At, IInv, Types, TxTypes
    <2>4. QED
      BY <2>1, <2>3, TxAssumption DEF Tx
  <1>2. PICK found : /\ found \subseteq SlackChats
                     /\ \A c \in found : Unqueued(c, {}) # {} /\ keyShare[c] = {} /\ chatRow[c] = NoTx
                     /\ chatRow' = [c \in SlackChats |-> IF c \in found THEN w ELSE chatRow[c]]
                     /\ tx' = [tx EXCEPT ![w].pc = "sweeping", ![w].todo = SetToSeq(found)]
                     /\ UNCHANGED <<tables, advisory, runRow, keyShare>>
    BY DEF SelectInactive
  <1>3. IsFiniteSet(found)
    BY <1>2, InactiveAreFinite DEF IInv, Types, TableTypes
  <1>4. PICK todo : todo = SetToSeq(found)
    OBVIOUS
  <1>5. todo \in Seq(found)
    BY <1>3, <1>4, SetToSeqFacts
  <1>6. todo \in Seq(SlackChats) /\ \A i \in 1..Len(todo) : todo[i] \in found
    BY <1>2, <1>5, ElementOfSeq
  <1>7. PICK v : v = [Idle EXCEPT !.pc = "sweeping", !.todo = todo]
    OBVIOUS
  <1>8. v.pc = "sweeping" /\ v.todo = todo /\ v.own = {} /\ v.cut = {} /\ v \in Sweeping
    BY <1>6, <1>7 DEF Idle, Sweeping
  <1>9. tx' = [tx EXCEPT ![w] = v]
    <2>1. tx = [t \in Tx |-> tx[t]]
      BY DEF IInv, Types, TxTypes
    <2>2. QED
      BY <1>1, <1>2, <1>4, <1>7, <2>1 DEF Idle
  <1>10. Fits(w, v)
    BY <1>1, <1>8 DEF Fits
  <1>11. TxTypes
    BY DEF IInv, Types
  <1>12. tx'[w] = v
    BY <1>1, <1>9, <1>10, <1>11, TxStep
  <1>13. QuietTables /\ serial' = serial /\ serial \in 0..MaxSerial /\ serial \in Nat
    BY <1>2, BoundsAssumption DEF tables, QuietTables, IInv, Types, TableTypes
  <1>14. LockTypes' /\ LocksOfOthersStay(w) /\ Exclusive'
    BY <1>1, <1>2, TxAssumption DEF IInv, Types, LockTypes, LocksOfOthersStay, Exclusive
  <1>15. Quiet(w, v)
    BY <1>9, <1>10, <1>13, <1>14 DEF Quiet
  <1>16. SweepHolds(w)'
    <2>1. \A i \in 1..Len(todo) : chatRow'[todo[i]] = w
      BY <1>2, <1>6
    <2>2. QED
      BY <1>8, <1>12, <2>1 DEF SweepHolds
  <1>17. QED
    BY <1>1, <1>15, <1>16, QuietStep

LEMMA SweepChatKeeps ==
    ASSUME IInv, NEW w \in Sweepers, SweepChat(w)
    PROVE  IInv'
  <1>1. ~At(w, "idle") /\ tx[w].pc = "sweeping" /\ tx[w].todo # << >>
    BY DEF SweepChat, At
  <1>2. tx[w] \in Sweeping /\ w \in Tx /\ w \notin Ingesters /\ SweepHolds(w)
    BY <1>1, RunningFacts, TxAssumption DEF IInv, Types, Tx
  <1>3. PICK c, todo, next, cut : /\ c = Head(tx[w].todo) /\ todo = Tail(tx[w].todo)
                                  /\ next = NextWindow(c, {}, FALSE) /\ cut = tx[w].cut
    OBVIOUS
  <1>4. /\ c \in SlackChats /\ todo \in Seq(SlackChats) /\ c = tx[w].todo[1]
        /\ Len(tx[w].todo) \in Nat /\ Len(tx[w].todo) >= 1
        /\ Len(todo) = Len(tx[w].todo) - 1
        /\ \A i \in 1..Len(todo) : todo[i] = tx[w].todo[i+1]
    BY <1>1, <1>2, <1>3, HeadTailProperties, EmptySeq, LenProperties DEF Sweeping
  <1>5. chatRow[c] = w /\ \A i \in 1..Len(todo) : chatRow[todo[i]] = w
    <2>1. \A i \in 1..Len(todo) : i + 1 \in 1..Len(tx[w].todo)
      BY <1>4
    <2>2. QED
      BY <1>2, <1>4, <2>1 DEF SweepHolds
  <1>6. c \notin fenced /\ runRow' = [runRow EXCEPT ![c] = w]
        /\ UNCHANGED <<tables, advisory, keyShare, chatRow>>
    BY <1>3 DEF SweepChat
  <1>7. PICK v : v = [tx[w] EXCEPT !.todo = todo, !.cut = cut \cup next]
    OBVIOUS
  <1>8. tx' = [tx EXCEPT ![w] = v]
    <2>1. tx = [t \in Tx |-> tx[t]]
      BY DEF IInv, Types, TxTypes
    <2>2. tx' = [tx EXCEPT ![w].todo = Tail(@), ![w].cut = @ \cup next]
      BY <1>3 DEF SweepChat
    <2>3. QED
      BY <1>2, <1>3, <1>7, <2>1, <2>2 DEF Sweeping
  <1>9. Stored(c, {}) \subseteq Row /\ Numbered(Stored(c, {})) /\ through[c] \in Nat
    <2>1. Stored(c, {}) \subseteq rows
      BY DEF Stored
    <2>2. QED
      BY <1>4, <2>1, BoundsAssumption DEF IInv, Visible, Types, TableTypes
  <1>10. next \subseteq Interval
    BY <1>3, <1>4, <1>9, WindowIsInterval
  <1>11. v \in Sweeping /\ v.todo = todo /\ v.cut = cut \cup next
    BY <1>2, <1>3, <1>4, <1>7, <1>10 DEF Sweeping
  <1>12. Fits(w, v)
    BY <1>2, <1>11 DEF Fits
  <1>13. TxTypes
    BY DEF IInv, Types
  <1>14. tx'[w] = v
    BY <1>2, <1>8, <1>12, <1>13, TxStep
  <1>15. QuietTables /\ serial' = serial /\ serial \in 0..MaxSerial /\ serial \in Nat
    BY <1>6, BoundsAssumption DEF tables, QuietTables, IInv, Types, TableTypes
  <1>16. LockTypes' /\ LocksOfOthersStay(w) /\ Exclusive'
    BY <1>2, <1>6 DEF IInv, Types, LockTypes, LocksOfOthersStay, Exclusive
  <1>17. Quiet(w, v)
    BY <1>8, <1>12, <1>15, <1>16 DEF Quiet
  <1>18. \A d : NextWindow(d, {}, FALSE)' = NextWindow(d, {}, FALSE)
    BY <1>15 DEF QuietTables, NextWindow, Unqueued, Stored
  <1>19. ASSUME NEW u \in next
         PROVE  u.chat = c /\ {u} = next
    <2>1. IsWindow(next, Stored(c, {}), c, through[c], WindowFate(Unqueued(c, {}), FALSE))
      BY <1>3, <1>9, NextWindowFacts
    <2>2. PICK x : next = {x} /\ x.chat = c
      <3>1. PICK f, l \in Stored(c, {}) : next = {[chat |-> c, first |-> f.at, last |-> l.at,
                                              fate |-> WindowFate(Unqueued(c, {}), FALSE)]}
        BY <2>1 DEF IsWindow
      <3>2. PICK x : x = [chat |-> c, first |-> f.at, last |-> l.at,
                          fate |-> WindowFate(Unqueued(c, {}), FALSE)]
        OBVIOUS
      <3>3. next = {x} /\ x.chat = c
        BY <3>1, <3>2
      <3>4. QED
        BY <3>3
    <2>3. QED
      BY <2>2
  <1>20. ASSUME NEW u \in cut \cup next
         PROVE  chatRow[u.chat] = w /\ u.chat \notin fenced /\ {u} = NextWindow(u.chat, {}, FALSE)
    <2>1. CASE u \in cut
      BY <1>2, <1>3, <2>1 DEF SweepHolds
    <2>2. CASE u \in next
      BY <1>3, <1>5, <1>6, <1>19, <2>2
    <2>3. QED
      BY <2>1, <2>2
  <1>21. SweepHolds(w)'
    <2>1. ASSUME NEW u \in cut \cup next
          PROVE  {u} = NextWindow(u.chat, {}, FALSE)'
      BY <1>18, <1>20
    <2>2. QED
      BY <1>5, <1>6, <1>11, <1>14, <1>15, <1>20, <2>1 DEF SweepHolds, QuietTables
  <1>22. QED
    BY <1>2, <1>17, <1>21, QuietStep

\* The windows of a pass: one of each Chat it found messages in, to the last of them.
LEMMA SweepCut ==
    ASSUME IInv, NEW w \in Sweepers, NEW v \in tx[w].cut
    PROVE  /\ v.chat \in SlackChats /\ chatRow[v.chat] = w /\ v.chat \notin fenced
           /\ {v} = NextWindow(v.chat, {}, FALSE)
           /\ IsWindow({v}, Stored(v.chat, {}), v.chat, through[v.chat],
                       WindowFate(Unqueued(v.chat, {}), FALSE))
           /\ v.last \in Nat /\ v.first \in Nat
           /\ v.first <= v.last /\ v.last > through[v.chat] /\ v.last <= serial
           /\ \A u \in tx[w].cut : u.chat = v.chat => u = v
           /\ keyShare[v.chat] = {}
  <1>1. tx[w].cut \subseteq Interval
    BY RunningFacts DEF IInv, Types, Sweeping
  <1>2. PICK c \in SlackChats : c = v.chat
    BY <1>1 DEF Interval
  <1>3. chatRow[c] = w /\ c \notin fenced /\ {v} = NextWindow(c, {}, FALSE)
    BY <1>2 DEF IInv, SweepHolds
  <1>4. Numbered(Stored(c, {})) /\ through[c] \in Nat
    BY BoundsAssumption DEF IInv, Visible, Types, TableTypes
  <1>5. IsWindow({v}, Stored(c, {}), c, through[c], WindowFate(Unqueued(c, {}), FALSE))
    BY <1>3, <1>4, NextWindowFacts
  <1>6. v.last \in Nat /\ v.first \in Nat /\ v.first <= v.last /\ v.last > through[c] /\ v.last <= serial
    <2>1. \A r \in Stored(c, {}) : r.at \in Nat /\ r.at <= serial
      BY <1>4 DEF Numbered, IInv, Visible, Stored
    <2>2. PICK f, l \in Stored(c, {}) : /\ {v} = {[chat |-> c, first |-> f.at, last |-> l.at,
                                             fate |-> WindowFate(Unqueued(c, {}), FALSE)]}
                                        /\ f.at > through[c] /\ f.at <= l.at
      BY <1>5 DEF IsWindow
    <2>3. v.first = f.at /\ v.last = l.at
      <3>1. v = [chat |-> c, first |-> f.at, last |-> l.at,
                 fate |-> WindowFate(Unqueued(c, {}), FALSE)]
        BY <2>2
      <3>2. QED
        BY <3>1
    <2>4. QED
      BY <1>4, <2>1, <2>2, <2>3
  <1>7. ASSUME NEW u \in tx[w].cut, u.chat = v.chat
        PROVE  u = v
    <2>1. {u} = NextWindow(c, {}, FALSE)
      BY <1>2, <1>7 DEF IInv, SweepHolds
    <2>2. QED
      BY <1>3, <2>1
  <1>8. keyShare[c] = {}
    BY <1>3 DEF IInv, Exclusive
  <1>9. QED
    BY <1>2, <1>3, <1>5, <1>6, <1>7, <1>8

LEMMA CommitSweepKeeps ==
    ASSUME IInv, NEW w \in Sweepers, CommitSweep(w)
    PROVE  IInv'
  <1>1. PICK cut : cut = tx[w].cut
    OBVIOUS
  <1>2. /\ Release(w) /\ UNCHANGED <<rows, serial, fenced>> /\ cuts' = cuts \cup cut
        /\ through' = CursorAfter(cut)
    BY <1>1 DEF CommitSweep
  <1>3. w \in Tx /\ w \notin Ingesters /\ cut \subseteq Interval
    BY <1>1, RunningFacts, TxAssumption DEF IInv, Types, Sweeping, Tx
  <1>4. /\ TxTypes' /\ LockTypes' /\ Exclusive' /\ SweepHolds(w)'
        /\ LocksOfOthersStay(w) /\ \A s \in Tx \ {w} : tx'[s] = tx[s]
    BY <1>2, <1>3, ReleaseFacts
  <1>5. /\ serial \in Nat
        /\ \A d \in SlackChats : through[d] \in Nat /\ through[d] <= serial
    BY BoundsAssumption DEF IInv, Types, TableTypes
  <1>6. ASSUME NEW d \in SlackChats
        PROVE  /\ through'[d] \in Nat /\ through'[d] <= serial /\ through[d] <= through'[d]
               /\ \A v \in cut : v.chat = d => v.last = through'[d] /\ v.first <= v.last
                                               /\ chatRow[d] = w /\ keyShare[d] = {}
               /\ (\A v \in cut : v.chat # d) => through'[d] = through[d]
    <2>1. CASE \A v \in cut : v.chat # d
      BY <1>2, <1>5, <2>1, CursorAfterFacts
    <2>2. ASSUME NEW v \in cut, v.chat = d
          PROVE  /\ through'[d] = v.last /\ v.last \in Nat /\ v.last <= serial /\ through[d] <= v.last
                 /\ v.first <= v.last /\ chatRow[d] = w /\ keyShare[d] = {}
                 /\ \A u \in cut : u.chat = d => u = v
      <3>1. /\ v.last \in Nat /\ v.last <= serial /\ through[d] <= v.last /\ v.first <= v.last
            /\ chatRow[d] = w /\ keyShare[d] = {} /\ \A u \in cut : u.chat = d => u = v
        <4>1. /\ v.last \in Nat /\ v.last > through[d] /\ v.last <= serial /\ v.first <= v.last
              /\ chatRow[d] = w /\ keyShare[d] = {} /\ \A u \in cut : u.chat = d => u = v
          BY <1>1, <2>2, SweepCut
        <4>2. QED
          BY <1>5, <4>1
      <3>2. CursorAfter(cut)[d] = v.last
        BY <1>5, <2>2, <3>1, CursorAfterFacts
      <3>3. QED
        BY <1>2, <3>1, <3>2
    <2>3. QED
      BY <2>1, <2>2
  <1>7. TableTypes'
    <2>1. through' = [d \in SlackChats |-> through'[d]]
      BY <1>2 DEF CursorAfter
    <2>2. \A d \in SlackChats : through'[d] \in 0..serial
      BY <1>5, <1>6
    <2>3. QED
      BY <1>2, <1>3, <2>1, <2>2 DEF IInv, Types, TableTypes, Row, Interval
  <1>8. Visible'
    <2>1. \A r \in rows : r.at <= serial
      BY DEF IInv, Visible
    <2>2. ASSUME NEW d \in SlackChats
          PROVE  Numbered(Stored(d, {}))' /\ NoRepeats(Stored(d, {}))'
      <3>1. PICK S : S = Stored(d, {}) /\ S = Stored(d, {})'
        BY <1>2 DEF Stored
      <3>2. Numbered(S) /\ NoRepeats(S)
        BY <3>1 DEF IInv, Visible
      <3>3. QED
        BY <3>1, <3>2 DEF Numbered, NoRepeats, Rank
    <2>3. ASSUME NEW v \in cuts \cup cut
          PROVE  v.first <= v.last /\ v.last <= through'[v.chat]
      <3>1. CASE v \in cuts
        <4>1. v.first <= v.last /\ v.last <= through[v.chat] /\ v.chat \in SlackChats
              /\ v.last \in Nat
          BY <3>1, BoundsAssumption DEF IInv, Visible, Types, TableTypes, Interval
        <4>2. QED
          BY <1>5, <1>6, <4>1
      <3>2. CASE v \in cut
        <4>1. v.chat \in SlackChats
          BY <1>3, <3>2 DEF Interval
        <4>2. v.first <= v.last /\ v.last = through'[v.chat] /\ through'[v.chat] \in Nat
          BY <1>6, <3>2, <4>1
        <4>3. QED
          BY <4>2
      <3>3. QED
        BY <3>1, <3>2
    <2>4. QED
      BY <1>2, <2>1, <2>2, <2>3 DEF Visible
  <1>9. Undisturbed(w)
    <2>1. \A s \in Tx \ {w}, d \in SlackChats : chatRow[d] = s \/ s \in keyShare[d] =>
              through'[d] = through[d]
      BY <1>6
    <2>2. \A d : Stored(d, {})' = Stored(d, {})
      BY <1>2 DEF Stored
    <2>3. QED
      BY <1>2, <1>4, <1>5, <2>1, <2>2 DEF Undisturbed, LocksOfOthersStay
  <1>10. QED
    BY <1>3, <1>4, <1>7, <1>8, <1>9, Frame DEF Types

-----------------------------------------------------------------------------
(* The theorems                                                            *)

LEMMA InitHolds == Init => IInv
  <1> SUFFICES ASSUME Init PROVE IInv
    OBVIOUS
  <1>1. /\ rows = {} /\ serial = 0 /\ cuts = {} /\ fenced = {}
        /\ through = [c \in SlackChats |-> 0] /\ tx = [t \in Tx |-> Idle]
        /\ advisory = [c \in SlackChats |-> NoTx] /\ runRow = [c \in SlackChats |-> NoTx]
        /\ chatRow = [c \in SlackChats |-> NoTx] /\ keyShare = [c \in SlackChats |-> {}]
    BY DEF Init
  <1>2. \A t \in Tx : tx[t] = Idle
    BY <1>1
  <1>3. TxTypes
    BY <1>1, <1>2 DEF TxTypes, Tx
  <1>4. TableTypes
    <2>1. \A c \in SlackChats : through[c] \in 0..0
      BY <1>1
    <2>2. QED
      BY <1>1, <2>1, FS_EmptySet, BoundsAssumption DEF TableTypes
  <1>5. LockTypes
    BY <1>1 DEF LockTypes
  <1>6. Exclusive /\ \A c : Stored(c, {}) = {}
    BY <1>1 DEF Exclusive, Stored
  <1>7. Visible
    BY <1>1, <1>6, NumberedEmpty DEF Visible, NoRepeats
  <1>8. ASSUME NEW t \in Tx
        PROVE  IngestInv(t) /\ SweepHolds(t)
    <2>1. tx[t].pc = "idle" /\ tx[t].todo = << >> /\ tx[t].own = {} /\ tx[t].cut = {}
      BY <1>2 DEF Idle
    <2>2. IngestInv(t)
      BY <2>1, NumberedEmpty DEF IngestInv, IngestHolds, OwnRows, Progress, OwnCut, Started, At
    <2>3. SweepHolds(t)
      BY <2>1 DEF SweepHolds
    <2>4. QED
      BY <2>2, <2>3
  <1>9. QED
    BY <1>3, <1>4, <1>5, <1>6, <1>7, <1>8 DEF IInv, Types, Tx

LEMMA NextKeeps == IInv /\ [Next]_vars => IInv'
  <1> SUFFICES ASSUME IInv, [Next]_vars PROVE IInv'
    OBVIOUS
  <1>1. CASE UNCHANGED vars
    <2>1. UNCHANGED <<rows, serial, through, cuts, fenced, advisory, runRow, keyShare, chatRow, tx>>
      BY <1>1 DEF vars, tables, locks
    <2>2. Types' /\ Exclusive' /\ Visible'
      <3>1. TxTypes'
        BY <2>1 DEF IInv, Types, TxTypes, Running, Sweeping, Idle, Requests, Row, Interval
      <3>2. QuietTables /\ serial' \in 0..MaxSerial /\ serial <= serial'
        BY <2>1, BoundsAssumption DEF QuietTables, IInv, Types, TableTypes
      <3>3. TableTypes' /\ Visible'
        BY <3>2, QuietFacts
      <3>4. LockTypes' /\ Exclusive'
        BY <2>1 DEF IInv, Types, LockTypes, Exclusive
      <3>5. QED
        BY <3>1, <3>3, <3>4 DEF Types
    <2>3. ASSUME NEW h \in Ingesters
          PROVE  IngestInv(h)'
      <3>1. IngestInv(h)
        BY DEF IInv
      <3>2. IngestHolds(h)' <=> IngestHolds(h)
        BY <2>1 DEF IngestHolds, Started, At, Chat, Request
      <3>3. OwnRows(h)' <=> OwnRows(h)
        BY <2>1 DEF OwnRows, Chat, Request, Stored, Numbered, Before, NoRepeats, Rank
      <3>4. Progress(h)' <=> Progress(h)
        BY <2>1 DEF Progress, At, Chat, Request, Stored, Texts
      <3>5. OwnCut(h)' <=> OwnCut(h)
        BY <2>1 DEF OwnCut, At, Chat, Request, NextWindow, Unqueued, Stored
      <3>6. QED
        BY <3>1, <3>2, <3>3, <3>4, <3>5 DEF IngestInv
    <2>4. ASSUME NEW w \in Sweepers
          PROVE  SweepHolds(w)'
      <3>1. \A d : NextWindow(d, {}, FALSE)' = NextWindow(d, {}, FALSE)
        BY <2>1 DEF NextWindow, Unqueued, Stored
      <3>2. QED
        BY <2>1, <3>1 DEF IInv, SweepHolds
    <2>5. QED
      BY <2>2, <2>3, <2>4 DEF IInv
  <1>2. ASSUME NEW h \in Ingesters, NEW r \in Requests, Begin(h, r)
        PROVE  IInv'
    BY <1>2, BeginKeeps
  <1>3. ASSUME NEW h \in Ingesters, IngestStep(h)
        PROVE  IInv'
    BY <1>3, LockThreadKeeps, OpenRunKeeps, StoreKeeps, TouchKeeps, QueueWindowKeeps, CommitKeeps
       DEF IngestStep
  <1>4. ASSUME NEW w \in Sweepers, SelectInactive(w)
        PROVE  IInv'
    BY <1>4, SelectInactiveKeeps
  <1>5. ASSUME NEW w \in Sweepers, SweepStep(w)
        PROVE  IInv'
    BY <1>5, SweepChatKeeps, CommitSweepKeeps DEF SweepStep
  <1>6. ASSUME NEW t \in Tx, Abort(t)
        PROVE  IInv'
    BY <1>6, AbortKeeps
  <1>7. ASSUME NEW c \in FenceableChats, Fence(c)
        PROVE  IInv'
    BY <1>7, FenceKeeps
  <1>8. QED
    BY <1>1, <1>2, <1>3, <1>4, <1>5, <1>6, <1>7 DEF Next

\* The locks, numbers and windows of running transactions, whatever requests arrive
\* and whichever transactions abort (ingest.rs).
THEOREM InvariantHolds == Spec => []IInv
  BY InitHolds, NextKeeps, PTL DEF Spec

\* Only an ingest commit makes messages visible: its own.
LEMMA NewRows ==
    ASSUME [Next]_vars, NEW r \in rows' \ rows
    PROVE  \E h \in Ingesters : Commit(h) /\ r \in tx[h].own
  <1>1. \A h \in Ingesters, q \in Requests : Begin(h, q) => rows' = rows
    BY DEF Begin, tables
  <1>2. \A h \in Ingesters : IngestStep(h) => rows' = rows \/ (Commit(h) /\ rows' = rows \cup tx[h].own)
    BY DEF IngestStep, LockThread, OpenRun, Store, Touch, QueueWindow, Commit, tables
  <1>3. \A w \in Sweepers : SelectInactive(w) \/ SweepStep(w) => rows' = rows
    BY DEF SelectInactive, SweepStep, SweepChat, CommitSweep, tables
  <1>4. (\A t \in Tx : Abort(t) => rows' = rows) /\ (\A c \in FenceableChats : Fence(c) => rows' = rows)
    BY DEF Abort, Fence, tables
  <1>5. UNCHANGED vars => rows' = rows
    BY DEF vars, tables
  <1>6. QED
    BY <1>1, <1>2, <1>3, <1>4, <1>5 DEF Next

\* No message ever becomes visible at or below the cursor of its Chat: the advisory
\* lock, KEY SHARE and the Chat row lock keep the cursor behind what is uncommitted.
THEOREM NothingCommitsLate == Spec => NoLateCommit
  <1>1. IInv /\ [Next]_vars => [\A r \in rows' \ rows : r.at > through[r.chat]]_vars
    <2> SUFFICES ASSUME IInv, [Next]_vars, NEW r \in rows' \ rows
                 PROVE  r.at > through[r.chat]
      OBVIOUS
    <2>1. PICK h \in Ingesters : Commit(h) /\ r \in tx[h].own
      BY NewRows
    <2>2. OwnRows(h)
      BY DEF IInv, IngestInv
    <2>3. QED
      BY <2>1, <2>2 DEF OwnRows
  <1>2. QED
    BY <1>1, InvariantHolds, PTL DEF Spec, NoLateCommit

-----------------------------------------------------------------------------
(* The transactions as steps of ChatWindows                                *)

\* The messages of a set of rows in the order of their numbers.
Msgs(S) == [p \in 1..Cardinality(S) |-> RowAt(S, p).msg]

LEMMA MsgsFacts ==
    ASSUME NEW S, Numbered(S), S \subseteq Row
    PROVE  /\ Msgs(S) \in Seq(Messages) /\ Len(Msgs(S)) = Cardinality(S) /\ Cardinality(S) \in Nat
           /\ DOMAIN Msgs(S) = 1..Cardinality(S)
           /\ \A p \in 1..Cardinality(S) : Msgs(S)[p] = RowAt(S, p).msg
           /\ Range(Msgs(S)) = Texts(S)
           /\ \A r \in S : Msgs(S)[Rank(S, r.at)] = r.msg
  <1>1. /\ Cardinality(S) \in Nat /\ \A r \in S : Rank(S, r.at) \in 1..Cardinality(S)
        /\ \A p \in 1..Cardinality(S) : RowAt(S, p) \in S
        /\ \A r \in S : RowAt(S, Rank(S, r.at)) = r
    BY RankFacts, RowAtFacts
  <1>2. /\ DOMAIN Msgs(S) = 1..Cardinality(S)
        /\ \A p \in 1..Cardinality(S) : Msgs(S)[p] = RowAt(S, p).msg
    BY DEF Msgs
  <1>3. Msgs(S) \in [1..Cardinality(S) -> Messages]
    BY <1>1 DEF Msgs, Row
  <1>4. Msgs(S) \in Seq(Messages) /\ Len(Msgs(S)) = Cardinality(S)
    BY <1>1, <1>2, <1>3, SeqDef, LenProperties
  <1>5. \A r \in S : Msgs(S)[Rank(S, r.at)] = r.msg
    BY <1>1, <1>2
  <1>6. Range(Msgs(S)) = Texts(S)
    BY <1>1, <1>2, <1>5 DEF Range, Texts
  <1>7. QED
    BY <1>1, <1>2, <1>4, <1>5, <1>6

\* Rows numbered after all others are appended, in their order.
LEMMA MsgsOfUnion ==
    ASSUME NEW S, NEW T, Numbered(S), Numbered(T), Before(S, T), S \subseteq Row, T \subseteq Row
    PROVE  Msgs(S \cup T) = Msgs(S) \o Msgs(T)
  <1>1. PICK n, k \in Nat : n = Cardinality(S) /\ k = Cardinality(T)
    BY RankFacts
  <1>2. Numbered(S \cup T) /\ Cardinality(S \cup T) = n + k
    BY <1>1, RankOfUnion
  <1>3. PICK u, s, t : u = Msgs(S \cup T) /\ s = Msgs(S) /\ t = Msgs(T)
    OBVIOUS
  <1>4. /\ s \in Seq(Messages) /\ Len(s) = n /\ \A p \in 1..n : s[p] = RowAt(S, p).msg
        /\ t \in Seq(Messages) /\ Len(t) = k /\ \A p \in 1..k : t[p] = RowAt(T, p).msg
    BY <1>1, <1>3, MsgsFacts
  <1>5. u \in Seq(Messages) /\ Len(u) = n + k /\ \A p \in 1..(n + k) : u[p] = RowAt(S \cup T, p).msg
    BY <1>2, <1>3, MsgsFacts
  <1>6. /\ s \o t \in Seq(Messages) /\ Len(s \o t) = n + k
        /\ \A p \in 1..(n + k) : (s \o t)[p] = IF p <= n THEN s[p] ELSE t[p - n]
    BY <1>4, ConcatProperties
  <1>7. ASSUME NEW p \in 1..(n + k)
        PROVE  u[p] = (s \o t)[p]
    <2>1. CASE p <= n
      <3>1. p \in 1..n
        BY <2>1
      <3>2. RowAt(S \cup T, p) = RowAt(S, p)
        BY <1>1, <3>1, RowAtOfUnion
      <3>3. QED
        BY <1>4, <1>5, <1>6, <2>1, <3>1, <3>2
    <2>2. CASE ~(p <= n)
      <3>1. PICK q \in 1..k : p = n + q /\ q = p - n
        BY <2>2
      <3>2. RowAt(S \cup T, n + q) = RowAt(T, q)
        BY <1>1, RowAtOfUnion
      <3>3. (s \o t)[p] = t[q]
        BY <1>6, <2>2, <3>1
      <3>4. QED
        BY <1>4, <1>5, <3>1, <3>2, <3>3
    <2>3. QED
      BY <2>1, <2>2
  <1>8. u = s \o t
    BY <1>5, <1>6, <1>7, SeqEqual
  <1>9. QED
    BY <1>3, <1>8

\* They are the new messages of the request, each once.
LEMMA MsgsAreFresh ==
    ASSUME NEW T, Numbered(T), NoRepeats(T), T \subseteq Row
    PROVE  Msgs(T) \in SetToSeqs(Texts(T))
  <1>1. PICK n \in Nat : n = Cardinality(T)
    BY RankFacts
  <1>2. PICK m : m = Msgs(T)
    OBVIOUS
  <1>3. /\ DOMAIN m = 1..n /\ Range(m) = Texts(T) /\ m \in [1..n -> Texts(T)]
    <2>1. DOMAIN m = 1..n /\ Range(m) = Texts(T)
      BY <1>1, <1>2, MsgsFacts
    <2>2. m = [p \in 1..n |-> m[p]]
      BY <1>1, <1>2 DEF Msgs
    <2>3. QED
      BY <2>1, <2>2 DEF Range
  <1>4. ASSUME NEW i \in 1..n, NEW j \in 1..n, m[i] = m[j]
        PROVE  i = j
    <2>1. /\ RowAt(T, i) \in T /\ Rank(T, RowAt(T, i).at) = i /\ m[i] = RowAt(T, i).msg
          /\ RowAt(T, j) \in T /\ Rank(T, RowAt(T, j).at) = j /\ m[j] = RowAt(T, j).msg
      BY <1>1, <1>2, RowAtFacts, MsgsFacts
    <2>2. RowAt(T, i) = RowAt(T, j)
      BY <1>4, <2>1 DEF NoRepeats
    <2>3. QED
      BY <2>1, <2>2
  <1>5. Cardinality(Texts(T)) = n
    <2>1. m \in Bijection(1..n, Texts(T))
      <3>1. \A t \in Texts(T) : \E i \in 1..n : m[i] = t
        BY <1>3 DEF Range
      <3>2. QED
        BY <1>3, <1>4, <3>1 DEF Bijection, Injection, Surjection, IsInjective
    <2>2. IsFiniteSet(1..n) /\ Cardinality(1..n) = n
      BY FS_Interval
    <2>3. QED
      BY <2>1, <2>2, FS_Bijection DEF ExistsBijection
  <1>6. QED
    BY <1>2, <1>3, <1>4, <1>5 DEF SetToSeqs

\* What is beyond a number is what is after its position.
LEMMA MsgsBeyond ==
    ASSUME NEW S, Numbered(S), S \subseteq Row, NEW a \in Nat
    PROVE  {Msgs(S)[p] : p \in (Rank(S, a) + 1)..Cardinality(S)} = {r.msg : r \in {q \in S : q.at > a}}
  <1>1. /\ Cardinality(S) \in Nat /\ Rank(S, a) \in 0..Cardinality(S)
        /\ \A r \in S : r.at \in Nat /\ Rank(S, r.at) \in 1..Cardinality(S)
        /\ \A r \in S : r.at <= a <=> Rank(S, r.at) <= Rank(S, a)
    BY RankFacts DEF Numbered
  <1>2. ASSUME NEW r \in S, r.at > a
        PROVE  \E p \in (Rank(S, a) + 1)..Cardinality(S) : Msgs(S)[p] = r.msg
    <2>1. Rank(S, r.at) \in (Rank(S, a) + 1)..Cardinality(S)
      BY <1>1, <1>2
    <2>2. Msgs(S)[Rank(S, r.at)] = r.msg
      BY MsgsFacts
    <2>3. QED
      BY <2>1, <2>2
  <1>3. ASSUME NEW p \in (Rank(S, a) + 1)..Cardinality(S)
        PROVE  \E r \in {q \in S : q.at > a} : Msgs(S)[p] = r.msg
    <2>1. p \in 1..Cardinality(S)
      BY <1>1
    <2>2. RowAt(S, p) \in S /\ Rank(S, RowAt(S, p).at) = p /\ Msgs(S)[p] = RowAt(S, p).msg
      BY <2>1, RowAtFacts, MsgsFacts
    <2>3. RowAt(S, p).at > a
      BY <1>1, <2>2
    <2>4. QED
      BY <2>2, <2>3
  <1>4. QED
    BY <1>2, <1>3

\* A window by the positions of its first and last message.
Placed(w, S) == [chat |-> w.chat, first |-> Rank(S, w.first), last |-> Rank(S, w.last), fate |-> w.fate]

LEMMA Mapped ==
    ASSUME NEW S, S = [c \in SlackChats |-> Stored(c, {})], cuts \subseteq Interval
    PROVE  /\ Log = [c \in SlackChats |-> Msgs(S[c])]
           /\ Cursor = [c \in SlackChats |-> Rank(S[c], through[c])]
           /\ Windows = {Placed(w, S[w.chat]) : w \in cuts}
  <1>1. \A c \in SlackChats : S[c] = Stored(c, {})
    OBVIOUS
  <1>2. \A c, a : Position(c, a) = Rank(Stored(c, {}), a)
    BY DEF Position, Rank
  <1>3. \A c, p : MessageAt(c, p) = RowAt(Stored(c, {}), p).msg
    BY <1>2 DEF MessageAt, RowAt
  <1>4. Log = [c \in SlackChats |-> Msgs(S[c])]
    <2>1. ASSUME NEW c \in SlackChats
          PROVE  [p \in 1..Cardinality(Stored(c, {})) |-> MessageAt(c, p)] = Msgs(S[c])
      BY <1>1, <1>3 DEF Msgs
    <2>2. QED
      BY <2>1 DEF Log
  <1>5. Cursor = [c \in SlackChats |-> Rank(S[c], through[c])]
    BY <1>1, <1>2 DEF Cursor
  <1>6. \A w \in cuts : w.chat \in SlackChats
    BY DEF Interval
  <1>7. Windows = {Placed(w, S[w.chat]) : w \in cuts}
    <2> DEFINE P(w) == [chat |-> w.chat, first |-> Position(w.chat, w.first),
                        last |-> Position(w.chat, w.last), fate |-> w.fate]
    <2>1. Windows = {P(w) : w \in cuts}
      BY DEF Windows
    <2>2. \A w \in cuts : P(w) = Placed(w, S[w.chat])
      BY <1>1, <1>2, <1>6 DEF Placed
    <2> HIDE DEF P
    <2>3. QED
      BY <2>1, <2>2
  <1>8. QED
    BY <1>4, <1>5, <1>7

LEMMA MappedNext ==
    ASSUME NEW S, S = [c \in SlackChats |-> Stored(c, {})'], cuts' \subseteq Interval
    PROVE  /\ Log' = [c \in SlackChats |-> Msgs(S[c])]
           /\ Cursor' = [c \in SlackChats |-> Rank(S[c], through'[c])]
           /\ Windows' = {Placed(w, S[w.chat]) : w \in cuts'}
  <1>1. \A c \in SlackChats : S[c] = Stored(c, {})'
    OBVIOUS
  <1>2. \A c, a : Position(c, a)' = Rank(Stored(c, {})', a)
    BY DEF Position, Rank
  <1>3. \A c, p : MessageAt(c, p)' = RowAt(Stored(c, {})', p).msg
    BY <1>2 DEF MessageAt, RowAt
  <1>4. Log' = [c \in SlackChats |-> Msgs(S[c])]
    <2>1. ASSUME NEW c \in SlackChats
          PROVE  [p \in 1..Cardinality(Stored(c, {})') |-> MessageAt(c, p)'] = Msgs(S[c])
      BY <1>1, <1>3 DEF Msgs
    <2>2. QED
      BY <2>1 DEF Log
  <1>5. Cursor' = [c \in SlackChats |-> Rank(S[c], through'[c])]
    BY <1>1, <1>2 DEF Cursor
  <1>6. \A w \in cuts' : w.chat \in SlackChats
    BY DEF Interval
  <1>7. Windows' = {Placed(w, S[w.chat]) : w \in cuts'}
    <2> DEFINE P(w) == [chat |-> w.chat, first |-> Position(w.chat, w.first)',
                        last |-> Position(w.chat, w.last)', fate |-> w.fate]
    <2>1. Windows' = {P(w) : w \in cuts'}
      BY DEF Windows
    <2>2. \A w \in cuts' : P(w) = Placed(w, S[w.chat])
      BY <1>1, <1>2, <1>6 DEF Placed
    <2> HIDE DEF P
    <2>3. QED
      BY <2>1, <2>2
  <1>8. QED
    BY <1>4, <1>5, <1>7

\* What a transaction cuts is the window ChatWindows cuts.
LEMMA CutPlaced ==
    ASSUME NEW U, Numbered(U), U \subseteq Row, NEW c, NEW a \in Nat, NEW owned,
           NEW seen, seen = {r \in U : r.at > a}, Rank(U, a) < Cardinality(U),
           NEW W, IsWindow(W, U, c, a, WindowFate(seen, owned))
    PROVE  {Placed(w, U) : w \in W} = CW!Cut(c, Msgs(U), Rank(U, a), Cardinality(U), owned)
  <1>1. PICK msgs, lo, hi : msgs = Msgs(U) /\ lo = Rank(U, a) /\ hi = Cardinality(U)
    OBVIOUS
  <1>2. CW!Fate(msgs, lo, hi, owned) = WindowFate(seen, owned)
    <2>1. {msgs[p] : p \in (lo + 1)..hi} = {r.msg : r \in seen}
      <3>1. {Msgs(U)[p] : p \in (Rank(U, a) + 1)..Cardinality(U)} = {r.msg : r \in {q \in U : q.at > a}}
        BY MsgsBeyond
      <3>2. QED
        BY <1>1, <3>1
    <2>2. CW!StatusOnly(msgs, lo, hi)
            <=> LET agent == {r.msg : r \in seen} \ HumanMessages
                IN  agent # {} /\ agent \subseteq StatusMessages
      BY <2>1 DEF CW!StatusOnly
    <2>3. QED
      BY <2>2 DEF CW!Fate, WindowFate
  <1>3. PICK f, l \in U : /\ W = {[chat |-> c, first |-> f.at, last |-> l.at,
                                   fate |-> WindowFate(seen, owned)]}
                          /\ Rank(U, f.at) = lo + 1 /\ Rank(U, l.at) = hi
    BY <1>1 DEF IsWindow
  <1>4. PICK x : x = [chat |-> c, first |-> f.at, last |-> l.at, fate |-> WindowFate(seen, owned)]
    OBVIOUS
  <1>5. Placed(x, U) = [chat |-> c, first |-> lo + 1, last |-> hi, fate |-> WindowFate(seen, owned)]
    BY <1>3, <1>4 DEF Placed
  <1>6. {Placed(w, U) : w \in W} = {Placed(x, U)}
    BY <1>3, <1>4
  <1>7. CW!Cut(c, msgs, lo, hi, owned)
          = {[chat |-> c, first |-> lo + 1, last |-> hi, fate |-> WindowFate(seen, owned)]}
    BY <1>1, <1>2 DEF CW!Cut
  <1>8. QED
    BY <1>1, <1>5, <1>6, <1>7

LEMMA NoCut ==
    ASSUME NEW c, NEW msgs, NEW lo, NEW owned, lo \in Nat
    PROVE  CW!Cut(c, msgs, lo, lo, owned) = {}
  BY DEF CW!Cut

\* A commit moves no message or window that was visible.
LEMMA PlacesStay ==
    ASSUME NEW S, NEW T, Numbered(S), Numbered(T), Before(S, T), NEW w,
           w.first \in Nat, w.last \in Nat, w.first <= w.last, \A r \in T : w.last < r.at
    PROVE  Placed(w, S \cup T) = Placed(w, S)
  <1>1. \A a \in Nat : (\A r \in T : a < r.at) => Rank(S \cup T, a) = Rank(S, a)
    BY RankOfUnion
  <1>2. \A r \in T : w.first < r.at
    BY DEF Numbered
  <1>3. QED
    BY <1>1, <1>2 DEF Placed

\* The commit of an ingest is ChatWindows' Ingest of its request.
LEMMA CommitIsIngest ==
    ASSUME IInv, IInv', NEW h \in Ingesters, Commit(h)
    PROVE  CW!Ingest(Chat(h), Range(Request(h).msgs), Request(h).finished, Request(h).owned)
  <1>1. ~At(h, "idle") /\ At(h, "done")
    BY DEF Commit, At
  <1>2. PICK c \in SlackChats : c = Chat(h)
    BY <1>1, AtWork
  <1>3. PICK own, cut, batch, finished, owned :
            /\ own = tx[h].own /\ cut = tx[h].cut /\ batch = Range(Request(h).msgs)
            /\ finished = Request(h).finished /\ owned = Request(h).owned
    OBVIOUS
  <1>4. /\ fenced' = fenced /\ cuts' = cuts \cup cut /\ Stored(c, {})' = Stored(c, own)
        /\ \A d \in SlackChats : d # c => Stored(d, {})' = Stored(d, {}) /\ through'[d] = through[d]
        /\ \/ cut = {} /\ through'[c] = through[c]
           \/ \E v : cut = {v} /\ v.chat = c /\ through'[c] = v.last
    BY <1>2, <1>3, CommitRows
  <1>5. PICK old, new : old = [d \in SlackChats |-> Stored(d, {})] /\ new = [d \in SlackChats |-> Stored(d, {})']
    OBVIOUS
  <1>6. PICK S, U : S = Stored(c, {}) /\ U = Stored(c, own) /\ S = old[c] /\ U = new[c]
    BY <1>4, <1>5
  <1>7. /\ U = S \cup own /\ Numbered(S) /\ Numbered(own) /\ Before(S, own) /\ Numbered(U) /\ NoRepeats(U)
        /\ U \subseteq Row /\ through[c] \in Nat
    BY <1>1, <1>2, <1>3, <1>6, SeenFacts
  <1>8. \A d \in SlackChats : d # c => new[d] = old[d]
    BY <1>4, <1>5
  <1>9. /\ Log = [d \in SlackChats |-> Msgs(old[d])] /\ Log' = [d \in SlackChats |-> Msgs(new[d])]
        /\ Cursor = [d \in SlackChats |-> Rank(old[d], through[d])]
        /\ Cursor' = [d \in SlackChats |-> Rank(new[d], through'[d])]
        /\ Windows = {Placed(w, old[w.chat]) : w \in cuts}
        /\ Windows' = {Placed(w, new[w.chat]) : w \in cuts'}
    <2>1. cuts \subseteq Interval /\ cuts' \subseteq Interval
      BY DEF IInv, Types, TableTypes, Interval
    <2>2. /\ Log = [d \in SlackChats |-> Msgs(old[d])]
          /\ Cursor = [d \in SlackChats |-> Rank(old[d], through[d])]
          /\ Windows = {Placed(w, old[w.chat]) : w \in cuts}
      <3>1. old = [d \in SlackChats |-> Stored(d, {})]
        BY <1>5
      <3>2. QED
        BY <2>1, <3>1, Mapped
    <2>3. /\ Log' = [d \in SlackChats |-> Msgs(new[d])]
          /\ Cursor' = [d \in SlackChats |-> Rank(new[d], through'[d])]
          /\ Windows' = {Placed(w, new[w.chat]) : w \in cuts'}
      <3>1. new = [d \in SlackChats |-> Stored(d, {})']
        BY <1>5
      <3>2. QED
        BY <2>1, <3>1, MappedNext
    <2>4. QED
      BY <2>2, <2>3
  <1>10. PICK msgs, lo, hi : msgs = Msgs(U) /\ lo = Rank(S, through[c])
                             /\ hi = IF finished THEN Cardinality(U) ELSE lo
    OBVIOUS
  <1>11. /\ OwnRows(h) /\ Progress(h) /\ OwnCut(h) /\ tx[h].todo = << >> /\ c \notin fenced
         /\ Chat(h) \in SlackChats
    BY <1>1, <1>2, AtWork DEF Progress, At
  <1>12. \A r \in own : r.at \in Nat /\ r.at > through[c]
    BY <1>2, <1>3, <1>7, <1>11 DEF OwnRows, Numbered
  <1>13. lo = Rank(U, through[c]) /\ lo \in Nat /\ lo <= Cardinality(S)
    <2>1. \A r \in own : through[c] < r.at
      BY <1>7, <1>12
    <2>2. Rank(U, through[c]) = Rank(S, through[c])
      BY <1>7, <2>1, RankOfUnion
    <2>3. QED
      BY <1>7, <1>10, <2>2, RankFacts
  <1>14. msgs \in CW!Appended(c, batch)
    <2>1. msgs = Msgs(S) \o Msgs(own)
      <3>1. S \subseteq Row /\ own \subseteq Row
        BY <1>7
      <3>2. QED
        BY <1>7, <1>10, <3>1, MsgsOfUnion
    <2>2. Log[c] = Msgs(S) /\ Range(Log[c]) = Texts(S)
      <3>1. S \subseteq Row
        BY <1>7
      <3>2. QED
        BY <1>6, <1>7, <1>9, <3>1, MsgsFacts
    <2>3. batch \ Texts(S) = Texts(own)
      <3>1. Range(tx[h].todo) = {}
        BY <1>11 DEF Range
      <3>2. batch \subseteq Texts(U) /\ Texts(own) \subseteq batch
        BY <1>1, <1>2, <1>3, <1>6, <1>11, <3>1 DEF Progress
      <3>3. Texts(U) = Texts(S) \cup Texts(own)
        BY <1>7 DEF Texts
      <3>4. Texts(S) \cap Texts(own) = {}
        <4>1. \A q \in S, r \in own : q # r
          BY <1>7 DEF Before, Numbered
        <4>2. QED
          BY <1>7, <4>1 DEF Texts, NoRepeats
      <3>5. QED
        BY <3>2, <3>3, <3>4
    <2>4. Msgs(own) \in SetToSeqs(Texts(own))
      <3>1. own \subseteq Row /\ NoRepeats(own)
        BY <1>7 DEF NoRepeats
      <3>2. QED
        BY <1>7, <3>1, MsgsAreFresh
    <2>5. QED
      <3>1. CW!Range(Log[c]) = Texts(S)
        BY <2>2 DEF CW!Range, Range
      <3>2. Msgs(own) \in CW!SetToSeqs(Texts(own))
        BY <2>4 DEF CW!SetToSeqs, SetToSeqs, CW!Cardinality, Cardinality
      <3>3. QED
        BY <2>1, <2>2, <2>3, <3>1, <3>2 DEF CW!Appended
  <1>15. Log' = [Log EXCEPT ![c] = msgs]
    BY <1>6, <1>8, <1>9, <1>10
  <1>16. CW!WindowEnd(c, msgs, Cursor[c]) = Cardinality(U) /\ Cursor[c] = lo
    <2>1. Len(msgs) = Cardinality(U)
      BY <1>7, <1>10, MsgsFacts
    <2>2. QED
      BY <1>6, <1>9, <1>10, <2>1 DEF CW!WindowEnd
  <1>17. Unqueued(c, own) = {r \in U : r.at > through[c]}
    BY <1>6 DEF Unqueued
  <1>18. /\ Rank(U, through'[c]) = hi
         /\ {Placed(w, U) : w \in cut} = CW!Cut(c, msgs, lo, hi, owned)
    <2>1. CASE ~finished
      <3>1. cut = {} /\ hi = lo
        BY <1>1, <1>3, <1>10, <1>11, <2>1 DEF OwnCut
      <3>2. through'[c] = through[c]
        BY <1>4, <3>1
      <3>3. QED
        BY <1>13, <3>1, <3>2, NoCut
    <2>2. CASE finished
      <3>1. cut = NextWindow(c, own, owned) /\ hi = Cardinality(U)
        BY <1>1, <1>2, <1>3, <1>10, <1>11, <2>2 DEF OwnCut
      <3>2. CASE cut = {} /\ Rank(U, through[c]) = Cardinality(U)
        <4>1. through'[c] = through[c]
          BY <1>4, <3>2
        <4>2. QED
          BY <1>13, <3>1, <3>2, <4>1, NoCut
      <3>3. CASE /\ IsWindow(cut, U, c, through[c], WindowFate(Unqueued(c, own), owned))
                 /\ Rank(U, through[c]) < Cardinality(U)
        <4>1. PICK f, l \in U : /\ cut = {[chat |-> c, first |-> f.at, last |-> l.at,
                                           fate |-> WindowFate(Unqueued(c, own), owned)]}
                                /\ Rank(U, l.at) = Cardinality(U)
          BY <3>3 DEF IsWindow
        <4>2. PICK v : v = [chat |-> c, first |-> f.at, last |-> l.at,
                            fate |-> WindowFate(Unqueued(c, own), owned)]
          OBVIOUS
        <4>3. cut = {v} /\ v.last = l.at
          BY <4>1, <4>2
        <4>4. through'[c] = l.at
          BY <1>4, <4>3
        <4>5. {Placed(w, U) : w \in cut} = CW!Cut(c, Msgs(U), Rank(U, through[c]), Cardinality(U), owned)
          BY <1>7, <1>17, <3>3, CutPlaced
        <4>6. QED
          BY <1>10, <1>13, <3>1, <4>1, <4>4, <4>5
      <3>4. QED
        BY <1>6, <1>7, <3>1, <3>2, <3>3, NextWindowFacts
    <2>3. QED
      BY <2>1, <2>2
  <1>19. Cursor' = [Cursor EXCEPT ![c] = hi]
    BY <1>4, <1>6, <1>8, <1>9, <1>18
  <1>20. Windows' = Windows \cup CW!Cut(c, msgs, lo, hi, owned)
    <2>1. \A w \in cuts : Placed(w, new[w.chat]) = Placed(w, old[w.chat])
      <3> SUFFICES ASSUME NEW w \in cuts
                   PROVE  Placed(w, new[w.chat]) = Placed(w, old[w.chat])
        OBVIOUS
      <3>1. /\ w.chat \in SlackChats /\ w.first \in Nat /\ w.last \in Nat
            /\ w.first <= w.last /\ w.last <= through[w.chat]
        BY BoundsAssumption DEF IInv, Visible, Types, TableTypes, Interval
      <3>2. CASE w.chat = c
        <4>1. \A r \in own : w.last < r.at
          BY <1>7, <1>12, <3>1, <3>2
        <4>2. Placed(w, S \cup own) = Placed(w, S)
          BY <1>7, <3>1, <4>1, PlacesStay
        <4>3. QED
          BY <1>6, <1>7, <3>2, <4>2
      <3>3. CASE w.chat # c
        BY <1>8, <3>1, <3>3
      <3>4. QED
        BY <3>2, <3>3
    <2>2. \A w \in cut : new[w.chat] = U
      BY <1>4, <1>6
    <2>3. {Placed(w, new[w.chat]) : w \in cut} = {Placed(w, U) : w \in cut}
      BY <2>2
    <2>4. QED
      BY <1>4, <1>9, <1>18, <2>1, <2>3
  <1>21. CW!Ingest(c, batch, finished, owned)
    BY <1>4, <1>11, <1>14, <1>15, <1>16, <1>10, <1>19, <1>20 DEF CW!Ingest
  <1>22. QED
    BY <1>2, <1>3, <1>21

\* The commit of a sweep is ChatWindows' pass over the Chats it found unqueued messages
\* in, each still as it was when its window was read; without any it changes nothing.
LEMMA CommitSweepIsPass ==
    ASSUME IInv, IInv', NEW w \in Sweepers, CommitSweep(w)
    PROVE  \/ UNCHANGED <<Log, Cursor, Windows, fenced>>
           \/ \E selected \in SUBSET CW!Inactive : CW!InactivityPass(selected)
  <1>1. PICK cut, selected : cut = tx[w].cut /\ selected = {v.chat : v \in cut}
    OBVIOUS
  <1>2. rows' = rows /\ fenced' = fenced /\ cuts' = cuts \cup cut /\ through' = CursorAfter(cut)
    BY <1>1 DEF CommitSweep
  <1>3. PICK old : old = [d \in SlackChats |-> Stored(d, {})]
    OBVIOUS
  <1>4. old = [d \in SlackChats |-> Stored(d, {})']
    BY <1>2, <1>3 DEF Stored
  <1>5. cuts \subseteq Interval /\ cuts' \subseteq Interval
    BY DEF IInv, Types, TableTypes, Interval
  <1>6. /\ Log = [d \in SlackChats |-> Msgs(old[d])]
        /\ Cursor = [d \in SlackChats |-> Rank(old[d], through[d])]
        /\ Windows = {Placed(v, old[v.chat]) : v \in cuts}
    BY <1>3, <1>5, Mapped
  <1>7. /\ Log' = [d \in SlackChats |-> Msgs(old[d])]
        /\ Cursor' = [d \in SlackChats |-> Rank(old[d], through'[d])]
        /\ Windows' = {Placed(v, old[v.chat]) : v \in cuts'}
    BY <1>4, <1>5, MappedNext
  <1>8. \A d \in SlackChats : /\ Numbered(old[d]) /\ old[d] \subseteq Row /\ through[d] \in Nat
                              /\ Len(Log[d]) = Cardinality(old[d])
    <2> SUFFICES ASSUME NEW d \in SlackChats
                 PROVE  /\ Numbered(old[d]) /\ old[d] \subseteq Row /\ through[d] \in Nat
                        /\ Len(Log[d]) = Cardinality(old[d])
      OBVIOUS
    <2>1. old[d] = Stored(d, {})
      BY <1>3
    <2>2. Numbered(old[d])
      BY <2>1 DEF IInv, Visible
    <2>3. old[d] \subseteq Row /\ through[d] \in Nat
      BY <2>1, BoundsAssumption DEF IInv, Types, TableTypes, Stored
    <2>4. Len(Log[d]) = Cardinality(old[d])
      BY <1>6, <2>2, <2>3, MsgsFacts
    <2>5. QED
      BY <2>2, <2>3, <2>4
  <1>9. ASSUME NEW v \in cut
        PROVE  /\ v.chat \in SlackChats /\ v.chat \notin fenced
               /\ through'[v.chat] = v.last
               /\ Rank(old[v.chat], v.last) = Len(Log[v.chat])
               /\ Cursor[v.chat] < Len(Log[v.chat]) /\ Cursor[v.chat] \in Nat
               /\ CW!Cut(v.chat, Log[v.chat], Cursor[v.chat], Len(Log[v.chat]), FALSE)
                    = {Placed(v, old[v.chat])}
    <2>1. PICK c, a, U : c = v.chat /\ a = through[c] /\ U = Stored(c, {})
      OBVIOUS
    <2>2. /\ c \in SlackChats /\ c \notin fenced
          /\ {v} = NextWindow(c, {}, FALSE)
          /\ IsWindow({v}, U, c, a, WindowFate(Unqueued(c, {}), FALSE))
          /\ v.last \in Nat /\ v.last > a /\ \A u \in cut : u.chat = c => u = v
      BY <1>1, <1>9, <2>1, SweepCut
    <2>3. U = old[c] /\ Numbered(U) /\ U \subseteq Row /\ a \in Nat /\ Len(Log[c]) = Cardinality(U)
      BY <1>3, <1>8, <2>1, <2>2
    <2>4. through'[c] = v.last
      <3>1. v.chat = c /\ v.last >= through[c] /\ through[c] \in Nat
        BY <2>1, <2>2, <2>3
      <3>2. CursorAfter(cut)[c] = v.last
        BY <1>9, <2>2, <3>1, CursorAfterFacts
      <3>3. QED
        BY <1>2, <3>2
    <2>5. Rank(U, a) < Cardinality(U)
      <3>1. NextWindow(c, {}, FALSE) # {}
        BY <2>2
      <3>2. QED
        BY <2>1, <2>3, <3>1, NextWindowFacts
    <2>6. Rank(U, v.last) = Cardinality(U)
      <3>1. PICK f, l \in U : /\ {v} = {[chat |-> c, first |-> f.at, last |-> l.at,
                                         fate |-> WindowFate(Unqueued(c, {}), FALSE)]}
                              /\ Rank(U, l.at) = Cardinality(U)
        BY <2>2 DEF IsWindow
      <3>2. v = [chat |-> c, first |-> f.at, last |-> l.at,
                 fate |-> WindowFate(Unqueued(c, {}), FALSE)]
        BY <3>1
      <3>3. v.last = l.at
        BY <3>2
      <3>4. QED
        BY <3>1, <3>3
    <2>7. Cursor[c] = Rank(U, a) /\ Log[c] = Msgs(U) /\ Cursor[c] \in Nat
      BY <1>6, <2>1, <2>2, <2>3, RankFacts
    <2>8. {Placed(u, U) : u \in {v}} = CW!Cut(c, Msgs(U), Rank(U, a), Cardinality(U), FALSE)
      <3>1. PICK seen : seen = Unqueued(c, {}) /\ seen = {r \in U : r.at > a}
        BY <2>1 DEF Unqueued
      <3>2. PICK W, owned : W = {v} /\ owned = FALSE
        OBVIOUS
      <3>3. IsWindow(W, U, c, a, WindowFate(seen, owned))
        BY <2>2, <3>1, <3>2
      <3>4. {Placed(u, U) : u \in W} = CW!Cut(c, Msgs(U), Rank(U, a), Cardinality(U), owned)
        <4>1. seen = {r \in U : r.at > a}
          BY <3>1
        <4>2. Numbered(U) /\ U \subseteq Row /\ a \in Nat
          BY <2>3
        <4>3. QED
          BY <2>5, <3>3, <4>1, <4>2, CutPlaced
      <3>5. QED
        BY <3>2, <3>4
    <2>9. {Placed(u, U) : u \in {v}} = {Placed(v, U)}
      OBVIOUS
    <2>10. QED
      BY <2>1, <2>2, <2>3, <2>4, <2>5, <2>6, <2>7, <2>8, <2>9
  <1>10. ASSUME NEW d \in SlackChats, d \notin selected
         PROVE  through'[d] = through[d]
    <2>1. \A v \in cut : v.chat # d
      BY <1>1, <1>10
    <2>2. QED
      BY <1>2, <1>8, <2>1, CursorAfterFacts
  <1>11. CASE cut = {}
    <2>1. cuts' = cuts /\ \A d \in SlackChats : through'[d] = through[d]
      BY <1>1, <1>2, <1>10, <1>11
    <2>2. QED
      BY <1>2, <1>6, <1>7, <2>1
  <1>12. CASE cut # {}
    <2>1. selected # {} /\ selected \cap fenced = {} /\ selected \subseteq SlackChats
      <3>1. \A v \in cut : v.chat \in SlackChats /\ v.chat \notin fenced
        BY <1>9
      <3>2. QED
        BY <1>1, <1>12, <3>1
    <2>2. selected \in SUBSET CW!Inactive
      <3>1. \A v \in cut : Len(Log[v.chat]) - Cursor[v.chat] > 0
        <4> SUFFICES ASSUME NEW v \in cut
                     PROVE  Len(Log[v.chat]) - Cursor[v.chat] > 0
          OBVIOUS
        <4>1. Cursor[v.chat] < Len(Log[v.chat]) /\ Cursor[v.chat] \in Nat /\ v.chat \in SlackChats
          BY <1>9
        <4>2. Len(Log[v.chat]) \in Nat
          BY <1>8, <4>1, RankFacts
        <4>3. QED
          BY <4>1, <4>2
      <3>2. QED
        BY <1>1, <2>1, <3>1 DEF CW!Inactive, CW!Pending
    <2>3. Cursor' = [d \in CW!Chats |-> IF d \in selected THEN Len(Log[d]) ELSE Cursor[d]]
      <3>1. CW!Chats = SlackChats
        BY DEF CW!Chats
      <3>2. \A d \in SlackChats : Rank(old[d], through'[d]) = IF d \in selected THEN Len(Log[d]) ELSE Cursor[d]
        BY <1>1, <1>6, <1>9, <1>10
      <3>3. QED
        BY <1>7, <3>1, <3>2
    <2>4. Windows' = Windows \cup
             UNION {CW!Cut(d, Log[d], Cursor[d], Len(Log[d]), FALSE) : d \in selected}
      <3> DEFINE K(d) == CW!Cut(d, Log[d], Cursor[d], Len(Log[d]), FALSE)
                 P(v) == Placed(v, old[v.chat])
      <3>1. \A v \in cut : K(v.chat) = {P(v)}
        BY <1>9
      <3>2. Windows = {P(v) : v \in cuts} /\ Windows' = {P(v) : v \in cuts'}
        BY <1>6, <1>7
      <3> HIDE DEF K, P
      <3>3. {P(v) : v \in cut} = UNION {K(d) : d \in selected}
        BY <1>1, <3>1
      <3>4. Windows' = Windows \cup UNION {K(d) : d \in selected}
        BY <1>2, <3>2, <3>3
      <3>5. QED
        BY <3>4 DEF K
    <2>5. Log' = Log /\ fenced' = fenced
      BY <1>2, <1>6, <1>7
    <2>6. CW!InactivityPass(selected)
      BY <2>1, <2>3, <2>4, <2>5 DEF CW!InactivityPass
    <2>7. QED
      BY <2>2, <2>6
  <1>13. QED
    BY <1>11, <1>12

LEMMA TablesStay ==
    ASSUME UNCHANGED <<rows, through, cuts>>
    PROVE  UNCHANGED <<Log, Cursor, Windows>>
  <1>1. \A c, own : Stored(c, {})' = Stored(c, {})
    BY DEF Stored
  <1>2. \A c, a : Position(c, a)' = Position(c, a)
    BY <1>1 DEF Position
  <1>3. \A c, p : MessageAt(c, p)' = MessageAt(c, p)
    <2> SUFFICES ASSUME NEW c, NEW p
                 PROVE  MessageAt(c, p)' = MessageAt(c, p)
      OBVIOUS
    <2>1. PICK S : S = Stored(c, {}) /\ S = Stored(c, {})'
      BY <1>1
    <2>2. MessageAt(c, p) = (CHOOSE r \in S : Rank(S, r.at) = p).msg
      BY <2>1 DEF MessageAt, Position, Rank
    <2>3. MessageAt(c, p)' = (CHOOSE r \in S : Rank(S, r.at) = p).msg
      BY <2>1 DEF MessageAt, Position, Rank
    <2>4. QED
      BY <2>2, <2>3
  <1>4. Log' = Log
    BY <1>1, <1>3 DEF Log
  <1>5. Cursor' = Cursor
    BY <1>2 DEF Cursor
  <1>6. Windows' = Windows
    BY <1>2 DEF Windows
  <1>7. QED
    BY <1>4, <1>5, <1>6

LEMMA FenceIsFence ==
    ASSUME NEW c, Fence(c)
    PROVE  CW!Fence(c)
  BY TablesStay DEF Fence, CW!Fence, tables

\* Every statement before a commit, and every abort, leaves the tables alone.
LEMMA OthersStutter ==
    ASSUME \/ \E h \in Ingesters : \E r \in Requests : Begin(h, r)
           \/ \E h \in Ingesters : LockThread(h) \/ OpenRun(h) \/ Store(h) \/ Touch(h) \/ QueueWindow(h)
           \/ \E w \in Sweepers : SelectInactive(w) \/ SweepChat(w)
           \/ \E t \in Tx : Abort(t)
           \/ UNCHANGED vars
    PROVE  UNCHANGED <<Log, Cursor, Windows, fenced>>
  <1>1. UNCHANGED <<rows, through, cuts, fenced>>
    <2>1. CASE \E h \in Ingesters : \E r \in Requests : Begin(h, r)
      BY <2>1 DEF Begin, tables
    <2>2. CASE \E h \in Ingesters : LockThread(h) \/ OpenRun(h) \/ Store(h) \/ Touch(h) \/ QueueWindow(h)
      BY <2>2 DEF LockThread, OpenRun, Store, Touch, QueueWindow, tables
    <2>3. CASE \E w \in Sweepers : SelectInactive(w) \/ SweepChat(w)
      BY <2>3 DEF SelectInactive, SweepChat, tables
    <2>4. CASE \E t \in Tx : Abort(t)
      BY <2>4 DEF Abort, tables
    <2>5. CASE UNCHANGED vars
      BY <2>5 DEF vars, tables
    <2>6. QED
      BY <2>1, <2>2, <2>3, <2>4, <2>5
  <1>2. QED
    BY <1>1, TablesStay

LEMMA InitIsInit == Init => CW!Init
  <1> SUFFICES ASSUME Init
               PROVE  CW!Init
    OBVIOUS
  <1>1. rows = {} /\ cuts = {} /\ fenced = {} /\ \A c \in SlackChats : through[c] = 0
    BY DEF Init
  <1>2. \A c : Stored(c, {}) = {} /\ Cardinality(Stored(c, {})) = 0
    BY <1>1, FS_EmptySet DEF Stored
  <1>3. \A c, a : Position(c, a) = 0
    <2>1. \A c, a : {r \in Stored(c, {}) : r.at <= a} = {}
      BY <1>2
    <2>2. QED
      BY <2>1, FS_EmptySet DEF Position
  <1>4. \A c : [p \in 1..Cardinality(Stored(c, {})) |-> MessageAt(c, p)] = << >>
    <2> SUFFICES ASSUME NEW c
                 PROVE  [p \in 1..Cardinality(Stored(c, {})) |-> MessageAt(c, p)] = << >>
      OBVIOUS
    <2>1. 1..Cardinality(Stored(c, {})) = {}
      BY <1>2
    <2>2. QED
      BY <2>1
  <1>5. Log = [c \in SlackChats |-> << >>] /\ Cursor = [c \in SlackChats |-> 0] /\ Windows = {}
    BY <1>1, <1>3, <1>4 DEF Log, Cursor, Windows
  <1>6. CW!Chats = SlackChats
    BY DEF CW!Chats
  <1>7. QED
    BY <1>1, <1>5, <1>6 DEF CW!Init

LEMMA StepIsStep ==
    ASSUME IInv, IInv', [Next]_vars
    PROVE  [CW!Next]_(CW!vars)
  <1>1. ASSUME NEW h \in Ingesters, Commit(h)
        PROVE  CW!Next
    <2>1. CW!Ingest(Chat(h), Range(Request(h).msgs), Request(h).finished, Request(h).owned)
      BY <1>1, CommitIsIngest
    <2>2. ~At(h, "idle")
      BY <1>1 DEF Commit, At
    <2>3. /\ Chat(h) \in SlackChats /\ Request(h).finished \in BOOLEAN /\ Request(h).owned \in BOOLEAN
          /\ Request(h).msgs \in Seq(Messages) /\ Request(h).msgs # << >>
      <3>1. Request(h) \in Requests
        BY <2>2, AtWork DEF Running, Request
      <3>2. QED
        BY <3>1, RequestFacts DEF Requests, Chat
    <2>4. Range(Request(h).msgs) \in (SUBSET CW!Messages) \ {{}}
      <3>1. CW!Messages = Messages
        BY DEF CW!Messages, Messages
      <3>2. PICK m : m = Request(h).msgs
        OBVIOUS
      <3>3. m \in Seq(Messages) /\ m # << >>
        BY <2>3, <3>2
      <3>4. 1 \in DOMAIN m /\ \A i \in DOMAIN m : m[i] \in Messages
        BY <3>3, EmptySeq, LenProperties, ElementOfSeq
      <3>5. Range(m) \subseteq Messages /\ Range(m) # {}
        BY <3>4 DEF Range
      <3>6. QED
        BY <3>1, <3>2, <3>5
    <2>5. PICK c, batch, finished, owned :
             /\ c = Chat(h) /\ batch = Range(Request(h).msgs)
             /\ finished = Request(h).finished /\ owned = Request(h).owned
      OBVIOUS
    <2>6. CW!Ingest(c, batch, finished, owned)
      BY <2>1, <2>5
    <2>7. c \in SlackChats /\ batch \in (SUBSET CW!Messages) \ {{}} /\ finished \in BOOLEAN /\ owned \in BOOLEAN
      BY <2>3, <2>4, <2>5
    <2>8. QED
      BY <2>6, <2>7 DEF CW!Next
  <1>2. ASSUME NEW w \in Sweepers, CommitSweep(w)
        PROVE  CW!Next \/ UNCHANGED <<Log, Cursor, Windows, fenced>>
    BY <1>2, CommitSweepIsPass DEF CW!Next
  <1>3. ASSUME NEW c \in FenceableChats, Fence(c)
        PROVE  CW!Next
    BY <1>3, FenceIsFence DEF CW!Next
  <1>4. CASE UNCHANGED vars
    BY <1>4, OthersStutter DEF CW!vars
  <1>5. CASE Next
    <2>1. CASE \E h \in Ingesters : Commit(h)
      BY <1>1, <2>1
    <2>2. CASE \E w \in Sweepers : CommitSweep(w)
      BY <1>2, <2>2 DEF CW!vars
    <2>3. CASE \E c \in FenceableChats : Fence(c)
      BY <1>3, <2>3
    <2>4. CASE /\ ~\E h \in Ingesters : Commit(h)
               /\ ~\E w \in Sweepers : CommitSweep(w)
               /\ ~\E c \in FenceableChats : Fence(c)
      <3>1. \/ \E h \in Ingesters : \E r \in Requests : Begin(h, r)
            \/ \E h \in Ingesters : LockThread(h) \/ OpenRun(h) \/ Store(h) \/ Touch(h) \/ QueueWindow(h)
            \/ \E w \in Sweepers : SelectInactive(w) \/ SweepChat(w)
            \/ \E t \in Tx : Abort(t)
        BY <1>5, <2>4 DEF Next, IngestStep, SweepStep
      <3>2. UNCHANGED <<Log, Cursor, Windows, fenced>>
        BY <3>1, OthersStutter
      <3>3. QED
        BY <3>2 DEF CW!vars
    <2>5. QED
      BY <2>1, <2>2, <2>3, <2>4
  <1>6. QED
    BY <1>4, <1>5

\* The statements implement the transactions: READ COMMITTED under these locks makes
\* each committed ingest, sweep and fence one step of ChatWindows, whatever statements
\* of others ran in between, and leaves nothing of an aborted one.
THEOREM StatementsImplementTransactions == Spec => TransactionsAreAtomic
  <1>1. IInv /\ IInv' /\ [Next]_vars => [CW!Next]_(CW!vars)
    BY StepIsStep
  <1>2. QED
    BY <1>1, InvariantHolds, InitIsInit, PTL DEF Spec, TransactionsAreAtomic, CW!Spec

-----------------------------------------------------------------------------
(* No lock outlives its transaction                                        *)

Holders(c) == {advisory[c], runRow[c], chatRow[c]} \cup keyShare[c]
HeldByRunning == \A t \in Tx : At(t, "idle") => \A c \in SlackChats : t \notin Holders(c)

\* The steps of a transaction that goes on take locks for it alone.
LEMMA HeldWhileRunning ==
    ASSUME HeldByRunning, TxTypes, NEW t \in Tx, NEW v, v.pc # "idle", tx' = [tx EXCEPT ![t] = v],
           \A c \in SlackChats : Holders(c)' \subseteq Holders(c) \cup {t}
    PROVE  HeldByRunning'
  <1>1. /\ tx'[t] = v /\ \A s \in Tx \ {t} : tx'[s] = tx[s]
    BY DEF TxTypes
  <1>2. SUFFICES ASSUME NEW s \in Tx, At(s, "idle")', NEW c \in SlackChats
                 PROVE  s \notin Holders(c)'
    BY DEF HeldByRunning
  <1>3. s # t
    BY <1>1, <1>2 DEF At
  <1>4. At(s, "idle")
    BY <1>1, <1>2, <1>3 DEF At
  <1>5. QED
    BY <1>2, <1>3, <1>4 DEF HeldByRunning

LEMMA HeldAtRelease ==
    ASSUME HeldByRunning, TxTypes, NEW t \in Tx, Release(t)
    PROVE  HeldByRunning'
  <1>1. \A s \in Tx \ {t} : tx'[s] = tx[s]
    BY DEF TxTypes, Release
  <1>2. SUFFICES ASSUME NEW s \in Tx, At(s, "idle")', NEW c \in SlackChats
                 PROVE  s \notin Holders(c)'
    BY DEF HeldByRunning
  <1>3. /\ t \notin Holders(c)' /\ Holders(c)' \subseteq Holders(c) \cup {NoTx}
    BY <1>2, TxAssumption DEF Release, Holders
  <1>4. CASE s # t
    <2>1. At(s, "idle")
      BY <1>1, <1>2, <1>4 DEF At
    <2>2. s \notin Holders(c)
      BY <1>2, <2>1 DEF HeldByRunning
    <2>3. QED
      BY <1>2, <1>3, <2>2, TxAssumption
  <1>5. QED
    BY <1>3, <1>4

LEMMA HeldNext ==
    ASSUME IInv, HeldByRunning, [Next]_vars
    PROVE  HeldByRunning'
  <1>1. TxTypes /\ LockTypes
    BY DEF IInv, Types
  <1>2. UNCHANGED locks => \A c : Holders(c)' = Holders(c)
    BY DEF locks, Holders
  <1>3. CASE UNCHANGED vars
    BY <1>2, <1>3 DEF vars, locks, HeldByRunning, At
  <1>4. ASSUME NEW h \in Ingesters, NEW r \in Requests, Begin(h, r)
        PROVE  HeldByRunning'
    <2>1. PICK v : v = [pc |-> "begun", req |-> r, todo |-> r.msgs, own |-> {}, cut |-> {}]
      OBVIOUS
    <2>2. tx' = [tx EXCEPT ![h] = v] /\ v.pc # "idle" /\ h \in Tx
      BY <1>4, <2>1 DEF Begin, Tx
    <2>3. \A c \in SlackChats : Holders(c)' \subseteq Holders(c) \cup {h}
      BY <1>2, <1>4 DEF Begin
    <2>4. QED
      BY <1>1, <2>2, <2>3, HeldWhileRunning
  <1>5. ASSUME NEW h \in Ingesters, LockThread(h) \/ OpenRun(h) \/ Store(h) \/ Touch(h) \/ QueueWindow(h)
        PROVE  HeldByRunning'
    <2>1. h \in Tx /\ tx = [t \in Tx |-> tx[t]]
      BY <1>1 DEF TxTypes, Tx
    <2>2. \E v : v.pc # "idle" /\ tx' = [tx EXCEPT ![h] = v]
      <3>1. PICK v : v = tx'[h]
        OBVIOUS
      <3>2. ~At(h, "idle") /\ tx[h] \in Running
        <4>1. ~At(h, "idle")
          BY <1>5 DEF LockThread, OpenRun, Store, Touch, QueueWindow, At
        <4>2. QED
          BY <1>1, <4>1, RunningFacts
      <3>3. v.pc \in {"locked", "storing", "queueing", "done"}
        <4>1. DOMAIN tx[h] = {"pc", "req", "todo", "own", "cut"}
          BY <3>2 DEF Running
        <4>2. CASE LockThread(h)
          BY <2>1, <3>1, <4>1, <4>2 DEF LockThread
        <4>3. CASE OpenRun(h)
          BY <2>1, <3>1, <4>1, <4>3 DEF OpenRun
        <4>4. CASE Store(h)
          <5>1. PICK todo, own : tx'[h] = [tx[h] EXCEPT !.todo = todo, !.own = own]
            <6>1. \A x : tx[h] \in Running => [tx[h] EXCEPT !.todo = x] = [tx[h] EXCEPT !.todo = x, !.own = tx[h].own]
              BY DEF Running
            <6>2. \/ tx' = [tx EXCEPT ![h].todo = Tail(@)]
                  \/ \E new : tx' = [tx EXCEPT ![h].todo = Tail(@), ![h].own = @ \cup {new}]
              BY <4>4 DEF Store
            <6>3. CASE tx' = [tx EXCEPT ![h].todo = Tail(@)]
              BY <2>1, <3>2, <6>1, <6>3
            <6>4. ASSUME NEW new, tx' = [tx EXCEPT ![h].todo = Tail(@), ![h].own = @ \cup {new}]
                  PROVE  tx'[h] = [tx[h] EXCEPT !.todo = Tail(tx[h].todo), !.own = tx[h].own \cup {new}]
              BY <2>1, <6>4
            <6>5. QED
              BY <6>2, <6>3, <6>4
          <5>2. tx[h].pc = "storing"
            BY <4>4 DEF Store, At
          <5>3. QED
            BY <3>1, <4>1, <5>1, <5>2
        <4>5. CASE Touch(h)
          BY <2>1, <3>1, <4>1, <4>5 DEF Touch
        <4>6. CASE QueueWindow(h)
          BY <2>1, <3>1, <4>1, <4>6 DEF QueueWindow
        <4>7. QED
          BY <1>5, <4>2, <4>3, <4>4, <4>5, <4>6
      <3>4. tx' = [tx EXCEPT ![h] = v]
        BY <1>5, <2>1, <3>1 DEF LockThread, OpenRun, Store, Touch, QueueWindow
      <3>5. QED
        BY <3>3, <3>4
    <2>3. \A c \in SlackChats : Holders(c)' \subseteq Holders(c) \cup {h}
      BY <1>1, <1>2, <1>5
         DEF LockThread, OpenRun, Store, Touch, QueueWindow, Holders, LockTypes, tables, locks
    <2>4. QED
      BY <1>1, <2>1, <2>2, <2>3, HeldWhileRunning
  <1>6. ASSUME NEW w \in Sweepers, SelectInactive(w) \/ SweepChat(w)
        PROVE  HeldByRunning'
    <2>1. w \in Tx /\ tx = [t \in Tx |-> tx[t]]
      BY <1>1 DEF TxTypes, Tx
    <2>2. DOMAIN tx[w] = {"pc", "todo", "own", "cut"}
      <3>1. tx[w] \in Sweeping \/ tx[w] = Idle
        BY <1>1 DEF TxTypes
      <3>2. QED
        BY <3>1 DEF Sweeping, Idle
    <2>3. PICK v : v = tx'[w]
      OBVIOUS
    <2>4. v.pc = "sweeping"
      <3>1. CASE SelectInactive(w)
        <4>1. PICK found : tx' = [tx EXCEPT ![w].pc = "sweeping", ![w].todo = SetToSeq(found)]
          BY <3>1 DEF SelectInactive
        <4>2. tx'[w] = [tx[w] EXCEPT !.pc = "sweeping", !.todo = SetToSeq(found)]
          BY <2>1, <4>1
        <4>3. QED
          BY <2>2, <2>3, <4>2
      <3>2. CASE SweepChat(w)
        <4>1. PICK todo, cut : tx' = [tx EXCEPT ![w].todo = todo, ![w].cut = cut]
          BY <3>2 DEF SweepChat
        <4>2. tx'[w] = [tx[w] EXCEPT !.todo = todo, !.cut = cut]
          BY <2>1, <4>1
        <4>3. tx[w].pc = "sweeping"
          BY <3>2 DEF SweepChat, At
        <4>4. QED
          BY <2>2, <2>3, <4>2, <4>3
      <3>3. QED
        BY <1>6, <3>1, <3>2
    <2>5. tx' = [tx EXCEPT ![w] = v]
      BY <1>6, <2>1, <2>3 DEF SelectInactive, SweepChat
    <2>6. \A c \in SlackChats : Holders(c)' \subseteq Holders(c) \cup {w}
      BY <1>1, <1>6 DEF SelectInactive, SweepChat, Holders, LockTypes
    <2>7. QED
      BY <1>1, <2>1, <2>4, <2>5, <2>6, HeldWhileRunning
  <1>7. ASSUME NEW h \in Ingesters, Commit(h)
        PROVE  HeldByRunning'
    BY <1>1, <1>7, HeldAtRelease DEF Commit, Tx
  <1>8. ASSUME NEW w \in Sweepers, CommitSweep(w)
        PROVE  HeldByRunning'
    BY <1>1, <1>8, HeldAtRelease DEF CommitSweep, Tx
  <1>9. ASSUME NEW t \in Tx, Abort(t)
        PROVE  HeldByRunning'
    BY <1>1, <1>9, HeldAtRelease DEF Abort
  <1>10. ASSUME NEW c \in FenceableChats, Fence(c)
         PROVE  HeldByRunning'
    BY <1>2, <1>10 DEF Fence, HeldByRunning, At, locks
  <1>11. QED
    BY <1>3, <1>4, <1>5, <1>6, <1>7, <1>8, <1>9, <1>10 DEF Next, IngestStep, SweepStep

\* Rows, windows and cursors refer to drawn numbers, and each lock is held by a running
\* transaction of the kind that takes it, or by none.
THEOREM TypesHold == Spec => []TypeOK
  <1>1. Init => HeldByRunning
    <2> SUFFICES ASSUME Init PROVE HeldByRunning
      OBVIOUS
    <2>1. \A c \in SlackChats : Holders(c) = {NoTx}
      BY DEF Init, Holders
    <2>2. QED
      BY <2>1, TxAssumption DEF HeldByRunning
  <1>2. IInv /\ HeldByRunning /\ [Next]_vars => HeldByRunning'
    BY HeldNext
  <1>3. IInv /\ HeldByRunning => TypeOK
    <2> SUFFICES ASSUME IInv, HeldByRunning PROVE TypeOK
      OBVIOUS
    <2>1. \A t \in Tx : tx[t].own \subseteq Row /\ tx[t].cut \subseteq Interval
      BY DEF IInv, Types, TxTypes, Running, Sweeping, Idle, Tx
    <2>2. \A t \in Tx : At(t, "idle") => \A c \in SlackChats :
              t \notin {advisory[c], runRow[c], chatRow[c]} \cup keyShare[c]
      BY DEF HeldByRunning, Holders
    <2>3. through \in [SlackChats -> 0..serial]
      BY DEF IInv, Types, TableTypes
    <2>4. QED
      BY <2>1, <2>2, <2>3 DEF TypeOK, IInv, Types, TableTypes, LockTypes
  <1>4. QED
    BY <1>1, <1>2, <1>3, InvariantHolds, PTL DEF Spec
=============================================================================
