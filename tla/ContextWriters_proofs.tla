------------------------ MODULE ContextWriters_proofs ------------------------
(***************************************************************************)
(* What holds of the store for any rows, requests, threads and actors,     *)
(* whichever batches and calls interleave.                                 *)
(*                                                                         *)
(* Every transaction, a batch's as a call's, is summed up by the list of   *)
(* the rows it writes with their states before and after (Writes).  What   *)
(* is proved of such a list holds of the committed rows and, since a call  *)
(* writes no row that a batch has locked, of the rows as the batch reads   *)
(* them.                                                                   *)
(***************************************************************************)
EXTENDS ContextWriters, FiniteSetTheorems, WellFoundedInduction, TLAPS

-----------------------------------------------------------------------------
(* Journals and the rows they account for                                  *)

IsASeq(s) == s \in Seq(Range(s))

State(rows, id) == IF id \in DOMAIN rows THEN rows[id] ELSE NoRow

Ons(log) == {log[i].on : i \in DOMAIN log}

\* e leads from the row `old`, or from none, to its after_state.
Explains(e, old) ==
    /\ e.after.rev = e.from + 1 /\ e.from = old.rev
    /\ e.locked => e.before = old

\* Each entry continues the one before it of the same row.
Continues(log) ==
    \A j \in DOMAIN log : \A i \in 1..(j - 1) :
        log[i].on = log[j].on /\ (\A k \in (i + 1)..(j - 1) : log[k].on # log[j].on)
            => Explains(log[j], log[i].after)

\* The first entry of a row starts from the rows a,
Begins(log, a) ==
    \A j \in DOMAIN log : (\A k \in 1..(j - 1) : log[k].on # log[j].on)
        => Explains(log[j], State(a, log[j].on))

\* and the last one leaves it as in b.
Ends(log, b) ==
    \A i \in DOMAIN log : (\A k \in (i + 1)..Len(log) : log[k].on # log[i].on)
        => log[i].on \in DOMAIN b /\ b[log[i].on] = log[i].after

Untouched(log, a, b) ==
    \A id \in (DOMAIN a \cup DOMAIN b) \ Ons(log) :
        id \in DOMAIN a /\ id \in DOMAIN b /\ b[id] = a[id]

Counted(log) == \A i \in DOMAIN log : log[i].after.rev = log[i].from + 1

Recorded(log, b) == IsASeq(log) /\ Counted(log) /\ Continues(log) /\ Ends(log, b)

Accounts(log, a, b) == Recorded(log, b) /\ Begins(log, a) /\ Untouched(log, a, b)

\* One statement or one short transaction: one entry for each row it writes.
Writes(log, a, b) ==
    /\ IsASeq(log)
    /\ \A i, j \in DOMAIN log : log[i].on = log[j].on => i = j
    /\ \A i \in DOMAIN log : Explains(log[i], State(a, log[i].on))
    /\ DOMAIN b = DOMAIN a \cup Ons(log)
    /\ \A i \in DOMAIN log : b[log[i].on] = log[i].after
    /\ \A id \in DOMAIN a : id \notin Ons(log) => b[id] = a[id]

-----------------------------------------------------------------------------
(* Sequences, rows and journals                                            *)

LEMMA SeqFacts ==
    ASSUME NEW s, IsASeq(s)
    PROVE  /\ Len(s) \in Nat /\ DOMAIN s = 1..Len(s)
           /\ s = [i \in 1..Len(s) |-> s[i]]
  BY DEF IsASeq

LEMMA IsASeqIntro ==
    ASSUME NEW n \in Nat, NEW s, DOMAIN s = 1..n, s = [i \in 1..n |-> s[i]]
    PROVE  IsASeq(s) /\ Len(s) = n
<1>1. s \in [1..n -> Range(s)]
  BY DEF Range
<1> QED
  BY <1>1 DEF IsASeq

\* What concatenation does to two sequences of whatever elements.
LEMMA Concat ==
    ASSUME NEW s, NEW t, IsASeq(s), IsASeq(t)
    PROVE  /\ IsASeq(s \o t) /\ Len(s \o t) = Len(s) + Len(t)
           /\ \A i \in 1..Len(s) : (s \o t)[i] = s[i]
           /\ \A i \in 1..Len(t) : (s \o t)[Len(s) + i] = t[i]
           /\ \A i \in (Len(s) + 1)..(Len(s) + Len(t)) : (s \o t)[i] = t[i - Len(s)]
<1> DEFINE S == Range(s) \cup Range(t)
<1>1. s \in Seq(S) /\ t \in Seq(S)
  <2>1. s \in [1..Len(s) -> S] /\ Len(s) \in Nat
    BY SeqFacts DEF Range
  <2>2. t \in [1..Len(t) -> S] /\ Len(t) \in Nat
    BY SeqFacts DEF Range
  <2> QED
    BY <2>1, <2>2
<1> HIDE DEF S
<1>2. s \o t \in Seq(S) /\ Len(s \o t) = Len(s) + Len(t)
  BY <1>1
<1>3. IsASeq(s \o t)
  <2> DEFINE u == s \o t
  <2>1. u \in Seq(S)
    BY <1>2
  <2> HIDE DEF u
  <2>2. Len(u) \in Nat /\ DOMAIN u = 1..Len(u) /\ u = [i \in 1..Len(u) |-> u[i]]
    BY <2>1
  <2>3. IsASeq(u)
    BY <2>2, IsASeqIntro
  <2> QED
    BY <2>3 DEF u
<1>4. \A i \in 1..Len(s) : (s \o t)[i] = s[i]
  BY <1>1
<1>5. \A i \in (Len(s) + 1)..(Len(s) + Len(t)) : (s \o t)[i] = t[i - Len(s)]
  BY <1>1
<1>6. \A i \in 1..Len(t) : (s \o t)[Len(s) + i] = t[i]
  BY <1>1
<1> QED
  BY <1>2, <1>3, <1>4, <1>5, <1>6

LEMMA OverLaws ==
    ASSUME NEW f, NEW g
    PROVE  /\ DOMAIN Over(f, g) = DOMAIN f \cup DOMAIN g
           /\ \A x \in DOMAIN f : Over(f, g)[x] = f[x]
           /\ \A x \in DOMAIN g \ DOMAIN f : Over(f, g)[x] = g[x]
           /\ Over(f, g) \in [DOMAIN Over(f, g) -> Range(Over(f, g))]
  BY DEF Over, Range

LEMMA AtLaws == ASSUME NEW id, NEW r PROVE DOMAIN At(id, r) = {id} /\ At(id, r)[id] = r
  BY DEF At

\* A transaction's list accounts for the rows it writes.
LEMMA WritesAccount ==
    ASSUME NEW log, NEW a, NEW b, Writes(log, a, b) PROVE Accounts(log, a, b)
<1>1. IsASeq(log) /\ DOMAIN log = 1..Len(log) /\ Len(log) \in Nat
  BY SeqFacts DEF Writes
<1>2. Counted(log) /\ Begins(log, a)
  BY DEF Writes, Counted, Begins, Explains
<1>3. Continues(log)
  BY <1>1 DEF Writes, Continues
<1>4. Ends(log, b) /\ Untouched(log, a, b)
  BY DEF Writes, Ends, Untouched, Ons
<1> QED
  BY <1>1, <1>2, <1>3, <1>4 DEF Accounts, Recorded

LEMMA OnsOfBoth ==
    ASSUME NEW s, NEW t, IsASeq(s), IsASeq(t) PROVE Ons(s \o t) = Ons(s) \cup Ons(t)
<1>1. Len(s) \in Nat /\ Len(t) \in Nat /\ DOMAIN s = 1..Len(s) /\ DOMAIN t = 1..Len(t)
      /\ DOMAIN (s \o t) = 1..(Len(s) + Len(t))
  BY SeqFacts, Concat
<1>2. Ons(s \o t) \subseteq Ons(s) \cup Ons(t)
  <2> SUFFICES ASSUME NEW i \in 1..(Len(s) + Len(t)) PROVE (s \o t)[i].on \in Ons(s) \cup Ons(t)
    BY <1>1 DEF Ons
  <2>1. CASE i <= Len(s)
    BY <2>1, <1>1, Concat DEF Ons
  <2>2. CASE i > Len(s)
    <3>1. i - Len(s) \in 1..Len(t) /\ (s \o t)[i] = t[i - Len(s)]
      BY <2>2, <1>1, Concat
    <3> QED
      BY <3>1, <1>1 DEF Ons
  <2> QED
    BY <2>1, <2>2, <1>1
<1>3. Ons(s) \subseteq Ons(s \o t)
  BY <1>1, Concat DEF Ons
<1>4. Ons(t) \subseteq Ons(s \o t)
  <2> SUFFICES ASSUME NEW i \in 1..Len(t) PROVE t[i].on \in Ons(s \o t)
    BY <1>1 DEF Ons
  <2>1. Len(s) + i \in 1..(Len(s) + Len(t)) /\ (s \o t)[Len(s) + i] = t[i]
    BY <1>1, Concat
  <2> QED
    BY <2>1, <1>1 DEF Ons
<1> QED
  BY <1>2, <1>3, <1>4

\* A journal that explains the rows b goes on explaining them after what accounts for
\* the way from b to c.
LEMMA RecordedOn ==
    ASSUME NEW s, NEW t, NEW b, NEW c, Recorded(s, b), Accounts(t, b, c)
    PROVE  Recorded(s \o t, c)
<1> DEFINE u == s \o t
           n == Len(s)
<1>1. IsASeq(s) /\ IsASeq(t)
  BY DEF Accounts, Recorded
<1>2. n \in Nat /\ Len(t) \in Nat /\ DOMAIN s = 1..n /\ DOMAIN t = 1..Len(t)
      /\ DOMAIN u = 1..(n + Len(t)) /\ IsASeq(u) /\ Len(u) = n + Len(t)
  BY <1>1, SeqFacts, Concat
<1>3. /\ \A i \in 1..n : u[i] = s[i]
      /\ \A i \in 1..Len(t) : u[n + i] = t[i]
      /\ \A i \in (n + 1)..(n + Len(t)) : u[i] = t[i - n]
  BY <1>1, Concat
<1> HIDE DEF u, n
<1>4. Counted(u)
  BY <1>2, <1>3 DEF Accounts, Recorded, Counted
<1>5. Continues(u)
  <2> SUFFICES ASSUME NEW j \in 1..(n + Len(t)), NEW i \in 1..(j - 1), u[i].on = u[j].on,
                      \A k \in (i + 1)..(j - 1) : u[k].on # u[j].on
               PROVE  Explains(u[j], u[i].after)
    BY <1>2 DEF Continues
  <2>1. CASE j <= n
    <3>1. j \in 1..n /\ u[j] = s[j] /\ u[i] = s[i] /\ \A k \in (i + 1)..(j - 1) : s[k].on # s[j].on
      BY <2>1, <1>2, <1>3
    <3> QED
      BY <3>1, <1>2 DEF Recorded, Continues
  <2>2. CASE i > n
    <3>1. /\ j - n \in 1..Len(t) /\ i - n \in 1..((j - n) - 1)
          /\ j \in (n + 1)..(n + Len(t)) /\ i \in (n + 1)..(n + Len(t))
      BY <2>2, <1>2
    <3>3. u[j] = t[j - n] /\ u[i] = t[i - n]
      BY <3>1, <1>3
    <3>2. \A k \in ((i - n) + 1)..((j - n) - 1) : t[k].on # t[j - n].on
      <4> TAKE k \in ((i - n) + 1)..((j - n) - 1)
      <4>1. n + k \in (i + 1)..(j - 1) /\ u[n + k] = t[k]
        BY <3>1, <1>2, <1>3
      <4> QED
        BY <4>1, <3>1, <3>3
    <3> QED
      BY <3>1, <3>2, <3>3, <1>2 DEF Accounts, Recorded, Continues
  <2>3. CASE i <= n /\ j > n
    <3>1. j - n \in 1..Len(t) /\ u[j] = t[j - n] /\ u[i] = s[i] /\ i \in 1..n
      BY <2>3, <1>2, <1>3
    <3>2. \A k \in (i + 1)..n : s[k].on # s[i].on
      BY <3>1, <2>3, <1>2, <1>3
    <3>3. s[i].on \in DOMAIN b /\ b[s[i].on] = s[i].after
      BY <3>1, <3>2, <1>2 DEF Recorded, Ends, n
    <3>4. \A k \in 1..((j - n) - 1) : t[k].on # t[j - n].on
      <4> TAKE k \in 1..((j - n) - 1)
      <4>1. n + k \in (i + 1)..(j - 1) /\ u[n + k] = t[k]
        BY <3>1, <1>2, <1>3
      <4> QED
        BY <4>1, <3>1
    <3>5. Explains(t[j - n], State(b, t[j - n].on))
      BY <3>1, <3>4, <1>2 DEF Accounts, Begins
    <3> QED
      BY <3>1, <3>3, <3>5 DEF State
  <2> QED
    BY <2>1, <2>2, <2>3, <1>2
<1>6. Ends(u, c)
  <2> SUFFICES ASSUME NEW i \in 1..(n + Len(t)), \A k \in (i + 1)..(n + Len(t)) : u[k].on # u[i].on
               PROVE  u[i].on \in DOMAIN c /\ c[u[i].on] = u[i].after
    BY <1>2 DEF Ends
  <2>1. CASE i > n
    <3>1. i - n \in 1..Len(t) /\ u[i] = t[i - n]
      BY <2>1, <1>2, <1>3
    <3>2. \A k \in ((i - n) + 1)..Len(t) : t[k].on # t[i - n].on
      <4> TAKE k \in ((i - n) + 1)..Len(t)
      <4>1. n + k \in (i + 1)..(n + Len(t)) /\ u[n + k] = t[k]
        BY <3>1, <1>2, <1>3
      <4> QED
        BY <4>1, <3>1
    <3> QED
      BY <3>1, <3>2, <1>2 DEF Accounts, Recorded, Ends
  <2>2. CASE i <= n
    <3>1. i \in 1..n /\ u[i] = s[i] /\ \A k \in (i + 1)..n : s[k].on # s[i].on
      BY <2>2, <1>2, <1>3
    <3>2. s[i].on \in DOMAIN b /\ b[s[i].on] = s[i].after
      BY <3>1, <1>2 DEF Recorded, Ends, n
    <3>3. \A k \in 1..Len(t) : t[k].on # s[i].on
      <4> TAKE k \in 1..Len(t)
      <4>1. n + k \in (i + 1)..(n + Len(t)) /\ u[n + k] = t[k]
        BY <3>1, <1>2, <1>3
      <4> QED
        BY <4>1, <3>1
    <3>4. s[i].on \notin Ons(t)
      BY <3>3, <1>2 DEF Ons
    <3> QED
      BY <3>1, <3>2, <3>4 DEF Accounts, Untouched
  <2> QED
    BY <2>1, <2>2, <1>2
<1> QED
  BY <1>2, <1>4, <1>5, <1>6 DEF Recorded, u

\* Two accounts, one after the other.
LEMMA AccountsOn ==
    ASSUME NEW s, NEW t, NEW a, NEW b, NEW c, Accounts(s, a, b), Accounts(t, b, c)
    PROVE  Accounts(s \o t, a, c)
<1> DEFINE u == s \o t
           n == Len(s)
<1>1. IsASeq(s) /\ IsASeq(t)
  BY DEF Accounts, Recorded
<1>2. n \in Nat /\ Len(t) \in Nat /\ DOMAIN s = 1..n /\ DOMAIN t = 1..Len(t)
      /\ DOMAIN u = 1..(n + Len(t))
  BY <1>1, SeqFacts, Concat
<1>3. /\ \A i \in 1..n : u[i] = s[i]
      /\ \A i \in 1..Len(t) : u[n + i] = t[i]
      /\ \A i \in (n + 1)..(n + Len(t)) : u[i] = t[i - n]
  BY <1>1, Concat
<1>4. Ons(u) = Ons(s) \cup Ons(t)
  BY <1>1, OnsOfBoth
<1>5. Recorded(u, c)
  BY RecordedOn DEF Accounts
<1> HIDE DEF u, n
<1>6. Begins(u, a)
  <2> SUFFICES ASSUME NEW j \in 1..(n + Len(t)), \A k \in 1..(j - 1) : u[k].on # u[j].on
               PROVE  Explains(u[j], State(a, u[j].on))
    BY <1>2 DEF Begins
  <2>1. CASE j <= n
    <3>1. j \in 1..n /\ u[j] = s[j] /\ \A k \in 1..(j - 1) : s[k].on # s[j].on
      BY <2>1, <1>2, <1>3
    <3> QED
      BY <3>1, <1>2 DEF Accounts, Begins
  <2>2. CASE j > n
    <3>1. j - n \in 1..Len(t) /\ u[j] = t[j - n]
      BY <2>2, <1>2, <1>3
    <3>2. \A k \in 1..((j - n) - 1) : t[k].on # t[j - n].on
      <4> TAKE k \in 1..((j - n) - 1)
      <4>1. n + k \in 1..(j - 1) /\ u[n + k] = t[k]
        BY <3>1, <1>2, <1>3
      <4> QED
        BY <4>1, <3>1
    <3>3. Explains(t[j - n], State(b, t[j - n].on))
      BY <3>1, <3>2, <1>2 DEF Accounts, Begins
    <3>4. \A k \in 1..n : s[k].on # u[j].on
      BY <2>2, <1>2, <1>3
    <3>5. u[j].on \notin Ons(s)
      BY <3>4, <1>2 DEF Ons
    <3>6. State(a, u[j].on) = State(b, u[j].on)
      BY <3>5 DEF Accounts, Untouched, State
    <3> QED
      BY <3>1, <3>3, <3>6
  <2> QED
    BY <2>1, <2>2, <1>2
<1>7. Untouched(u, a, c)
  BY <1>4 DEF Accounts, Untouched
<1> QED
  BY <1>5, <1>6, <1>7 DEF Accounts, u

-----------------------------------------------------------------------------
(* Single rows                                                             *)

\* A row keeps its table, an Object its kind and a Connection its ends.
SameThing(old, new) ==
    /\ new.table = old.table
    /\ old.table = "object" => new.kind = old.kind
    /\ old.table = "connection" => new.src = old.src /\ new.dst = old.dst

\* A Task somebody executes is given up by her or a human only.
ClaimKept(old, new, who) ==
    old.table = "object" /\ old.kind = "task" /\ old.claim # None /\ new.claim # old.claim
        => who \in Humans \cup {old.claim}

\* A row changes in the fields F, besides what every change moves.
Alters(old, new, F) ==
    /\ DOMAIN new = DOMAIN old /\ new.rev = old.rev + 1
    /\ \A f \in DOMAIN old \ (F \cup {"rev", "by"}) : new[f] = old[f]

Evolves(old, new, who) ==
    /\ WellFormed(new) /\ new.rev = old.rev + 1
    /\ SameThing(old, new) /\ ClaimKept(old, new, who)

LEMMA TouchedAlters ==
    ASSUME NEW r, NEW who, WellFormed(r)
    PROVE  Alters(r, Touched(r, who), {})
<1>1. {"rev", "by"} \subseteq DOMAIN r
  BY DEF WellFormed, Columns
<1> QED
  BY <1>1 DEF Alters, Touched

LEMMA LiveAlters ==
    ASSUME NEW r, NEW who, NEW v, WellFormed(r)
    PROVE  LET new == [Touched(r, who) EXCEPT !.live = v]
           IN  Alters(r, new, {"live"}) /\ new.live = v
<1>1. {"rev", "by", "live"} \subseteq DOMAIN r
  BY DEF WellFormed, Columns
<1> QED
  BY <1>1 DEF Alters, Touched

LEMMA CurrentAlters ==
    ASSUME NEW r, NEW who, NEW v, WellFormed(r)
    PROVE  Alters(r, [Touched(r, who) EXCEPT !.current = v], {"current"})
<1>1. {"rev", "by"} \subseteq DOMAIN r
  BY DEF WellFormed, Columns
<1> QED
  BY <1>1 DEF Alters, Touched

LEMMA KindAlters ==
    ASSUME NEW r, NEW who, NEW v, WellFormed(r), r.table = "connection"
    PROVE  LET new == [Touched(r, who) EXCEPT !.kind = v]
           IN  Alters(r, new, {"kind"}) /\ new.kind = v
<1>1. {"rev", "by", "kind"} \subseteq DOMAIN r
  BY DEF WellFormed, Columns
<1> QED
  BY <1>1 DEF Alters, Touched

LEMMA HoldsAlters ==
    ASSUME NEW r, NEW who, NEW S, WellFormed(r), r.table = "object"
    PROVE  LET new == [Touched(r, who) EXCEPT !.holds = S]
           IN  Alters(r, new, {"holds"}) /\ new.holds = S
<1>1. {"rev", "by", "holds"} \subseteq DOMAIN r
  BY DEF WellFormed, Columns
<1> QED
  BY <1>1 DEF Alters, Touched

LEMMA AssertedAlters ==
    ASSUME NEW r, NEW who, NEW key, WellFormed(r), r.table = "connection"
    PROVE  Alters(r, Asserted(Touched(r, who), key), {"says"})
<1>1. {"rev", "by", "says"} \subseteq DOMAIN r
  BY DEF WellFormed, Columns
<1> QED
  BY <1>1 DEF Alters, Touched, Asserted

\* Everything but what a Task's trigger looks at may change without its leave.
LEMMA AlteredEvolves ==
    ASSUME NEW old, NEW new, NEW who, NEW F, WellFormed(old), Alters(old, new, F),
           F \subseteq {"live", "current", "holds", "says", "kind"}, new.live \in BOOLEAN,
           "kind" \in F => old.table = "connection"
    PROVE  Evolves(old, new, who)
<1>1. old.table \in {"object", "connection", "category"} /\ DOMAIN old = Columns[old.table]
      /\ old.rev \in Nat \ {0}
  BY DEF WellFormed, Columns
<1>2. new.table = old.table /\ DOMAIN new = DOMAIN old
  BY <1>1 DEF Alters, Columns
<1>3. old.table = "object" => new.kind = old.kind /\ new.claim = old.claim /\ new.status = old.status
  BY <1>1 DEF Alters, Columns
<1>4. old.table = "connection" => new.src = old.src /\ new.dst = old.dst
  BY <1>1 DEF Alters, Columns
<1>5. new.rev = old.rev + 1 /\ new.rev \in Nat \ {0}
  BY <1>1 DEF Alters
<1>6. WellFormed(new)
  BY <1>1, <1>2, <1>3, <1>5 DEF WellFormed
<1> QED
  BY <1>2, <1>3, <1>4, <1>5, <1>6 DEF Evolves, SameThing, ClaimKept

LEMMA WithLaws ==
    ASSUME NEW r, NEW set
    PROVE  /\ DOMAIN With(r, set) = DOMAIN r
           /\ \A f \in DOMAIN r \ DOMAIN set : With(r, set)[f] = r[f]
           /\ \A f \in DOMAIN r \cap DOMAIN set : With(r, set)[f] = set[f]
  BY DEF With

\* A new Object has no claim and no identity, whatever fields a request names.
LEMMA NewObjectLaws ==
    ASSUME NEW fields, NEW who, DOMAIN fields \subseteq {"kind"} \cup Settable
    PROVE  LET new == NewObject(fields, who)
           IN  /\ WellFormed(new) /\ new.table = "object" /\ new.rev = 1 /\ new.live
               /\ new.holds = {} /\ new.claim = None
               /\ new.cites = IF "cites" \in DOMAIN fields THEN fields.cites ELSE None
               /\ new.kind = IF "kind" \in DOMAIN fields THEN fields.kind ELSE "none"
<1> DEFINE bare == [table |-> "object", kind |-> "none", live |-> TRUE, rev |-> 1, by |-> who,
                    owner |-> None, status |-> "todo", claim |-> None, cites |-> None,
                    current |-> None, holds |-> {}, cats |-> {}, evidence |-> {}]
           new == With(bare, fields)
<1>1. /\ DOMAIN bare = Columns["object"] /\ bare.table = "object" /\ bare.rev = 1 /\ bare.live = TRUE
      /\ bare.holds = {} /\ bare.claim = None /\ bare.cites = None /\ bare.kind = "none"
  BY DEF Columns
<1>2. new = NewObject(fields, who)
  BY DEF NewObject
<1> HIDE DEF bare
<1>3. {"table", "rev", "live", "holds", "claim"} \cap DOMAIN fields = {}
  BY DEF Settable
<1>4. DOMAIN new = Columns["object"] /\ \A f \in {"table", "rev", "live", "holds", "claim"} : new[f] = bare[f]
  BY <1>1, <1>3, WithLaws DEF Columns
<1>5. /\ new.cites = IF "cites" \in DOMAIN fields THEN fields.cites ELSE None
      /\ new.kind = IF "kind" \in DOMAIN fields THEN fields.kind ELSE "none"
  <2>1. {"cites", "kind"} \subseteq DOMAIN bare
    BY <1>1 DEF Columns
  <2> QED
    BY <1>1, <2>1, WithLaws
<1> HIDE DEF new
<1>6. new.table = "object" /\ new.rev = 1 /\ new.live = TRUE /\ new.holds = {} /\ new.claim = None
  BY <1>1, <1>4
<1>7. WellFormed(new)
  <2>1. "object" \in DOMAIN Columns
    BY DEF Columns
  <2>2. new.table \in DOMAIN Columns /\ DOMAIN new = Columns[new.table]
    BY <1>4, <1>6, <2>1
  <2>3. new.rev \in Nat \ {0} /\ new.claim = None
    BY <1>6
  <2>4. new.live \in BOOLEAN
    BY <1>6, Zenon
  <2> QED
    BY <2>2, <2>3, <2>4 DEF WellFormed
<1> QED
  BY <1>2, <1>5, <1>6, <1>7

LEMMA NewConnectionLaws ==
    ASSUME NEW src, NEW kind, NEW dst, NEW who
    PROVE  LET new == NewConnection(src, kind, dst, who)
           IN  /\ WellFormed(new) /\ new.table = "connection" /\ new.rev = 1 /\ new.live
               /\ new.src = src /\ new.dst = dst /\ new.kind = kind
  BY DEF NewConnection, WellFormed, Columns

LEMMA NewCategoryLaws ==
    ASSUME NEW who
    PROVE  LET new == NewCategory(who)
           IN  WellFormed(new) /\ new.table = "category" /\ new.rev = 1
  BY DEF NewCategory, WellFormed, Columns

\* The trigger leaves all but the claim, and a claim only to a Task in status doing.
LEMMA ClaimedLaws ==
    ASSUME NEW old, NEW new, NEW actor, DOMAIN new = Columns["object"]
    PROVE  LET c == Claimed(old, new, actor)
           IN  /\ DOMAIN c = DOMAIN new /\ \A f \in DOMAIN new \ {"claim"} : c[f] = new[f]
               /\ c.claim # None => new.status = "doing"
               /\ new.status = "doing" /\ old.status = "doing" => c.claim = new.claim
  BY DEF Claimed, Columns


\* A new Task may be claimed at once.
LEMMA NewTaskLaws ==
    ASSUME NEW r, NEW old, NEW actor, WellFormed(r), r.table = "object", old.status # "doing"
    PROVE  LET new == Claimed(old, r, actor)
           IN  /\ WellFormed(new) /\ new.table = "object" /\ new.rev = r.rev /\ new.live = r.live
               /\ new.kind = r.kind /\ new.holds = r.holds /\ new.cites = r.cites /\ new.cats = r.cats
<1> DEFINE new == Claimed(old, r, actor)
<1>1. DOMAIN r = Columns["object"] /\ r.live \in BOOLEAN /\ r.rev \in Nat \ {0} /\ "object" \in DOMAIN Columns
  BY DEF WellFormed, Columns
<1>2. /\ DOMAIN new = DOMAIN r /\ \A f \in DOMAIN r \ {"claim"} : new[f] = r[f]
      /\ new.claim # None => r.status = "doing"
  BY <1>1, ClaimedLaws
<1>3. {"table", "rev", "live", "kind", "holds", "cites", "cats", "status"} \subseteq DOMAIN r \ {"claim"}
  BY <1>1 DEF Columns
<1> HIDE DEF new
<1>4. /\ new.table = "object" /\ new.rev = r.rev /\ new.live = r.live /\ new.kind = r.kind
      /\ new.holds = r.holds /\ new.cites = r.cites /\ new.cats = r.cats /\ new.status = r.status
  BY <1>2, <1>3
<1>5. WellFormed(new)
  BY <1>1, <1>2, <1>4 DEF WellFormed
<1> QED
  BY <1>4, <1>5 DEF new

\* What the trigger leaves of a Task, when it has allowed it.
LEMMA ClaimedEvolves ==
    ASSUME NEW old, NEW r, NEW actor, WellFormed(old), old.table = "object", old.kind = "task",
           DOMAIN r = DOMAIN old, \A f \in {"table", "kind", "live"} : r[f] = old[f],
           r.rev = old.rev + 1,
           old.status = "doing" /\ old.claim # None => old.claim = actor \/ actor \in Humans
    PROVE  Evolves(old, Claimed(old, r, actor), actor)
<1> DEFINE new == Claimed(old, r, actor)
<1>1. /\ DOMAIN old = Columns["object"] /\ old.live \in BOOLEAN /\ old.rev \in Nat \ {0}
      /\ "object" \in DOMAIN Columns /\ (old.claim # None => old.status = "doing")
  BY DEF WellFormed, Columns
<1>2. /\ DOMAIN new = DOMAIN r /\ \A f \in DOMAIN r \ {"claim"} : new[f] = r[f]
      /\ new.claim # None => r.status = "doing"
  BY <1>1, ClaimedLaws
<1>3. {"table", "rev", "live", "kind", "status"} \subseteq DOMAIN r \ {"claim"}
  BY <1>1 DEF Columns
<1> HIDE DEF new
<1>4. /\ new.table = "object" /\ new.rev = old.rev + 1 /\ new.live = old.live /\ new.kind = old.kind
      /\ new.status = r.status
  BY <1>2, <1>3
<1>5. WellFormed(new)
  BY <1>1, <1>2, <1>4 DEF WellFormed
<1>6. SameThing(old, new)
  BY <1>4 DEF SameThing
<1>7. ClaimKept(old, new, actor)
  BY <1>1 DEF ClaimKept
<1> QED
  BY <1>4, <1>5, <1>6, <1>7 DEF Evolves, new

-----------------------------------------------------------------------------
(* The inductive invariant                                                 *)

TxFields == {"batch", "at", "step", "held", "row", "art", "corr", "log"}

Tagged(e, b, at) == e.run = Run(b) /\ e.who = b.who /\ e.thread = b.thread /\ e.at = at

Requests ==
    /\ \A b \in work.batches : BatchAssumed(b)
    /\ \A c \in work.calls : CallAssumed(c)
    /\ \A b \in work.batches, c \in work.calls : c.op = "create_object" => ~Makes(b, c.on)

\* What a call has found out before its transaction.
CallChecked(p) ==
    /\ p.call \in work.calls /\ IsFiniteSet(p.missing)
    /\ p.path = "links" => KeyOf(p.call) \in DOMAIN keys
    /\ p.path = "write" /\ p.call.op \in {"update_object", "update_note"} =>
          p.call.on \in OfTable(row, "object") /\ p.seen.live \in BOOLEAN
    /\ p.path = "write" /\ p.call.op = "update_task" => p.call.on \in OfKind(row, "task")
    /\ p.path = "write" /\ p.call.op = "create_note" =>
          p.call.fields.cites \in DOMAIN art \cup {None}

BaseInv ==
    /\ Admitted(row, art) /\ Admitted(Rows, Arts)
    /\ fenced \subseteq Threads
    /\ \A i \in DOMAIN events : events[i].on \in DOMAIN row
    /\ \A k \in DOMAIN receipts : receipts[k].dry = FALSE
    /\ \A k \in DOMAIN keys : keys[k] \in DOMAIN row
    /\ Requests /\ \A p \in calls : CallChecked(p)
    /\ cutover \in BOOLEAN

BatchInv ==
    /\ \A w \in waiting : w.batch \in work.batches /\ w.at \in Nat /\ w.at <= BeginsNow
    /\ tx # NoTx =>
         /\ DOMAIN tx = TxFields /\ tx.batch \in work.batches
         /\ tx.at \in Nat /\ tx.at <= BeginsNow /\ tx.step \in Nat \ {0}
         /\ Ons(tx.log) = DOMAIN tx.row /\ DOMAIN tx.row \subseteq tx.held
         /\ \A i \in DOMAIN tx.log : Tagged(tx.log[i], tx.batch, tx.at)
         /\ \A id \in DOMAIN tx.row \cap DOMAIN row : SameThing(row[id], tx.row[id])
         /\ \A op \in Range(tx.batch.ops) : op.op = "reassign" => {op.on, op.to} \subseteq tx.held

JournalInv ==
    /\ Recorded(events, row)
    /\ tx # NoTx => Accounts(tx.log, row, Rows)

UsedRuns == DOMAIN keys \cup {<<"context_apply", k[1], k[2]>> : k \in DOMAIN receipts}

OnceInv ==
    /\ AppliedOnce
    /\ \A i \in DOMAIN events : events[i].run \in UsedRuns
    /\ \A k \in DOMAIN keys : k[1] = "call"
    /\ \A k \in DOMAIN receipts : k = Receipt(receipts[k])
    /\ tx # NoTx /\ ~tx.batch.dry => Receipt(tx.batch) \notin DOMAIN receipts

ByAgent(b) == b.who \notin Humans /\ ~b.maint

GateInv ==
    /\ \A w \in waiting : w.batch.thread \notin fenced /\ NamesSeen(w.batch)
    /\ tx # NoTx => tx.batch.thread \notin fenced
    /\ tx # NoTx /\ cutover /\ ByAgent(tx.batch) =>
         /\ \A op \in Range(tx.batch.ops) :
               /\ ~(op.op = "create_object" /\ op.fields.kind = "memory")
               /\ op.op \in MemoryOps => /\ op.on \notin OfKind(Rows, "memory")
                                         /\ op.on \in DOMAIN row \/ Makes(tx.batch, op.on)
         /\ \A m \in OfKind(Rows, "memory") :
               m \in DOMAIN row /\ Rows[m].live = row[m].live

ClaimInv ==
    tx # NoTx => \A t \in DOMAIN tx.row \cap DOMAIN row :
                     ClaimKept(row[t], tx.row[t], tx.batch.who)

\* Corrections of one target form a chain below the revision of their Object.
Corrected(C, rows) ==
    /\ \A c \in C : /\ c.on \in DOMAIN rows /\ c.rev \in Nat /\ c.supersedes \in Nat
                    /\ c.supersedes < c.rev /\ c.rev <= rows[c.on].rev
                    /\ c.supersedes \in {0} \cup {e.rev : e \in {x \in C : x.on = c.on /\ x.about = c.about}}
    /\ \A c, d \in C : c # d /\ c.on = d.on /\ c.about = d.about =>
                           c.rev # d.rev /\ c.supersedes # d.supersedes

SuccessorInv ==
    /\ Corrected(corr, row) /\ Corrected(Corrections, Rows)
    /\ VisualsApart(art)
    /\ tx # NoTx => /\ DOMAIN tx.art \cap DOMAIN art = {}
                    /\ \A a \in DOMAIN tx.art : tx.art[a].document = None

CheckInv ==
    tx # NoTx =>
      /\ \A id \in DOMAIN tx.row \cap OfTable(row, "object") :
            row[id].live /\ ~Rows[id].live => LinksOf(Rows, id) = {}
      /\ \A c \in ActiveLinks(Rows) : Miscited(Rows, Arts, c) =>
            (c \in ActiveLinks(row) /\ Miscited(row, art, c)) \/ Meanwhile(c) # {}
      /\ \A id \in DOMAIN tx.row \cap OfTable(row, "category") :
            row[id].live /\ ~Rows[id].live =>
                \A o \in OfKind(Rows, "entity") :
                    Rows[o].live /\ id \in Rows[o].cats => Returned(o)

IInv == BaseInv /\ BatchInv /\ JournalInv /\ OnceInv /\ GateInv /\ ClaimInv
        /\ SuccessorInv /\ CheckInv


-----------------------------------------------------------------------------
(* What a list of writes leaves                                            *)

\* Rows that exist evolve, new ones are well formed.
Sound(log, a, who) ==
    \A i \in DOMAIN log :
        /\ log[i].on \in Ids
        /\ log[i].on \in DOMAIN a => Evolves(a[log[i].on], log[i].after, who)
        /\ log[i].on \notin DOMAIN a => WellFormed(log[i].after)

\* What foreign keys look up is there.
Refers(new, b, arts) ==
    /\ new.table = "connection" => {new.src, new.dst} \subseteq DOMAIN b
    /\ new.table = "object" /\ new.kind = "note" => new.cites \in DOMAIN arts \cup {None}

\* No identity is moved.
HoldsKept(log, a) ==
    \A i \in DOMAIN log : log[i].after.table = "object" =>
        log[i].after.holds = IF log[i].on \in DOMAIN a THEN a[log[i].on].holds ELSE {}

ArtsGrow(arts, more, rows) ==
    /\ more \in [DOMAIN more -> Range(more)] /\ DOMAIN arts \subseteq DOMAIN more
    /\ DOMAIN more \subseteq Artifacts
    /\ \A x \in DOMAIN arts : more[x] = arts[x]
    /\ \A x \in DOMAIN more \ DOMAIN arts : more[x].of \in DOMAIN rows

\* A row after the writes is an entry's or as it was.
LEMMA WhichRow ==
    ASSUME NEW log, NEW a, NEW b, Writes(log, a, b), NEW id \in DOMAIN b
    PROVE  \/ id \in DOMAIN a /\ id \notin Ons(log) /\ b[id] = a[id]
           \/ \E i \in DOMAIN log : log[i].on = id /\ b[id] = log[i].after
  BY DEF Writes, Ons

LEMMA AdmittedOn ==
    ASSUME NEW log, NEW a, NEW b, NEW arts, NEW more, NEW who,
           Admitted(a, arts), Writes(log, a, b), Sound(log, a, who),
           b \in [DOMAIN b -> Range(b)], IdentitiesApart(b), ArtsGrow(arts, more, b),
           \A i \in DOMAIN log : Refers(log[i].after, b, more)
    PROVE  Admitted(b, more)
<1>1. DOMAIN b = DOMAIN a \cup Ons(log) /\ DOMAIN b \subseteq Ids
  BY DEF Writes, Ons, Sound, Admitted
<1>2. ASSUME NEW id \in DOMAIN b PROVE WellFormed(b[id])
  <2>1. CASE id \in DOMAIN a /\ b[id] = a[id]
    BY <2>1 DEF Admitted
  <2>2. CASE \E i \in DOMAIN log : log[i].on = id /\ b[id] = log[i].after
    BY <2>2 DEF Sound, Evolves
  <2> QED
    BY <2>1, <2>2, WhichRow
<1>3. ASSUME NEW c \in OfTable(b, "connection") PROVE {b[c].src, b[c].dst} \subseteq DOMAIN b
  <2>1. CASE c \in DOMAIN a /\ b[c] = a[c]
    BY <2>1, <1>1 DEF Admitted, OfTable
  <2>2. CASE \E i \in DOMAIN log : log[i].on = c /\ b[c] = log[i].after
    BY <2>2 DEF Refers, OfTable
  <2> QED
    BY <2>1, <2>2, WhichRow DEF OfTable
<1>4. ASSUME NEW n \in OfKind(b, "note") PROVE b[n].cites \in DOMAIN more \cup {None}
  <2>1. CASE n \in DOMAIN a /\ b[n] = a[n]
    <3>1. a[n].cites \in DOMAIN arts \cup {None}
      BY <2>1 DEF Admitted, OfKind, OfTable
    <3> QED
      BY <2>1, <3>1 DEF ArtsGrow
  <2>2. CASE \E i \in DOMAIN log : log[i].on = n /\ b[n] = log[i].after
    BY <2>2 DEF Refers, OfTable, OfKind
  <2> QED
    BY <2>1, <2>2, WhichRow DEF OfTable, OfKind
<1>5. ASSUME NEW x \in DOMAIN more PROVE more[x].of \in DOMAIN b
  BY <1>1 DEF ArtsGrow, Admitted
<1> QED
  BY <1>1, <1>2, <1>3, <1>4, <1>5 DEF Admitted, ArtsGrow

LEMMA ApartOn ==
    ASSUME NEW log, NEW a, NEW b, NEW who, IdentitiesApart(a), Writes(log, a, b),
           Sound(log, a, who), HoldsKept(log, a)
    PROVE  IdentitiesApart(b)
<1>1. ASSUME NEW id \in OfTable(b, "object")
      PROVE  \/ b[id].holds = {}
             \/ id \in OfTable(a, "object") /\ b[id].holds = a[id].holds
  <2>1. CASE id \in DOMAIN a /\ b[id] = a[id]
    BY <2>1 DEF OfTable
  <2>2. CASE \E i \in DOMAIN log : log[i].on = id /\ b[id] = log[i].after
    <3>1. PICK i \in DOMAIN log : log[i].on = id /\ b[id] = log[i].after
      BY <2>2
    <3>2. log[i].after.table = "object"
      BY <3>1 DEF OfTable
    <3>3. CASE id \in DOMAIN a
      BY <3>1, <3>2, <3>3 DEF OfTable, HoldsKept, Sound, Evolves, SameThing
    <3>4. CASE id \notin DOMAIN a
      BY <3>1, <3>2, <3>4 DEF HoldsKept
    <3> QED
      BY <3>3, <3>4
  <2> QED
    BY <2>1, <2>2, WhichRow DEF OfTable
<1> QED
  BY <1>1 DEF IdentitiesApart

-----------------------------------------------------------------------------
(* What a statement may do to what a batch has checked                     *)

\* Links join active Objects, an archived Object has none, no excerpt begins to derive
\* from another Source, and no active Entity keeps or gets an archived category,
\* except one of the Objects `back`, which return from the archive.
KeepsChecks(a, b, arts, more, back) ==
    /\ \A c \in ActiveLinks(b) :
          \/ c \in ActiveLinks(a) /\ b[c].src = a[c].src /\ b[c].dst = a[c].dst
          \/ Live(b, b[c].src) /\ Live(b, b[c].dst)
    /\ \A id \in OfTable(a, "object") : a[id].live /\ ~b[id].live => LinksOf(b, id) = {}
    /\ \A c \in ActiveLinks(b) : Miscited(b, more, c) => c \in ActiveLinks(a) /\ Miscited(a, arts, c)
    /\ \A id \in OfTable(a, "category") : a[id].live /\ ~b[id].live =>
          \A o \in OfKind(b, "entity") : b[o].live => id \notin b[o].cats
    /\ \A o \in OfKind(b, "entity") : \A g \in b[o].cats : b[o].live /\ ~Live(b, g) =>
          \/ o \in OfKind(a, "entity") /\ a[o].live /\ g \in a[o].cats
          \/ o \in back

MemoriesStay(a, b) ==
    \A m \in OfKind(b, "memory") : m \in OfKind(a, "memory") /\ b[m].live = a[m].live

\* What the checks look at is as before.
Quiet(a, b) ==
    /\ DOMAIN b = DOMAIN a
    /\ \A id \in DOMAIN a :
          /\ b[id].table = a[id].table /\ b[id].live = a[id].live
          /\ a[id].table = "object" => /\ b[id].kind = a[id].kind /\ b[id].cites = a[id].cites
                                       /\ b[id].cats = a[id].cats
          /\ a[id].table = "connection" => /\ b[id].src = a[id].src /\ b[id].dst = a[id].dst
                                           /\ b[id].kind = a[id].kind

OnlyAt(id, a, b) == /\ DOMAIN b = DOMAIN a \cup {id}
                    /\ \A x \in DOMAIN a \ {id} : b[x] = a[x]

\* Artifacts that exist keep their Object.
LEMMA CitesKept ==
    ASSUME NEW a, NEW b, NEW arts, NEW more, Admitted(a, arts), ArtsGrow(arts, more, b),
           NEW c, NEW d, b[c].src \in OfKind(a, "note") => b[b[c].src].cites = a[b[c].src].cites,
           b[c].src \in OfKind(b, "note") => b[c].src \in OfKind(a, "note"),
           a[d].src = b[c].src, a[d].kind = b[c].kind, a[d].dst = b[c].dst, Miscited(b, more, c)
    PROVE  Miscited(a, arts, d)
<1> DEFINE n == b[c].src
<1>1. n \in OfKind(a, "note") /\ b[n].cites = a[n].cites /\ b[n].cites # None
  BY DEF Miscited
<1>2. a[n].cites \in DOMAIN arts /\ more[a[n].cites] = arts[a[n].cites]
  BY <1>1 DEF Admitted, ArtsGrow
<1> QED
  BY <1>1, <1>2 DEF Miscited

LEMMA QuietKeeps ==
    ASSUME NEW a, NEW b, NEW arts, NEW more, NEW back, Admitted(a, arts), ArtsGrow(arts, more, b),
           Quiet(a, b)
    PROVE  KeepsChecks(a, b, arts, more, back) /\ MemoriesStay(a, b)
<1>1. ActiveLinks(b) = ActiveLinks(a) /\ OfTable(b, "object") = OfTable(a, "object")
      /\ OfTable(b, "category") = OfTable(a, "category")
  BY DEF Quiet, ActiveLinks, OfTable
<1>2. \A k : OfKind(b, k) = OfKind(a, k)
  BY <1>1 DEF Quiet, OfKind, OfTable
<1>3. \A c \in ActiveLinks(b) : b[c].src = a[c].src /\ b[c].dst = a[c].dst /\ b[c].kind = a[c].kind
  BY DEF Quiet, ActiveLinks, OfTable
<1>4. \A c \in ActiveLinks(b) : Miscited(b, more, c) => Miscited(a, arts, c)
  <2> SUFFICES ASSUME NEW c \in ActiveLinks(b), Miscited(b, more, c) PROVE Miscited(a, arts, c)
    OBVIOUS
  <2>1. \A n \in OfKind(a, "note") : b[n].cites = a[n].cites
    BY DEF Quiet, OfKind, OfTable
  <2> QED
    BY <2>1, <1>2, <1>3, CitesKept
<1>5. \A o \in OfKind(b, "entity") : b[o].live = a[o].live /\ b[o].cats = a[o].cats
  BY DEF Quiet, OfKind, OfTable
<1>6. \A id \in DOMAIN a : b[id].live = a[id].live
  BY DEF Quiet
<1> QED
  BY <1>1, <1>2, <1>3, <1>4, <1>5, <1>6
  DEF KeepsChecks, MemoriesStay, OfKind, OfTable

ObjectWrite(a, b, arts, back, id) ==
    /\ b[id].table = "object"
    /\ id \in DOMAIN a => /\ a[id].table = "object" /\ b[id].kind = a[id].kind
                          /\ a[id].live /\ ~b[id].live => LinksOf(a, id) = {}
    /\ id \in OfKind(a, "note") => b[id].cites = a[id].cites \/ ~Miscites(b, arts, id)
    /\ id \in OfKind(b, "note") => b[id].cites \in DOMAIN arts \cup {None}
    /\ b[id].kind = "entity" => \A g \in b[id].cats : b[id].live =>
           \/ Live(a, g)
           \/ id \in DOMAIN a /\ a[id].live /\ g \in a[id].cats
           \/ id \in back

LEMMA ObjectWriteKeeps ==
    ASSUME NEW a, NEW b, NEW arts, NEW more, NEW back, NEW id, Admitted(a, arts),
           ArtsGrow(arts, more, b), OnlyAt(id, a, b), ObjectWrite(a, b, arts, back, id)
    PROVE  /\ KeepsChecks(a, b, arts, more, back)
           /\ (b[id].kind = "memory" => id \in DOMAIN a /\ b[id].live = a[id].live)
                 => MemoriesStay(a, b)
<1>0. /\ b[id].table = "object"
      /\ id \in DOMAIN a => a[id].table = "object" /\ b[id].kind = a[id].kind
      /\ id \in DOMAIN a /\ a[id].live /\ ~b[id].live => LinksOf(a, id) = {}
      /\ id \in OfKind(a, "note") => b[id].cites = a[id].cites \/ ~Miscites(b, arts, id)
      /\ id \in OfKind(b, "note") => b[id].cites \in DOMAIN arts \cup {None}
  BY DEF ObjectWrite
<1>1. ActiveLinks(b) = ActiveLinks(a) /\ id \notin ActiveLinks(a)
      /\ OfTable(b, "category") = OfTable(a, "category") /\ id \notin OfTable(a, "category")
  BY <1>0 DEF OnlyAt, ActiveLinks, OfTable
<1>2. \A c \in ActiveLinks(b) : c \in DOMAIN a /\ b[c] = a[c] /\ a[c].src \in DOMAIN a
  BY <1>1 DEF OnlyAt, ActiveLinks, OfTable, Admitted
<1>3. \A x : LinksOf(b, x) = LinksOf(a, x)
  BY <1>1, <1>2 DEF LinksOf
<1>4. ASSUME NEW c \in ActiveLinks(b), Miscited(b, more, c) PROVE Miscited(a, arts, c)
  <2> DEFINE n == b[c].src
  <2>1. n \in DOMAIN a /\ b[c] = a[c] /\ n \in OfKind(b, "note")
    BY <1>2, <1>4 DEF Miscited
  <2>2. n \in OfKind(a, "note")
    BY <2>1, <1>0 DEF OnlyAt, OfKind, OfTable
  <2>3. CASE n = id /\ b[id].cites # a[id].cites
    <3>1. ~Miscites(b, arts, id) /\ b[id].cites # None
      BY <2>2, <2>3, <1>0, <1>4 DEF Miscited
    <3>2. Miscited(b, arts, c)
      <4>1. b[id].cites \in DOMAIN arts
        BY <2>1, <2>3, <3>1, <1>0
      <4>2. more[b[id].cites] = arts[b[id].cites]
        BY <4>1 DEF ArtsGrow
      <4> QED
        BY <1>4, <2>3, <4>2 DEF Miscited
    <3> QED
      BY <3>1, <3>2, <2>3 DEF Miscites
  <2>4. CASE b[n].cites = a[n].cites
    BY <2>1, <2>2, <2>4, <1>4, CitesKept
  <2>5. n # id => b[n].cites = a[n].cites
    BY <2>1 DEF OnlyAt
  <2> QED
    BY <2>3, <2>4, <2>5
<1>5. \A g : g # id => Live(b, g) = Live(a, g)
  BY DEF OnlyAt, Live
<1>6. ASSUME NEW o \in OfKind(b, "entity"), NEW g \in b[o].cats, b[o].live, ~Live(b, g)
      PROVE  \/ o \in OfKind(a, "entity") /\ a[o].live /\ g \in a[o].cats
             \/ o \in back
  <2>1. CASE o # id
    BY <1>6, <2>1, <1>0 DEF OnlyAt, OfKind, OfTable
  <2>2. CASE o = id /\ g # id
    BY <1>6, <2>2, <1>0, <1>5 DEF ObjectWrite, OfKind, OfTable
  <2>3. CASE o = id /\ g = id
    BY <1>6, <2>3 DEF Live, OfKind, OfTable
  <2> QED
    BY <2>1, <2>2, <2>3
<1>7. \A x \in OfTable(a, "object") : a[x].live /\ ~b[x].live => LinksOf(b, x) = {}
  BY <1>0, <1>3 DEF OnlyAt, OfTable
<1>8. \A x \in OfTable(a, "category") : b[x] = a[x]
  BY <1>1 DEF OnlyAt, OfTable
<1>9. (b[id].kind = "memory" => id \in DOMAIN a /\ b[id].live = a[id].live) => MemoriesStay(a, b)
  BY <1>0 DEF MemoriesStay, OnlyAt, OfKind, OfTable
<1>10. KeepsChecks(a, b, arts, more, back)
  BY <1>1, <1>2, <1>4, <1>6, <1>7, <1>8 DEF KeepsChecks
<1> QED
  BY <1>9, <1>10

LinkWrite(a, b, arts, id) ==
    /\ b[id].table = "connection" /\ (id \in DOMAIN a => a[id].table = "connection")
    /\ b[id].live =>
           \/ /\ id \in DOMAIN a /\ a[id].live
              /\ b[id].src = a[id].src /\ b[id].kind = a[id].kind /\ b[id].dst = a[id].dst
           \/ /\ Live(a, b[id].src) /\ Live(a, b[id].dst)
              /\ b[id].kind = "derived_from" /\ b[id].src \in OfKind(a, "note")
                    /\ a[b[id].src].cites # None => arts[a[b[id].src].cites].of = b[id].dst

LEMMA LinkWriteKeeps ==
    ASSUME NEW a, NEW b, NEW arts, NEW back, NEW id, Admitted(a, arts),
           ArtsGrow(arts, arts, b), OnlyAt(id, a, b), LinkWrite(a, b, arts, id)
    PROVE  KeepsChecks(a, b, arts, arts, back) /\ MemoriesStay(a, b)
<1>1. /\ OfTable(b, "object") = OfTable(a, "object") /\ OfTable(b, "category") = OfTable(a, "category")
      /\ id \notin OfTable(a, "object") /\ id \notin OfTable(a, "category")
  BY DEF OnlyAt, OfTable, LinkWrite
<1>2. /\ \A o \in OfTable(a, "object") : b[o] = a[o]
      /\ \A o \in OfTable(a, "category") : b[o] = a[o]
      /\ \A k : OfKind(b, k) = OfKind(a, k)
  BY <1>1 DEF OnlyAt, OfTable, OfKind
<1>3. ASSUME NEW c \in ActiveLinks(b)
      PROVE  \/ c \in ActiveLinks(a) /\ b[c].src = a[c].src /\ b[c].kind = a[c].kind /\ b[c].dst = a[c].dst
             \/ /\ c = id /\ Live(a, b[c].src) /\ Live(a, b[c].dst)
                /\ b[id].kind = "derived_from" /\ b[id].src \in OfKind(a, "note")
                      /\ a[b[id].src].cites # None => arts[a[b[id].src].cites].of = b[id].dst
  BY DEF OnlyAt, ActiveLinks, OfTable, LinkWrite
<1>4. ASSUME NEW c \in ActiveLinks(b), Live(a, b[c].src), Live(a, b[c].dst), c = id
      PROVE  Live(b, b[c].src) /\ Live(b, b[c].dst)
  BY <1>4 DEF OnlyAt, Live, ActiveLinks
<1>5. ASSUME NEW c \in ActiveLinks(b), Miscited(b, arts, c)
      PROVE  c \in ActiveLinks(a) /\ Miscited(a, arts, c)
  <2>1. CASE c \in ActiveLinks(a) /\ b[c].src = a[c].src /\ b[c].kind = a[c].kind /\ b[c].dst = a[c].dst
    <3>1. b[c].src \in OfKind(a, "note") => b[b[c].src].cites = a[b[c].src].cites
      BY <1>2 DEF OfKind
    <3> QED
      BY <2>1, <3>1, <1>2, <1>5, CitesKept
  <2>2. CASE ~(c \in ActiveLinks(a) /\ b[c].src = a[c].src /\ b[c].kind = a[c].kind /\ b[c].dst = a[c].dst)
    <3>1. c = id /\ (b[id].kind = "derived_from" /\ b[id].src \in OfKind(a, "note")
                      /\ a[b[id].src].cites # None => arts[a[b[id].src].cites].of = b[id].dst)
      BY <1>3, <2>2
    <3>2. b[id].src \in OfKind(a, "note") /\ b[b[id].src] = a[b[id].src]
      BY <3>1, <1>2, <1>5 DEF Miscited, OfKind
    <3> QED
      BY <3>1, <3>2, <1>5 DEF Miscited
  <2> QED
    BY <2>1, <2>2
<1>6. \A x \in OfTable(a, "object") : ~(a[x].live /\ ~b[x].live)
  BY <1>2
<1>7. \A o \in OfKind(b, "entity") : \A g \in b[o].cats : b[o].live /\ ~Live(b, g) =>
          o \in OfKind(a, "entity") /\ a[o].live /\ g \in a[o].cats
  BY <1>1, <1>2 DEF OfKind
<1>8. \A c \in ActiveLinks(b) :
          \/ c \in ActiveLinks(a) /\ b[c].src = a[c].src /\ b[c].dst = a[c].dst
          \/ Live(b, b[c].src) /\ Live(b, b[c].dst)
  BY <1>3, <1>4
<1>9. MemoriesStay(a, b)
  BY <1>1, <1>2 DEF MemoriesStay, OfKind
<1> QED
  BY <1>2, <1>5, <1>6, <1>7, <1>8, <1>9 DEF KeepsChecks

LEMMA CategoryWriteKeeps ==
    ASSUME NEW a, NEW b, NEW arts, NEW back, NEW id, Admitted(a, arts),
           ArtsGrow(arts, arts, b), OnlyAt(id, a, b), b[id].table = "category",
           id \in DOMAIN a => a[id].table = "category",
           id \in DOMAIN a /\ a[id].live /\ ~b[id].live =>
               \A o \in OfKind(a, "entity") : a[o].live => id \notin a[o].cats
    PROVE  KeepsChecks(a, b, arts, arts, back) /\ MemoriesStay(a, b)
<1>1. /\ OfTable(b, "object") = OfTable(a, "object") /\ ActiveLinks(b) = ActiveLinks(a)
      /\ id \notin OfTable(a, "object") /\ id \notin ActiveLinks(a)
  BY DEF OnlyAt, OfTable, ActiveLinks
<1>2. /\ \A o \in OfTable(a, "object") : b[o] = a[o]
      /\ \A c \in ActiveLinks(a) : b[c] = a[c]
      /\ \A k : OfKind(b, k) = OfKind(a, k)
  BY <1>1 DEF OnlyAt, OfTable, OfKind, ActiveLinks
<1>3. \A c \in ActiveLinks(b) : Miscited(b, arts, c) => Miscited(a, arts, c)
  <2> SUFFICES ASSUME NEW c \in ActiveLinks(b), Miscited(b, arts, c) PROVE Miscited(a, arts, c)
    OBVIOUS
  <2>1. b[c].src \in OfKind(a, "note") => b[b[c].src].cites = a[b[c].src].cites
    BY <1>2 DEF OfKind
  <2> QED
    BY <2>1, <1>1, <1>2, CitesKept
<1>4. ASSUME NEW o \in OfKind(b, "entity"), NEW g \in b[o].cats, b[o].live, ~Live(b, g)
      PROVE  o \in OfKind(a, "entity") /\ a[o].live /\ g \in a[o].cats
  BY <1>1, <1>2, <1>4 DEF OfKind
<1>5. ASSUME NEW x \in OfTable(a, "category"), a[x].live, ~b[x].live, NEW o \in OfKind(b, "entity"), b[o].live
      PROVE  x \notin b[o].cats
  <2>1. x = id
    BY <1>5 DEF OnlyAt, OfTable
  <2> QED
    BY <2>1, <1>1, <1>2, <1>5 DEF OfKind, OfTable
<1>6. \A x \in OfTable(a, "object") : ~(a[x].live /\ ~b[x].live)
  BY <1>2
<1>7. MemoriesStay(a, b)
  BY <1>1, <1>2 DEF MemoriesStay, OfKind
<1> QED
  BY <1>1, <1>2, <1>3, <1>4, <1>5, <1>6, <1>7 DEF KeepsChecks

-----------------------------------------------------------------------------
(* The operations of a batch                                               *)

others == <<store, work, waiting, receipts, cutover, calls, keys>>

\* What every operation does to its transaction.
OpWrites(log) ==
    /\ UNCHANGED others
    /\ DOMAIN tx' = TxFields /\ tx'.batch = tx.batch /\ tx'.at = tx.at /\ tx'.step = tx.step + 1
    /\ tx'.log = tx.log \o log /\ IsASeq(tx.log)
    /\ tx.held \cup Ons(log) \subseteq tx'.held
    /\ DOMAIN tx'.row = DOMAIN tx.row \cup Ons(log)
    /\ Writes(log, Rows, Rows')
    /\ \A i \in DOMAIN log : Tagged(log[i], tx.batch, tx.at)
    /\ Sound(log, Rows, tx.batch.who)
    /\ Admitted(Rows', Arts')

LEMMA TxFacts ==
    ASSUME BaseInv, BatchInv, JournalInv, tx # NoTx
    PROVE  /\ Admitted(Rows, Arts) /\ DOMAIN tx = TxFields /\ tx.step \in Nat \ {0}
           /\ DOMAIN Rows = DOMAIN tx.row \cup DOMAIN row
           /\ \A id \in DOMAIN tx.row : Rows[id] = tx.row[id]
           /\ \A id \in DOMAIN row \ DOMAIN tx.row : Rows[id] = row[id]
           /\ Accounts(tx.log, row, Rows) /\ IsASeq(tx.log)
           /\ BatchAssumed(tx.batch)
<1>1. Admitted(Rows, Arts) /\ DOMAIN tx = TxFields /\ tx.step \in Nat \ {0}
  BY DEF BaseInv, BatchInv
<1>2. /\ DOMAIN Rows = DOMAIN tx.row \cup DOMAIN row
      /\ \A id \in DOMAIN tx.row : Rows[id] = tx.row[id]
      /\ \A id \in DOMAIN row \ DOMAIN tx.row : Rows[id] = row[id]
  BY DEF Rows, Over
<1>3. Accounts(tx.log, row, Rows) /\ IsASeq(tx.log)
  BY DEF JournalInv, Accounts, Recorded
<1>4. BatchAssumed(tx.batch)
  BY DEF BaseInv, BatchInv, Requests
<1> QED
  BY <1>1, <1>2, <1>3, <1>4

LEMMA ArtsSame ==
    ASSUME NEW rows, NEW arts, Admitted(rows, arts), NEW later
    PROVE  ArtsGrow(arts, arts, later)
  BY DEF Admitted, ArtsGrow

LEMMA OneWrite ==
    ASSUME NEW a, NEW b, NEW e, OnlyAt(e.on, a, b), b[e.on] = e.after, Explains(e, State(a, e.on))
    PROVE  /\ Writes(<<e>>, a, b) /\ Ons(<<e>>) = {e.on} /\ IsASeq(<<e>>)
           /\ DOMAIN <<e>> = {1} /\ <<e>>[1] = e
<1>1. IsASeq(<<e>>) /\ DOMAIN <<e>> = {1} /\ <<e>>[1] = e
  <2> DEFINE s == <<e>>
  <2>1. Len(s) = 1 /\ DOMAIN s = 1..1 /\ s = [i \in 1..1 |-> s[i]] /\ s[1] = e
    OBVIOUS
  <2> HIDE DEF s
  <2>2. IsASeq(s)
    BY <2>1, IsASeqIntro
  <2>3. DOMAIN s = {1}
    BY <2>1
  <2> QED
    BY <2>1, <2>2, <2>3 DEF s
<1>2. Ons(<<e>>) = {e.on}
  BY <1>1 DEF Ons
<1> QED
  BY <1>1, <1>2 DEF Writes, OnlyAt

\* An operation on one row.
LEMMA OneRow ==
    ASSUME BaseInv, BatchInv, JournalInv, tx # NoTx, UNCHANGED others,
           NEW id \in Ids, NEW new, NEW e, e.on = id, e.after = new,
           Tagged(e, tx.batch, tx.at), Explains(e, State(Rows, id)),
           DOMAIN tx' = TxFields, tx'.batch = tx.batch, tx'.at = tx.at, tx'.step = tx.step + 1,
           tx'.row = Over(At(id, new), tx.row), tx'.log = tx.log \o <<e>>,
           tx.held \cup {id} \subseteq tx'.held, ArtsGrow(Arts, Arts', Rows),
           id \in DOMAIN Rows => Evolves(Rows[id], new, tx.batch.who),
           id \notin DOMAIN Rows => WellFormed(new),
           Refers(new, Rows, Arts'),
           new.table = "object" => new.holds = IF id \in DOMAIN Rows THEN Rows[id].holds ELSE {}
    PROVE  /\ OpWrites(<<e>>) /\ OnlyAt(id, Rows, Rows') /\ Rows'[id] = new
           /\ ArtsGrow(Arts, Arts', Rows')
<1>1. DOMAIN tx'.row = DOMAIN tx.row \cup {id} /\ tx'.row[id] = new
      /\ \A x \in DOMAIN tx.row \ {id} : tx'.row[x] = tx.row[x]
  BY DEF Over, At
<1>2. Rows' = Over(tx'.row, row)
  BY DEF Rows, others, store
<1>3. /\ DOMAIN Rows' = DOMAIN tx.row \cup {id} \cup DOMAIN row
      /\ Rows'[id] = new /\ \A x \in DOMAIN tx.row \ {id} : Rows'[x] = tx.row[x]
      /\ \A x \in DOMAIN row \ (DOMAIN tx.row \cup {id}) : Rows'[x] = row[x]
      /\ Rows' \in [DOMAIN Rows' -> Range(Rows')]
  <2>1. Rows' \in [DOMAIN Rows' -> Range(Rows')]
    BY <1>2, OverLaws
  <2>2. /\ DOMAIN Rows' = DOMAIN tx'.row \cup DOMAIN row
        /\ \A x \in DOMAIN tx'.row : Rows'[x] = tx'.row[x]
        /\ \A x \in DOMAIN row \ DOMAIN tx'.row : Rows'[x] = row[x]
    BY <1>2 DEF Over
  <2> QED
    BY <1>1, <2>1, <2>2
<1>4. OnlyAt(id, Rows, Rows')
  BY <1>3, TxFacts DEF OnlyAt
<1>5. /\ Writes(<<e>>, Rows, Rows') /\ Ons(<<e>>) = {id} /\ DOMAIN <<e>> = {1} /\ <<e>>[1] = e
  <2>1. OnlyAt(e.on, Rows, Rows') /\ Rows'[e.on] = e.after /\ Explains(e, State(Rows, e.on))
    BY <1>3, <1>4
  <2>2. /\ Writes(<<e>>, Rows, Rows') /\ Ons(<<e>>) = {e.on} /\ IsASeq(<<e>>)
        /\ DOMAIN <<e>> = {1} /\ <<e>>[1] = e
    BY <2>1, OneWrite, Zenon
  <2> QED
    BY <2>2
<1>6. Sound(<<e>>, Rows, tx.batch.who)
  BY <1>5 DEF Sound
<1>7. HoldsKept(<<e>>, Rows)
  BY <1>5 DEF HoldsKept
<1>8. Admitted(Rows, Arts)
  BY TxFacts
<1>9. IdentitiesApart(Rows')
  <2>1. IdentitiesApart(Rows)
    BY <1>8 DEF Admitted
  <2> QED
    BY <2>1, <1>5, <1>6, <1>7, ApartOn
<1>10. Refers(new, Rows', Arts') /\ ArtsGrow(Arts, Arts', Rows')
  BY <1>4 DEF OnlyAt, Refers, ArtsGrow
<1>11. Admitted(Rows', Arts')
  BY <1>3, <1>5, <1>6, <1>8, <1>9, <1>10, AdmittedOn
<1>12. IsASeq(tx.log)
  BY TxFacts
<1> QED
  BY <1>1, <1>3, <1>4, <1>5, <1>6, <1>10, <1>11, <1>12 DEF OpWrites

\* A row that changes in what no foreign key and no Task's trigger looks at.
AreMinor(F) == F \subseteq {"live", "current", "says", "kind"}

Minor(a, arts, id, new, F, who) ==
    /\ id \in Ids /\ Evolves(a[id], new, who) /\ Refers(new, a, arts)
    /\ new.table = a[id].table /\ (new.live = a[id].live \/ "live" \in F)
    /\ new.table = "object" => /\ new.holds = a[id].holds /\ new.kind = a[id].kind
                               /\ new.cites = a[id].cites /\ new.cats = a[id].cats
    /\ new.table = "connection" =>
         /\ new.src = a[id].src /\ new.dst = a[id].dst
         /\ new.kind = a[id].kind \/ "kind" \in F

LEMMA AlteredRow ==
    ASSUME NEW a, NEW arts, Admitted(a, arts), NEW id \in DOMAIN a, NEW new, NEW F,
           Alters(a[id], new, F), AreMinor(F), NEW who,
           new.live \in BOOLEAN, "kind" \in F => a[id].table = "connection"
    PROVE  Minor(a, arts, id, new, F, who)
<1>1. WellFormed(a[id]) /\ id \in Ids
  BY DEF Admitted
<1>2. Evolves(a[id], new, who)
  <2>1. F \subseteq {"live", "current", "holds", "says", "kind"}
    BY DEF AreMinor
  <2> QED
    BY <1>1, <2>1, AlteredEvolves
<1>3. /\ a[id].table \in {"object", "connection", "category"} /\ DOMAIN a[id] = Columns[a[id].table]
      /\ {"table", "live"} \subseteq DOMAIN a[id]
  BY <1>1 DEF WellFormed, Columns
<1>4. new.table = a[id].table /\ (new.live = a[id].live \/ "live" \in F)
  BY <1>3 DEF Alters, AreMinor
<1>5. a[id].table = "object" => /\ new.holds = a[id].holds /\ new.kind = a[id].kind
                                /\ new.cites = a[id].cites /\ new.cats = a[id].cats
  <2> SUFFICES ASSUME a[id].table = "object"
               PROVE  \A f \in {"holds", "kind", "cites", "cats"} : new[f] = a[id][f]
    OBVIOUS
  <2>1. {"holds", "kind", "cites", "cats"} \subseteq DOMAIN a[id]
    BY <1>3 DEF Columns
  <2> QED
    BY <2>1 DEF Alters, AreMinor
<1>6. a[id].table = "connection" =>
          /\ new.src = a[id].src /\ new.dst = a[id].dst
          /\ new.kind = a[id].kind \/ "kind" \in F
  <2> SUFFICES ASSUME a[id].table = "connection"
               PROVE  /\ \A f \in {"src", "dst"} : new[f] = a[id][f]
                      /\ new["kind"] = a[id]["kind"] \/ "kind" \in F
    OBVIOUS
  <2>1. {"src", "dst", "kind"} \subseteq DOMAIN a[id]
    BY <1>3 DEF Columns
  <2> QED
    BY <2>1 DEF Alters, AreMinor
<1>7. Refers(new, a, arts)
  BY <1>4, <1>5, <1>6 DEF Refers, Admitted, OfTable, OfKind
<1> QED
  BY <1>1, <1>2, <1>4, <1>5, <1>6, <1>7 DEF Minor

Effects(id, new) ==
    /\ \E log : OpWrites(log) /\ Ons(log) = {id}
    /\ OnlyAt(id, Rows, Rows') /\ Rows'[id] = new
    /\ Arts' = Arts /\ ArtsGrow(Arts, Arts', Rows')
    /\ tx'.corr = tx.corr /\ tx'.art = tx.art

\* A statement that rewrites a row it has locked,
LEMMA Rewrites ==
    ASSUME BaseInv, BatchInv, JournalInv, tx # NoTx, UNCHANGED <<calls, keys>>,
           NEW id \in DOMAIN Rows, NEW new, NEW locks, id \in locks,
           Effect(locks, At(id, new), <<Logged(id, new, TRUE)>>),
           Evolves(Rows[id], new, Req.who), Refers(new, Rows, Arts),
           new.table = "object" => new.holds = Rows[id].holds
    PROVE  Effects(id, new)
<1> DEFINE e == Logged(id, new, TRUE)
<1>1. UNCHANGED others
  BY DEF Effect, others
<1>2. DOMAIN tx = TxFields
  BY TxFacts
<1>3. /\ DOMAIN tx' = TxFields /\ tx'.batch = tx.batch /\ tx'.at = tx.at /\ tx'.step = tx.step + 1
      /\ tx'.row = Over(At(id, new), tx.row) /\ tx'.log = tx.log \o <<e>>
      /\ tx'.held = tx.held \cup locks /\ tx'.corr = tx.corr /\ tx'.art = tx.art
  BY <1>2 DEF Effect, TxFields
<1>4. e.on = id /\ e.after = new /\ Tagged(e, tx.batch, tx.at)
  BY DEF Logged, Event, Tagged, Req
<1>5. Explains(e, State(Rows, id))
  BY DEF Logged, Event, Explains, State, Evolves
<1>6. Arts' = Arts /\ Admitted(Rows, Arts) /\ id \in Ids
  BY <1>1, <1>3, TxFacts DEF Arts, others, store, Admitted
<1>7. ArtsGrow(Arts, Arts', Rows) /\ Refers(new, Rows, Arts')
  BY <1>6, ArtsSame
<1> HIDE DEF e
<1>8. /\ OpWrites(<<e>>) /\ OnlyAt(id, Rows, Rows') /\ Rows'[id] = new
      /\ ArtsGrow(Arts, Arts', Rows')
  BY <1>1, <1>3, <1>4, <1>5, <1>6, <1>7, OneRow DEF Req
<1>9. Ons(<<e>>) = {id}
  BY <1>4 DEF Ons
<1> QED
  BY <1>3, <1>6, <1>8, <1>9 DEF Effects

\* and one that inserts a row.
LEMMA Inserts ==
    ASSUME BaseInv, BatchInv, JournalInv, tx # NoTx, UNCHANGED <<calls, keys>>,
           NEW id, NEW new, NEW locks, Insert(id, new, locks),
           WellFormed(new), new.rev = 1, Refers(new, Rows, Arts),
           new.table = "object" => new.holds = {}
    PROVE  Effects(id, new) /\ id \notin DOMAIN Rows
<1> DEFINE e == Logged(id, new, FALSE)
<1>0. id \in Ids \ DOMAIN Rows /\ Effect({id} \cup locks, At(id, new), <<e>>)
  BY DEF Insert
<1>1. UNCHANGED others
  BY <1>0 DEF Effect, others
<1>2. DOMAIN tx = TxFields
  BY TxFacts
<1>3. /\ DOMAIN tx' = TxFields /\ tx'.batch = tx.batch /\ tx'.at = tx.at /\ tx'.step = tx.step + 1
      /\ tx'.row = Over(At(id, new), tx.row) /\ tx'.log = tx.log \o <<e>>
      /\ tx'.held = tx.held \cup ({id} \cup locks) /\ tx'.corr = tx.corr /\ tx'.art = tx.art
  BY <1>0, <1>2 DEF Effect, TxFields
<1>4. e.on = id /\ e.after = new /\ Tagged(e, tx.batch, tx.at)
  BY DEF Logged, Event, Tagged, Req
<1>5. Explains(e, State(Rows, id))
  BY <1>0 DEF Logged, Event, Explains, State, NoRow
<1>6. Arts' = Arts /\ Admitted(Rows, Arts) /\ id \in Ids
  BY <1>0, <1>1, <1>3, TxFacts DEF Arts, others, store, Admitted
<1>7. ArtsGrow(Arts, Arts', Rows) /\ Refers(new, Rows, Arts')
  BY <1>6, ArtsSame
<1> HIDE DEF e
<1>8. /\ OpWrites(<<e>>) /\ OnlyAt(id, Rows, Rows') /\ Rows'[id] = new
      /\ ArtsGrow(Arts, Arts', Rows')
  BY <1>0, <1>1, <1>3, <1>4, <1>5, <1>6, <1>7, OneRow
<1>9. Ons(<<e>>) = {id}
  BY <1>4 DEF Ons
<1> QED
  BY <1>0, <1>3, <1>6, <1>8, <1>9 DEF Effects

Backs == {op.on : op \in {o \in Range(tx.batch.ops) : o.op = "restore_object"}}

MemoriesOff ==
    \A op \in Range(tx.batch.ops) :
        /\ ~(op.op = "create_object" /\ op.fields.kind = "memory")
        /\ op.op \in MemoryOps => op.on \notin OfKind(Rows, "memory")

\* Artifacts and corrections are added, a correction by the write of its Object.
AddsSuccessors ==
    /\ DOMAIN tx.art \subseteq DOMAIN tx'.art
    /\ \A x \in DOMAIN tx.art : tx'.art[x] = tx.art[x]
    /\ \A x \in DOMAIN tx'.art \ DOMAIN tx.art : x \notin DOMAIN Arts /\ tx'.art[x].document = None
    /\ \E P : /\ \A p \in P : p = <<p[1], p[2]>> /\ p[1] \in DOMAIN Rows
                              /\ Rows'[p[1]].rev = Rows[p[1]].rev + 1
              /\ tx'.corr = tx.corr \cup {Correction(p[1], p[2]) : p \in P}

OpResult ==
    /\ \E log : OpWrites(log)
    /\ KeepsChecks(Rows, Rows', Arts, Arts', Backs)
    /\ MemoriesOff => MemoriesStay(Rows, Rows')
    /\ AddsSuccessors

Ready == BaseInv /\ BatchInv /\ JournalInv /\ UNCHANGED <<calls, keys>>

LEMMA OpKnown ==
    ASSUME Ready, Running PROVE Op \in Range(tx.batch.ops) \/ Op.op = "create_connection"
<1>1. tx # NoTx
  BY DEF Running
<1>2. tx.step \in Nat \ {0} /\ BatchAssumed(tx.batch)
  BY <1>1, TxFacts DEF Ready
<1>3. CASE tx.step <= Len(tx.batch.ops)
  <2>1. IsASeq(tx.batch.ops)
    BY <1>2 DEF BatchAssumed, IsASeq
  <2>2. tx.step \in DOMAIN tx.batch.ops
    BY <1>2, <1>3, <2>1, SeqFacts
  <2> QED
    BY <1>3, <2>2 DEF Op, Req, Range
<1>4. CASE ~(tx.step <= Len(tx.batch.ops))
  BY <1>4 DEF Op, Req, ChatLink
<1> QED
  BY <1>3, <1>4

LEMMA Results ==
    ASSUME NEW id, NEW new, Effects(id, new), KeepsChecks(Rows, Rows', Arts, Arts', Backs),
           MemoriesOff => MemoriesStay(Rows, Rows')
    PROVE  OpResult
<1>1. AddsSuccessors
  <2>1. tx'.art = tx.art /\ tx'.corr = tx.corr \cup {Correction(p[1], p[2]) : p \in {}}
    BY DEF Effects
  <2> QED
    BY <2>1 DEF AddsSuccessors
<1> QED
  BY <1>1 DEF OpResult, Effects

\* A statement that changes only what nothing checks,
LEMMA QuietResults ==
    ASSUME Ready, tx # NoTx, NEW id \in DOMAIN Rows, NEW new, NEW F, NEW locks,
           Alters(Rows[id], new, F), F \subseteq {"current", "says"}, id \in locks,
           Effect(locks, At(id, new), <<Logged(id, new, TRUE)>>)
    PROVE  OpResult
<1>1. Admitted(Rows, Arts) /\ WellFormed(Rows[id])
  BY TxFacts DEF Ready, Admitted
<1>2. new.live \in BOOLEAN
  <2>1. "live" \in DOMAIN Rows[id] /\ Rows[id].live \in BOOLEAN
    BY <1>1 DEF WellFormed, Columns
  <2>2. new.live = Rows[id].live
    BY <2>1 DEF Alters
  <2> QED
    BY <2>1, <2>2
<1>3. Minor(Rows, Arts, id, new, F, Req.who)
  <2>1. AreMinor(F) /\ ("kind" \in F => Rows[id].table = "connection")
    BY DEF AreMinor
  <2> QED
    BY <1>1, <1>2, <2>1, AlteredRow
<1>4. Effects(id, new)
  BY <1>3, Rewrites DEF Ready, Minor
<1>5. Quiet(Rows, Rows')
  BY <1>3, <1>4 DEF Effects, OnlyAt, Quiet, Minor
<1>6. KeepsChecks(Rows, Rows', Arts, Arts', Backs) /\ MemoriesStay(Rows, Rows')
  BY <1>1, <1>4, <1>5, QuietKeeps DEF Effects
<1> QED
  BY <1>4, <1>6, Results

\* one that leaves everything as it was,
LEMMA EmptyResults ==
    ASSUME Ready, tx # NoTx, NEW locks, Effect(locks, << >>, << >>)
    PROVE  OpResult
<1>1. UNCHANGED others
  BY DEF Ready, Effect, others
<1>2. DOMAIN tx = TxFields /\ Admitted(Rows, Arts)
  BY TxFacts DEF Ready
<1>3. /\ DOMAIN tx' = TxFields /\ tx'.batch = tx.batch /\ tx'.at = tx.at /\ tx'.step = tx.step + 1
      /\ tx'.row = Over(<< >>, tx.row) /\ tx'.log = tx.log \o << >>
      /\ tx'.held = tx.held \cup locks /\ tx'.corr = tx.corr /\ tx'.art = tx.art
  BY <1>2 DEF Effect, TxFields
<1>4. DOMAIN tx'.row = DOMAIN tx.row /\ \A x \in DOMAIN tx.row : tx'.row[x] = tx.row[x]
  BY <1>3 DEF Over
<1>5. /\ Rows' = Over(tx'.row, row) /\ Rows' \in [DOMAIN Rows' -> Range(Rows')]
      /\ DOMAIN Rows' = DOMAIN Rows /\ \A x \in DOMAIN Rows : Rows'[x] = Rows[x]
  <2>1. Rows' = Over(tx'.row, row)
    BY <1>1 DEF Rows, others, store
  <2>2. Rows' \in [DOMAIN Rows' -> Range(Rows')]
    BY <2>1, OverLaws
  <2>3. DOMAIN Rows' = DOMAIN Rows /\ \A x \in DOMAIN Rows : Rows'[x] = Rows[x]
    BY <2>1, <1>4 DEF Rows, Over
  <2> QED
    BY <2>1, <2>2, <2>3
<1>6. Arts' = Arts
  BY <1>1, <1>3 DEF Arts, others, store
<1>7. ArtsGrow(Arts, Arts', Rows')
  BY <1>2, <1>6, ArtsSame
<1>8. Admitted(Rows', Arts')
  BY <1>2, <1>5, <1>6 DEF Admitted, OfTable, OfKind, IdentitiesApart
<1>9. IsASeq(<< >>) /\ DOMAIN << >> = {} /\ Ons(<< >>) = {}
  <2> DEFINE s == << >>
  <2>1. DOMAIN s = 1..0 /\ s = [i \in 1..0 |-> s[i]]
    OBVIOUS
  <2> HIDE DEF s
  <2>2. IsASeq(s)
    BY <2>1, IsASeqIntro
  <2>3. DOMAIN s = {} /\ Ons(s) = {}
    BY <2>1 DEF Ons
  <2> QED
    BY <2>2, <2>3 DEF s
<1>10. Writes(<< >>, Rows, Rows') /\ Sound(<< >>, Rows, tx.batch.who)
  BY <1>5, <1>9 DEF Writes, Sound
<1>11. IsASeq(tx.log)
  BY TxFacts DEF Ready
<1>12. OpWrites(<< >>)
  BY <1>1, <1>3, <1>4, <1>8, <1>9, <1>10, <1>11 DEF OpWrites
<1>13. Quiet(Rows, Rows')
  BY <1>5 DEF Quiet
<1>14. KeepsChecks(Rows, Rows', Arts, Arts', Backs) /\ MemoriesStay(Rows, Rows')
  BY <1>2, <1>7, <1>13, QuietKeeps
<1>15. AddsSuccessors
  <2>1. tx'.corr = tx.corr \cup {Correction(p[1], p[2]) : p \in {}}
    BY <1>3
  <2> QED
    BY <1>3, <2>1 DEF AddsSuccessors
<1> QED
  BY <1>12, <1>14, <1>15 DEF OpResult

LEMMA Guards ==
    ASSUME NEW op, Allowed(op)
    PROVE  /\ op.op = "create_object" => CanCreate(op)
           /\ op.op = "update_object" => CanUpdate(op)
           /\ op.op = "promote_source_artifact" => CanPromote(op)
           /\ op.op = "archive_object" => CanArchive(op)
           /\ op.op = "reassign" => CanReassign(op)
           /\ op.op = "restore_object" => CanRestoreObject(op)
           /\ op.op = "correct_evidence" => CanCorrect(op)
           /\ op.op = "restore_connection" => CanRestoreConnection(op)
           /\ op.op = "create_connection" => CanConnect(op)
           /\ op.op = "update_connection" => CanUpdateConnection(op)
           /\ op.op = "archive_connection" => AtRevision("connection", op.on, op.rev)
           /\ op.op = "append_artifact" => CanAppend(op)
           /\ op.op = "change_category" => CanChangeCategory(op)
           /\ op.op \in {"update_description", "rebuild_derived"} => AtRevision("object", op.on, op.rev)
  BY DEF Allowed

LEMMA TouchResults ==
    ASSUME Ready, UpdateDescription \/ RebuildDerived PROVE OpResult
<1>1. tx # NoTx /\ AtRevision("object", Op.on, Op.rev)
      /\ Rewrite(Op.on, Touched(Rows[Op.on], Req.key))
  BY Guards DEF UpdateDescription, RebuildDerived, Step, Running
<1>2. Op.on \in DOMAIN Rows
  BY <1>1 DEF AtRevision, OfTable
<1>3. WellFormed(Rows[Op.on])
  BY <1>1, <1>2, TxFacts DEF Ready, Admitted
<1>4. Alters(Rows[Op.on], Touched(Rows[Op.on], Req.key), {})
  BY <1>3, TouchedAlters
<1>5. PICK F : F \subseteq {"current", "says"} /\ Alters(Rows[Op.on], Touched(Rows[Op.on], Req.key), F)
  BY <1>4
<1>6. Effect({Op.on}, At(Op.on, Touched(Rows[Op.on], Req.key)),
             <<Logged(Op.on, Touched(Rows[Op.on], Req.key), TRUE)>>)
  BY <1>1 DEF Rewrite
<1> QED
  BY <1>1, <1>2, <1>5, <1>6, QuietResults

LEMMA PromoteResults == ASSUME Ready, PromoteSourceArtifact PROVE OpResult
<1>1. tx # NoTx /\ CanPromote(Op)
      /\ Rewrite(Op.on, [Touched(Rows[Op.on], Req.key) EXCEPT !.current = Op.art])
  BY Guards DEF PromoteSourceArtifact, Step, Running
<1>2. Op.on \in DOMAIN Rows
  BY <1>1 DEF CanPromote, AtRevision, OfTable
<1>3. WellFormed(Rows[Op.on])
  BY <1>1, <1>2, TxFacts DEF Ready, Admitted
<1>4. Alters(Rows[Op.on], [Touched(Rows[Op.on], Req.key) EXCEPT !.current = Op.art], {"current"})
  BY <1>3, CurrentAlters
<1> QED
  BY <1>1, <1>2, <1>4, QuietResults DEF Rewrite

\* An operation that archives or restores an Object.
LEMMA LiveResults ==
    ASSUME Ready, tx # NoTx, NEW id \in OfTable(Rows, "object"), NEW v \in BOOLEAN, 
           LET new == [Touched(Rows[id], Req.key) EXCEPT !.live = v] IN Rewrite(id, new),
           Rows[id].live /\ ~v => LinksOf(Rows, id) = {},
           v => id \in Backs,
           MemoriesOff => Rows[id].kind # "memory"
    PROVE  OpResult
<1> DEFINE new == [Touched(Rows[id], Req.key) EXCEPT !.live = v]
<1>1. Admitted(Rows, Arts) /\ WellFormed(Rows[id]) /\ id \in DOMAIN Rows
  BY TxFacts DEF Ready, Admitted, OfTable
<1>2. Alters(Rows[id], new, {"live"}) /\ new.live = v
  BY <1>1, LiveAlters
<1>3. Rewrite(id, new)
  OBVIOUS
<1> HIDE DEF new
<1>4. AreMinor({"live"}) /\ "kind" \notin {"live"}
  BY DEF AreMinor
<1>5. Minor(Rows, Arts, id, new, {"live"}, Req.who)
  BY <1>1, <1>2, <1>4, AlteredRow
<1>6. Effects(id, new)
  BY <1>1, <1>3, <1>5, Rewrites DEF Ready, Minor, Rewrite
<1>7. /\ OnlyAt(id, Rows, Rows') /\ Rows'[id] = new /\ ArtsGrow(Arts, Arts', Rows')
      /\ Rows[id].table = "object" /\ new.table = "object" /\ new.kind = Rows[id].kind
      /\ new.cites = Rows[id].cites /\ new.cats = Rows[id].cats
  BY <1>5, <1>6 DEF Effects, OfTable, Minor
<1>8. new.kind = "note" => new.cites \in DOMAIN Arts \cup {None}
  BY <1>1, <1>7 DEF Admitted, OfKind, OfTable
<1>9. /\ KeepsChecks(Rows, Rows', Arts, Arts', Backs)
      /\ (new.kind # "memory" => MemoriesStay(Rows, Rows'))
  <2>1. ObjectWrite(Rows, Rows', Arts, Backs, id)
    BY <1>2, <1>7, <1>8 DEF ObjectWrite, OfKind
  <2> QED
    BY <1>1, <1>7, <2>1, ObjectWriteKeeps
<1> QED
  BY <1>6, <1>7, <1>9, Results

LEMMA ArchiveResults == ASSUME Ready, ArchiveObject PROVE OpResult
<1>1. tx # NoTx /\ CanArchive(Op) /\ Running /\ Op.op = "archive_object"
      /\ Rewrite(Op.on, [Touched(Rows[Op.on], Req.key) EXCEPT !.live = FALSE])
  BY Guards DEF ArchiveObject, Step, Running
<1>2. Op.on \in OfTable(Rows, "object") /\ LinksOf(Rows, Op.on) = {}
  BY <1>1 DEF CanArchive, AtRevision, OfTable
<1>3. MemoriesOff => Rows[Op.on].kind # "memory"
  BY <1>1, <1>2, OpKnown DEF MemoriesOff, MemoryOps, OfKind
<1> QED
  BY <1>1, <1>2, <1>3, LiveResults

LEMMA RestoreResults == ASSUME Ready, RestoreObject PROVE OpResult
<1>1. tx # NoTx /\ CanRestoreObject(Op) /\ Running /\ Op.op = "restore_object"
      /\ Rewrite(Op.on, [Touched(Rows[Op.on], Req.key) EXCEPT !.live = TRUE])
  BY Guards DEF RestoreObject, Step, Running
<1>2. Op.on \in OfTable(Rows, "object")
  BY <1>1 DEF CanRestoreObject, AtRevision, OfTable
<1>3. MemoriesOff => Rows[Op.on].kind # "memory"
  BY <1>1, <1>2, OpKnown DEF MemoriesOff, MemoryOps, OfKind
<1>4. Op.on \in Backs
  BY <1>1, OpKnown DEF Backs
<1> QED
  BY <1>1, <1>2, <1>3, <1>4, LiveResults

LEMMA CreateResults == ASSUME Ready, CreateObject PROVE OpResult
<1> DEFINE bare == NewObject(Op.fields, Req.key)
           new == IF bare.kind = "task" THEN Claimed(NoRow, bare, Req.who) ELSE bare
<1>1. /\ tx # NoTx /\ Running /\ Op.op = "create_object" /\ CanCreate(Op) /\ Insert(Op.on, new, {})
  BY Guards DEF CreateObject, Step, Running
<1>2. Op \in Range(tx.batch.ops)
  BY <1>1, OpKnown
<1>3. DOMAIN Op.fields \subseteq {"kind"} \cup Settable /\ Admitted(Rows, Arts)
  BY <1>1, <1>2, TxFacts DEF Ready, BatchAssumed
<1>4. /\ WellFormed(bare) /\ bare.table = "object" /\ bare.rev = 1 /\ bare.live /\ bare.holds = {}
      /\ bare.kind = IF "kind" \in DOMAIN Op.fields THEN Op.fields.kind ELSE "none"
  BY <1>3, NewObjectLaws
<1>5. /\ bare.kind = "note" => bare.cites \in DOMAIN Arts \cup {None}
      /\ bare.kind = "entity" => \A g \in bare.cats : Live(Rows, g)
  BY <1>1 DEF CanCreate, SubtypeAllowed, CitationAllowed
<1> HIDE DEF bare
<1>6. /\ WellFormed(new) /\ new.table = "object" /\ new.rev = 1 /\ new.holds = {}
      /\ new.kind = bare.kind /\ new.cites = bare.cites /\ new.cats = bare.cats
  BY <1>4, NewTaskLaws DEF NoRow
<1> HIDE DEF new
<1>7. Refers(new, Rows, Arts)
  BY <1>5, <1>6 DEF Refers
<1>8. Effects(Op.on, new) /\ Op.on \notin DOMAIN Rows
  BY <1>1, <1>6, <1>7, Inserts DEF Ready
<1>9. /\ OnlyAt(Op.on, Rows, Rows') /\ Rows'[Op.on] = new /\ ArtsGrow(Arts, Arts', Rows')
      /\ Op.on \notin OfKind(Rows, "note")
  BY <1>8 DEF Effects, OfKind, OfTable
<1>10. /\ KeepsChecks(Rows, Rows', Arts, Arts', Backs)
       /\ (new.kind # "memory" => MemoriesStay(Rows, Rows'))
  <2>1. ObjectWrite(Rows, Rows', Arts, Backs, Op.on)
    BY <1>5, <1>6, <1>8, <1>9 DEF ObjectWrite, OfKind
  <2> QED
    BY <1>3, <1>8, <1>9, <2>1, ObjectWriteKeeps
<1>11. MemoriesOff => new.kind # "memory"
  BY <1>1, <1>2, <1>4, <1>6 DEF MemoriesOff
<1> QED
  BY <1>8, <1>10, <1>11, Results

MayUpdate(old, set, actor) ==
    /\ old.table = "object" /\ DOMAIN set \subseteq Settable
    /\ set # << >> /\ old.kind = "task" =>
          (old.status = "doing" /\ old.claim # None => old.claim = actor \/ actor \in Humans)

IsUpdated(old, new, set, actor) ==
    /\ Evolves(old, new, actor) /\ new.kind = old.kind /\ new.live = old.live
    /\ new.table = "object" /\ new.holds = old.holds
    /\ set = << >> => new.cites = old.cites /\ new.cats = old.cats

LEMMA UpdatedLaws ==
    ASSUME NEW old, NEW set, NEW actor, WellFormed(old), MayUpdate(old, set, actor)
    PROVE  IsUpdated(old, Updated(old, set, actor), set, actor)
<1> DEFINE mid == Touched(old, Req.key)
           r == With(mid, set)
           new == Updated(old, set, actor)
<1>1. DOMAIN old = Columns["object"] /\ old.rev \in Nat \ {0} /\ old.live \in BOOLEAN
      /\ old.table = "object"
  BY DEF WellFormed, MayUpdate
<1>2. Alters(old, mid, {})
  BY TouchedAlters
<1>3. {"table", "kind", "live", "holds", "claim", "status", "cites", "cats"} \subseteq DOMAIN old \ {"rev", "by"}
      /\ "rev" \in DOMAIN old
  BY <1>1 DEF Columns
<1> HIDE DEF mid
<1>4. /\ DOMAIN mid = DOMAIN old /\ mid.rev = old.rev + 1
      /\ \A f \in {"table", "kind", "live", "holds", "claim", "status", "cites", "cats"} : mid[f] = old[f]
  BY <1>2, <1>3 DEF Alters
<1>5. /\ DOMAIN r = DOMAIN old
      /\ \A f \in DOMAIN old \ DOMAIN set : r[f] = mid[f]
  BY <1>4, WithLaws
<1>6. {"rev", "table", "kind", "live", "holds", "claim"} \subseteq DOMAIN old \ DOMAIN set
  BY <1>3 DEF Settable, MayUpdate
<1> HIDE DEF r
<1>7. /\ r.rev = old.rev + 1
      /\ \A f \in {"table", "kind", "live", "holds", "claim"} : r[f] = old[f]
  BY <1>4, <1>5, <1>6
<1>8. CASE old.kind = "task" /\ set # << >>
  <2>1. new = Claimed(old, r, actor)
    BY <1>8 DEF Updated, mid, r
  <2>2. Evolves(old, Claimed(old, r, actor), actor)
    BY <1>1, <1>5, <1>7, <1>8, ClaimedEvolves DEF MayUpdate
  <2>3. \A f \in DOMAIN r \ {"claim"} : Claimed(old, r, actor)[f] = r[f]
    BY <1>1, <1>5, ClaimedLaws
  <2>4. {"kind", "live", "table", "holds"} \subseteq DOMAIN r \ {"claim"}
    BY <1>5, <1>6
  <2> HIDE DEF new
  <2> QED
    BY <1>7, <1>8, <2>1, <2>2, <2>3, <2>4, <1>1 DEF new, IsUpdated
<1>9. CASE ~(old.kind = "task" /\ set # << >>)
  <2>1. new = r
    BY <1>9 DEF Updated, mid, r
  <2>2. set = << >> => \A f \in DOMAIN old : r[f] = mid[f]
    BY <1>5
  <2>3. set = << >> => r.cites = old.cites /\ r.cats = old.cats /\ r.status = old.status
    BY <1>3, <1>4, <2>2
  <2>4. WellFormed(r)
    <3>1. r.table \in DOMAIN Columns /\ DOMAIN r = Columns[r.table] /\ r.rev \in Nat \ {0}
      BY <1>1, <1>5, <1>7 DEF WellFormed
    <3>2. r.live \in BOOLEAN
      BY <1>1, <1>7
    <3>3. r.table = "object" /\ r.kind = "task" /\ r.claim # None => r.status = "doing"
      BY <1>7, <1>9, <2>3 DEF WellFormed
    <3> QED
      BY <3>1, <3>2, <3>3 DEF WellFormed
  <2>5. Evolves(old, r, actor)
    BY <1>1, <1>7, <2>4 DEF Evolves, SameThing, ClaimKept
  <2> HIDE DEF new
  <2> QED
    BY <1>7, <2>1, <2>3, <2>5, <1>1 DEF new, IsUpdated
<1> QED
  BY <1>8, <1>9

LEMMA UpdateResults == ASSUME Ready, UpdateObject PROVE OpResult
<1> DEFINE id == Op.on
           old == Rows[id]
           new == Updated(old, Op.set, Req.who)
<1>1. /\ tx # NoTx /\ Running /\ Op.op = "update_object" /\ CanUpdate(Op)
      /\ Rewrite(id, new)
  BY Guards DEF UpdateObject, Step, Running
<1>2. Op \in Range(tx.batch.ops)
  BY <1>1, OpKnown
<1>3. /\ DOMAIN Op.set \subseteq Settable /\ Admitted(Rows, Arts)
      /\ id \in DOMAIN Rows /\ old.table = "object" /\ old.live
  BY <1>1, <1>2, TxFacts DEF Ready, BatchAssumed, CanUpdate, AtRevision, OfTable, Writable, Live
<1>4. WellFormed(old) /\ old # NoRow
  BY <1>3 DEF Admitted, NoRow
<1>5. Op.set # << >> => SubtypeAllowed(id, old, new)
  BY <1>1 DEF CanUpdate
<1>6. new.kind = old.kind
  <2> DEFINE mid == Touched(old, Req.key)
             r == With(mid, Op.set)
  <2>0. Alters(old, mid, {}) /\ DOMAIN old = Columns["object"]
    BY <1>3, <1>4, TouchedAlters DEF WellFormed
  <2>1. Alters(old, mid, {}) /\ {"kind", "claim"} \subseteq DOMAIN old /\ DOMAIN old = Columns["object"]
    BY <2>0 DEF Columns
  <2> HIDE DEF mid
  <2>2. mid.kind = old.kind /\ DOMAIN mid = Columns["object"] /\ "kind" \in DOMAIN mid \ DOMAIN Op.set
    BY <1>3, <2>1 DEF Alters, Settable
  <2>3. r.kind = old.kind /\ DOMAIN r = Columns["object"] /\ "kind" \in DOMAIN r \ {"claim"}
    BY <2>2, WithLaws
  <2> HIDE DEF r
  <2>4. Claimed(old, r, Req.who).kind = r.kind
    BY <2>3, ClaimedLaws
  <2> QED
    BY <2>3, <2>4 DEF Updated, mid, r
<1> HIDE DEF new, old
<1>7. Op.set # << >> /\ old.kind = "task" =>
          (old.status = "doing" /\ old.claim # None => old.claim = Req.who \/ Req.who \in Humans)
  BY <1>5, <1>6 DEF SubtypeAllowed, TaskAllowed
<1>8. /\ Evolves(old, new, Req.who) /\ new.kind = old.kind /\ new.live = old.live
      /\ new.table = "object" /\ new.holds = old.holds
      /\ Op.set = << >> => new.cites = old.cites /\ new.cats = old.cats
  <2>1. MayUpdate(old, Op.set, Req.who)
    BY <1>3, <1>7 DEF MayUpdate
  <2>2. IsUpdated(old, Updated(old, Op.set, Req.who), Op.set, Req.who)
    BY <1>4, <2>1, UpdatedLaws
  <2> QED
    BY <2>2 DEF IsUpdated, new
<1>9. new.kind = "note" => new.cites \in DOMAIN Arts \cup {None}
  <2>1. CASE Op.set = << >>
    BY <1>3, <1>8, <2>1 DEF Admitted, OfKind, OfTable, old
  <2>2. CASE Op.set # << >>
    BY <1>5, <2>2 DEF SubtypeAllowed, CitationAllowed
  <2> QED
    BY <2>1, <2>2
<1>10. Effects(id, new)
  <2>1. Refers(new, Rows, Arts)
    BY <1>8, <1>9 DEF Refers
  <2>2. id \in DOMAIN Rows /\ Effect({id}, At(id, new), <<Logged(id, new, TRUE)>>)
        /\ Evolves(Rows[id], new, Req.who) /\ new.holds = Rows[id].holds /\ id \in {id}
    BY <1>1, <1>3, <1>8 DEF Rewrite, old
  <2> QED
    BY <1>1, <2>1, <2>2, Rewrites DEF Ready
<1>11. /\ OnlyAt(id, Rows, Rows') /\ Rows'[id] = new /\ ArtsGrow(Arts, Arts', Rows')
  BY <1>10 DEF Effects
<1>12. Rows' = Over(At(id, new), Rows)
  <2>1. Rows' \in [DOMAIN Rows' -> Range(Rows')]
    BY OverLaws DEF Rows
  <2>2. Over(At(id, new), Rows) \in [DOMAIN Over(At(id, new), Rows) -> Range(Over(At(id, new), Rows))]
    BY OverLaws
  <2>3. DOMAIN Over(At(id, new), Rows) = DOMAIN Rows'
        /\ \A x \in DOMAIN Rows' : Over(At(id, new), Rows)[x] = Rows'[x]
    BY <1>3, <1>11 DEF Over, At, OnlyAt
  <2> QED
    BY <2>1, <2>2, <2>3
<1>13. id \in OfKind(Rows, "note") => new.cites = old.cites \/ ~Miscites(Rows', Arts, id)
  <2>1. CASE Op.set = << >>
    BY <1>8, <2>1
  <2>2. CASE Op.set # << >>
    BY <1>4, <1>5, <1>8, <1>12, <2>2 DEF SubtypeAllowed, CitationAllowed, OfKind, old
  <2> QED
    BY <2>1, <2>2
<1>14. new.kind = "entity" => \A g \in new.cats : Live(Rows, g) \/ g \in old.cats
  <2>1. CASE Op.set = << >>
    BY <1>8, <2>1
  <2>2. CASE Op.set # << >>
    BY <1>5, <2>2 DEF SubtypeAllowed
  <2> QED
    BY <2>1, <2>2
<1>15. KeepsChecks(Rows, Rows', Arts, Arts', Backs) /\ MemoriesStay(Rows, Rows')
  <2>1. ObjectWrite(Rows, Rows', Arts, Backs, id) /\ Rows'[id].live = Rows[id].live
    BY <1>3, <1>8, <1>9, <1>11, <1>13, <1>14 DEF old, OfKind, ObjectWrite
  <2> QED
    BY <1>3, <1>11, <2>1, ObjectWriteKeeps
<1> QED
  BY <1>10, <1>15, Results

\* An operation that rewrites a Connection.
LEMMA LinkResults ==
    ASSUME Ready, tx # NoTx, NEW id \in OfTable(Rows, "connection"), NEW new, NEW F, NEW locks,
           id \in locks, Effect(locks, At(id, new), <<Logged(id, new, TRUE)>>),
           Alters(Rows[id], new, F), AreMinor(F), new.live \in BOOLEAN,
           new.live => \/ Rows[id].live /\ "kind" \notin F
                       \/ EndpointsAllowed(Rows[id].src, new.kind, Rows[id].dst)
    PROVE  OpResult
<1>1. Admitted(Rows, Arts) /\ id \in DOMAIN Rows /\ Rows[id].table = "connection"
  BY TxFacts DEF Ready, OfTable
<1>2. Minor(Rows, Arts, id, new, F, Req.who)
  BY <1>1, AlteredRow
<1>3. Effects(id, new)
  BY <1>1, <1>2, Rewrites DEF Ready, Minor
<1>4. OnlyAt(id, Rows, Rows') /\ Rows'[id] = new /\ ArtsGrow(Arts, Arts, Rows') /\ Arts' = Arts
  BY <1>1, <1>3, ArtsSame DEF Effects
<1>5. LinkWrite(Rows, Rows', Arts, id)
  BY <1>1, <1>2, <1>4 DEF Minor, LinkWrite, EndpointsAllowed, OfKind
<1>6. KeepsChecks(Rows, Rows', Arts, Arts', Backs) /\ MemoriesStay(Rows, Rows')
  BY <1>1, <1>4, <1>5, LinkWriteKeeps
<1> QED
  BY <1>3, <1>6, Results

LEMMA RestoreLinkResults == ASSUME Ready, RestoreConnection PROVE OpResult
<1> DEFINE new == [Touched(Rows[Op.on], Req.key) EXCEPT !.live = TRUE]
<1>1. /\ tx # NoTx /\ CanRestoreConnection(Op)
      /\ Effect({Op.on, new.src, new.dst}, At(Op.on, new), <<Logged(Op.on, new, TRUE)>>)
  BY Guards DEF RestoreConnection, Step, Running
<1>2. Op.on \in OfTable(Rows, "connection") /\ Op.on \in DOMAIN Rows
      /\ EndpointsAllowed(Rows[Op.on].src, Rows[Op.on].kind, Rows[Op.on].dst)
  BY <1>1 DEF CanRestoreConnection, AtRevision, OfTable
<1>3. WellFormed(Rows[Op.on]) /\ Admitted(Rows, Arts)
  BY <1>1, <1>2, TxFacts DEF Ready, Admitted
<1>4. Alters(Rows[Op.on], new, {"live"}) /\ new.live = TRUE
  BY <1>3, LiveAlters
<1> HIDE DEF new
<1>5. AreMinor({"live"}) /\ "kind" \notin {"live"} /\ new.live \in BOOLEAN
  BY <1>4 DEF AreMinor
<1>6. Minor(Rows, Arts, Op.on, new, {"live"}, Req.who)
  BY <1>2, <1>3, <1>4, <1>5, AlteredRow
<1>7. EndpointsAllowed(Rows[Op.on].src, new.kind, Rows[Op.on].dst)
  BY <1>2, <1>6 DEF Minor, OfTable
<1> QED
  BY <1>1, <1>2, <1>4, <1>5, <1>7, LinkResults

LEMMA UpdateLinkResults == ASSUME Ready, UpdateConnection PROVE OpResult
<1> DEFINE new == [Touched(Rows[Op.on], Req.key) EXCEPT !.kind = Op.kind]
<1>1. /\ tx # NoTx /\ CanUpdateConnection(Op)
      /\ Effect({Op.on, new.src, new.dst}, At(Op.on, new), <<Logged(Op.on, new, TRUE)>>)
  BY Guards DEF UpdateConnection, Step, Running
<1>2. Op.on \in OfTable(Rows, "connection") /\ Op.on \in DOMAIN Rows
      /\ EndpointsAllowed(Rows[Op.on].src, Op.kind, Rows[Op.on].dst)
  BY <1>1 DEF CanUpdateConnection, AtRevision, OfTable
<1>3. WellFormed(Rows[Op.on])
  BY <1>1, <1>2, TxFacts DEF Ready, Admitted
<1>4. Alters(Rows[Op.on], new, {"kind"}) /\ new.kind = Op.kind
  BY <1>2, <1>3, KindAlters DEF OfTable
<1> HIDE DEF new
<1>5. AreMinor({"kind"}) /\ new.live \in BOOLEAN
  <2>1. "live" \in DOMAIN Rows[Op.on] \ {"kind", "rev", "by"} /\ Rows[Op.on].live \in BOOLEAN
    BY <1>3 DEF WellFormed, Columns
  <2> QED
    BY <1>4, <2>1 DEF AreMinor, Alters
<1> QED
  BY <1>1, <1>2, <1>4, <1>5, LinkResults

LEMMA ArchiveLinkResults == ASSUME Ready, ArchiveConnection PROVE OpResult
<1> DEFINE new == [Touched(Rows[Op.on], Req.key) EXCEPT !.live = FALSE]
<1>1. /\ tx # NoTx /\ AtRevision("connection", Op.on, Op.rev) /\ Rewrite(Op.on, new)
  BY Guards DEF ArchiveConnection, Step, Running
<1>2. Op.on \in OfTable(Rows, "connection") /\ Op.on \in DOMAIN Rows
  BY <1>1 DEF AtRevision, OfTable
<1>3. WellFormed(Rows[Op.on])
  BY <1>1, <1>2, TxFacts DEF Ready, Admitted
<1>4. Alters(Rows[Op.on], new, {"live"}) /\ new.live = FALSE
  BY <1>3, LiveAlters
<1> HIDE DEF new
<1>5. AreMinor({"live"}) /\ new.live \in BOOLEAN
  BY <1>4 DEF AreMinor
<1>6. Effect({Op.on}, At(Op.on, new), <<Logged(Op.on, new, TRUE)>>) /\ Op.on \in {Op.on}
  BY <1>1 DEF Rewrite
<1> QED
  BY <1>1, <1>2, <1>4, <1>5, <1>6, LinkResults

LEMMA ConnectResults == ASSUME Ready, CreateConnection PROVE OpResult
<1> DEFINE same == SameLink(Rows, Op.src, Op.kind, Op.dst)
<1>1. tx # NoTx /\ CanConnect(Op)
  BY Guards DEF CreateConnection, Step, Running
<1>2. Admitted(Rows, Arts)
  BY <1>1, TxFacts DEF Ready
<1>3. CASE same = {}
  <2> DEFINE new == NewConnection(Op.src, Op.kind, Op.dst, Req.key)
  <2>1. Insert(Op.on, new, {Op.src, Op.dst})
    BY <1>3 DEF CreateConnection
  <2>2. /\ WellFormed(new) /\ new.table = "connection" /\ new.rev = 1 /\ new.live
        /\ new.src = Op.src /\ new.dst = Op.dst /\ new.kind = Op.kind
    BY NewConnectionLaws
  <2>3. EndpointsAllowed(Op.src, Op.kind, Op.dst)
    BY <1>1 DEF CanConnect
  <2> HIDE DEF new
  <2>4. Refers(new, Rows, Arts)
    BY <2>2, <2>3 DEF Refers, EndpointsAllowed, Live
  <2>5. Effects(Op.on, new) /\ Op.on \notin DOMAIN Rows
    BY <1>1, <2>1, <2>2, <2>4, Inserts DEF Ready
  <2>6. /\ OnlyAt(Op.on, Rows, Rows') /\ Rows'[Op.on] = new /\ Arts' = Arts
        /\ ArtsGrow(Arts, Arts, Rows')
    BY <1>2, <2>5, ArtsSame DEF Effects
  <2>7. LinkWrite(Rows, Rows', Arts, Op.on)
    BY <2>2, <2>3, <2>5, <2>6 DEF LinkWrite, EndpointsAllowed, OfKind
  <2>8. KeepsChecks(Rows, Rows', Arts, Arts', Backs) /\ MemoriesStay(Rows, Rows')
    BY <1>2, <2>6, <2>7, LinkWriteKeeps
  <2> QED
    BY <2>5, <2>8, Results
<1>4. CASE same # {}
  <2>1. PICK c \in same :
              IF Rows[c].says = {} /\ Rows[c].first = Req.key
              THEN Effect({c, Op.src, Op.dst}, << >>, << >>)
              ELSE LET new == Asserted(Touched(Rows[c], Req.key), Req.key) IN
                   Effect({c, Op.src, Op.dst}, At(c, new), <<Logged(c, new, TRUE)>>)
    BY <1>4 DEF CreateConnection
  <2>2. c \in DOMAIN Rows /\ Rows[c].table = "connection"
    BY DEF SameLink, ActiveLinks, OfTable
  <2>3. CASE Rows[c].says = {} /\ Rows[c].first = Req.key
    BY <1>1, <2>1, <2>3, EmptyResults
  <2>4. CASE ~(Rows[c].says = {} /\ Rows[c].first = Req.key)
    <3> DEFINE new == Asserted(Touched(Rows[c], Req.key), Req.key)
    <3>1. Effect({c, Op.src, Op.dst}, At(c, new), <<Logged(c, new, TRUE)>>)
      BY <2>1, <2>4
    <3>2. WellFormed(Rows[c])
      BY <1>2, <2>2 DEF Admitted
    <3>3. Alters(Rows[c], new, {"says"})
      BY <2>2, <3>2, AssertedAlters
    <3> HIDE DEF new
    <3> QED
      BY <1>1, <2>2, <3>1, <3>3, QuietResults
  <2> QED
    BY <2>3, <2>4
<1> QED
  BY <1>3, <1>4

LEMMA NewCategoryResults == ASSUME Ready, CreateEntityCategory PROVE OpResult
<1> DEFINE new == NewCategory(Req.key)
<1>1. tx # NoTx /\ Insert(Op.on, new, {})
  BY DEF CreateEntityCategory, Step, Running
<1>2. WellFormed(new) /\ new.table = "category" /\ new.rev = 1
  BY NewCategoryLaws
<1> HIDE DEF new
<1>3. Refers(new, Rows, Arts)
  BY <1>2 DEF Refers
<1>4. Effects(Op.on, new) /\ Op.on \notin DOMAIN Rows
  BY <1>1, <1>2, <1>3, Inserts DEF Ready
<1>5. Admitted(Rows, Arts)
  BY <1>1, TxFacts DEF Ready
<1>6. /\ OnlyAt(Op.on, Rows, Rows') /\ Rows'[Op.on].table = "category" /\ Arts' = Arts
      /\ ArtsGrow(Arts, Arts, Rows')
  BY <1>2, <1>4, <1>5, ArtsSame DEF Effects
<1>7. KeepsChecks(Rows, Rows', Arts, Arts', Backs) /\ MemoriesStay(Rows, Rows')
  BY <1>4, <1>5, <1>6, CategoryWriteKeeps
<1> QED
  BY <1>4, <1>7, Results

LEMMA CategoryResults == ASSUME Ready, ChangeEntityCategory PROVE OpResult
<1> DEFINE id == Op.on
           mid == Touched(Rows[id], Req.key)
           v == IF Op.to = "same" THEN mid.live ELSE Op.to # "archived"
           new == [mid EXCEPT !.live = v]
<1>1. tx # NoTx /\ CanChangeCategory(Op) /\ Rewrite(id, new)
  BY Guards DEF ChangeEntityCategory, Step, Running
<1>2. id \in OfTable(Rows, "category") /\ id \in DOMAIN Rows
  BY <1>1 DEF CanChangeCategory, AtRevision, OfTable
<1>3. Admitted(Rows, Arts) /\ WellFormed(Rows[id])
  BY <1>1, <1>2, TxFacts DEF Ready, Admitted
<1>4. mid.live = Rows[id].live
  BY DEF Touched
<1>5. v \in BOOLEAN
  BY <1>3, <1>4 DEF WellFormed
<1> HIDE DEF v
<1>6. Alters(Rows[id], new, {"live"}) /\ new.live = v
  BY <1>3, LiveAlters
<1> HIDE DEF new
<1>7. AreMinor({"live"}) /\ "kind" \notin {"live"} /\ new.live \in BOOLEAN
  BY <1>5, <1>6 DEF AreMinor
<1>8. Minor(Rows, Arts, id, new, {"live"}, Req.who)
  BY <1>2, <1>3, <1>6, <1>7, AlteredRow
<1>9. new.table = "category"
  BY <1>2, <1>8 DEF Minor, OfTable
<1>10. Effects(id, new)
  <2>1. Effect({id}, At(id, new), <<Logged(id, new, TRUE)>>) /\ id \in {id}
    BY <1>1 DEF Rewrite
  <2> QED
    BY <1>1, <1>2, <1>8, <1>9, <2>1, Rewrites DEF Ready, Minor
<1>11. /\ OnlyAt(id, Rows, Rows') /\ Rows'[id] = new /\ Arts' = Arts
       /\ ArtsGrow(Arts, Arts, Rows')
  BY <1>3, <1>10, ArtsSame DEF Effects
<1>12. Rows[id].live /\ ~new.live =>
           \A o \in OfKind(Rows, "entity") : Rows[o].live => id \notin Rows[o].cats
  <2>1. Rows[id].live /\ ~new.live => Op.to = "archived"
    BY <1>4, <1>6 DEF v
  <2> QED
    BY <1>1, <2>1 DEF CanChangeCategory
<1>13. KeepsChecks(Rows, Rows', Arts, Arts', Backs) /\ MemoriesStay(Rows, Rows')
  BY <1>2, <1>3, <1>9, <1>11, <1>12, CategoryWriteKeeps DEF OfTable
<1> QED
  BY <1>10, <1>13, Results

\* An operation that touches an Object and adds an Artifact or a correction.
LEMMA TouchedRow ==
    ASSUME Ready, tx # NoTx, UNCHANGED others,
           NEW id \in OfTable(Rows, "object"), NEW e, e.on = id, e.after = Touched(Rows[id], Req.key),
           Tagged(e, tx.batch, tx.at), Explains(e, Rows[id]),
           DOMAIN tx' = TxFields, tx'.batch = tx.batch, tx'.at = tx.at, tx'.step = tx.step + 1,
           tx'.row = Over(At(id, Touched(Rows[id], Req.key)), tx.row), tx'.log = tx.log \o <<e>>,
           tx.held \cup {id} \subseteq tx'.held, ArtsGrow(Arts, Arts', Rows)
    PROVE  /\ \E log : OpWrites(log)
           /\ KeepsChecks(Rows, Rows', Arts, Arts', Backs) /\ MemoriesStay(Rows, Rows')
           /\ Rows'[id].rev = Rows[id].rev + 1
<1> DEFINE new == Touched(Rows[id], Req.key)
<1>1. Admitted(Rows, Arts) /\ id \in DOMAIN Rows /\ Rows[id].table = "object" /\ WellFormed(Rows[id])
  BY TxFacts DEF Ready, OfTable, Admitted
<1>2. PICK F : F = {} /\ Alters(Rows[id], new, F)
  BY <1>1, TouchedAlters
<1> HIDE DEF new
<1>3. AreMinor(F) /\ "kind" \notin F /\ new.live \in BOOLEAN
  <2>1. "live" \in DOMAIN Rows[id] \ {"rev", "by"} /\ Rows[id].live \in BOOLEAN
    BY <1>1 DEF WellFormed, Columns
  <2> QED
    BY <1>2, <2>1 DEF AreMinor, Alters
<1>4. Minor(Rows, Arts, id, new, F, Req.who)
  BY <1>1, <1>2, <1>3, AlteredRow
<1>5. Refers(new, Rows, Arts')
  BY <1>4 DEF Minor, Refers, ArtsGrow
<1>6. /\ id \in Ids /\ e.after = new /\ Explains(e, State(Rows, id))
      /\ tx'.row = Over(At(id, new), tx.row) /\ Evolves(Rows[id], new, tx.batch.who)
      /\ (new.table = "object" => new.holds = IF id \in DOMAIN Rows THEN Rows[id].holds ELSE {})
  BY <1>1, <1>4 DEF Minor, State, new, Req
<1>7. /\ OpWrites(<<e>>) /\ OnlyAt(id, Rows, Rows') /\ Rows'[id] = new
      /\ ArtsGrow(Arts, Arts', Rows')
  BY <1>1, <1>5, <1>6, OneRow DEF Ready
<1>8. Quiet(Rows, Rows')
  BY <1>1, <1>2, <1>4, <1>7 DEF OnlyAt, Quiet, Minor
<1>9. KeepsChecks(Rows, Rows', Arts, Arts', Backs) /\ MemoriesStay(Rows, Rows')
  BY <1>1, <1>7, <1>8, QuietKeeps
<1>10. Rows'[id].rev = Rows[id].rev + 1
  BY <1>2, <1>7 DEF Alters
<1> QED
  BY <1>7, <1>9, <1>10

LEMMA CorrectResults == ASSUME Ready, CorrectEvidence PROVE OpResult
<1> DEFINE id == Op.on
           new == Touched(Rows[id], Req.key)
           e == Logged(id, new, TRUE)
<1>1. /\ tx # NoTx /\ CanCorrect(Op)
      /\ tx' = [tx EXCEPT !.step = @ + 1, !.held = @ \cup {id}, !.row = Over(At(id, new), @),
                          !.corr = @ \cup {Correction(id, Op.about)}, !.log = @ \o <<e>>]
  BY Guards DEF CorrectEvidence, Step, Running
<1>2. id \in OfTable(Rows, "object") /\ id \in DOMAIN Rows
  BY <1>1 DEF CanCorrect, AtRevision, OfTable
<1>3. DOMAIN tx = TxFields /\ Admitted(Rows, Arts) /\ WellFormed(Rows[id])
  BY <1>1, <1>2, TxFacts DEF Ready, Admitted
<1>4. UNCHANGED others
  BY DEF CorrectEvidence, Ready, others
<1>5. /\ e.on = id /\ e.after = new /\ Tagged(e, tx.batch, tx.at)
      /\ e.from = Rows[id].rev /\ e.before = Rows[id]
  BY DEF Logged, Event, Tagged, Req
<1>6. new.rev = Rows[id].rev + 1
  BY <1>3, TouchedAlters DEF Alters
<1> HIDE DEF e, new
<1>7. Explains(e, Rows[id])
  BY <1>5, <1>6 DEF Explains
<1>8. /\ DOMAIN tx' = TxFields /\ tx'.batch = tx.batch /\ tx'.at = tx.at /\ tx'.step = tx.step + 1
      /\ tx'.row = Over(At(id, new), tx.row) /\ tx'.log = tx.log \o <<e>>
      /\ tx'.held = tx.held \cup {id} /\ tx'.corr = tx.corr \cup {Correction(id, Op.about)}
      /\ tx'.art = tx.art
  BY <1>1, <1>3 DEF TxFields
<1>9. Arts' = Arts /\ ArtsGrow(Arts, Arts', Rows)
  <2>1. Arts' = Arts
    BY <1>4, <1>8 DEF Arts, others, store
  <2> QED
    BY <1>3, <2>1, ArtsSame
<1>10. /\ \E log : OpWrites(log)
       /\ KeepsChecks(Rows, Rows', Arts, Arts', Backs) /\ MemoriesStay(Rows, Rows')
       /\ Rows'[id].rev = Rows[id].rev + 1
  BY <1>1, <1>2, <1>4, <1>5, <1>7, <1>8, <1>9, TouchedRow DEF new
<1>11. AddsSuccessors
  <2> DEFINE P == {<<id, Op.about>>}
  <2>1. \A p \in P : p = <<p[1], p[2]>> /\ p[1] = id
    OBVIOUS
  <2>2. {Correction(p[1], p[2]) : p \in P} = {Correction(id, Op.about)}
    OBVIOUS
  <2> HIDE DEF P
  <2> QED
    BY <1>2, <1>8, <1>10, <2>1, <2>2 DEF AddsSuccessors
<1> QED
  BY <1>10, <1>11 DEF OpResult

LEMMA AppendResults == ASSUME Ready, AppendArtifact PROVE OpResult
<1> DEFINE id == Op.on
           new == Touched(Rows[id], Req.key)
           local == \E made \in Range(Created(Req)) : made.on = Op.on
           e == Event(id, Run(Req), Req, tx.at, Rows[id].rev,
                      IF local THEN NoRow ELSE Rows[id], new, ~local)
           made == [of |-> id, pred |-> Op.pred, body |-> Op.body, document |-> None]
<1>1. /\ tx # NoTx /\ CanAppend(Op) /\ Op.art \in Artifacts \ DOMAIN Arts
      /\ tx' = [tx EXCEPT !.step = @ + 1, !.held = @ \cup {id}, !.row = Over(At(id, new), @),
                          !.art = Over(At(Op.art, made), @), !.log = @ \o <<e>>]
  BY Guards DEF AppendArtifact, Step, Running
<1>2. id \in OfTable(Rows, "object") /\ id \in DOMAIN Rows
  BY <1>1 DEF CanAppend, AtRevision, OfTable
<1>3. DOMAIN tx = TxFields /\ Admitted(Rows, Arts) /\ WellFormed(Rows[id])
  BY <1>1, <1>2, TxFacts DEF Ready, Admitted
<1>4. UNCHANGED others
  BY DEF AppendArtifact, Ready, others
<1>5. /\ e.on = id /\ e.after = new /\ Tagged(e, tx.batch, tx.at)
      /\ e.from = Rows[id].rev /\ (e.locked => e.before = Rows[id])
  BY DEF Event, Tagged, Req
<1>6. new.rev = Rows[id].rev + 1
  BY <1>3, TouchedAlters DEF Alters
<1> HIDE DEF e, new
<1>7. Explains(e, Rows[id])
  BY <1>5, <1>6 DEF Explains
<1>8. /\ DOMAIN tx' = TxFields /\ tx'.batch = tx.batch /\ tx'.at = tx.at /\ tx'.step = tx.step + 1
      /\ tx'.row = Over(At(id, new), tx.row) /\ tx'.log = tx.log \o <<e>>
      /\ tx'.held = tx.held \cup {id} /\ tx'.corr = tx.corr
      /\ tx'.art = Over(At(Op.art, made), tx.art)
  BY <1>1, <1>3 DEF TxFields
<1>9. /\ DOMAIN tx'.art = {Op.art} \cup DOMAIN tx.art /\ tx'.art[Op.art] = made
      /\ \A x \in DOMAIN tx.art : tx'.art[x] = tx.art[x]
  <2>1. Op.art \notin DOMAIN tx.art
    BY <1>1 DEF Arts, Over
  <2> QED
    BY <1>8, <2>1 DEF Over, At
<1>10. made.of = id /\ made.document = None
  OBVIOUS
<1> HIDE DEF made
<1>11. ArtsGrow(Arts, Arts', Rows)
  <2>1. Arts' = Over(tx'.art, art)
    BY <1>4 DEF Arts, others, store
  <2>2. Arts' \in [DOMAIN Arts' -> Range(Arts')]
    BY <2>1, OverLaws
  <2>3. DOMAIN Arts' = DOMAIN Arts \cup {Op.art} /\ Arts'[Op.art] = made
        /\ \A x \in DOMAIN Arts : Arts'[x] = Arts[x]
    BY <1>1, <1>9, <2>1 DEF Over, Arts
  <2> QED
    BY <1>1, <1>2, <1>3, <1>10, <2>2, <2>3 DEF ArtsGrow, Admitted
<1>12. /\ \E log : OpWrites(log)
       /\ KeepsChecks(Rows, Rows', Arts, Arts', Backs) /\ MemoriesStay(Rows, Rows')
  BY <1>1, <1>2, <1>4, <1>5, <1>7, <1>8, <1>11, TouchedRow DEF new
<1>13. AddsSuccessors
  <2>1. tx'.corr = tx.corr \cup {Correction(p[1], p[2]) : p \in {}}
    BY <1>8
  <2> QED
    BY <1>1, <1>9, <1>10, <2>1 DEF AddsSuccessors
<1> QED
  BY <1>12, <1>13 DEF OpResult

LEMMA TwoWrites ==
    ASSUME NEW a, NEW b, NEW e, NEW f, e.on # f.on, DOMAIN b = DOMAIN a \cup {e.on, f.on},
           \A x \in DOMAIN a \ {e.on, f.on} : b[x] = a[x], b[e.on] = e.after, b[f.on] = f.after,
           Explains(e, State(a, e.on)), Explains(f, State(a, f.on))
    PROVE  /\ Writes(<<e, f>>, a, b) /\ Ons(<<e, f>>) = {e.on, f.on} /\ IsASeq(<<e, f>>)
           /\ DOMAIN <<e, f>> = {1, 2} /\ <<e, f>>[1] = e /\ <<e, f>>[2] = f
<1>1. IsASeq(<<e, f>>) /\ DOMAIN <<e, f>> = {1, 2} /\ <<e, f>>[1] = e /\ <<e, f>>[2] = f
  <2> DEFINE s == <<e, f>>
  <2>1. DOMAIN s = 1..2 /\ s = [i \in 1..2 |-> s[i]] /\ s[1] = e /\ s[2] = f
    OBVIOUS
  <2> HIDE DEF s
  <2>2. IsASeq(s)
    BY <2>1, IsASeqIntro
  <2>3. DOMAIN s = {1, 2}
    BY <2>1
  <2> QED
    BY <2>1, <2>2, <2>3 DEF s
<1> DEFINE log == <<e, f>>
<1> HIDE DEF log
<1>2. IsASeq(log) /\ DOMAIN log = {1, 2} /\ log[1] = e /\ log[2] = f
  BY <1>1 DEF log
<1>3. Ons(log) = {e.on, f.on}
  BY <1>2 DEF Ons
<1>4. Writes(log, a, b)
  BY <1>2, <1>3 DEF Writes
<1> QED
  BY <1>1, <1>3, <1>4 DEF log

\* An identity is taken from one holder and given to another.
LEMMA MovedApart ==
    ASSUME NEW a, NEW b, NEW from, NEW to, NEW what, IdentitiesApart(a),
           from \in OfTable(a, "object"), to \in OfTable(a, "object"), from # to, what \in a[from].holds,
           OfTable(b, "object") = OfTable(a, "object"),
           \A x \in OfTable(a, "object") \ {from, to} : b[x].holds = a[x].holds,
           b[from].holds = a[from].holds \ {what}, b[to].holds = a[to].holds \cup {what}
    PROVE  IdentitiesApart(b)
<1>1. \A x \in OfTable(a, "object") \ {from} : what \notin a[x].holds
  BY DEF IdentitiesApart
<1>2. ASSUME NEW x \in OfTable(a, "object"), x # to PROVE b[x].holds \subseteq a[x].holds /\ what \notin b[x].holds
  BY <1>1, <1>2
<1> QED
  BY <1>2 DEF IdentitiesApart

LEMMA ReassignResults == ASSUME Ready, Reassign PROVE OpResult
<1> DEFINE from == Op.on
           to == Op.to
           old == Released(Rows[from], Op.what)
           new == [Touched(Rows[to], Req.key) EXCEPT !.holds = @ \cup {Op.what}]
           e == Logged(from, old, TRUE)
           f == Logged(to, new, TRUE)
<1>1. /\ tx # NoTx /\ Running /\ Op.op = "reassign" /\ CanReassign(Op)
      /\ tx' = [tx EXCEPT !.step = @ + 1, !.row = Over(At(from, old), Over(At(to, new), @)),
                          !.corr = @ \cup {Correction(from, from), Correction(to, to)},
                          !.log = @ \o <<e, f>>]
  BY Guards DEF Reassign, Step, Running
<1>2. Op \in Range(tx.batch.ops)
  BY <1>1, OpKnown
<1>3. {from, to} \subseteq tx.held
  BY <1>1, <1>2 DEF Ready, BatchInv
<1>4. /\ from # to /\ from \in OfTable(Rows, "object") /\ to \in OfTable(Rows, "object")
      /\ {from, to} \subseteq DOMAIN Rows /\ Op.what \in Rows[from].holds
      /\ Rows[from].table = "object" /\ Rows[to].table = "object"
  BY <1>1 DEF CanReassign, AtRevision, OfTable
<1>5. /\ DOMAIN tx = TxFields /\ Admitted(Rows, Arts) /\ IsASeq(tx.log)
      /\ WellFormed(Rows[from]) /\ WellFormed(Rows[to]) /\ {from, to} \subseteq Ids
  BY <1>1, <1>4, TxFacts DEF Ready, Admitted
<1>6. UNCHANGED others
  BY DEF Reassign, Ready, others
<1>7. /\ e.on = from /\ e.after = old /\ Tagged(e, tx.batch, tx.at)
      /\ e.from = Rows[from].rev /\ e.before = Rows[from]
      /\ f.on = to /\ f.after = new /\ Tagged(f, tx.batch, tx.at)
      /\ f.from = Rows[to].rev /\ f.before = Rows[to]
  BY DEF Logged, Event, Tagged, Req
<1>8. old.holds = Rows[from].holds \ {Op.what} /\ Alters(Rows[from], old, {"holds"})
  <2> DEFINE S == Rows[from].holds \ {Op.what}
  <2>1. Touched(Rows[from], Req.key).holds = Rows[from].holds
    BY DEF Touched
  <2>2. old = [Touched(Rows[from], Req.key) EXCEPT !.holds = S]
    BY <2>1 DEF Released
  <2> HIDE DEF S, old
  <2>0. /\ Alters(Rows[from], [Touched(Rows[from], Req.key) EXCEPT !.holds = S], {"holds"})
        /\ [Touched(Rows[from], Req.key) EXCEPT !.holds = S].holds = S
    <3>1. WellFormed(Rows[from]) /\ Rows[from].table = "object"
      BY <1>4, <1>5
    <3> QED
      BY ONLY <3>1, HoldsAlters
  <2>3. old.holds = S /\ Alters(Rows[from], old, {"holds"})
    BY <2>0, <2>2
  <2> QED
    BY <2>3 DEF S
<1>9. new.holds = Rows[to].holds \cup {Op.what} /\ Alters(Rows[to], new, {"holds"})
  <2> DEFINE S == Rows[to].holds \cup {Op.what}
  <2>1. Touched(Rows[to], Req.key).holds = Rows[to].holds
    BY DEF Touched
  <2>2. new = [Touched(Rows[to], Req.key) EXCEPT !.holds = S]
    BY <2>1
  <2> HIDE DEF S, new
  <2>3. new.holds = S /\ Alters(Rows[to], new, {"holds"})
    BY <1>4, <1>5, <2>2, HoldsAlters
  <2> QED
    BY <2>3 DEF S
<1> HIDE DEF old, new, e, f
<1>10. ASSUME NEW r, NEW s, NEW who, WellFormed(r), r.table = "object", Alters(r, s, {"holds"})
       PROVE  /\ Evolves(r, s, who) /\ s.table = "object" /\ s.live = r.live /\ s.kind = r.kind
              /\ s.cites = r.cites /\ s.cats = r.cats /\ s.rev = r.rev + 1
  <2>1. {"table", "live", "kind", "cites", "cats"} \subseteq DOMAIN r \ {"holds", "rev", "by"}
        /\ r.live \in BOOLEAN
    <3>1. DOMAIN r = Columns["object"] /\ r.live \in BOOLEAN
      BY <1>10 DEF WellFormed
    <3> QED
      BY <3>1 DEF Columns
  <2>2. \A g \in {"table", "live", "kind", "cites", "cats"} : s[g] = r[g]
    BY <1>10, <2>1 DEF Alters
  <2>3. PICK F : F = {"holds"}
    OBVIOUS
  <2>4. Alters(r, s, F) /\ F \subseteq {"live", "current", "holds", "says", "kind"} /\ "kind" \notin F
    BY <1>10, <2>3
  <2>5. Evolves(r, s, who)
    BY <1>10, <2>1, <2>2, <2>4, AlteredEvolves
  <2> QED
    BY <1>10, <2>2, <2>5 DEF Alters
<1>11. /\ Evolves(Rows[from], old, tx.batch.who) /\ old.table = "object" /\ old.live = Rows[from].live
       /\ old.kind = Rows[from].kind /\ old.cites = Rows[from].cites /\ old.cats = Rows[from].cats
       /\ old.rev = Rows[from].rev + 1
  BY <1>4, <1>5, <1>8, <1>10
<1>12. /\ Evolves(Rows[to], new, tx.batch.who) /\ new.table = "object" /\ new.live = Rows[to].live
       /\ new.kind = Rows[to].kind /\ new.cites = Rows[to].cites /\ new.cats = Rows[to].cats
       /\ new.rev = Rows[to].rev + 1
  BY <1>4, <1>5, <1>9, <1>10
<1>13. /\ DOMAIN tx' = TxFields /\ tx'.batch = tx.batch /\ tx'.at = tx.at /\ tx'.step = tx.step + 1
       /\ tx'.row = Over(At(from, old), Over(At(to, new), tx.row)) /\ tx'.log = tx.log \o <<e, f>>
       /\ tx'.held = tx.held /\ tx'.art = tx.art
       /\ tx'.corr = tx.corr \cup {Correction(from, from), Correction(to, to)}
  BY <1>1, <1>5 DEF TxFields
<1>14. /\ DOMAIN tx'.row = DOMAIN tx.row \cup {from, to} /\ tx'.row[from] = old /\ tx'.row[to] = new
       /\ \A x \in DOMAIN tx.row \ {from, to} : tx'.row[x] = tx.row[x]
  BY <1>4, <1>13 DEF Over, At
<1>15. /\ Rows' \in [DOMAIN Rows' -> Range(Rows')]
       /\ DOMAIN Rows' = DOMAIN Rows /\ Rows'[from] = old /\ Rows'[to] = new
       /\ \A x \in DOMAIN Rows \ {from, to} : Rows'[x] = Rows[x]
  <2>1. Rows' = Over(tx'.row, row)
    BY <1>6 DEF Rows, others, store
  <2>2. Rows' \in [DOMAIN Rows' -> Range(Rows')]
    BY <2>1, OverLaws
  <2>3. DOMAIN Rows = DOMAIN tx.row \cup DOMAIN row
    BY OverLaws DEF Rows
  <2>4. /\ DOMAIN Rows' = DOMAIN Rows /\ Rows'[from] = old /\ Rows'[to] = new
    BY <1>4, <1>14, <2>1, <2>3 DEF Over
  <2>5. \A x \in DOMAIN Rows \ {from, to} : Rows'[x] = Rows[x]
    BY <1>14, <2>1 DEF Over, Rows
  <2> QED
    BY <2>2, <2>4, <2>5
<1>16. Arts' = Arts /\ ArtsGrow(Arts, Arts', Rows')
  <2>1. Arts' = Arts
    BY <1>6, <1>13 DEF Arts, others, store
  <2> QED
    BY <1>5, <2>1, ArtsSame
<1>17. /\ Writes(<<e, f>>, Rows, Rows') /\ Ons(<<e, f>>) = {e.on, f.on} /\ IsASeq(<<e, f>>)
       /\ DOMAIN <<e, f>> = {1, 2} /\ <<e, f>>[1] = e /\ <<e, f>>[2] = f
  <2>1. Explains(e, State(Rows, e.on)) /\ Explains(f, State(Rows, f.on))
    BY <1>4, <1>7, <1>11, <1>12 DEF Explains, State
  <2>2. /\ e.on # f.on /\ DOMAIN Rows' = DOMAIN Rows \cup {e.on, f.on}
        /\ \A x \in DOMAIN Rows \ {e.on, f.on} : Rows'[x] = Rows[x]
        /\ Rows'[e.on] = e.after /\ Rows'[f.on] = f.after
    BY <1>4, <1>7, <1>15
  <2> QED
    BY <2>1, <2>2, TwoWrites
<1> DEFINE log == <<e, f>>
<1> HIDE DEF log
<1>18. /\ Writes(log, Rows, Rows') /\ Ons(log) = {from, to} /\ IsASeq(log)
       /\ DOMAIN log = {1, 2} /\ log[1] = e /\ log[2] = f /\ tx'.log = tx.log \o log
  BY <1>7, <1>13, <1>17 DEF log
<1>19. Sound(log, Rows, tx.batch.who)
  BY <1>4, <1>5, <1>7, <1>11, <1>12, <1>18 DEF Sound
<1>20. \A i \in DOMAIN log : Refers(log[i].after, Rows', Arts')
  <2>1. ASSUME NEW id \in OfTable(Rows, "object"), NEW r, r.table = "object", r.kind = Rows[id].kind, r.cites = Rows[id].cites
        PROVE  Refers(r, Rows', Arts')
    BY <1>5, <1>16, <2>1 DEF Refers, Admitted, OfKind
  <2> QED
    BY <1>4, <1>7, <1>11, <1>12, <1>18, <2>1
<1>21. IdentitiesApart(Rows')
  <2>1. IdentitiesApart(Rows)
    BY <1>5 DEF Admitted
  <2>2. /\ OfTable(Rows', "object") = OfTable(Rows, "object")
        /\ \A x \in OfTable(Rows, "object") \ {from, to} : Rows'[x].holds = Rows[x].holds
        /\ Rows'[from].holds = Rows[from].holds \ {Op.what} /\ Rows'[to].holds = Rows[to].holds \cup {Op.what}
    BY <1>4, <1>8, <1>9, <1>11, <1>12, <1>15 DEF OfTable
  <2> QED
    BY <1>4, <2>1, <2>2, MovedApart
<1>22. Admitted(Rows', Arts')
  BY <1>5, <1>15, <1>16, <1>18, <1>19, <1>20, <1>21, AdmittedOn
<1>23. OpWrites(log)
  <2>1. \A i \in DOMAIN log : Tagged(log[i], tx.batch, tx.at)
    BY <1>7, <1>18
  <2> QED
    BY <1>3, <1>5, <1>6, <1>13, <1>14, <1>18, <1>19, <1>22, <2>1 DEF OpWrites
<1>24. Quiet(Rows, Rows')
  BY <1>4, <1>11, <1>12, <1>15 DEF Quiet
<1>25. KeepsChecks(Rows, Rows', Arts, Arts', Backs) /\ MemoriesStay(Rows, Rows')
  BY <1>5, <1>16, <1>24, QuietKeeps
<1>26. AddsSuccessors
  <2> DEFINE P == {<<from, from>>, <<to, to>>}
  <2>1. \A p \in P : p = <<p[1], p[2]>> /\ p[1] \in {from, to}
    OBVIOUS
  <2>2. {Correction(p[1], p[2]) : p \in P} = {Correction(from, from), Correction(to, to)}
    OBVIOUS
  <2> HIDE DEF P
  <2>3. \A x \in {from, to} : x \in DOMAIN Rows /\ Rows'[x].rev = Rows[x].rev + 1
    BY <1>4, <1>11, <1>12, <1>15
  <2> QED
    BY <1>13, <2>1, <2>2, <2>3 DEF AddsSuccessors
<1> QED
  BY <1>23, <1>25, <1>26 DEF OpResult

\* Whichever operation a batch runs next.
LEMMA OneResult == ASSUME Ready, OneOperation PROVE OpResult
  BY CreateResults, UpdateResults, TouchResults, PromoteResults, ArchiveResults, RestoreResults,
     CorrectResults, ReassignResults, ConnectResults, UpdateLinkResults, ArchiveLinkResults,
     RestoreLinkResults, AppendResults, NewCategoryResults, CategoryResults DEF OneOperation

-----------------------------------------------------------------------------
(* What operations preserve                                                *)

LEMMA SameThingTrans ==
    ASSUME NEW r, NEW s, NEW t, SameThing(r, s), SameThing(s, t) PROVE SameThing(r, t)
  BY DEF SameThing

LEMMA ClaimKeptTrans ==
    ASSUME NEW r, NEW s, NEW t, NEW who, SameThing(r, s), ClaimKept(r, s, who), ClaimKept(s, t, who)
    PROVE  ClaimKept(r, t, who)
  BY DEF SameThing, ClaimKept

\* A row stays or evolves.
LEMMA RowEvolves ==
    ASSUME NEW log, NEW a, NEW b, NEW who, Writes(log, a, b), Sound(log, a, who), NEW id \in DOMAIN a
    PROVE  /\ id \in DOMAIN b
           /\ id \in Ons(log) => Evolves(a[id], b[id], who)
           /\ id \notin Ons(log) => b[id] = a[id]
<1>1. id \in DOMAIN b /\ (id \notin Ons(log) => b[id] = a[id])
  BY DEF Writes
<1>2. ASSUME id \in Ons(log) PROVE Evolves(a[id], b[id], who)
  <2>1. PICK i \in DOMAIN log : log[i].on = id
    BY <1>2 DEF Ons
  <2> QED
    BY <2>1 DEF Writes, Sound
<1> QED
  BY <1>1, <1>2

LEMMA OpBase ==
    ASSUME BaseInv, UNCHANGED others, Admitted(Rows', Arts') PROVE BaseInv'
  BY DEF BaseInv, others, store, Requests, CallChecked

LEMMA OpBatch ==
    ASSUME BaseInv, BatchInv, tx # NoTx, NEW log, OpWrites(log) PROVE BatchInv'
<1>1. DOMAIN tx' = TxFields /\ tx'.batch = tx.batch /\ tx'.at = tx.at /\ tx'.step = tx.step + 1
      /\ work' = work /\ events' = events /\ waiting' = waiting /\ row' = row
  BY DEF OpWrites, others, store
<1>2. IsASeq(log) /\ IsASeq(tx.log) /\ tx'.log = tx.log \o log
  BY DEF OpWrites, Writes
<1>3. Ons(tx'.log) = Ons(tx.log) \cup Ons(log)
  BY <1>2, OnsOfBoth
<1>4. Ons(tx'.log) = DOMAIN tx'.row /\ DOMAIN tx'.row \subseteq tx'.held
  BY <1>3 DEF BatchInv, OpWrites
<1>5. \A i \in DOMAIN tx'.log : Tagged(tx'.log[i], tx'.batch, tx'.at)
  <2>1. /\ Len(tx.log) \in Nat /\ Len(log) \in Nat /\ DOMAIN tx.log = 1..Len(tx.log)
        /\ DOMAIN log = 1..Len(log) /\ DOMAIN tx'.log = 1..(Len(tx.log) + Len(log))
    BY <1>2, SeqFacts, Concat
  <2>2. ASSUME NEW i \in 1..(Len(tx.log) + Len(log))
        PROVE  Tagged(tx'.log[i], tx.batch, tx.at)
    <3>1. CASE i <= Len(tx.log)
      <4>1. i \in 1..Len(tx.log) /\ tx'.log[i] = tx.log[i]
        BY <1>2, <2>1, <3>1, Concat
      <4> QED
        BY <2>1, <4>1 DEF BatchInv
    <3>2. CASE i > Len(tx.log)
      <4>1. i \in (Len(tx.log) + 1)..(Len(tx.log) + Len(log)) /\ i - Len(tx.log) \in 1..Len(log)
        BY <2>1, <3>2
      <4>2. tx'.log[i] = log[i - Len(tx.log)]
        BY <1>2, <4>1, Concat
      <4> QED
        BY <2>1, <4>1, <4>2 DEF OpWrites
    <3> QED
      BY <2>1, <3>1, <3>2
  <2> QED
    BY <1>1, <2>1, <2>2
<1>6. \A id \in DOMAIN tx'.row \cap DOMAIN row : SameThing(row[id], tx'.row[id])
  <2> SUFFICES ASSUME NEW id \in DOMAIN tx'.row \cap DOMAIN row PROVE SameThing(row[id], tx'.row[id])
    OBVIOUS
  <2>1. tx'.row[id] = Rows'[id]
    BY OverLaws DEF Rows
  <2>2. id \in DOMAIN Rows /\ SameThing(row[id], Rows[id])
    BY DEF BatchInv, Rows, Over, SameThing
  <2>3. SameThing(Rows[id], Rows'[id])
    BY <2>2, RowEvolves DEF OpWrites, Evolves, SameThing
  <2> QED
    BY <2>1, <2>2, <2>3, SameThingTrans
<1>7. tx.held \subseteq tx'.held
  BY DEF OpWrites
<1> QED
  BY <1>1, <1>4, <1>5, <1>6, <1>7 DEF BatchInv, BeginsNow

LEMMA OpJournal ==
    ASSUME JournalInv, tx # NoTx, NEW log, OpWrites(log) PROVE JournalInv'
<1>1. Accounts(log, Rows, Rows')
  BY WritesAccount DEF OpWrites
<1>2. Accounts(tx.log \o log, row, Rows')
  BY <1>1, AccountsOn DEF JournalInv
<1> QED
  BY <1>2 DEF JournalInv, OpWrites, others, store

LEMMA OpOnce ==
    ASSUME OnceInv, tx # NoTx, NEW log, OpWrites(log) PROVE OnceInv'
  BY DEF OnceInv, OpWrites, others, store, AppliedOnce, UsedRuns, Receipt

LEMMA OpClaim ==
    ASSUME BatchInv, ClaimInv, tx # NoTx, NEW log, OpWrites(log) PROVE ClaimInv'
<1> SUFFICES ASSUME NEW t \in DOMAIN tx'.row \cap DOMAIN row
             PROVE  ClaimKept(row[t], tx'.row[t], tx.batch.who)
  BY DEF ClaimInv, OpWrites, others, store
<1>1. tx'.row[t] = Rows'[t]
  BY OverLaws DEF Rows
<1>2. t \in DOMAIN Rows /\ SameThing(row[t], Rows[t]) /\ ClaimKept(row[t], Rows[t], tx.batch.who)
  BY DEF BatchInv, ClaimInv, Rows, Over, SameThing, ClaimKept
<1>3. ClaimKept(Rows[t], Rows'[t], tx.batch.who)
  BY <1>2, RowEvolves DEF OpWrites, Evolves, ClaimKept
<1> QED
  BY <1>1, <1>2, <1>3, ClaimKeptTrans

LEMMA OpGate ==
    ASSUME GateInv, tx # NoTx, OpResult PROVE GateInv'
<1>1. PICK log : OpWrites(log)
  BY DEF OpResult
<1>2. tx'.batch = tx.batch /\ UNCHANGED others
  BY <1>1 DEF OpWrites
<1>3. ASSUME tx # NoTx, cutover, ByAgent(tx.batch)
      PROVE  /\ \A op \in Range(tx.batch.ops) :
                   /\ ~(op.op = "create_object" /\ op.fields.kind = "memory")
                   /\ op.op \in MemoryOps => /\ op.on \notin OfKind(Rows', "memory")
                                             /\ op.on \in DOMAIN row \/ Makes(tx.batch, op.on)
             /\ \A m \in OfKind(Rows', "memory") :
                   m \in DOMAIN row /\ Rows'[m].live = row[m].live
  <2>1. MemoriesOff
    BY <1>3 DEF GateInv, MemoriesOff
  <2>2. MemoriesStay(Rows, Rows')
    BY <2>1 DEF OpResult
  <2> QED
    BY <1>3, <2>2 DEF GateInv, MemoriesStay
<1> QED
  BY <1>2, <1>3 DEF GateInv, others, store, NamesSeen

LEMMA OpCheck ==
    ASSUME BatchInv, CheckInv, tx # NoTx, OpResult PROVE CheckInv'
<1>1. PICK log : OpWrites(log)
  BY DEF OpResult
<1>2. /\ tx'.batch = tx.batch /\ tx'.at = tx.at /\ row' = row /\ art' = art /\ events' = events
      /\ KeepsChecks(Rows, Rows', Arts, Arts', Backs)
  BY <1>1 DEF OpWrites, OpResult, others, store
<1>3. \A id \in DOMAIN row : id \in DOMAIN Rows /\ SameThing(row[id], Rows[id])
  BY DEF BatchInv, Rows, Over, SameThing
<1>4. \A id : Meanwhile(id)' = Meanwhile(id)
  BY <1>2 DEF Meanwhile, EventsOf
<1>5. ASSUME NEW id \in DOMAIN tx'.row \cap OfTable(row, "object"), row[id].live, ~Rows'[id].live
      PROVE  LinksOf(Rows', id) = {}
  <2>1. id \in OfTable(Rows, "object")
    BY <1>3 DEF OfTable, SameThing
  <2>2. CASE Rows[id].live
    BY <1>2, <1>5, <2>1, <2>2 DEF KeepsChecks
  <2>3. CASE ~Rows[id].live
    <3>1. id \in DOMAIN tx.row
      BY <1>5, <2>3 DEF Rows, Over, OfTable
    <3>2. LinksOf(Rows, id) = {}
      BY <1>5, <2>3, <3>1 DEF CheckInv
    <3> QED
      BY <1>2, <1>5, <3>2 DEF KeepsChecks, LinksOf, Live
  <2> QED
    BY <2>2, <2>3
<1>6. ASSUME NEW c \in ActiveLinks(Rows'), Miscited(Rows', Arts', c)
      PROVE  (c \in ActiveLinks(row) /\ Miscited(row, art, c)) \/ Meanwhile(c) # {}
  BY <1>2, <1>6 DEF KeepsChecks, CheckInv
<1>7. ASSUME NEW id \in DOMAIN tx'.row \cap OfTable(row, "category"), row[id].live, ~Rows'[id].live,
             NEW o \in OfKind(Rows', "entity"), Rows'[o].live, id \in Rows'[o].cats
      PROVE  Returned(o)
  <2>1. id \in OfTable(Rows, "category")
    BY <1>3 DEF OfTable, SameThing
  <2>2. ~Rows[id].live
    BY <1>2, <1>7, <2>1 DEF KeepsChecks
  <2>3. id \in DOMAIN tx.row
    BY <1>7, <2>2 DEF Rows, Over, OfTable
  <2>4. o \in Backs \/ (o \in OfKind(Rows, "entity") /\ Rows[o].live /\ id \in Rows[o].cats)
    BY <1>2, <1>7 DEF KeepsChecks, Live
  <2>5. CASE o \in Backs
    BY <2>5 DEF Backs, Returned
  <2>6. CASE o \in OfKind(Rows, "entity") /\ Rows[o].live /\ id \in Rows[o].cats
    BY <1>7, <2>2, <2>3, <2>6 DEF CheckInv
  <2> QED
    BY <2>4, <2>5, <2>6
<1>8. \A o : Returned(o) => Returned(o)'
  BY <1>2, <1>4 DEF Returned
<1> QED
  BY <1>2, <1>4, <1>5, <1>6, <1>7, <1>8 DEF CheckInv, Rows, Arts

Less == {ss \in Nat \X Nat : ss[1] < ss[2]}

\* A bounded set of numbers has a greatest one.
LEMMA GreatestNumber ==
    ASSUME NEW S \in SUBSET Nat, S # {}, NEW b \in Nat, \A m \in S : m <= b
    PROVE  \E n \in S : \A m \in S : m <= n
<1> DEFINE T == {b - m : m \in S}
<1>1. T \in SUBSET Nat /\ T # {}
  <2>1. \A m \in S : b - m \in Nat
    OBVIOUS
  <2> QED
    BY <2>1
<1>2. IsWellFoundedOn(Less, Nat)
  BY NatLessThanWellFounded DEF OpToRel, Less
<1>3. PICK k \in T : \A l \in T : ~(<<l, k>> \in Less)
  BY <1>1, <1>2, WFMin
<1>4. PICK n \in S : k = b - n
  BY <1>3
<1>5. ASSUME NEW m \in S PROVE m <= n
  <2>1. b - m \in T /\ b - m \in Nat /\ b - n \in Nat /\ m \in Nat /\ n \in Nat
    BY <1>1, <1>4
  <2>2. ~(b - m < b - n)
    BY <1>3, <1>4, <2>1 DEF Less
  <2> QED
    BY <2>1, <2>2
<1> QED
  BY <1>5

Grows(a, b) ==
    \A id \in DOMAIN a : /\ id \in DOMAIN b /\ a[id].rev \in Nat /\ b[id].rev \in Nat
                         /\ a[id].rev <= b[id].rev

LEMMA WritesGrow ==
    ASSUME NEW log, NEW a, NEW b, NEW arts, NEW who, Admitted(a, arts), Writes(log, a, b),
           Sound(log, a, who)
    PROVE  Grows(a, b)
<1>1. ASSUME NEW id \in DOMAIN a
      PROVE  id \in DOMAIN b /\ a[id].rev \in Nat /\ b[id].rev \in Nat /\ a[id].rev <= b[id].rev
  <2>1. a[id].rev \in Nat
    BY DEF Admitted, WellFormed
  <2>2. id \in DOMAIN b /\ (b[id] = a[id] \/ b[id].rev = a[id].rev + 1)
    BY RowEvolves DEF Evolves
  <2> QED
    BY <2>1, <2>2
<1> QED
  BY <1>1 DEF Grows

LEMMA CorrectedGrows ==
    ASSUME NEW C, NEW a, NEW b, Corrected(C, a), Grows(a, b) PROVE Corrected(C, b)
<1>1. ASSUME NEW c \in C PROVE c.on \in DOMAIN b /\ c.rev <= b[c.on].rev
  <2>1. c.on \in DOMAIN a /\ c.rev \in Nat /\ c.rev <= a[c.on].rev
    BY DEF Corrected
  <2> QED
    BY <2>1 DEF Grows
<1> QED
  BY <1>1 DEF Corrected

\* A correction follows the latest of its target.
LEMMA CorrectionLaws ==
    ASSUME Admitted(Rows, Arts), Corrected(Corrections, Rows), NEW id \in DOMAIN Rows, NEW about
    PROVE  LET c == Correction(id, about)
               earlier == {d \in Corrections : d.on = id /\ d.about = about}
           IN  /\ c.on = id /\ c.about = about /\ c.rev = Rows[id].rev + 1 /\ c.rev \in Nat
               /\ c.supersedes \in Nat /\ c.supersedes < c.rev
               /\ c.supersedes \in {0} \cup {d.rev : d \in earlier}
               /\ \A d \in earlier : d.rev # c.rev /\ d.supersedes # c.supersedes
<1> DEFINE earlier == {d \in Corrections : d.on = id /\ d.about = about}
           revs == {d.rev : d \in earlier}
           last == CHOOSE r \in revs : \A d \in earlier : d.rev <= r
           c == Correction(id, about)
<1>1. c.on = id /\ c.about = about /\ c.rev = Rows[id].rev + 1
      /\ c.supersedes = IF earlier = {} THEN 0 ELSE last
  BY DEF Correction
<1>2. Rows[id].rev \in Nat /\ c.rev \in Nat
  BY <1>1 DEF Admitted, WellFormed
<1>3. \A d \in earlier : /\ d.rev \in Nat /\ d.supersedes \in Nat /\ d.supersedes < d.rev
                         /\ d.rev <= Rows[id].rev
  BY DEF Corrected
<1> HIDE DEF c, earlier
<1>4. CASE earlier = {}
  BY <1>1, <1>2, <1>4 DEF c, earlier
<1>5. CASE earlier # {}
  <2>1. revs \in SUBSET Nat /\ revs # {} /\ \A m \in revs : m <= Rows[id].rev
    BY <1>3, <1>5
  <2>2. \E r \in revs : \A m \in revs : m <= r
    BY <1>2, <2>1, GreatestNumber
  <2>3. \E r \in revs : \A d \in earlier : d.rev <= r
    BY <2>2
  <2>4. last \in revs /\ \A d \in earlier : d.rev <= last
    BY <2>3
  <2> HIDE DEF last
  <2>5. c.supersedes = last /\ last \in Nat /\ last <= Rows[id].rev /\ last < c.rev
    BY <1>1, <1>2, <1>5, <2>1, <2>4
  <2>6. \A d \in earlier : d.rev # c.rev /\ d.supersedes # c.supersedes
    BY <1>1, <1>2, <1>3, <2>4, <2>5
  <2> QED
    BY <1>1, <1>2, <2>4, <2>5, <2>6 DEF c, earlier
<1> QED
  BY <1>4, <1>5

LEMMA OpSuccessor ==
    ASSUME Ready, SuccessorInv, tx # NoTx, OpResult PROVE SuccessorInv'
<1>1. PICK log : OpWrites(log)
  BY DEF OpResult
<1>2. row' = row /\ art' = art /\ corr' = corr /\ Writes(log, Rows, Rows') /\ Sound(log, Rows, tx.batch.who)
  BY <1>1 DEF OpWrites, others, store
<1>3. Admitted(Rows, Arts)
  BY TxFacts DEF Ready
<1>4. Corrected(Corrections, Rows)
  BY DEF SuccessorInv
<1>5. Corrected(Corrections, Rows')
  BY <1>2, <1>3, <1>4, WritesGrow, CorrectedGrows
<1>6. PICK P : /\ \A p \in P : p = <<p[1], p[2]>> /\ p[1] \in DOMAIN Rows
                               /\ Rows'[p[1]].rev = Rows[p[1]].rev + 1
               /\ tx'.corr = tx.corr \cup {Correction(p[1], p[2]) : p \in P}
  BY DEF OpResult, AddsSuccessors
<1> DEFINE new == {Correction(p[1], p[2]) : p \in P}
<1>7. Corrections' = Corrections \cup new
  BY <1>2, <1>6 DEF Corrections
<1>8. \A p \in P : LET c == Correction(p[1], p[2])
                       earlier == {d \in Corrections : d.on = p[1] /\ d.about = p[2]}
           IN  /\ c.on = p[1] /\ c.about = p[2] /\ c.rev = Rows[p[1]].rev + 1 /\ c.rev \in Nat
               /\ c.supersedes \in Nat /\ c.supersedes < c.rev
               /\ c.supersedes \in {0} \cup {d.rev : d \in earlier}
               /\ \A d \in earlier : d.rev # c.rev /\ d.supersedes # c.supersedes
  BY <1>3, <1>4, <1>6, CorrectionLaws
<1>9. \A c \in new :
          /\ c.on \in DOMAIN Rows' /\ c.rev \in Nat /\ c.supersedes \in Nat
          /\ c.supersedes < c.rev /\ c.rev <= Rows'[c.on].rev
          /\ c.supersedes \in {0} \cup {d.rev : d \in {x \in Corrections : x.on = c.on /\ x.about = c.about}}
          /\ \A d \in Corrections : d.on = c.on /\ d.about = c.about =>
                 d.rev # c.rev /\ d.supersedes # c.supersedes
  <2> SUFFICES ASSUME NEW p \in P
      PROVE  LET c == Correction(p[1], p[2]) IN
          /\ c.on \in DOMAIN Rows' /\ c.rev \in Nat /\ c.supersedes \in Nat
          /\ c.supersedes < c.rev /\ c.rev <= Rows'[c.on].rev
          /\ c.supersedes \in {0} \cup {d.rev : d \in {x \in Corrections : x.on = c.on /\ x.about = c.about}}
          /\ \A d \in Corrections : d.on = c.on /\ d.about = c.about =>
                 d.rev # c.rev /\ d.supersedes # c.supersedes
    OBVIOUS
  <2>1. p[1] \in DOMAIN Rows' /\ Rows'[p[1]].rev = Rows[p[1]].rev + 1
    BY <1>2, <1>6 DEF Writes
  <2> QED
    BY <1>8, <2>1
<1>10. \A c, d \in new : c.on = d.on /\ c.about = d.about => c = d
  BY <1>8
<1> HIDE DEF new
<1>11. Corrected(Corrections \cup new, Rows')
  <2>1. \A c \in Corrections \cup new :
          /\ c.on \in DOMAIN Rows' /\ c.rev \in Nat /\ c.supersedes \in Nat
          /\ c.supersedes < c.rev /\ c.rev <= Rows'[c.on].rev
    BY <1>5, <1>9 DEF Corrected
  <2>2. ASSUME NEW c \in Corrections \cup new
        PROVE  c.supersedes \in {0} \cup {e.rev : e \in {x \in Corrections \cup new : x.on = c.on /\ x.about = c.about}}
    <3>1. c.supersedes \in {0} \cup {e.rev : e \in {x \in Corrections : x.on = c.on /\ x.about = c.about}}
      BY <1>5, <1>9 DEF Corrected
    <3> QED
      BY <3>1
  <2>3. ASSUME NEW c \in Corrections \cup new, NEW d \in Corrections \cup new,
               c # d, c.on = d.on, c.about = d.about
        PROVE  c.rev # d.rev /\ c.supersedes # d.supersedes
    <3>1. CASE c \in Corrections /\ d \in Corrections
      BY <1>5, <2>3, <3>1 DEF Corrected
    <3>2. CASE c \in new /\ d \in Corrections
      BY <1>9, <2>3, <3>2
    <3>3. CASE c \in Corrections /\ d \in new
      BY <1>9, <2>3, <3>3
    <3> QED
      BY <1>10, <2>3, <3>1, <3>2, <3>3
  <2> QED
    BY <2>1, <2>2, <2>3 DEF Corrected
<1>12. /\ DOMAIN tx'.art \cap DOMAIN art = {}
       /\ \A a \in DOMAIN tx'.art : tx'.art[a].document = None
  <2>1. \A x \in DOMAIN tx'.art \ DOMAIN tx.art : x \notin DOMAIN Arts /\ tx'.art[x].document = None
    BY DEF OpResult, AddsSuccessors
  <2>2. \A x \in DOMAIN tx.art : tx'.art[x] = tx.art[x]
    BY DEF OpResult, AddsSuccessors
  <2>3. DOMAIN art \subseteq DOMAIN Arts
    BY DEF Arts, Over
  <2> QED
    BY <2>1, <2>2, <2>3 DEF SuccessorInv
<1> QED
  BY <1>2, <1>7, <1>11, <1>12 DEF SuccessorInv

\* Whatever operation a batch runs, the invariant stays.
LEMMA OperationKeepsIInv == ASSUME IInv, OneOperation, UNCHANGED <<calls, keys>> PROVE IInv'
<1>1. Ready /\ tx # NoTx
  BY DEF IInv, Ready, OneOperation, CreateObject, UpdateObject, UpdateDescription,
         PromoteSourceArtifact, ArchiveObject, RestoreObject, RebuildDerived, CorrectEvidence,
         Reassign, CreateConnection, UpdateConnection, ArchiveConnection, RestoreConnection,
         AppendArtifact, CreateEntityCategory, ChangeEntityCategory, Step, Running
<1>2. OpResult
  BY <1>1, OneResult
<1>3. PICK log : OpWrites(log)
  BY <1>2 DEF OpResult
<1>4. UNCHANGED others /\ Admitted(Rows', Arts')
  BY <1>3 DEF OpWrites
<1>5. BaseInv'
  BY <1>4, OpBase DEF IInv
<1>6. BatchInv'
  BY <1>1, <1>3, OpBatch DEF IInv
<1>7. JournalInv'
  BY <1>1, <1>3, OpJournal DEF IInv
<1>8. OnceInv'
  BY <1>1, <1>3, OpOnce DEF IInv
<1>9. GateInv'
  BY <1>1, <1>2, OpGate DEF IInv
<1>10. ClaimInv'
  BY <1>1, <1>3, OpClaim DEF IInv
<1>11. SuccessorInv'
  BY <1>1, <1>2, OpSuccessor DEF IInv
<1>12. CheckInv'
  BY <1>1, <1>2, OpCheck DEF IInv
<1> QED
  BY <1>5, <1>6, <1>7, <1>8, <1>9, <1>10, <1>11, <1>12 DEF IInv

-----------------------------------------------------------------------------
(* The calls beside a batch                                                *)

besides == <<corr, fenced, work, waiting, tx, receipts, cutover>>

\* What an update may change of a row while a batch relies on it,
Revised(p, e) ==
    /\ Evolves(row[e.on], e.after, p.call.who)
    /\ e.on \in OfKind(row, "note") => e.after.cites = row[e.on].cites
    /\ e.on \in OfKind(row, "entity") =>
         /\ e.after.cats = row[e.on].cats
         /\ e.after.live => row[e.on].live \/ (e.locked /\ e.from > 0 /\ e.before = row[e.on])

\* which rows a creation may add,
Made(p, e) ==
    /\ WellFormed(e.after)
    /\ e.after.table = "object" /\ e.after.kind = "memory" =>
          p.call.op = "create_object" /\ e.on = p.call.on
    /\ e.after.table = "object" /\ e.after.kind = "entity" => e.after.cats \cap tx.held = {}

\* and what both keep apart from the batch.
Beside(p, e) ==
    /\ e.on \in Ids \ DOMAIN tx.row
    /\ e.run = RunOf(p) /\ e.who = p.call.who /\ e.thread = p.call.thread /\ e.at = CommitsNow
    /\ Explains(e, State(row, e.on))
    /\ e.on \in DOMAIN row => Revised(p, e)
    /\ e.on \notin DOMAIN row => Made(p, e)
    /\ Refers(e.after, row', art')
    /\ e.after.table = "object" =>
          e.after.holds = IF e.on \in DOMAIN row THEN row[e.on].holds ELSE {}
    /\ e.after.table = "connection" /\ e.after.live =>
          \/ {e.after.src, e.after.dst} \cap tx.held = {}
          \/ /\ e.on \in ActiveLinks(row)
             /\ e.after.src = row[e.on].src /\ e.after.dst = row[e.on].dst

\* What every call that writes does.
CallWrites(p, log) ==
    /\ p \in calls /\ p.call.thread \notin fenced /\ RunOf(p) \notin DOMAIN keys
    /\ UNCHANGED besides /\ calls' = calls \ {p} /\ events' = events \o log
    /\ \E on \in DOMAIN row' : keys' = Over(At(RunOf(p), on), keys)
    /\ Writes(log, row, row') /\ row' \in [DOMAIN row' -> Range(row')]
    /\ \A i \in DOMAIN log : Beside(p, log[i])
    /\ ArtsGrow(art, art', row') /\ (DOMAIN art' \ DOMAIN art) \cap DOMAIN Arts = {}
    /\ VisualsApart(art')

\* The rows under the changes of the batch change alike.
LEMMA CallOnRows ==
    ASSUME BaseInv, BatchInv, NEW p, NEW log, CallWrites(p, log)
    PROVE  /\ Sound(log, row, p.call.who) /\ Sound(log, Rows, p.call.who)
           /\ Writes(log, Rows, Rows') /\ ArtsGrow(Arts, Arts', Rows')
           /\ Admitted(row', art') /\ Admitted(Rows', Arts')
<1>1. /\ tx' = tx /\ Writes(log, row, row') /\ row' \in [DOMAIN row' -> Range(row')]
      /\ ArtsGrow(art, art', row') /\ Admitted(row, art) /\ Admitted(Rows, Arts)
  BY DEF CallWrites, besides, BaseInv
<1>2. /\ DOMAIN Rows = DOMAIN tx.row \cup DOMAIN row
      /\ DOMAIN Rows' = DOMAIN tx.row \cup DOMAIN row'
      /\ \A id \in DOMAIN tx.row : Rows[id] = tx.row[id] /\ Rows'[id] = tx.row[id]
  BY <1>1 DEF Rows, Over
<1>3. /\ \A id \in DOMAIN row \ DOMAIN tx.row : Rows[id] = row[id]
      /\ \A id \in DOMAIN row' \ DOMAIN tx.row : Rows'[id] = row'[id]
      /\ Rows' \in [DOMAIN Rows' -> Range(Rows')]
  <2>1. Rows' = Over(tx.row, row')
    BY <1>1 DEF Rows
  <2>2. Rows' \in [DOMAIN Rows' -> Range(Rows')]
    BY <2>1, OverLaws
  <2> QED
    BY <1>2, <2>1, <2>2 DEF Rows, Over
<1>4. \A i \in DOMAIN log : log[i].on \in Ids \ DOMAIN tx.row
  BY DEF CallWrites, Beside
<1>5. DOMAIN row' = DOMAIN row \cup Ons(log)
  BY <1>1 DEF Writes
<1>6. \A i \in DOMAIN log : /\ State(Rows, log[i].on) = State(row, log[i].on)
                            /\ log[i].on \in DOMAIN Rows <=> log[i].on \in DOMAIN row
                            /\ log[i].on \in DOMAIN row => Rows[log[i].on] = row[log[i].on]
  BY <1>2, <1>3, <1>4 DEF State
<1>7. Sound(log, row, p.call.who)
  BY <1>4 DEF Sound, CallWrites, Beside, Revised, Made
<1>8. Sound(log, Rows, p.call.who)
  BY <1>6, <1>7 DEF Sound
<1>9. HoldsKept(log, row) /\ HoldsKept(log, Rows)
  <2>1. HoldsKept(log, row)
    BY DEF HoldsKept, CallWrites, Beside
  <2> QED
    BY <2>1, <1>6 DEF HoldsKept
<1>10. Writes(log, Rows, Rows')
  <2>1. \A i \in DOMAIN log : Explains(log[i], State(Rows, log[i].on))
    BY <1>1, <1>6 DEF Writes
  <2>2. DOMAIN Rows' = DOMAIN Rows \cup Ons(log)
    BY <1>2, <1>5
  <2>3. \A i \in DOMAIN log : log[i].on \in DOMAIN row' /\ Rows'[log[i].on] = row'[log[i].on]
    BY <1>3, <1>4, <1>5 DEF Ons
  <2>4. \A id \in DOMAIN Rows : id \notin Ons(log) => Rows'[id] = Rows[id]
    BY <1>1, <1>2, <1>3, <1>5 DEF Writes
  <2> QED
    BY <1>1, <2>1, <2>2, <2>3, <2>4 DEF Writes
<1>11. IdentitiesApart(row') /\ IdentitiesApart(Rows')
  <2>1. IdentitiesApart(row) /\ IdentitiesApart(Rows)
    BY <1>1 DEF Admitted
  <2> QED
    BY <1>1, <1>7, <1>8, <1>9, <1>10, <2>1, ApartOn
<1>12. \A i \in DOMAIN log : Refers(log[i].after, row', art')
  BY DEF CallWrites, Beside
<1>13. Admitted(row', art')
  BY <1>1, <1>7, <1>11, <1>12, AdmittedOn
<1>14. ArtsGrow(Arts, Arts', Rows')
  <2>1. Arts = Over(tx.art, art) /\ Arts' = Over(tx.art, art')
    BY <1>1 DEF Arts
  <2>2. Arts' \in [DOMAIN Arts' -> Range(Arts')]
    BY <2>1, OverLaws
  <2>3. /\ DOMAIN Arts = DOMAIN tx.art \cup DOMAIN art
        /\ DOMAIN Arts' = DOMAIN tx.art \cup DOMAIN art'
    BY <2>1 DEF Over
  <2>4. /\ DOMAIN art \subseteq DOMAIN art' /\ DOMAIN art' \subseteq Artifacts
        /\ DOMAIN Arts \subseteq Artifacts /\ \A x \in DOMAIN art : art'[x] = art[x]
        /\ \A x \in DOMAIN art' \ DOMAIN art : art'[x].of \in DOMAIN row'
    BY <1>1 DEF ArtsGrow, Admitted
  <2>5. \A x \in DOMAIN Arts : Arts'[x] = Arts[x]
    BY <2>1, <2>4 DEF Over
  <2>6. \A x \in DOMAIN Arts' \ DOMAIN Arts : Arts'[x] = art'[x] /\ x \in DOMAIN art' \ DOMAIN art
    BY <2>1, <2>3 DEF Over
  <2> QED
    BY <1>2, <2>2, <2>3, <2>4, <2>5, <2>6 DEF ArtsGrow
<1>15. \A i \in DOMAIN log : Refers(log[i].after, Rows', Arts')
  <2>1. DOMAIN row' \subseteq DOMAIN Rows' /\ DOMAIN art' \subseteq DOMAIN Arts'
    BY <1>2 DEF Arts, Over
  <2> QED
    BY <1>12, <2>1 DEF Refers
<1>16. Admitted(Rows', Arts')
  BY <1>1, <1>3, <1>8, <1>10, <1>11, <1>14, <1>15, AdmittedOn
<1> QED
  BY <1>7, <1>8, <1>10, <1>13, <1>14, <1>16

\* What both kept apart.
LEMMA CallFacts ==
    ASSUME IInv, NEW p, NEW log, CallWrites(p, log)
    PROVE  /\ IsASeq(log) /\ IsASeq(events) /\ tx' = tx /\ DOMAIN row' = DOMAIN row \cup Ons(log)
           /\ DOMAIN Rows' = DOMAIN Rows \cup Ons(log) /\ Ons(log) \cap DOMAIN tx.row = {}
           /\ \A id \in DOMAIN row : id \in DOMAIN row' /\ SameThing(row[id], row'[id])
           /\ \A id \in DOMAIN row \ Ons(log) : row'[id] = row[id]
           /\ \A id \in DOMAIN Rows \ Ons(log) : Rows'[id] = Rows[id]
           /\ \A id \in Ons(log) : Rows'[id] = row'[id]
           /\ \A id \in DOMAIN row \cap Ons(log) : Rows[id] = row[id]
           /\ DOMAIN row \subseteq DOMAIN Rows
<1>1. /\ Writes(log, row, row') /\ Writes(log, Rows, Rows') /\ Sound(log, row, p.call.who)
      /\ tx' = tx
  BY CallOnRows DEF IInv, CallWrites, besides
<1>2. IsASeq(log) /\ IsASeq(events)
  BY <1>1 DEF Writes, IInv, JournalInv, Recorded
<1>3. Ons(log) \cap DOMAIN tx.row = {}
  BY DEF CallWrites, Beside, Ons
<1>4. /\ \A id \in DOMAIN row : id \in DOMAIN row' /\ SameThing(row[id], row'[id])
      /\ \A id \in DOMAIN row \ Ons(log) : row'[id] = row[id]
  BY <1>1, RowEvolves DEF Evolves, SameThing
<1>5. /\ DOMAIN row' = DOMAIN row \cup Ons(log) /\ DOMAIN Rows' = DOMAIN Rows \cup Ons(log)
      /\ \A id \in DOMAIN Rows \ Ons(log) : Rows'[id] = Rows[id]
  BY <1>1 DEF Writes
<1>6. /\ \A id \in Ons(log) : Rows'[id] = row'[id]
      /\ \A id \in DOMAIN row \cap Ons(log) : Rows[id] = row[id]
      /\ DOMAIN row \subseteq DOMAIN Rows
  BY <1>1, <1>3, <1>5 DEF Rows, Over
<1> QED
  BY <1>1, <1>2, <1>3, <1>4, <1>5, <1>6

LEMMA CallBase ==
    ASSUME IInv, NEW p, NEW log, CallWrites(p, log) PROVE BaseInv'
<1>1. Admitted(row', art') /\ Admitted(Rows', Arts')
  BY CallOnRows DEF IInv
<1>2. /\ UNCHANGED besides /\ calls' \subseteq calls /\ events' = events \o log
      /\ \E on \in DOMAIN row' : keys' = Over(At(RunOf(p), on), keys)
      /\ DOMAIN art \subseteq DOMAIN art'
  BY DEF CallWrites, ArtsGrow
<1>3. /\ IsASeq(log) /\ IsASeq(events) /\ DOMAIN row' = DOMAIN row \cup Ons(log)
      /\ \A id \in DOMAIN row : id \in DOMAIN row' /\ SameThing(row[id], row'[id])
  BY CallFacts
<1>4. \A i \in DOMAIN events' : events'[i].on \in DOMAIN row'
  <2>1. Ons(events') = Ons(events) \cup Ons(log)
    BY <1>2, <1>3, OnsOfBoth
  <2>2. Ons(events) \subseteq DOMAIN row
    BY DEF IInv, BaseInv, Ons
  <2> QED
    BY <1>3, <2>1, <2>2 DEF Ons
<1>5. DOMAIN keys \subseteq DOMAIN keys' /\ \A k \in DOMAIN keys' : keys'[k] \in DOMAIN row'
  BY <1>2, <1>3 DEF Over, At, IInv, BaseInv
<1>6. /\ OfTable(row, "object") \subseteq OfTable(row', "object")
      /\ OfKind(row, "task") \subseteq OfKind(row', "task")
  BY <1>3 DEF OfTable, OfKind, SameThing
<1>7. \A q \in calls' : CallChecked(q)'
  BY <1>2, <1>5, <1>6 DEF IInv, BaseInv, CallChecked, besides
<1> QED
  BY <1>1, <1>2, <1>4, <1>5, <1>7 DEF IInv, BaseInv, besides, Requests

\* Numbers of Events only grow.
LEMMA LaterNow ==
    ASSUME NEW s, NEW t, IsASeq(s), IsASeq(t)
    PROVE  /\ Len(s) \in Nat /\ Len(s \o t) \in Nat /\ Len(s) <= Len(s \o t)
           /\ \A n \in Nat : n <= 2 * Len(s) + 1 => n <= 2 * Len(s \o t) + 1 /\ n < 2 * Len(s) + 2
  BY SeqFacts, Concat

LEMMA CallBatch ==
    ASSUME IInv, NEW p, NEW log, CallWrites(p, log) PROVE BatchInv'
<1>1. UNCHANGED besides /\ events' = events \o log
  BY DEF CallWrites
<1>2. /\ IsASeq(log) /\ IsASeq(events) /\ DOMAIN row' = DOMAIN row \cup Ons(log)
      /\ Ons(log) \cap DOMAIN tx.row = {}
      /\ \A id \in DOMAIN row \ Ons(log) : row'[id] = row[id]
  BY CallFacts
<1>3. \A n \in Nat : n <= BeginsNow => n <= BeginsNow'
  BY <1>1, <1>2, LaterNow DEF BeginsNow
<1>4. \A id \in DOMAIN tx.row \cap DOMAIN row' : id \in DOMAIN row /\ row'[id] = row[id]
  BY <1>2
<1> QED
  BY <1>1, <1>3, <1>4 DEF IInv, BatchInv, besides

\* What accounts for the rows of the batch goes on doing so.
LEMMA AccountsBeside ==
    ASSUME NEW s, NEW t, NEW a, NEW b, NEW c, NEW d, Accounts(s, a, b),
           Writes(t, a, c), Writes(t, b, d), Ons(s) \cap Ons(t) = {}
    PROVE  Accounts(s, c, d)
<1>1. \A i \in DOMAIN s : s[i].on \in Ons(s) /\ s[i].on \notin Ons(t)
  BY DEF Ons
<1>2. /\ DOMAIN c = DOMAIN a \cup Ons(t) /\ DOMAIN d = DOMAIN b \cup Ons(t)
      /\ \A id \in DOMAIN a \ Ons(t) : c[id] = a[id]
      /\ \A id \in DOMAIN b \ Ons(t) : d[id] = b[id]
      /\ \A id \in Ons(t) : c[id] = d[id]
  BY DEF Writes, Ons
<1>3. Ends(s, d)
  BY <1>1, <1>2 DEF Accounts, Recorded, Ends
<1>4. Begins(s, c)
  BY <1>1, <1>2 DEF Accounts, Begins, State
<1>5. Untouched(s, c, d)
  BY <1>2 DEF Accounts, Untouched
<1> QED
  BY <1>3, <1>4, <1>5 DEF Accounts, Recorded

LEMMA CallJournal ==
    ASSUME IInv, NEW p, NEW log, CallWrites(p, log) PROVE JournalInv'
<1>1. /\ Writes(log, row, row') /\ Writes(log, Rows, Rows') /\ events' = events \o log /\ tx' = tx
  BY CallOnRows DEF IInv, CallWrites, besides
<1>2. Recorded(events', row')
  BY <1>1, WritesAccount, RecordedOn DEF IInv, JournalInv
<1>3. ASSUME tx # NoTx PROVE Accounts(tx.log, row', Rows')
  <2>1. Ons(tx.log) \cap Ons(log) = {} /\ Accounts(tx.log, row, Rows)
    BY <1>3, CallFacts DEF IInv, BatchInv, JournalInv
  <2> QED
    BY <1>1, <2>1, AccountsBeside
<1> QED
  BY <1>1, <1>2, <1>3 DEF JournalInv

\* The Events of each run have one time and follow each other.
Together(s) ==
    \A i, j \in DOMAIN s : s[i].run = s[j].run =>
        s[i].at = s[j].at /\ \A k \in i..j : s[k].run = s[i].run

OfRun(t, run, at) == \A i \in DOMAIN t : t[i].run = run /\ t[i].at = at

\* New Events of one run, which no Event had so far, keep every run in one piece.
LEMMA OnceMore ==
    ASSUME NEW s, NEW t, IsASeq(s), IsASeq(t), NEW run, NEW at,
           \A i \in DOMAIN s : s[i].run # run, OfRun(t, run, at), Together(s)
    PROVE  Together(s \o t)
<1> DEFINE u == s \o t
           n == Len(s)
<1>1. /\ n \in Nat /\ Len(t) \in Nat /\ DOMAIN s = 1..n /\ DOMAIN t = 1..Len(t)
      /\ DOMAIN u = 1..(n + Len(t))
  BY SeqFacts, Concat
<1>2. /\ \A i \in 1..n : u[i] = s[i]
      /\ \A i \in (n + 1)..(n + Len(t)) : u[i] = t[i - n]
  BY Concat
<1> HIDE DEF u, n
<1>3. \A i \in (n + 1)..(n + Len(t)) : u[i].run = run /\ u[i].at = at
  <2> TAKE i \in (n + 1)..(n + Len(t))
  <2>1. i - n \in 1..Len(t)
    BY <1>1
  <2> QED
    BY <1>1, <1>2, <2>1 DEF OfRun
<1>4. \A i \in 1..n : u[i].run # run
  BY <1>1, <1>2
<1>5. ASSUME NEW i \in 1..(n + Len(t)), NEW j \in 1..(n + Len(t)), u[i].run = u[j].run
      PROVE  u[i].at = u[j].at /\ \A k \in i..j : u[k].run = u[i].run
  <2>1. CASE i \in 1..n /\ j \in 1..n
    <3>1. \A k \in i..j : k \in 1..n
      BY <2>1, <1>1
    <3> QED
      BY <1>1, <1>2, <1>5, <2>1, <3>1 DEF Together
  <2>2. CASE i \in (n + 1)..(n + Len(t)) /\ j \in (n + 1)..(n + Len(t))
    <3>1. \A k \in i..j : k \in (n + 1)..(n + Len(t))
      BY <2>2, <1>1
    <3> QED
      BY <1>3, <2>2, <3>1
  <2>3. (i \in 1..n \/ i \in (n + 1)..(n + Len(t))) /\ (j \in 1..n \/ j \in (n + 1)..(n + Len(t)))
    BY <1>1
  <2> QED
    BY <1>3, <1>4, <1>5, <2>1, <2>2, <2>3
<1> QED
  BY <1>1, <1>5 DEF u, Together

LEMMA CallOnce ==
    ASSUME IInv, NEW p, NEW log, CallWrites(p, log) PROVE OnceInv'
<1>1. /\ IsASeq(log) /\ IsASeq(events) /\ tx' = tx /\ receipts' = receipts /\ events' = events \o log
      /\ RunOf(p) \notin DOMAIN keys /\ DOMAIN keys' = DOMAIN keys \cup {RunOf(p)}
  BY CallFacts DEF CallWrites, besides, Over, At
<1>2. RunOf(p)[1] = "call"
  BY DEF RunOf, KeyOf
<1>3. RunOf(p) \notin UsedRuns
  BY <1>1, <1>2 DEF UsedRuns
<1>4. \A i \in DOMAIN log : log[i].run = RunOf(p) /\ log[i].at = CommitsNow
  BY DEF CallWrites, Beside
<1>5. AppliedOnce'
  <2>1. Together(events)
    BY DEF IInv, OnceInv, AppliedOnce, Together
  <2>2. \A i \in DOMAIN events : events[i].run # RunOf(p)
    BY <1>3 DEF IInv, OnceInv
  <2>3. PICK run, at : run = RunOf(p) /\ at = CommitsNow
    OBVIOUS
  <2>4. \A i \in DOMAIN events : events[i].run # run
    BY <2>2, <2>3
  <2>5. OfRun(log, run, at)
    BY <1>4, <2>3 DEF OfRun
  <2>6. IsASeq(events) /\ IsASeq(log)
    BY <1>1
  <2>7. Together(events \o log)
    BY ONLY <2>1, <2>4, <2>5, <2>6, OnceMore
  <2> QED
    BY <1>1, <2>7 DEF AppliedOnce, Together
<1>6. \A i \in DOMAIN events' : events'[i].run \in UsedRuns'
  <2>1. /\ Len(events) \in Nat /\ Len(log) \in Nat /\ DOMAIN events = 1..Len(events)
        /\ DOMAIN log = 1..Len(log) /\ DOMAIN events' = 1..(Len(events) + Len(log))
    BY <1>1, SeqFacts, Concat
  <2>2. UsedRuns' = UsedRuns \cup {RunOf(p)}
    BY <1>1 DEF UsedRuns
  <2>3. ASSUME NEW i \in 1..(Len(events) + Len(log))
        PROVE  \/ i \in DOMAIN events /\ events'[i] = events[i]
               \/ i - Len(events) \in DOMAIN log /\ events'[i] = log[i - Len(events)]
    <3>1. i \in 1..Len(events) \/ i \in (Len(events) + 1)..(Len(events) + Len(log))
      BY <2>1
    <3> QED
      BY <1>1, <2>1, <3>1, Concat
  <2> QED
    BY <1>4, <2>1, <2>2, <2>3 DEF IInv, OnceInv
<1>7. \A k \in DOMAIN keys' : k[1] = "call"
  BY <1>1, <1>2 DEF IInv, OnceInv
<1> QED
  BY <1>1, <1>5, <1>6, <1>7 DEF IInv, OnceInv

LEMMA CallClaim ==
    ASSUME IInv, NEW p, NEW log, CallWrites(p, log) PROVE ClaimInv'
<1>1. /\ tx' = tx /\ DOMAIN row' = DOMAIN row \cup Ons(log) /\ Ons(log) \cap DOMAIN tx.row = {}
      /\ \A id \in DOMAIN row \ Ons(log) : row'[id] = row[id]
  BY CallFacts
<1> QED
  BY <1>1 DEF IInv, ClaimInv

LEMMA CallSuccessor ==
    ASSUME IInv, NEW p, NEW log, CallWrites(p, log) PROVE SuccessorInv'
<1>1. /\ corr' = corr /\ tx' = tx /\ Corrections' = Corrections /\ VisualsApart(art')
      /\ (DOMAIN art' \ DOMAIN art) \cap DOMAIN Arts = {}
  BY DEF CallWrites, besides, Corrections
<1>2. /\ Writes(log, row, row') /\ Writes(log, Rows, Rows')
      /\ Sound(log, row, p.call.who) /\ Sound(log, Rows, p.call.who)
      /\ Admitted(row, art) /\ Admitted(Rows, Arts)
  BY CallOnRows DEF IInv, BaseInv, CallWrites
<1>3. Corrected(corr, row') /\ Corrected(Corrections, Rows')
  BY <1>2, WritesGrow, CorrectedGrows DEF IInv, SuccessorInv
<1>4. DOMAIN tx.art \subseteq DOMAIN Arts
  BY DEF Arts, Over
<1> QED
  BY <1>1, <1>3, <1>4 DEF IInv, SuccessorInv

LEMMA CallGate ==
    ASSUME IInv, NEW p, NEW log, CallWrites(p, log) PROVE GateInv'
<1>1. /\ tx' = tx /\ fenced' = fenced /\ waiting' = waiting /\ cutover' = cutover
      /\ p \in calls
  BY DEF CallWrites, besides
<1>2. /\ DOMAIN row' = DOMAIN row \cup Ons(log) /\ DOMAIN Rows' = DOMAIN Rows \cup Ons(log)
      /\ \A id \in DOMAIN row : id \in DOMAIN row' /\ SameThing(row[id], row'[id])
      /\ \A id \in DOMAIN row \ Ons(log) : row'[id] = row[id]
      /\ \A id \in DOMAIN Rows \ Ons(log) : Rows'[id] = Rows[id]
      /\ \A id \in Ons(log) : Rows'[id] = row'[id]
      /\ \A id \in DOMAIN row \cap Ons(log) : Rows[id] = row[id]
  BY CallFacts
<1>3. ASSUME tx # NoTx, cutover, ByAgent(tx.batch)
      PROVE  /\ \A op \in Range(tx.batch.ops) :
                   /\ ~(op.op = "create_object" /\ op.fields.kind = "memory")
                   /\ op.op \in MemoryOps => /\ op.on \notin OfKind(Rows', "memory")
                                             /\ op.on \in DOMAIN row' \/ Makes(tx.batch, op.on)
             /\ \A m \in OfKind(Rows', "memory") :
                   m \in DOMAIN row' /\ Rows'[m].live = row'[m].live
  <2>1. /\ \A op \in Range(tx.batch.ops) :
               /\ ~(op.op = "create_object" /\ op.fields.kind = "memory")
               /\ op.op \in MemoryOps => /\ op.on \notin OfKind(Rows, "memory")
                                         /\ op.on \in DOMAIN row \/ Makes(tx.batch, op.on)
        /\ \A m \in OfKind(Rows, "memory") :
               m \in DOMAIN row /\ Rows[m].live = row[m].live
    BY <1>3 DEF IInv, GateInv
  <2>2. ASSUME NEW op \in Range(tx.batch.ops), op.op \in MemoryOps
        PROVE  op.on \notin OfKind(Rows', "memory")
    <3>1. CASE op.on \notin Ons(log)
      BY <1>2, <2>1, <2>2, <3>1 DEF OfKind, OfTable
    <3>2. CASE op.on \in Ons(log) /\ op.on \in DOMAIN row
      <4>1. op.on \notin OfKind(Rows, "memory") /\ Rows[op.on] = row[op.on]
            /\ Rows'[op.on] = row'[op.on] /\ SameThing(row[op.on], row'[op.on]) /\ op.on \in DOMAIN Rows
        BY <1>2, <2>1, <2>2, <3>2 DEF Rows, Over
      <4> QED
        BY <4>1 DEF OfKind, OfTable, SameThing
    <3>3. CASE op.on \in Ons(log) /\ op.on \notin DOMAIN row
      <4>1. PICK i \in DOMAIN log : log[i].on = op.on
        BY <3>3 DEF Ons
      <4>2. row'[op.on] = log[i].after /\ Made(p, log[i])
        BY <3>3, <4>1 DEF CallWrites, Writes, Beside
      <4>3. Makes(tx.batch, op.on) /\ tx.batch \in work.batches /\ p.call \in work.calls
        BY <1>1, <1>3, <2>1, <2>2, <3>3 DEF IInv, BatchInv, BaseInv, CallChecked
      <4>4. ~(p.call.op = "create_object" /\ p.call.on = op.on)
        BY <4>3 DEF IInv, BaseInv, Requests
      <4> QED
        BY <1>2, <3>3, <4>1, <4>2, <4>4 DEF Made, OfKind, OfTable
    <3> QED
      BY <3>1, <3>2, <3>3
  <2>3. ASSUME NEW m \in OfKind(Rows', "memory")
        PROVE  m \in DOMAIN row' /\ Rows'[m].live = row'[m].live
    <3>1. CASE m \in Ons(log)
      BY <1>2, <3>1
    <3>2. CASE m \notin Ons(log)
      <4>1. m \in OfKind(Rows, "memory") /\ Rows'[m] = Rows[m]
        BY <1>2, <3>2 DEF OfKind, OfTable
      <4> QED
        BY <1>2, <2>1, <3>2, <4>1
    <3> QED
      BY <3>1, <3>2
  <2> QED
    BY <1>2, <2>1, <2>2, <2>3
<1>4. \A w \in waiting : NamesSeen(w.batch) => NamesSeen(w.batch)'
  BY <1>2 DEF NamesSeen, Makes
<1> QED
  BY <1>1, <1>3, <1>4 DEF IInv, GateInv

LEMMA MeanwhileGrows ==
    ASSUME IInv, NEW p, NEW log, CallWrites(p, log), tx # NoTx
    PROVE  /\ \A id : Meanwhile(id) \subseteq Meanwhile(id)'
           /\ \A i \in DOMAIN log : log[i] \in Meanwhile(log[i].on)'
<1>1. /\ IsASeq(log) /\ IsASeq(events) /\ tx' = tx /\ events' = events \o log
  BY CallFacts DEF CallWrites
<1>2. /\ Len(events) \in Nat /\ Len(log) \in Nat /\ DOMAIN events = 1..Len(events)
      /\ DOMAIN log = 1..Len(log) /\ DOMAIN events' = 1..(Len(events) + Len(log))
  BY <1>1, SeqFacts, Concat
<1>3. \A i \in 1..Len(events) : i \in DOMAIN events' /\ events'[i] = events[i]
  BY <1>1, <1>2, Concat
<1>4. \A i \in 1..Len(log) : Len(events) + i \in DOMAIN events' /\ events'[Len(events) + i] = log[i]
  BY <1>1, <1>2, Concat
<1>5. \A i \in DOMAIN log : log[i].at = CommitsNow
  BY DEF CallWrites, Beside
<1>6. tx.at < CommitsNow
  <2>1. tx.at \in Nat /\ tx.at <= 2 * Len(events) + 1
    BY DEF IInv, BatchInv, BeginsNow
  <2> QED
    BY <1>2, <2>1 DEF CommitsNow
<1>7. \A id : Meanwhile(id) \subseteq Meanwhile(id)'
  <2> SUFFICES ASSUME NEW id, NEW j \in DOMAIN events, events[j].on = id, events[j].at > tx.at
               PROVE  events[j] \in Meanwhile(id)'
    BY DEF Meanwhile, EventsOf
  <2>1. j \in DOMAIN events' /\ events'[j] = events[j]
    BY <1>2, <1>3
  <2> QED
    BY <1>1, <2>1 DEF Meanwhile, EventsOf
<1>8. ASSUME NEW i \in DOMAIN log PROVE log[i] \in Meanwhile(log[i].on)'
  <2>1. Len(events) + i \in DOMAIN events' /\ events'[Len(events) + i] = log[i]
    BY <1>2, <1>4
  <2>2. log[i].at > tx.at
    BY <1>2, <1>5, <1>6 DEF CommitsNow, IInv, BatchInv
  <2> QED
    BY <1>1, <2>1, <2>2 DEF Meanwhile, EventsOf
<1> QED
  BY <1>7, <1>8

LEMMA CallCheck ==
    ASSUME IInv, NEW p, NEW log, CallWrites(p, log) PROVE CheckInv'
<1> SUFFICES ASSUME tx # NoTx PROVE CheckInv'
  BY CallFacts DEF CheckInv
<1>1. /\ tx' = tx /\ DOMAIN row' = DOMAIN row \cup Ons(log) /\ Ons(log) \cap DOMAIN tx.row = {}
      /\ DOMAIN Rows' = DOMAIN Rows \cup Ons(log)
      /\ \A id \in DOMAIN row : id \in DOMAIN row' /\ SameThing(row[id], row'[id])
      /\ \A id \in DOMAIN row \ Ons(log) : row'[id] = row[id]
      /\ \A id \in DOMAIN Rows \ Ons(log) : Rows'[id] = Rows[id]
      /\ \A id \in Ons(log) : Rows'[id] = row'[id]
      /\ \A id \in DOMAIN row \cap Ons(log) : Rows[id] = row[id]
      /\ DOMAIN row \subseteq DOMAIN Rows
  BY CallFacts
<1>2. DOMAIN tx.row \subseteq tx.held
  BY DEF IInv, BatchInv
<1>3. /\ \A id : Meanwhile(id) \subseteq Meanwhile(id)'
      /\ \A i \in DOMAIN log : log[i] \in Meanwhile(log[i].on)'
  BY MeanwhileGrows
<1>4. \A id \in Ons(log) : \E i \in DOMAIN log :
          log[i].on = id /\ row'[id] = log[i].after /\ Beside(p, log[i])
  BY DEF Ons, CallWrites, Writes
<1>5. /\ Admitted(row, art) /\ Admitted(Rows, Arts) /\ ArtsGrow(art, art', row')
      /\ ArtsGrow(Arts, Arts', Rows')
  BY CallOnRows DEF IInv, BaseInv, CallWrites
<1>6. ASSUME NEW id \in DOMAIN tx.row \cap OfTable(row', "object"), row'[id].live, ~Rows'[id].live
      PROVE  LinksOf(Rows', id) = {}
  <2>1. id \in OfTable(row, "object") /\ row[id].live /\ ~Rows[id].live
    BY <1>1, <1>6 DEF OfTable
  <2>2. LinksOf(Rows, id) = {}
    BY <1>6, <2>1 DEF IInv, CheckInv
  <2>3. ASSUME NEW c \in LinksOf(Rows', id) PROVE FALSE
    <3>0. c \in DOMAIN Rows' /\ Rows'[c].table = "connection" /\ Rows'[c].live /\ id \in {Rows'[c].src, Rows'[c].dst}
      BY <2>3 DEF LinksOf, ActiveLinks, OfTable
    <3>1. CASE c \notin Ons(log)
      BY <1>1, <2>2, <3>0, <3>1 DEF LinksOf, ActiveLinks, OfTable
    <3>2. CASE c \in Ons(log)
      <4>1. PICK i \in DOMAIN log : log[i].on = c /\ row'[c] = log[i].after /\ Beside(p, log[i])
        BY <1>4, <3>2
      <4>2. Rows'[c] = log[i].after
        BY <1>1, <3>2, <4>1
      <4>3. CASE {log[i].after.src, log[i].after.dst} \cap tx.held = {}
        BY <1>2, <1>6, <3>0, <4>2, <4>3
      <4>4. CASE c \in ActiveLinks(row) /\ log[i].after.src = row[c].src /\ log[i].after.dst = row[c].dst
        <5>1. Rows[c] = row[c] /\ c \in DOMAIN Rows
          BY <1>1, <3>2, <4>4 DEF ActiveLinks, OfTable
        <5> QED
          BY <2>2, <3>0, <4>2, <4>4, <5>1 DEF LinksOf, ActiveLinks, OfTable
      <4> QED
        BY <3>0, <4>1, <4>2, <4>3, <4>4 DEF Beside
    <3> QED
      BY <3>1, <3>2
  <2> QED
    BY <2>3
<1>7. \A id \in Ons(log) : Meanwhile(id)' # {}
  BY <1>3, <1>4
<1>8. ASSUME NEW n, NEW rows, NEW later, n \in DOMAIN rows, n \in OfKind(later, "note"),
             (rows = row /\ later = row') \/ (rows = Rows /\ later = Rows')
      PROVE  n \in OfKind(rows, "note") /\ later[n].cites = rows[n].cites
  <2>1. CASE n \notin Ons(log)
    BY <1>1, <1>8, <2>1 DEF OfKind, OfTable
  <2>2. CASE n \in Ons(log)
    <3>1. n \in DOMAIN row
      BY <1>1, <1>8, <2>2 DEF Rows, Over
    <3>2. PICK i \in DOMAIN log : log[i].on = n /\ row'[n] = log[i].after /\ Beside(p, log[i])
      BY <1>4, <2>2
    <3>3. rows[n] = row[n] /\ later[n] = row'[n] /\ SameThing(row[n], row'[n])
      BY <1>1, <1>8, <2>2, <3>1
    <3>4. n \in OfKind(row, "note")
      BY <1>8, <3>1, <3>3 DEF OfKind, OfTable, SameThing
    <3> QED
      BY <1>8, <3>1, <3>2, <3>3, <3>4 DEF Beside, Revised, OfKind, OfTable
  <2> QED
    BY <2>1, <2>2
<1>9. ASSUME NEW c \in ActiveLinks(Rows'), Miscited(Rows', Arts', c)
      PROVE  (c \in ActiveLinks(row') /\ Miscited(row', art', c)) \/ Meanwhile(c)' # {}
  <2> SUFFICES ASSUME c \notin Ons(log), Meanwhile(c)' = {}
               PROVE  c \in ActiveLinks(row') /\ Miscited(row', art', c)
    BY <1>7
  <2>1. c \in ActiveLinks(Rows) /\ Rows'[c] = Rows[c]
    BY <1>1 DEF ActiveLinks, OfTable
  <2>2. Rows[c].src \in DOMAIN Rows
    BY <1>5, <2>1 DEF Admitted, ActiveLinks
  <2>3. Rows'[c].src \in OfKind(Rows', "note")
    BY <1>9 DEF Miscited
  <2>4. Miscited(Rows, Arts, c)
    <3>1. Rows'[c].src \in OfKind(Rows, "note") /\ Rows'[Rows'[c].src].cites = Rows[Rows'[c].src].cites
      BY <1>5, <1>8, <2>1, <2>2, <2>3
    <3>2. Rows[c].src = Rows'[c].src /\ Rows[c].kind = Rows'[c].kind /\ Rows[c].dst = Rows'[c].dst
      BY <2>1
    <3> QED
      BY <1>5, <1>9, <3>1, <3>2, CitesKept
  <2>5. c \in ActiveLinks(row) /\ Miscited(row, art, c)
    BY <1>3, <2>1, <2>4 DEF IInv, CheckInv
  <2>6. c \in ActiveLinks(row') /\ row'[c] = row[c]
    BY <1>1, <2>5 DEF ActiveLinks, OfTable
  <2> DEFINE n == row[c].src
  <2>7. n \in OfKind(row, "note") /\ row[n].cites # None /\ row[n].cites \in DOMAIN art
    BY <1>5, <2>5 DEF Miscited, Admitted
  <2>8. row'[n].cites = row[n].cites /\ n \in OfKind(row', "note")
    <3>1. n \in DOMAIN row /\ n \in OfKind(row', "note")
      BY <1>1, <2>7 DEF OfKind, OfTable, SameThing
    <3> HIDE DEF n
    <3> QED
      BY <3>1, <1>8
  <2>9. art'[row[n].cites] = art[row[n].cites]
    BY <1>5, <2>7 DEF ArtsGrow
  <2> QED
    BY <2>5, <2>6, <2>8, <2>9 DEF Miscited
<1>10. ASSUME NEW id \in DOMAIN tx.row \cap OfTable(row', "category"), row'[id].live, ~Rows'[id].live,
              NEW o \in OfKind(Rows', "entity"), Rows'[o].live, id \in Rows'[o].cats
       PROVE  Returned(o)'
  <2>1. id \in OfTable(row, "category") /\ row[id].live /\ ~Rows[id].live
    BY <1>1, <1>10 DEF OfTable
  <2>2. \A x \in OfKind(Rows, "entity") : Rows[x].live /\ id \in Rows[x].cats => Returned(x)
    BY <1>10, <2>1 DEF IInv, CheckInv
  <2>3. \A x : Returned(x) => Returned(x)'
    BY <1>1, <1>3 DEF Returned
  <2>4. CASE o \notin Ons(log)
    BY <1>1, <1>10, <2>2, <2>3, <2>4 DEF OfKind, OfTable
  <2>5. CASE o \in Ons(log)
    <3>1. PICK i \in DOMAIN log : log[i].on = o /\ row'[o] = log[i].after /\ Beside(p, log[i])
      BY <1>4, <2>5
    <3>2. Rows'[o] = log[i].after
      BY <1>1, <2>5, <3>1
    <3>3. CASE o \notin DOMAIN row
      BY <1>2, <1>10, <3>1, <3>2, <3>3 DEF Beside, Made, OfKind, OfTable
    <3>4. CASE o \in DOMAIN row
      <4>1. Rows[o] = row[o] /\ o \in DOMAIN Rows /\ SameThing(row[o], row'[o])
        BY <1>1, <2>5, <3>4
      <4>2. o \in OfKind(row, "entity") /\ o \in OfKind(Rows, "entity")
        BY <1>10, <3>1, <3>2, <3>4, <4>1 DEF OfKind, OfTable, SameThing
      <4>3. Revised(p, log[i])
        BY <3>1, <3>4 DEF Beside
      <4>4. CASE row[o].live
        BY <1>10, <2>2, <2>3, <3>1, <3>2, <4>1, <4>2, <4>3, <4>4 DEF Revised
      <4>5. CASE ~row[o].live
        <5>1. log[i].locked /\ log[i].from > 0 /\ log[i].before = row[o] /\ log[i].after.live
          BY <1>10, <3>1, <3>2, <4>2, <4>3, <4>5 DEF Revised
        <5>2. log[i] \in Meanwhile(o)'
          BY <1>3, <3>1
        <5> QED
          BY <4>5, <5>1, <5>2 DEF Returned
      <4> QED
        BY <4>4, <4>5
    <3> QED
      BY <3>3, <3>4
  <2> QED
    BY <2>4, <2>5
<1> QED
  BY <1>1, <1>6, <1>9, <1>10 DEF CheckInv

LEMMA CallKeepsIInv ==
    ASSUME IInv, NEW p, NEW log, CallWrites(p, log) PROVE IInv'
  BY CallBase, CallBatch, CallJournal, CallOnce, CallGate, CallClaim, CallSuccessor, CallCheck DEF IInv

\* An update in place of one row that no batch has locked.
MayRevise(id, new, who) ==
    /\ Evolves(row[id], new, who) /\ Refers(new, row, art)
    /\ new.table = "object" => new.holds = row[id].holds
    /\ id \in OfKind(row, "note") => new.cites = row[id].cites
    /\ id \in OfKind(row, "entity") => new.cats = row[id].cats
    /\ new.table = "connection" /\ new.live =>
          id \in ActiveLinks(row) /\ new.src = row[id].src /\ new.dst = row[id].dst

Update(p, id, new, e) ==
    /\ row' = [row EXCEPT ![id] = new] /\ Unlocked({id})
    /\ e = Journal(p, id, row[id].rev, e.before, new, e.locked)
    /\ e.locked => e.before = row[id]
    /\ e.locked \/ row[id].live
    /\ Commits(p, id, <<e>>)

LEMMA MinorRevises ==
    ASSUME NEW id \in DOMAIN row, NEW new, NEW F, NEW who, Minor(row, art, id, new, F, who),
           new.table = "connection" /\ new.live => id \in ActiveLinks(row)
    PROVE  MayRevise(id, new, who)
  BY DEF Minor, MayRevise, OfKind, OfTable, Evolves, SameThing

LEMMA JournalLaws ==
    ASSUME NEW p, NEW id, NEW from, NEW before, NEW new, NEW locked
    PROVE  LET e == Journal(p, id, from, before, new, locked)
           IN  /\ e.on = id /\ e.run = RunOf(p) /\ e.who = p.call.who /\ e.thread = p.call.thread
               /\ e.at = CommitsNow /\ e.from = from /\ e.before = before /\ e.after = new
               /\ e.locked = locked
  BY DEF Journal, Event

LEMMA UpdateWrites ==
    ASSUME IInv, NEW p \in calls, NEW id \in DOMAIN row, NEW new, NEW e, Update(p, id, new, e),
           MayRevise(id, new, p.call.who), ArtsGrow(art, art', row),
           (DOMAIN art' \ DOMAIN art) \cap DOMAIN Arts = {}, VisualsApart(art')
    PROVE  CallWrites(p, <<e>>)
<1>1. Admitted(row, art) /\ row \in [DOMAIN row -> Range(row)]
  BY DEF IInv, BaseInv, Admitted
<1>2. /\ DOMAIN row' = DOMAIN row /\ row'[id] = new /\ \A x \in DOMAIN row \ {id} : row'[x] = row[x]
      /\ row' \in [DOMAIN row' -> Range(row')]
  <2>1. row' = [row EXCEPT ![id] = new]
    BY DEF Update
  <2> QED
    BY <1>1, <2>1 DEF Range
<1>3. /\ e.on = id /\ e.run = RunOf(p) /\ e.who = p.call.who /\ e.thread = p.call.thread
      /\ e.at = CommitsNow /\ e.from = row[id].rev /\ e.after = new
  <2> DEFINE f == Journal(p, id, row[id].rev, e.before, new, e.locked)
  <2>1. /\ f.on = id /\ f.run = RunOf(p) /\ f.who = p.call.who /\ f.thread = p.call.thread
        /\ f.at = CommitsNow /\ f.from = row[id].rev /\ f.after = new
    BY JournalLaws
  <2>2. e = f
    BY DEF Update
  <2> HIDE DEF f
  <2> QED
    BY <2>1, <2>2
<1>4. (e.locked => e.before = row[id]) /\ (e.locked \/ row[id].live) /\ Unlocked({id})
  BY DEF Update
<1>5. Explains(e, State(row, e.on))
  BY <1>3, <1>4 DEF Explains, State, MayRevise, Evolves
<1>6. /\ Writes(<<e>>, row, row') /\ DOMAIN <<e>> = {1} /\ <<e>>[1] = e
  <2>1. OnlyAt(e.on, row, row') /\ row'[e.on] = e.after
    BY <1>2, <1>3 DEF OnlyAt
  <2> QED
    BY <1>5, <2>1, OneWrite
<1>7. e.on \in Ids \ DOMAIN tx.row
  <2>1. id \notin tx.held
    BY <1>4 DEF Unlocked
  <2>2. DOMAIN tx.row \subseteq tx.held
    BY DEF IInv, BatchInv, NoTx
  <2> QED
    BY <1>1, <1>3, <2>1, <2>2 DEF Admitted
<1>8. Revised(p, e)
  <2>1. row[id].rev \in Nat \ {0}
    BY <1>1 DEF Admitted, WellFormed
  <2> QED
    BY <1>3, <1>4, <2>1 DEF Revised, MayRevise
<1>9. Refers(e.after, row', art') /\ ArtsGrow(art, art', row')
  BY <1>2, <1>3 DEF MayRevise, Refers, ArtsGrow
<1>10. Beside(p, e)
  BY <1>3, <1>5, <1>7, <1>8, <1>9 DEF Beside, MayRevise
<1>11. id \in DOMAIN row' /\ Commits(p, id, <<e>>)
  BY <1>2 DEF Update
<1> QED
  BY <1>2, <1>6, <1>9, <1>10, <1>11 DEF CallWrites, Commits, besides

\* Updates that lock their row and leave the Artifacts alone.
LEMMA PatchWrites ==
    ASSUME IInv, NEW p \in calls, p.call.on \in DOMAIN row, NEW new, Patches(p, new),
           MayRevise(p.call.on, new, p.call.who)
    PROVE  \E log : CallWrites(p, log)
<1> DEFINE id == p.call.on
           e == Journal(p, id, row[id].rev, row[id], new, TRUE)
<1>1. e.before = row[id] /\ e.locked = TRUE
  BY DEF Journal, Event
<1>2. Update(p, id, new, e)
  <2>1. /\ row' = [row EXCEPT ![id] = new] /\ Unlocked({id}) /\ Commits(p, id, <<e>>)
    BY DEF Patches
  <2>2. e = Journal(p, id, row[id].rev, e.before, new, e.locked)
    BY <1>1
  <2> HIDE DEF e
  <2> QED
    BY <1>1, <2>1, <2>2 DEF Update
<1> HIDE DEF e
<1>3. art' = art /\ Admitted(row, art) /\ VisualsApart(art)
  BY DEF Patches, IInv, BaseInv, SuccessorInv
<1>4. /\ ArtsGrow(art, art', row) /\ (DOMAIN art' \ DOMAIN art) \cap DOMAIN Arts = {} /\ VisualsApart(art')
  BY <1>3, ArtsSame
<1>5. CallWrites(p, <<e>>)
  BY <1>2, <1>4, UpdateWrites
<1> QED
  BY <1>5

LEMMA CallKnown ==
    ASSUME IInv, NEW p \in calls
    PROVE  CallChecked(p) /\ CallAssumed(p.call) /\ Admitted(row, art)
           /\ \A id \in DOMAIN row : WellFormed(row[id])
  BY DEF IInv, BaseInv, CallChecked, Requests, Admitted

LEMMA PatchObjectWrites ==
    ASSUME IInv, NEW p \in calls, PatchObject(p) PROVE \E log : CallWrites(p, log)
<1> DEFINE id == p.call.on
           v == ~p.call.archive /\ p.seen.live
           new == [Touched(row[id], p.call.key) EXCEPT !.live = v]
<1>1. id \in OfTable(row, "object") /\ id \in DOMAIN row /\ row[id].table = "object"
  BY CallKnown DEF PatchObject, Written, CallChecked, OfTable
<1>2. Admitted(row, art) /\ WellFormed(row[id])
  BY <1>1, CallKnown
<1>3. Patches(p, new)
  BY DEF PatchObject
<1>4. v \in BOOLEAN
  OBVIOUS
<1> HIDE DEF v
<1>5. Alters(row[id], new, {"live"}) /\ new.live = v
  <2>1. PICK r, who : r = row[id] /\ who = p.call.key
    OBVIOUS
  <2>2. WellFormed(r)
    BY <1>2, <2>1
  <2>3. LET n == [Touched(r, who) EXCEPT !.live = v] IN Alters(r, n, {"live"}) /\ n.live = v
    BY ONLY <2>2, LiveAlters
  <2> QED
    BY <2>1, <2>3
<1> HIDE DEF new
<1>6. AreMinor({"live"}) /\ "kind" \notin {"live"} /\ new.live \in BOOLEAN
  BY <1>4, <1>5 DEF AreMinor
<1>7. Minor(row, art, id, new, {"live"}, p.call.who)
  BY <1>1, <1>2, <1>5, <1>6, AlteredRow
<1>8. MayRevise(id, new, p.call.who)
  BY <1>1, <1>7, MinorRevises DEF Minor
<1> QED
  BY <1>1, <1>3, <1>8, PatchWrites

\* An Object that is only touched.
LEMMA TouchedRevises ==
    ASSUME IInv, NEW id \in DOMAIN row, row[id].table = "object" \/ id \in ActiveLinks(row), NEW who, NEW key
    PROVE  LET new == Touched(row[id], key) IN MayRevise(id, new, who) /\ new.live = row[id].live
<1> DEFINE new == Touched(row[id], key)
<1>1. Admitted(row, art) /\ WellFormed(row[id])
  BY DEF IInv, BaseInv, Admitted
<1>2. PICK F : F = {} /\ Alters(row[id], new, F)
  BY <1>1, TouchedAlters
<1> HIDE DEF new
<1>3. AreMinor(F) /\ "kind" \notin F /\ new.live \in BOOLEAN /\ new.live = row[id].live
  <2>1. "live" \in DOMAIN row[id] \ {"rev", "by"} /\ row[id].live \in BOOLEAN
    BY <1>1 DEF WellFormed, Columns
  <2> QED
    BY <1>2, <2>1 DEF AreMinor, Alters
<1>4. Minor(row, art, id, new, F, who)
  BY <1>1, <1>2, <1>3, AlteredRow
<1>5. MayRevise(id, new, who)
  BY <1>4, MinorRevises DEF Minor
<1> QED
  BY <1>3, <1>5 DEF new

LEMMA PatchNoteWrites ==
    ASSUME IInv, NEW p \in calls, PatchNote(p) PROVE \E log : CallWrites(p, log)
<1> DEFINE new == Touched(row[p.call.on], p.call.key)
<1>1. p.call.on \in DOMAIN row /\ row[p.call.on].table = "object"
  BY CallKnown DEF PatchNote, Written, CallChecked, OfTable
<1>2. MayRevise(p.call.on, new, p.call.who)
  BY <1>1, TouchedRevises
<1>3. Patches(p, new)
  BY DEF PatchNote
<1> HIDE DEF new
<1> QED
  BY <1>1, <1>2, <1>3, PatchWrites

LEMMA PatchTaskWrites ==
    ASSUME IInv, NEW p \in calls, PatchTask(p) PROVE \E log : CallWrites(p, log)
<1> DEFINE c == p.call
           old == row[c.on]
           mid == [Touched(old, c.key) EXCEPT !.status = p.seen.status, !.owner = p.seen.owner]
           r == With(mid, c.set)
           new == Claimed(old, r, c.who)
<1>1. c.on \in OfKind(row, "task") /\ c.on \in DOMAIN row /\ old.table = "object" /\ old.kind = "task"
      /\ DOMAIN c.set \subseteq Settable
  BY CallKnown DEF PatchTask, Written, CallChecked, CallAssumed, OfTable, OfKind
<1>2. Admitted(row, art) /\ WellFormed(old)
  BY <1>1, CallKnown
<1>3. Patches(p, new) /\ TaskAllowed(row, old, new, c.who)
  BY DEF PatchTask
<1>4. old.status = "doing" /\ old.claim # None => old.claim = c.who \/ c.who \in Humans
  BY <1>3 DEF TaskAllowed
<1>5. DOMAIN old = Columns["object"]
  BY <1>1, <1>2 DEF WellFormed
<1>6. /\ DOMAIN mid = DOMAIN old /\ mid.rev = old.rev + 1
      /\ \A f \in {"table", "kind", "live", "holds"} : mid[f] = old[f]
  <2>1. {"rev", "by", "status", "owner", "table", "kind", "live", "holds"} \subseteq DOMAIN old
    BY <1>5 DEF Columns
  <2> QED
    BY <2>1 DEF Touched
<1> HIDE DEF mid
<1>7. {"rev", "table", "kind", "live", "holds"} \subseteq DOMAIN old \ DOMAIN c.set
  <2>1. {"rev", "table", "kind", "live", "holds"} \subseteq DOMAIN old
    BY <1>5 DEF Columns
  <2> QED
    BY <1>1, <2>1 DEF Settable
<1>8. /\ DOMAIN r = DOMAIN old
      /\ \A f \in {"rev", "table", "kind", "live", "holds"} : r[f] = mid[f]
  BY <1>6, <1>7, WithLaws
<1> HIDE DEF r
<1>9. /\ r.rev = old.rev + 1 /\ \A f \in {"table", "kind", "live"} : r[f] = old[f]
      /\ r.holds = old.holds
  BY <1>6, <1>8
<1>10. Evolves(old, new, c.who)
  BY <1>1, <1>2, <1>4, <1>8, <1>9, ClaimedEvolves
<1>11. new.holds = old.holds /\ new.table = "object" /\ new.kind = "task"
  <2>1. \A f \in DOMAIN r \ {"claim"} : new[f] = r[f]
    BY <1>5, <1>8, ClaimedLaws
  <2>2. {"holds", "table", "kind"} \subseteq DOMAIN r \ {"claim"}
    BY <1>7, <1>8
  <2> HIDE DEF new
  <2> QED
    BY <1>1, <1>9, <2>1, <2>2
<1> HIDE DEF new
<1>12. MayRevise(c.on, new, c.who)
  BY <1>1, <1>10, <1>11 DEF MayRevise, Refers, OfKind
<1> QED
  BY <1>1, <1>3, <1>12, PatchWrites

LEMMA PatchConnectionWrites ==
    ASSUME IInv, NEW p \in calls, PatchConnection(p) PROVE \E log : CallWrites(p, log)
<1> DEFINE id == p.call.on
           new == [Touched(row[id], p.call.key) EXCEPT !.kind = p.call.kind]
<1>1. id \in ActiveLinks(row) /\ id \in DOMAIN row /\ row[id].table = "connection" /\ row[id].live
  BY DEF PatchConnection, ActiveLinks, OfTable
<1>2. Admitted(row, art) /\ WellFormed(row[id])
  BY <1>1, CallKnown
<1>3. Patches(p, new)
  BY DEF PatchConnection
<1>4. Alters(row[id], new, {"kind"})
  BY <1>1, <1>2, KindAlters
<1> HIDE DEF new
<1>5. AreMinor({"kind"}) /\ new.live \in BOOLEAN
  <2>1. "live" \in DOMAIN row[id] \ {"kind", "rev", "by"} /\ row[id].live \in BOOLEAN
    BY <1>2 DEF WellFormed, Columns
  <2> QED
    BY <1>4, <2>1 DEF AreMinor, Alters
<1>6. Minor(row, art, id, new, {"kind"}, p.call.who)
  BY <1>1, <1>2, <1>4, <1>5, AlteredRow
<1>7. MayRevise(id, new, p.call.who)
  BY <1>1, <1>6, MinorRevises
<1> QED
  BY <1>1, <1>3, <1>7, PatchWrites

LEMMA DropConnectionWrites ==
    ASSUME IInv, NEW p \in calls, DropConnection(p) PROVE \E log : CallWrites(p, log)
<1> DEFINE id == p.call.on
           v == FALSE
           new == [Touched(row[id], p.call.key) EXCEPT !.live = v]
<1>1. id \in ActiveLinks(row) /\ id \in DOMAIN row /\ row[id].table = "connection"
  BY DEF DropConnection, ActiveLinks, OfTable
<1>2. Admitted(row, art) /\ WellFormed(row[id])
  BY <1>1, CallKnown
<1>3. Patches(p, new)
  BY DEF DropConnection
<1>4. v \in BOOLEAN /\ ~v
  OBVIOUS
<1> HIDE DEF v
<1>5. Alters(row[id], new, {"live"}) /\ new.live = v
  <2>1. PICK r, who : r = row[id] /\ who = p.call.key
    OBVIOUS
  <2>2. WellFormed(r)
    BY <1>2, <2>1
  <2>3. LET n == [Touched(r, who) EXCEPT !.live = v] IN Alters(r, n, {"live"}) /\ n.live = v
    BY ONLY <2>2, LiveAlters
  <2> QED
    BY <2>1, <2>3
<1> HIDE DEF new
<1>6. AreMinor({"live"}) /\ "kind" \notin {"live"} /\ new.live \in BOOLEAN /\ ~new.live
  BY <1>4, <1>5 DEF AreMinor
<1>7. Minor(row, art, id, new, {"live"}, p.call.who)
  BY <1>1, <1>2, <1>5, <1>6, AlteredRow
<1>8. MayRevise(id, new, p.call.who)
  BY <1>1, <1>6, <1>7, MinorRevises
<1> QED
  BY <1>1, <1>3, <1>8, PatchWrites

\* A new Artifact of an active Object.
LEMMA AttachWrites ==
    ASSUME IInv, NEW p \in calls, NEW document, Attaches(p, document), VisualsApart(art')
    PROVE  \E log : CallWrites(p, log)
<1> DEFINE id == p.call.on
           new == Touched(row[id], p.call.key)
           made == [of |-> id, pred |-> p.call.pred, body |-> p.call.body, document |-> document]
<1>1. /\ id \in OfTable(row, "object") /\ id \in DOMAIN row /\ row[id].table = "object" /\ row[id].live
      /\ Unlocked({id}) /\ row' = [row EXCEPT ![id] = new]
      /\ p.call.art \in Artifacts \ DOMAIN Arts /\ art' = Over(At(p.call.art, made), art)
  BY DEF Attaches, OfTable
<1>2. PICK before : Commits(p, id, <<Journal(p, id, row[id].rev, before, new, FALSE)>>)
  BY DEF Attaches
<1>3. Admitted(row, art)
  BY CallKnown
<1>4. MayRevise(id, new, p.call.who)
  BY <1>1, TouchedRevises
<1> DEFINE e == Journal(p, id, row[id].rev, before, new, FALSE)
<1>5. e.before = before /\ e.locked = FALSE
  BY DEF Journal, Event
<1>6. Update(p, id, new, e)
  <2>1. e = Journal(p, id, row[id].rev, e.before, new, e.locked)
    BY <1>5
  <2>2. Commits(p, id, <<e>>)
    BY <1>2
  <2> HIDE DEF e, new
  <2> QED
    BY <1>1, <1>5, <2>1, <2>2 DEF Update
<1>7. made.of = id
  OBVIOUS
<1> HIDE DEF e, new, made
<1>8. ArtsGrow(art, art', row) /\ (DOMAIN art' \ DOMAIN art) \cap DOMAIN Arts = {}
  <2>1. DOMAIN art \subseteq DOMAIN Arts
    BY DEF Arts, Over
  <2>2. art' \in [DOMAIN art' -> Range(art')]
    BY <1>1, OverLaws
  <2>3. /\ DOMAIN art' = DOMAIN art \cup {p.call.art} /\ art'[p.call.art] = made
        /\ \A x \in DOMAIN art : art'[x] = art[x]
    BY <1>1, <2>1 DEF Over, At
  <2> QED
    BY <1>1, <1>3, <1>7, <2>1, <2>2, <2>3 DEF ArtsGrow, Admitted
<1>9. CallWrites(p, <<e>>)
  BY <1>1, <1>4, <1>6, <1>8, UpdateWrites
<1> QED
  BY <1>9

\* Whoever is not a visual, or follows the last one, leaves the visuals apart.
LEMMA VisualApart ==
    ASSUME NEW old, NEW arts, NEW id, NEW made, arts = Over(At(id, made), old), VisualsApart(old),
           id \notin DOMAIN old,
           made.document # None => \A a \in DOMAIN old :
               old[a].document = made.document /\ old[a].of = made.of => old[a].pred # made.pred
    PROVE  VisualsApart(arts)
<1>1. /\ DOMAIN arts = DOMAIN old \cup {id} /\ arts[id] = made
      /\ \A x \in DOMAIN old : arts[x] = old[x]
  BY DEF Over, At
<1> QED
  BY <1>1 DEF VisualsApart

LEMMA PostArtifactWrites ==
    ASSUME IInv, NEW p \in calls, PostArtifact(p) PROVE \E log : CallWrites(p, log)
<1> DEFINE made == [of |-> p.call.on, pred |-> p.call.pred, body |-> p.call.body, document |-> None]
<1>1. Attaches(p, None)
  BY DEF PostArtifact
<1>2. /\ art' = Over(At(p.call.art, made), art) /\ p.call.art \notin DOMAIN art /\ made.document = None
  BY <1>1 DEF Attaches, Arts, Over
<1> HIDE DEF made
<1>3. VisualsApart(art')
  BY <1>2, VisualApart DEF IInv, SuccessorInv
<1> QED
  BY <1>1, <1>3, AttachWrites

LEMMA PostVisualWrites ==
    ASSUME IInv, NEW p \in calls, PostVisual(p) PROVE \E log : CallWrites(p, log)
<1> DEFINE c == p.call
           made == [of |-> c.on, pred |-> c.pred, body |-> c.body, document |-> c.document]
<1>1. Attaches(p, c.document) /\ VisualAllowed(c)
  BY DEF PostVisual
<1>2. /\ art' = Over(At(c.art, made), art) /\ c.art \notin DOMAIN art
      /\ made.document = c.document /\ made.of = c.on /\ made.pred = c.pred
  BY <1>1 DEF Attaches, Arts, Over
<1> HIDE DEF made
<1>3. ASSUME NEW a \in DOMAIN art, art[a].document = made.document, art[a].of = made.of
      PROVE  art[a].pred # made.pred
  BY <1>1, <1>2, <1>3 DEF VisualAllowed, Visuals, Succeeded
<1>4. VisualsApart(art')
  BY <1>2, <1>3, VisualApart DEF IInv, SuccessorInv
<1> QED
  BY <1>1, <1>4, AttachWrites

LEMMA PostConnectionAgain ==
    ASSUME IInv, NEW p \in calls, NEW id \in ActiveLinks(row), NEW before, Unlocked({id}), art' = art,
           LET new == Asserted(Touched(row[id], p.call.key), p.call.key)
           IN  /\ row' = [row EXCEPT ![id] = new]
               /\ Commits(p, id, <<Journal(p, id, row[id].rev, before, new, FALSE)>>)
    PROVE  \E log : CallWrites(p, log)
<1> DEFINE new == Asserted(Touched(row[id], p.call.key), p.call.key)
           e == Journal(p, id, row[id].rev, before, new, FALSE)
<1>1. id \in DOMAIN row /\ row[id].table = "connection" /\ row[id].live
  BY DEF ActiveLinks, OfTable
<1>2. Admitted(row, art) /\ WellFormed(row[id])
  BY <1>1, CallKnown
<1>3. PICK F : F = {"says"} /\ Alters(row[id], new, F)
  BY <1>1, <1>2, AssertedAlters
<1>4. row' = [row EXCEPT ![id] = new] /\ Commits(p, id, <<e>>)
  OBVIOUS
<1>5. e.before = before /\ e.locked = FALSE
  BY DEF Journal, Event
<1>6. Update(p, id, new, e)
  <2>1. e = Journal(p, id, row[id].rev, e.before, new, e.locked)
    BY <1>5
  <2> HIDE DEF e, new
  <2> QED
    BY <1>1, <1>4, <1>5, <2>1 DEF Update
<1> HIDE DEF e, new
<1>7. AreMinor(F) /\ "kind" \notin F /\ new.live \in BOOLEAN
  <2>1. "live" \in DOMAIN row[id] \ {"says", "rev", "by"} /\ row[id].live \in BOOLEAN
    BY <1>2 DEF WellFormed, Columns
  <2> QED
    BY <1>3, <2>1 DEF AreMinor, Alters
<1>8. Minor(row, art, id, new, F, p.call.who)
  BY <1>1, <1>2, <1>3, <1>7, AlteredRow
<1>9. MayRevise(id, new, p.call.who)
  BY <1>1, <1>8, MinorRevises
<1>10. /\ ArtsGrow(art, art', row) /\ (DOMAIN art' \ DOMAIN art) \cap DOMAIN Arts = {} /\ VisualsApart(art')
  BY <1>2, ArtsSame DEF IInv, SuccessorInv
<1>11. CallWrites(p, <<e>>)
  BY <1>1, <1>6, <1>9, <1>10, UpdateWrites
<1> QED
  BY <1>11

\* New rows beside a batch.
NewRow(p, id, new) ==
    /\ WellFormed(new) /\ new.rev = 1 /\ Refers(new, row', art)
    /\ new.table = "object" => new.holds = {}
    /\ new.table = "object" /\ new.kind = "memory" => p.call.op = "create_object" /\ id = p.call.on
    /\ new.table = "object" /\ new.kind = "entity" => new.cats \cap tx.held = {}
    /\ new.table = "connection" => {new.src, new.dst} \cap tx.held = {}

Creates(p, more, log) ==
    /\ DOMAIN more \subseteq Ids \ DOMAIN Rows
    /\ row' = Over(more, row) /\ art' = art
    /\ \E on \in DOMAIN row' : Commits(p, on, log)
    /\ IsASeq(log) /\ Ons(log) = DOMAIN more
    /\ \A i, j \in DOMAIN log : log[i].on = log[j].on => i = j
    /\ \A i \in DOMAIN log : log[i] = Inserted(p, log[i].on, more[log[i].on])
    /\ \A id \in DOMAIN more : NewRow(p, id, more[id])

LEMMA InsertWrites ==
    ASSUME IInv, NEW p \in calls, NEW more, NEW log, Creates(p, more, log)
    PROVE  CallWrites(p, log)
<1>1. Admitted(row, art) /\ VisualsApart(art) /\ art' = art
  BY DEF IInv, BaseInv, SuccessorInv, Creates
<1>2. /\ DOMAIN row' = DOMAIN more \cup DOMAIN row /\ row' \in [DOMAIN row' -> Range(row')]
      /\ \A x \in DOMAIN more : row'[x] = more[x]
      /\ \A x \in DOMAIN row \ DOMAIN more : row'[x] = row[x]
  <2>1. row' = Over(more, row)
    BY DEF Creates
  <2>2. row' \in [DOMAIN row' -> Range(row')]
    BY <2>1, OverLaws
  <2> QED
    BY <2>1, <2>2 DEF Over
<1>3. DOMAIN more \cap DOMAIN row = {} /\ DOMAIN more \cap DOMAIN tx.row = {} /\ DOMAIN more \subseteq Ids
  BY DEF Creates, Rows, Over
<1>4. ASSUME NEW i \in DOMAIN log
      PROVE  LET e == log[i]
             IN  /\ e.on \in DOMAIN more /\ e.run = RunOf(p) /\ e.who = p.call.who
                 /\ e.thread = p.call.thread /\ e.at = CommitsNow /\ e.from = 0 /\ e.before = NoRow
                 /\ e.after = more[e.on]
  <2>1. log[i].on \in DOMAIN more
    BY DEF Creates, Ons
  <2>2. PICK e : e = log[i]
    OBVIOUS
  <2>3. e = Journal(p, e.on, 0, NoRow, more[e.on], TRUE)
    BY <2>2 DEF Creates, Inserted
  <2>4. PICK f : f = Journal(p, e.on, 0, NoRow, more[e.on], TRUE)
    OBVIOUS
  <2>5. /\ f.run = RunOf(p) /\ f.who = p.call.who
        /\ f.thread = p.call.thread /\ f.at = CommitsNow /\ f.from = 0 /\ f.before = NoRow
        /\ f.after = more[e.on]
    BY <2>4 DEF Journal, Event
  <2> QED
    BY <2>1, <2>2, <2>3, <2>4, <2>5
<1>5. ASSUME NEW i \in DOMAIN log PROVE Explains(log[i], State(row, log[i].on))
  <2>1. NewRow(p, log[i].on, more[log[i].on])
    BY <1>4 DEF Creates
  <2> QED
    BY <1>3, <1>4, <2>1 DEF NewRow, Explains, State, NoRow
<1>6. Writes(log, row, row')
  BY <1>2, <1>3, <1>4, <1>5 DEF Writes, Creates
<1>7. ASSUME NEW i \in DOMAIN log PROVE Beside(p, log[i])
  <2>1. NewRow(p, log[i].on, more[log[i].on]) /\ log[i].on \notin DOMAIN row
    BY <1>3, <1>4 DEF Creates
  <2>2. Made(p, log[i])
    BY <1>4, <2>1 DEF NewRow, Made
  <2>3. Refers(log[i].after, row', art')
    BY <1>1, <1>4, <2>1 DEF NewRow
  <2> QED
    BY <1>3, <1>4, <1>5, <2>1, <2>2, <2>3 DEF Beside, NewRow
<1>8. ArtsGrow(art, art', row') /\ (DOMAIN art' \ DOMAIN art) \cap DOMAIN Arts = {} /\ VisualsApart(art')
  BY <1>1, ArtsSame
<1> QED
  BY <1>2, <1>6, <1>7, <1>8 DEF CallWrites, Creates, Commits, besides

LEMMA OneEntry ==
    ASSUME NEW e
    PROVE  /\ IsASeq(<<e>>) /\ DOMAIN <<e>> = {1} /\ <<e>>[1] = e /\ Ons(<<e>>) = {e.on}
<1> DEFINE s == <<e>>
<1>1. Len(s) = 1 /\ DOMAIN s = 1..1 /\ s = [i \in 1..1 |-> s[i]] /\ s[1] = e
  OBVIOUS
<1> HIDE DEF s
<1>2. IsASeq(s) /\ DOMAIN s = {1}
  BY <1>1, IsASeqIntro
<1>3. Ons(s) = {e.on}
  BY <1>1, <1>2 DEF Ons
<1> QED
  BY <1>1, <1>2, <1>3 DEF s

LEMMA PostConnectionWrites ==
    ASSUME IInv, NEW p \in calls, PostConnection(p) PROVE \E log : CallWrites(p, log)
<1> DEFINE c == p.call
           same == SameLink(row, c.src, c.kind, c.dst)
<1>1. CASE same = {}
  <2> DEFINE new == NewConnection(c.src, c.kind, c.dst, c.key)
             e == Inserted(p, c.on, new)
             more == At(c.on, new)
  <2>1. /\ Fresh({c.on}) /\ {c.src, c.dst} \subseteq DOMAIN row /\ Unlocked({c.src, c.dst})
        /\ row' = Over(more, row) /\ art' = art /\ Commits(p, c.on, <<e>>)
    BY <1>1 DEF PostConnection
  <2>2. WellFormed(new) /\ new.table = "connection" /\ new.rev = 1 /\ new.src = c.src /\ new.dst = c.dst
    BY NewConnectionLaws
  <2>3. e.on = c.on
    BY DEF Inserted, Journal, Event
  <2>4. DOMAIN more = {c.on} /\ more[c.on] = new
    BY AtLaws
  <2>5. e = Inserted(p, e.on, more[e.on])
    BY <2>3, <2>4
  <2> HIDE DEF new, e, more
  <2>6. DOMAIN row \subseteq DOMAIN row' /\ c.on \in DOMAIN row'
    BY <2>1, <2>4 DEF Over
  <2>7. NewRow(p, c.on, new)
    BY <2>1, <2>2, <2>6 DEF NewRow, Refers, Unlocked
  <2>8. IsASeq(<<e>>) /\ DOMAIN <<e>> = {1} /\ <<e>>[1] = e /\ Ons(<<e>>) = {e.on}
    BY OneEntry
  <2>9. Creates(p, more, <<e>>)
    BY <2>1, <2>3, <2>4, <2>5, <2>6, <2>7, <2>8 DEF Creates, Fresh
  <2> QED
    BY <2>9, InsertWrites
<1>2. CASE same # {}
  <2>1. PICK id \in same, before \in UNION {DerivedBefore(s) : s \in same} :
               LET new == Asserted(Touched(row[id], c.key), c.key) IN
               /\ row' = [row EXCEPT ![id] = new]
               /\ Commits(p, id, <<Journal(p, id, row[id].rev, before, new, FALSE)>>)
    BY <1>2 DEF PostConnection
  <2>2. id \in ActiveLinks(row) /\ Unlocked({id}) /\ art' = art
    BY DEF PostConnection, SameLink, Unlocked
  <2> QED
    BY <2>1, <2>2, PostConnectionAgain
<1> QED
  BY <1>1, <1>2

\* The order in which the links of a request are written.
LEMMA SetToSeqLaws ==
    ASSUME NEW S, IsFiniteSet(S)
    PROVE  LET order == SetToSeq(S)
           IN  /\ Cardinality(S) \in Nat /\ DOMAIN order = 1..Cardinality(S)
               /\ order \in [1..Cardinality(S) -> S]
               /\ \A x \in S : \E i \in DOMAIN order : order[i] = x
               /\ \A i, j \in DOMAIN order : order[i] = order[j] => i = j
<1> DEFINE n == Cardinality(S)
           order == SetToSeq(S)
<1>1. n \in Nat /\ ExistsBijection(1..n, S)
  BY FS_CardinalityType
<1>2. \E f \in [1..n -> S] : IsInjective(f)
  BY <1>1 DEF ExistsBijection, Bijection, Injection, IsInjective
<1>3. order \in [1..n -> S] /\ IsInjective(order)
  BY <1>2 DEF SetToSeq
<1> HIDE DEF order
<1>4. order \in Injection(1..n, S)
  BY <1>3 DEF Injection, IsInjective
<1>5. Cardinality(1..n) = n
  <2>1. 1 \in Int /\ n \in Int
    BY <1>1
  <2>2. Cardinality(1..n) = IF 1 > n THEN 0 ELSE n - 1 + 1
    BY <2>1, FS_Interval
  <2> HIDE DEF n
  <2> QED
    BY <1>1, <2>2
<1>6. order \in Surjection(1..n, S)
  BY <1>4, <1>5, FS_Injection
<1> HIDE DEF n
<1>7. \A x \in S : \E i \in 1..n : order[i] = x
  BY <1>6 DEF Surjection
<1> QED
  BY <1>1, <1>3, <1>7 DEF order, n, IsInjective

LEMMA IdsFinite ==
    ASSUME NEW links, IsFiniteSet(links) PROVE IsFiniteSet({l.on : l \in links})
<1> DEFINE f == [l \in links |-> l.on]
           T == {l.on : l \in links}
<1>1. f \in Surjection(links, T)
  BY DEF Surjection
<1> QED
  BY <1>1, FS_Surjection

\* The entries of a request's links say what rows they make.
LEMMA LinkEventsLaws ==
    ASSUME NEW p, NEW links, IsFiniteSet(links)
    PROVE  LET log == LinkEvents(p, links)
               more == NewLinks(links, p.call.key)
           IN  /\ IsASeq(log) /\ Ons(log) = {l.on : l \in links}
               /\ \A i, j \in DOMAIN log : log[i].on = log[j].on => i = j
               /\ \A i \in DOMAIN log : log[i] = Inserted(p, log[i].on, more[log[i].on])
<1> DEFINE S == {l.on : l \in links}
           order == SetToSeq(S)
           n == Cardinality(S)
           log == LinkEvents(p, links)
           more == NewLinks(links, p.call.key)
<1>1. IsFiniteSet(S)
  BY IdsFinite
<1>2. /\ n \in Nat /\ DOMAIN order = 1..n /\ order \in [1..n -> S]
      /\ \A x \in S : \E i \in DOMAIN order : order[i] = x
      /\ \A i, j \in DOMAIN order : order[i] = order[j] => i = j
  BY <1>1, SetToSeqLaws
<1>3. log = [i \in DOMAIN order |-> Inserted(p, order[i], more[order[i]])]
  BY DEF LinkEvents
<1> HIDE DEF order, n, log, more
<1>4. DOMAIN log = 1..n /\ log = [i \in 1..n |-> log[i]]
  BY <1>2, <1>3
<1>5. ASSUME NEW i \in 1..n PROVE log[i] = Inserted(p, order[i], more[order[i]]) /\ log[i].on = order[i]
  <2>1. log[i] = Inserted(p, order[i], more[order[i]])
    BY <1>2, <1>3
  <2>2. Inserted(p, order[i], more[order[i]]).on = order[i]
    BY DEF Inserted, Journal, Event
  <2> QED
    BY <2>1, <2>2
<1>6. IsASeq(log)
  BY <1>2, <1>4, IsASeqIntro
<1>7. Ons(log) = S
  <2> HIDE DEF S
  <2>1. ASSUME NEW x \in S PROVE x \in Ons(log)
    <3>1. PICK i \in 1..n : order[i] = x
      BY <1>2
    <3> QED
      BY <1>4, <1>5, <3>1 DEF Ons
  <2>2. ASSUME NEW i \in DOMAIN log PROVE log[i].on \in S
    BY <1>2, <1>4, <1>5
  <2> QED
    BY <2>1, <2>2 DEF Ons
<1>8. \A i, j \in DOMAIN log : log[i].on = log[j].on => i = j
  BY <1>2, <1>4, <1>5
<1>9. \A i \in DOMAIN log : log[i] = Inserted(p, log[i].on, more[log[i].on])
  BY <1>4, <1>5
<1> QED
  BY <1>6, <1>7, <1>8, <1>9 DEF log, more

LEMMA NewLinksLaws ==
    ASSUME NEW links, NEW who
    PROVE  LET more == NewLinks(links, who)
           IN  /\ DOMAIN more = {l.on : l \in links}
               /\ \A id \in DOMAIN more :
                     /\ WellFormed(more[id]) /\ more[id].table = "connection" /\ more[id].rev = 1
                     /\ {more[id].src, more[id].dst} \subseteq EndsOf(links)
<1> DEFINE more == NewLinks(links, who)
<1>1. DOMAIN more = {l.on : l \in links}
  BY DEF NewLinks
<1>2. ASSUME NEW id \in DOMAIN more
      PROVE  /\ WellFormed(more[id]) /\ more[id].table = "connection" /\ more[id].rev = 1
             /\ {more[id].src, more[id].dst} \subseteq EndsOf(links)
  <2> DEFINE l == LinkOf(links, id)
  <2>1. l \in links
    BY <1>1 DEF LinkOf
  <2>2. more[id] = NewConnection(l.src, l.kind, l.dst, who)
    BY <1>1 DEF NewLinks
  <2> HIDE DEF l, more
  <2>3. WellFormed(more[id]) /\ more[id].table = "connection" /\ more[id].rev = 1
        /\ more[id].src = l.src /\ more[id].dst = l.dst
    BY <2>2, NewConnectionLaws
  <2> QED
    BY <2>1, <2>3 DEF EndsOf
<1> QED
  BY <1>1, <1>2

\* A new row and its links are made together.
LEMMA PostsWrites ==
    ASSUME IInv, NEW p \in calls, NEW new, Posts(p, new), WellFormed(new), new.rev = 1,
           new.table = "object", new.holds = {},
           new.kind = "entity" => new.cats \cap tx.held = {},
           new.kind = "note" => new.cites \in DOMAIN art \cup {None},
           new.kind = "memory" => p.call.op = "create_object"
    PROVE  \E log : CallWrites(p, log)
<1> DEFINE c == p.call
           links == NewLinks(c.links, c.key)
           e == Inserted(p, c.on, new)
           rest == LinkEvents(p, c.links)
           log == <<e>> \o rest
           S == {l.on : l \in c.links}
<1>1. IsFiniteSet(c.links) /\ c.on \notin S
  BY CallKnown DEF CallAssumed
<1>2. /\ Fresh({c.on} \cup S)
      /\ EndsOf(c.links) \subseteq DOMAIN row \cup {c.on} /\ Unlocked(EndsOf(c.links))
      /\ row' = Over(At(c.on, new), Over(links, row))
      /\ Commits(p, c.on, log) /\ art' = art
  BY DEF Posts
<1>3. PICK more : more = Over(At(c.on, new), links)
  OBVIOUS
<1>4. /\ DOMAIN links = S
      /\ \A id \in DOMAIN links :
            /\ WellFormed(links[id]) /\ links[id].table = "connection" /\ links[id].rev = 1
            /\ {links[id].src, links[id].dst} \subseteq EndsOf(c.links)
  BY NewLinksLaws
<1>5. /\ IsASeq(rest) /\ Ons(rest) = S
      /\ \A i, j \in DOMAIN rest : rest[i].on = rest[j].on => i = j
      /\ \A i \in DOMAIN rest : rest[i] = Inserted(p, rest[i].on, links[rest[i].on])
  BY <1>1, LinkEventsLaws
<1>6. e.on = c.on /\ e = Inserted(p, e.on, new)
  BY DEF Inserted, Journal, Event
<1> HIDE DEF links, e, rest, S
<1>7. /\ DOMAIN more = {c.on} \cup S /\ more[c.on] = new
      /\ \A id \in S : more[id] = links[id]
  BY <1>1, <1>3, <1>4 DEF Over, At
<1>8. row' = Over(more, row)
  BY <1>2, <1>3 DEF Over, At
<1>9. /\ IsASeq(<<e>>) /\ Len(<<e>>) = 1 /\ <<e>>[1] = e /\ Ons(<<e>>) = {c.on}
  BY <1>6, OneEntry
<1>10. IsASeq(log) /\ Ons(log) = DOMAIN more
  BY <1>5, <1>7, <1>9, Concat, OnsOfBoth
<1>11. /\ Len(rest) \in Nat /\ DOMAIN rest = 1..Len(rest) /\ DOMAIN log = 1..(1 + Len(rest))
       /\ log[1] = e /\ \A i \in 2..(1 + Len(rest)) : log[i] = rest[i - 1]
  <2>1. IsASeq(<<e>>) /\ IsASeq(rest) /\ Len(<<e>>) = 1 /\ <<e>>[1] = e
    BY <1>5, <1>9
  <2>2. /\ IsASeq(log) /\ Len(log) = Len(<<e>>) + Len(rest)
        /\ \A i \in 1..Len(<<e>>) : log[i] = <<e>>[i]
        /\ \A i \in (Len(<<e>>) + 1)..(Len(<<e>>) + Len(rest)) : log[i] = rest[i - Len(<<e>>)]
    BY <2>1, Concat
  <2>3. Len(rest) \in Nat /\ DOMAIN rest = 1..Len(rest) /\ DOMAIN log = 1..Len(log)
    BY <2>1, <2>2, SeqFacts
  <2> HIDE DEF log
  <2> QED
    BY <2>1, <2>2, <2>3
<1> HIDE DEF log
<1>12. ASSUME NEW i \in DOMAIN log, i # 1
       PROVE  i - 1 \in DOMAIN rest /\ log[i] = rest[i - 1] /\ rest[i - 1].on \in S
  <2>1. i \in 2..(1 + Len(rest)) /\ i - 1 \in 1..Len(rest)
    BY <1>11, <1>12
  <2> QED
    BY <1>5, <1>11, <2>1 DEF Ons
<1>13. \A i, j \in DOMAIN log : log[i].on = log[j].on => i = j
  <2> SUFFICES ASSUME NEW i \in DOMAIN log, NEW j \in DOMAIN log, log[i].on = log[j].on
               PROVE  i = j
    OBVIOUS
  <2>1. CASE i # 1 /\ j # 1
    <3>1. i - 1 = j - 1
      BY <1>5, <1>12, <2>1
    <3> QED
      BY <1>11, <3>1
  <2>2. CASE i = 1 \/ j = 1
    BY <1>1, <1>6, <1>11, <1>12, <2>2
  <2> QED
    BY <2>1, <2>2
<1>14. \A i \in DOMAIN log : log[i] = Inserted(p, log[i].on, more[log[i].on])
  BY <1>5, <1>6, <1>7, <1>11, <1>12
<1>15. \A id \in DOMAIN more : NewRow(p, id, more[id])
  <2>1. DOMAIN row' = DOMAIN more \cup DOMAIN row
    BY <1>8, OverLaws
  <2>2. NewRow(p, c.on, new)
    BY DEF NewRow, Refers
  <2>3. ASSUME NEW id \in S PROVE NewRow(p, id, links[id])
    BY <1>2, <1>4, <1>7, <2>1 DEF NewRow, Refers, Unlocked
  <2> QED
    BY <1>7, <2>2, <2>3
<1>16. Creates(p, more, log)
  <2>1. c.on \in DOMAIN row' /\ DOMAIN more \subseteq Ids \ DOMAIN Rows
    BY <1>2, <1>7, <1>8 DEF Over, Fresh
  <2> QED
    BY <1>2, <1>8, <1>10, <1>13, <1>14, <1>15, <2>1 DEF Creates
<1> QED
  BY <1>16, InsertWrites

LEMMA RelinkWrites ==
    ASSUME IInv, NEW p \in calls, Relink(p) PROVE \E log : CallWrites(p, log)
<1> DEFINE more == NewLinks(p.missing, p.call.key)
           log == LinkEvents(p, p.missing)
           on == keys[KeyOf(p.call)]
<1>1. IsFiniteSet(p.missing) /\ on \in DOMAIN row
  BY CallKnown DEF CallChecked, Relink, IInv, BaseInv
<1>2. /\ Fresh({l.on : l \in p.missing}) /\ EndsOf(p.missing) \subseteq DOMAIN row
      /\ Unlocked(EndsOf(p.missing)) /\ row' = Over(more, row) /\ Commits(p, on, log) /\ art' = art
  BY DEF Relink
<1>3. /\ DOMAIN more = {l.on : l \in p.missing}
      /\ \A id \in DOMAIN more :
            /\ WellFormed(more[id]) /\ more[id].table = "connection" /\ more[id].rev = 1
            /\ {more[id].src, more[id].dst} \subseteq EndsOf(p.missing)
  <2>1. PICK links, who : links = p.missing /\ who = p.call.key
    OBVIOUS
  <2>2. more = NewLinks(links, who)
    BY <2>1
  <2> HIDE DEF more
  <2>3. LET m == NewLinks(links, who)
        IN  /\ DOMAIN m = {l.on : l \in links}
            /\ \A id \in DOMAIN m :
                  /\ WellFormed(m[id]) /\ m[id].table = "connection" /\ m[id].rev = 1
                  /\ {m[id].src, m[id].dst} \subseteq EndsOf(links)
    BY ONLY NewLinksLaws
  <2> QED
    BY <2>1, <2>2, <2>3
<1>4. /\ IsASeq(log) /\ Ons(log) = {l.on : l \in p.missing}
      /\ \A i, j \in DOMAIN log : log[i].on = log[j].on => i = j
      /\ \A i \in DOMAIN log : log[i] = Inserted(p, log[i].on, more[log[i].on])
  BY <1>1, LinkEventsLaws
<1> HIDE DEF more, log, on
<1>5. DOMAIN row' = DOMAIN more \cup DOMAIN row
  BY <1>2, OverLaws
<1>6. ASSUME NEW id \in DOMAIN more PROVE NewRow(p, id, more[id])
  BY <1>2, <1>3, <1>5 DEF NewRow, Refers, Unlocked
<1>7. Creates(p, more, log)
  BY <1>1, <1>2, <1>3, <1>4, <1>5, <1>6 DEF Creates, Fresh
<1> QED
  BY <1>7, InsertWrites

LEMMA PostObjectWrites ==
    ASSUME IInv, NEW p \in calls, PostObject(p) PROVE \E log : CallWrites(p, log)
<1> DEFINE new == NewObject(p.call.fields, p.call.key)
<1>1. DOMAIN p.call.fields \subseteq {"kind"} \cup Settable /\ p.call.op = "create_object"
  BY CallKnown DEF PostObject, Written, CallAssumed
<1>2. /\ WellFormed(new) /\ new.table = "object" /\ new.rev = 1 /\ new.holds = {}
  BY <1>1, NewObjectLaws
<1>3. /\ new.kind \in {"chat", "entity", "memory", "event"} /\ Posts(p, new)
      /\ new.cats \cap tx.held = {}
  BY DEF PostObject, Unlocked
<1> HIDE DEF new
<1> QED
  BY <1>1, <1>2, <1>3, PostsWrites

\* The kind a typed creation gives its row.
LEMMA KindGiven ==
    ASSUME NEW fields, NEW who, NEW kind, DOMAIN fields \subseteq {"kind"} \cup Settable
    PROVE  LET new == [NewObject(fields, who) EXCEPT !.kind = kind]
           IN  /\ WellFormed(new) /\ new.table = "object" /\ new.rev = 1 /\ new.holds = {}
               /\ new.kind = kind
               /\ new.cites = IF "cites" \in DOMAIN fields THEN fields.cites ELSE None
<1> DEFINE bare == NewObject(fields, who)
           new == [bare EXCEPT !.kind = kind]
<1>1. /\ WellFormed(bare) /\ bare.table = "object" /\ bare.rev = 1 /\ bare.holds = {}
      /\ bare.cites = IF "cites" \in DOMAIN fields THEN fields.cites ELSE None
  BY NewObjectLaws
<1> HIDE DEF bare
<1>2. DOMAIN bare = Columns["object"]
  BY <1>1 DEF WellFormed
<1>3. /\ DOMAIN new = DOMAIN bare /\ new.kind = kind
      /\ \A f \in DOMAIN bare \ {"kind"} : new[f] = bare[f]
  BY <1>2 DEF Columns
<1>4. {"table", "rev", "live", "holds", "cites", "status", "claim"} \subseteq DOMAIN bare \ {"kind"}
  BY <1>2 DEF Columns
<1> HIDE DEF new
<1>5. /\ new.table = bare.table /\ new.rev = bare.rev /\ new.live = bare.live /\ new.holds = bare.holds
      /\ new.cites = bare.cites /\ new.status = bare.status /\ new.claim = bare.claim
  BY <1>3, <1>4
<1>6. WellFormed(new)
  <2>1. bare.live \in BOOLEAN /\ "object" \in DOMAIN Columns /\ bare.claim = None
    BY <1>1, NewObjectLaws DEF WellFormed, bare
  <2>2. new.table = "object" /\ new.rev = 1 /\ new.live \in BOOLEAN /\ new.claim = None
    BY <1>1, <1>5, <2>1
  <2>3. DOMAIN new = Columns[new.table] /\ new.table \in DOMAIN Columns
    BY <1>2, <1>3, <2>1, <2>2
  <2> QED
    BY <2>2, <2>3 DEF WellFormed
<1> QED
  BY <1>1, <1>3, <1>5, <1>6 DEF new, bare

LEMMA PostTaskWrites ==
    ASSUME IInv, NEW p \in calls, PostTask(p) PROVE \E log : CallWrites(p, log)
<1> DEFINE r == [NewObject(p.call.fields, p.call.key) EXCEPT !.kind = "task"]
           new == Claimed(NoRow, r, p.call.who)
<1>1. DOMAIN p.call.fields \subseteq {"kind"} \cup Settable
  BY CallKnown DEF PostTask, Written, CallAssumed
<1>2. WellFormed(r) /\ r.table = "object" /\ r.rev = 1 /\ r.holds = {} /\ r.kind = "task"
  BY <1>1, KindGiven
<1>3. Posts(p, new)
  BY DEF PostTask
<1> HIDE DEF r
<1>4. NoRow.status # "doing"
  BY DEF NoRow
<1>5. WellFormed(new) /\ new.table = "object" /\ new.rev = 1 /\ new.kind = "task" /\ new.holds = {}
  BY <1>2, <1>4, NewTaskLaws
<1> HIDE DEF new
<1> QED
  BY <1>3, <1>5, PostsWrites

LEMMA PostNoteWrites ==
    ASSUME IInv, NEW p \in calls, PostNote(p) PROVE \E log : CallWrites(p, log)
<1>0. PICK fields, who : fields = p.call.fields /\ who = p.call.key
  OBVIOUS
<1> DEFINE new == [NewObject(fields, who) EXCEPT !.kind = "note"]
<1>1. /\ DOMAIN fields \subseteq {"kind"} \cup Settable
      /\ fields.cites \in DOMAIN art \cup {None}
  BY <1>0, CallKnown DEF PostNote, Written, CallAssumed, CallChecked
<1>2. /\ WellFormed(new) /\ new.table = "object" /\ new.rev = 1 /\ new.holds = {} /\ new.kind = "note"
      /\ new.cites = IF "cites" \in DOMAIN fields THEN fields.cites ELSE None
  BY <1>1, KindGiven
<1>3. Posts(p, new)
  BY <1>0 DEF PostNote
<1> HIDE DEF new
<1>4. new.cites \in DOMAIN art \cup {None}
  BY <1>1, <1>2
<1> QED
  BY <1>2, <1>3, <1>4, PostsWrites

\* Every transaction of a call is one of those.
Writer(p) ==
    \/ Relink(p) \/ PostObject(p) \/ PostTask(p) \/ PostNote(p) \/ PostConnection(p)
    \/ PatchObject(p) \/ PatchTask(p) \/ PatchNote(p) \/ PatchConnection(p) \/ DropConnection(p)
    \/ PostArtifact(p) \/ PostVisual(p)

LEMMA WriterWrites ==
    ASSUME IInv, NEW p \in calls, Writer(p) PROVE \E log : CallWrites(p, log)
  BY RelinkWrites, PostObjectWrites, PostTaskWrites, PostNoteWrites, PostConnectionWrites,
     PatchObjectWrites, PatchTaskWrites, PatchNoteWrites, PatchConnectionWrites,
     DropConnectionWrites, PostArtifactWrites, PostVisualWrites DEF Writer

-----------------------------------------------------------------------------
(* Steps that write no row                                                 *)

LEMMA NoBatch ==
    ASSUME tx = NoTx PROVE /\ tx.row = << >> /\ tx.art = << >> /\ tx.corr = {} /\ tx.held = {}
  BY DEF NoTx

\* Without a batch its reads are the committed rows.
LEMMA RowsCommitted ==
    ASSUME Admitted(row, art), tx.row = << >>, tx.art = << >>, tx.corr = {}
    PROVE  Rows = row /\ Arts = art /\ Corrections = corr
<1>1. DOMAIN tx.row = {} /\ DOMAIN tx.art = {}
  OBVIOUS
<1>2. row = [x \in DOMAIN row |-> row[x]] /\ art = [x \in DOMAIN art |-> art[x]]
  BY DEF Admitted
<1>3. Rows = row
  BY <1>1, <1>2 DEF Rows, Over
<1>4. Arts = art
  BY <1>1, <1>2 DEF Arts, Over
<1> QED
  BY <1>3, <1>4 DEF Corrections

LEMMA RowsUnchanged ==
    ASSUME UNCHANGED <<row, art, corr, tx>>
    PROVE  Rows' = Rows /\ Arts' = Arts /\ Corrections' = Corrections
  BY DEF Rows, Arts, Corrections

LEMMA CallCheckedAgain ==
    ASSUME UNCHANGED <<work, keys, row, art>>, NEW p, CallChecked(p) PROVE CallChecked(p)'
  BY DEF CallChecked

\* Calls come and go.
LEMMA CallsMove ==
    ASSUME IInv, UNCHANGED <<applyVars, keys>>, \A p \in calls' : p \in calls \/ CallChecked(p)
    PROVE  IInv'
<1>1. /\ UNCHANGED <<row, art, corr, events, fenced, work, waiting, tx, receipts, cutover, keys>>
      /\ Rows' = Rows /\ Arts' = Arts /\ Corrections' = Corrections
  BY RowsUnchanged DEF applyVars, store
<1>2. \A p \in calls' : CallChecked(p)'
  BY <1>1, CallCheckedAgain DEF IInv, BaseInv
<1>3. BaseInv'
  BY <1>1, <1>2 DEF IInv, BaseInv, Requests
<1>4. BatchInv'
  BY <1>1 DEF IInv, BatchInv, BeginsNow
<1>5. JournalInv' /\ ClaimInv' /\ SuccessorInv'
  BY <1>1 DEF IInv, JournalInv, ClaimInv, SuccessorInv
<1>6. OnceInv'
  BY <1>1 DEF IInv, OnceInv, AppliedOnce, UsedRuns
<1>7. GateInv'
  BY <1>1 DEF IInv, GateInv, NamesSeen
<1>8. CheckInv'
  BY <1>1 DEF IInv, CheckInv, Meanwhile, EventsOf, Returned
<1> QED
  BY <1>3, <1>4, <1>5, <1>6, <1>7, <1>8 DEF IInv

\* Batches take their place in the queue or are answered at once.
LEMMA WaitingMoves ==
    ASSUME IInv, UNCHANGED <<store, work, tx, receipts, cutover, calls, keys>>,
           \A w \in waiting' : \/ w \in waiting
                               \/ /\ w.batch \in work.batches /\ w.at = BeginsNow
                                  /\ w.batch.thread \notin fenced /\ NamesSeen(w.batch)
    PROVE  IInv'
<1>1. /\ UNCHANGED <<row, art, corr, events, fenced, work, tx, receipts, cutover, keys, calls>>
      /\ Rows' = Rows /\ Arts' = Arts /\ Corrections' = Corrections
  BY RowsUnchanged DEF store
<1>2. \A p \in calls' : CallChecked(p)'
  BY <1>1, CallCheckedAgain DEF IInv, BaseInv
<1>3. BaseInv'
  BY <1>1, <1>2 DEF IInv, BaseInv, Requests
<1>4. BatchInv'
  <2>1. Len(events) \in Nat
    BY SeqFacts DEF IInv, JournalInv, Recorded
  <2>2. BeginsNow \in Nat /\ BeginsNow <= BeginsNow /\ BeginsNow' = BeginsNow
    BY <1>1, <2>1 DEF BeginsNow
  <2>3. ASSUME NEW w \in waiting' PROVE w.batch \in work.batches /\ w.at \in Nat /\ w.at <= BeginsNow
    BY <2>2 DEF IInv, BatchInv
  <2> QED
    BY <1>1, <2>2, <2>3 DEF IInv, BatchInv
<1>5. JournalInv' /\ ClaimInv' /\ SuccessorInv'
  BY <1>1 DEF IInv, JournalInv, ClaimInv, SuccessorInv
<1>6. OnceInv'
  BY <1>1 DEF IInv, OnceInv, AppliedOnce, UsedRuns
<1>7. GateInv'
  <2>1. ASSUME NEW w \in waiting' PROVE w.batch.thread \notin fenced' /\ NamesSeen(w.batch)'
    <3>1. w.batch.thread \notin fenced /\ NamesSeen(w.batch)
      BY DEF IInv, GateInv
    <3> QED
      BY <1>1, <3>1 DEF NamesSeen
  <2> QED
    BY <1>1, <2>1 DEF IInv, GateInv
<1>8. CheckInv'
  BY <1>1 DEF IInv, CheckInv, Meanwhile, EventsOf, Returned
<1> QED
  BY <1>3, <1>4, <1>5, <1>6, <1>7, <1>8 DEF IInv

\* A batch ends without a trace; a thread is fenced or synthesis takes over between batches.
LEMMA NoBatchNow ==
    ASSUME IInv, tx' = NoTx, UNCHANGED <<row, art, corr, events, work, waiting, receipts, calls, keys>>,
           fenced' \subseteq Threads, cutover' \in BOOLEAN,
           \A w \in waiting : w.batch.thread \notin fenced'
    PROVE  IInv'
<1>1. Admitted(row, art) /\ Corrected(corr, row)
  BY DEF IInv, BaseInv, SuccessorInv
<1>2. Admitted(row, art)' /\ tx'.row = << >> /\ tx'.art = << >> /\ tx'.corr = {}
  BY <1>1, NoBatch DEF NoTx
<1>3. Rows' = row' /\ Arts' = art' /\ Corrections' = corr'
  <2>1. row = [x \in DOMAIN row |-> row[x]] /\ art = [x \in DOMAIN art |-> art[x]]
    BY <1>1 DEF Admitted
  <2>2. DOMAIN tx'.row = {} /\ DOMAIN tx'.art = {}
    BY <1>2
  <2>3. Rows' = row
    BY <2>1, <2>2 DEF Rows, Over
  <2>4. Arts' = art
    BY <2>1, <2>2 DEF Arts, Over
  <2> QED
    BY <1>2, <2>3, <2>4 DEF Corrections
<1>4. \A p \in calls' : CallChecked(p)'
  BY CallCheckedAgain DEF IInv, BaseInv
<1>5. BaseInv'
  BY <1>2, <1>3, <1>4 DEF IInv, BaseInv, Requests
<1>6. BatchInv'
  BY DEF IInv, BatchInv, BeginsNow
<1>7. JournalInv' /\ ClaimInv'
  BY DEF IInv, JournalInv, ClaimInv
<1>8. SuccessorInv'
  BY <1>1, <1>3 DEF IInv, SuccessorInv
<1>9. OnceInv'
  BY DEF IInv, OnceInv, AppliedOnce, UsedRuns
<1>10. GateInv'
  BY DEF IInv, GateInv, NamesSeen
<1>11. CheckInv'
  BY DEF CheckInv
<1> QED
  BY <1>5, <1>6, <1>7, <1>8, <1>9, <1>10, <1>11 DEF IInv

\* A list of no writes.
LEMMA NothingWritten ==
    ASSUME NEW log, log = << >>, NEW a
    PROVE  /\ Accounts(log, a, a) /\ Ons(log) = {} /\ DOMAIN log = {} /\ IsASeq(log)
<1>1. DOMAIN log = {} /\ Len(log) = 0 /\ IsASeq(log)
  BY DEF IsASeq
<1>2. Ons(log) = {}
  BY <1>1 DEF Ons
<1>3. Counted(log) /\ Continues(log) /\ Ends(log, a) /\ Begins(log, a)
  BY <1>1 DEF Counted, Continues, Ends, Begins
<1>4. Untouched(log, a, a)
  BY <1>2 DEF Untouched
<1> QED
  BY <1>1, <1>2, <1>3, <1>4 DEF Accounts, Recorded

\* A batch gets its turn.
Begin(w, held) ==
    /\ tx = NoTx /\ LeavesMemories(w.batch)
    /\ w.batch.dry \/ Receipt(w.batch) \notin DOMAIN receipts
    /\ tx' = [Begun(w.batch, w.at) EXCEPT !.held = held]
    /\ \A op \in Range(w.batch.ops) : op.op = "reassign" => {op.on, op.to} \subseteq held
    /\ waiting' = waiting \ {w}
    /\ UNCHANGED <<row, art, corr, events, fenced, work, receipts, cutover, calls, keys>>

LEMMA BeginKeepsIInv ==
    ASSUME IInv, NEW w \in waiting, NEW held, Begin(w, held) PROVE IInv'
<1> DEFINE b == w.batch
<1>1. /\ tx = NoTx /\ LeavesMemories(b)
      /\ b.dry \/ Receipt(b) \notin DOMAIN receipts
      /\ \A op \in Range(b.ops) : op.op = "reassign" => {op.on, op.to} \subseteq held
      /\ waiting' = waiting \ {w}
      /\ UNCHANGED <<row, art, corr, events, fenced, work, receipts, cutover, calls, keys>>
  BY DEF Begin
<1>2. /\ DOMAIN tx' = TxFields /\ tx'.batch = b /\ tx'.at = w.at /\ tx'.step = 1 /\ tx'.held = held
      /\ tx'.row = << >> /\ tx'.art = << >> /\ tx'.corr = {} /\ tx'.log = << >>
  <2>1. tx' = [Begun(b, w.at) EXCEPT !.held = held]
    BY DEF Begin
  <2> QED
    BY <2>1 DEF Begun, TxFields
<1>3. Admitted(row, art) /\ Corrected(corr, row) /\ Recorded(events, row)
  BY DEF IInv, BaseInv, SuccessorInv, JournalInv
<1>4. Rows' = row /\ Arts' = art /\ Corrections' = corr /\ DOMAIN tx'.row = {} /\ DOMAIN tx'.art = {}
  <2>1. row = [x \in DOMAIN row |-> row[x]] /\ art = [x \in DOMAIN art |-> art[x]]
    BY <1>3 DEF Admitted
  <2>2. DOMAIN tx'.row = {} /\ DOMAIN tx'.art = {}
    BY <1>2
  <2>3. Rows' = row
    BY <1>1, <2>1, <2>2 DEF Rows, Over
  <2>4. Arts' = art
    BY <1>1, <2>1, <2>2 DEF Arts, Over
  <2> QED
    BY <1>1, <1>2, <2>2, <2>3, <2>4 DEF Corrections
<1>5. /\ b \in work.batches /\ w.at \in Nat /\ w.at <= BeginsNow /\ b.thread \notin fenced /\ NamesSeen(b)
  BY DEF IInv, BatchInv, GateInv
<1>6. Accounts(tx'.log, row, row) /\ Ons(tx'.log) = {} /\ DOMAIN tx'.log = {}
  BY <1>2, NothingWritten
<1>7. \A p \in calls' : CallChecked(p)'
  BY <1>1, CallCheckedAgain DEF IInv, BaseInv
<1>8. BaseInv'
  BY <1>1, <1>3, <1>4, <1>7 DEF IInv, BaseInv, Requests
<1>9. BatchInv'
  BY <1>1, <1>2, <1>4, <1>5, <1>6 DEF IInv, BatchInv, BeginsNow
<1>10. JournalInv'
  BY <1>1, <1>3, <1>4, <1>6 DEF JournalInv
<1>11. ClaimInv'
  BY <1>4 DEF ClaimInv
<1>12. SuccessorInv'
  BY <1>1, <1>3, <1>4 DEF IInv, SuccessorInv
<1>13. OnceInv'
  BY <1>1, <1>2 DEF IInv, OnceInv, AppliedOnce, UsedRuns
<1>14. GateInv'
  <2>1. \A v \in waiting' : v.batch.thread \notin fenced' /\ NamesSeen(v.batch)'
    BY <1>1 DEF IInv, GateInv, NamesSeen
  <2>2. ASSUME cutover, ByAgent(b), NEW op \in Range(b.ops)
        PROVE  /\ ~(op.op = "create_object" /\ op.fields.kind = "memory")
               /\ op.op \in MemoryOps => op.on \notin OfKind(row, "memory")
                                         /\ (op.on \in DOMAIN row \/ Makes(b, op.on))
    BY <1>1, <1>5, <2>2 DEF LeavesMemories, ByAgent, NamesSeen
  <2>3. \A m \in OfKind(row, "memory") : m \in DOMAIN row
    BY DEF OfKind, OfTable
  <2> QED
    BY <1>1, <1>2, <1>4, <1>5, <2>1, <2>2, <2>3 DEF GateInv
<1>15. CheckInv'
  BY <1>1, <1>4 DEF CheckInv
<1> QED
  BY <1>8, <1>9, <1>10, <1>11, <1>12, <1>13, <1>14, <1>15 DEF IInv

LEMMA StartKeepsIInv ==
    ASSUME IInv, NEW w \in waiting, Start(w), UNCHANGED <<calls, keys>> PROVE IInv'
<1> DEFINE held == UNION {{op.on, op.to} : op \in {o \in Range(w.batch.ops) : o.op = "reassign"}}
<1>1. UNCHANGED <<store, work, receipts, cutover>> /\ waiting' = waiting \ {w} /\ tx = NoTx
  BY DEF Start
<1>2. CASE tx' = tx
  BY <1>1, <1>2, WaitingMoves
<1>3. CASE tx' # tx
  <2>1. /\ LeavesMemories(w.batch)
        /\ w.batch.dry \/ Receipt(w.batch) \notin DOMAIN receipts
        /\ tx' = [Begun(w.batch, w.at) EXCEPT !.held = held]
    BY <1>3 DEF Start
  <2>2. \A op \in Range(w.batch.ops) : op.op = "reassign" => {op.on, op.to} \subseteq held
    OBVIOUS
  <2> HIDE DEF held
  <2>3. Begin(w, held)
    BY <1>1, <2>1, <2>2 DEF Begin, store
  <2> QED
    BY <2>3, BeginKeepsIInv
<1> QED
  BY <1>2, <1>3

\* A batch commits its rows, its journal and its receipt together.
LEMMA CommitFacts ==
    ASSUME IInv, Commit, UNCHANGED <<calls, keys>>
    PROVE  /\ tx # NoTx /\ BatchAssumed(tx.batch) /\ tx.batch.dry = FALSE
           /\ row' = Rows /\ art' = Arts /\ corr' = Corrections /\ events' = events \o tx.log
           /\ Rows' = row' /\ Arts' = art' /\ Corrections' = corr'
           /\ Admitted(row', art') /\ tx' = NoTx /\ UNCHANGED <<fenced, work, waiting, cutover>>
           /\ IsASeq(events) /\ IsASeq(tx.log) /\ Accounts(tx.log, row, row')
           /\ DOMAIN row \subseteq DOMAIN row' /\ Ons(tx.log) \subseteq DOMAIN row'
           /\ \A id \in DOMAIN row : SameThing(row[id], row'[id])
<1>1. /\ tx # NoTx /\ ~tx.batch.dry /\ tx' = NoTx /\ UNCHANGED <<fenced, work, waiting, cutover>>
      /\ row' = Rows /\ art' = Arts /\ corr' = Corrections /\ events' = events \o tx.log
  BY DEF Commit, Finished
<1>2. /\ BatchAssumed(tx.batch) /\ Admitted(Rows, Arts) /\ Accounts(tx.log, row, Rows)
      /\ IsASeq(tx.log)
  BY <1>1, TxFacts DEF IInv
<1>3. tx.batch.dry = FALSE
  BY <1>1, <1>2 DEF BatchAssumed
<1>4. Rows' = row' /\ Arts' = art' /\ Corrections' = corr'
  <2>1. Rows = [x \in DOMAIN Rows |-> Rows[x]] /\ Arts = [x \in DOMAIN Arts |-> Arts[x]]
    BY <1>2 DEF Admitted
  <2>2. row' = [x \in DOMAIN row' |-> row'[x]] /\ art' = [x \in DOMAIN art' |-> art'[x]]
    BY <1>1, <2>1
  <2>3. DOMAIN tx'.row = {} /\ DOMAIN tx'.art = {} /\ tx'.corr = {}
    BY <1>1 DEF NoTx
  <2>4. Rows' = row'
    BY <2>2, <2>3 DEF Rows, Over
  <2>5. Arts' = art'
    BY <2>2, <2>3 DEF Arts, Over
  <2> QED
    BY <2>3, <2>4, <2>5 DEF Corrections
<1>5. DOMAIN row \subseteq DOMAIN row' /\ Ons(tx.log) \subseteq DOMAIN row'
  BY <1>1 DEF Rows, Over, IInv, BatchInv
<1>6. \A id \in DOMAIN row : SameThing(row[id], row'[id])
  BY <1>1 DEF Rows, Over, IInv, BatchInv, SameThing
<1>7. IsASeq(events)
  BY DEF IInv, JournalInv, Recorded
<1> QED
  BY <1>1, <1>2, <1>3, <1>4, <1>5, <1>6, <1>7

LEMMA CommitBase ==
    ASSUME IInv, Commit, UNCHANGED <<calls, keys>> PROVE BaseInv'
<1>1. /\ Admitted(row', art') /\ Rows' = row' /\ Arts' = art' /\ art' = Arts
      /\ UNCHANGED <<fenced, work, waiting, cutover>> /\ tx.batch.dry = FALSE
      /\ events' = events \o tx.log /\ IsASeq(events) /\ IsASeq(tx.log)
      /\ DOMAIN row \subseteq DOMAIN row' /\ Ons(tx.log) \subseteq DOMAIN row'
      /\ \A id \in DOMAIN row : SameThing(row[id], row'[id])
  BY CommitFacts
<1>2. \A i \in DOMAIN events' : events'[i].on \in DOMAIN row'
  <2>1. Ons(events') = Ons(events) \cup Ons(tx.log)
    BY <1>1, OnsOfBoth
  <2>2. Ons(events) \subseteq DOMAIN row
    BY DEF IInv, BaseInv, Ons
  <2> QED
    BY <1>1, <2>1, <2>2 DEF Ons
<1>3. \A k \in DOMAIN receipts' : receipts'[k].dry = FALSE
  <2>1. receipts' = Over(At(Receipt(tx.batch), tx.batch), receipts)
    BY DEF Commit
  <2> QED
    BY <1>1, <2>1 DEF Over, At, IInv, BaseInv
<1>4. /\ OfTable(row, "object") \subseteq OfTable(row', "object")
      /\ OfKind(row, "task") \subseteq OfKind(row', "task")
  BY <1>1 DEF OfTable, OfKind, SameThing
<1>5. DOMAIN art \subseteq DOMAIN art'
  BY <1>1 DEF Arts, Over
<1>6. \A p \in calls' : CallChecked(p)'
  BY <1>1, <1>4, <1>5 DEF IInv, BaseInv, CallChecked
<1> QED
  BY <1>1, <1>2, <1>3, <1>6 DEF IInv, BaseInv, Requests

\* The run of a batch is no run committed so far.
LEMMA CommitOnce ==
    ASSUME IInv, Commit, UNCHANGED <<calls, keys>> PROVE OnceInv'
<1> DEFINE b == tx.batch
           t == tx.log
<1>1. /\ tx # NoTx /\ b.dry = FALSE /\ events' = events \o t /\ IsASeq(events) /\ IsASeq(t)
      /\ tx' = NoTx
  BY CommitFacts
<1>2. receipts' = Over(At(Receipt(b), b), receipts) /\ keys' = keys
  BY DEF Commit
<1>3. Receipt(b) \notin DOMAIN receipts
  BY <1>1 DEF IInv, OnceInv
<1>4. Run(b) \notin UsedRuns
  <2>1. ASSUME NEW k \in DOMAIN receipts PROVE <<"context_apply", k[1], k[2]>> # Run(b)
    <3>1. k = <<receipts[k].who, receipts[k].key>>
      BY DEF IInv, OnceInv, Receipt
    <3> QED
      BY <1>3, <3>1 DEF Run, Receipt
  <2>2. ASSUME NEW k \in DOMAIN keys PROVE k # Run(b)
    BY DEF IInv, OnceInv, Run
  <2> QED
    BY <2>1, <2>2 DEF UsedRuns
<1>5. DOMAIN receipts' = DOMAIN receipts \cup {Receipt(b)}
      /\ \A k \in DOMAIN receipts' : k = Receipt(receipts'[k])
  BY <1>2 DEF Over, At, IInv, OnceInv
<1>6. UsedRuns \subseteq UsedRuns' /\ Run(b) \in UsedRuns'
  <2>1. Receipt(b)[1] = b.who /\ Receipt(b)[2] = b.key
    BY DEF Receipt
  <2> QED
    BY <1>2, <1>5, <2>1 DEF UsedRuns, Run
<1>7. \A i \in DOMAIN t : t[i].run = Run(b) /\ t[i].at = tx.at
  BY <1>1 DEF IInv, BatchInv, Tagged
<1> HIDE DEF b, t
<1>8. AppliedOnce'
  <2>1. Together(events)
    BY DEF IInv, OnceInv, AppliedOnce, Together
  <2>2. \A i \in DOMAIN events : events[i].run # Run(b)
    BY <1>4 DEF IInv, OnceInv
  <2>3. PICK run, at : run = Run(b) /\ at = tx.at
    OBVIOUS
  <2>4. \A i \in DOMAIN events : events[i].run # run
    BY <2>2, <2>3
  <2>5. OfRun(t, run, at)
    BY <1>7, <2>3 DEF OfRun
  <2>6. IsASeq(events) /\ IsASeq(t)
    BY <1>1
  <2>7. Together(events \o t)
    BY ONLY <2>1, <2>4, <2>5, <2>6, OnceMore
  <2> QED
    BY <1>1, <2>7 DEF AppliedOnce, Together
<1>9. \A i \in DOMAIN events' : events'[i].run \in UsedRuns'
  <2>1. /\ Len(events) \in Nat /\ Len(t) \in Nat /\ DOMAIN events = 1..Len(events)
        /\ DOMAIN t = 1..Len(t) /\ DOMAIN events' = 1..(Len(events) + Len(t))
    BY <1>1, SeqFacts, Concat
  <2>2. ASSUME NEW i \in 1..(Len(events) + Len(t))
        PROVE  \/ i \in DOMAIN events /\ events'[i] = events[i]
               \/ i - Len(events) \in DOMAIN t /\ events'[i] = t[i - Len(events)]
    <3>1. i \in 1..Len(events) \/ i \in (Len(events) + 1)..(Len(events) + Len(t))
      BY <2>1
    <3> QED
      BY <1>1, <2>1, <3>1, Concat
  <2> QED
    BY <1>6, <1>7, <2>1, <2>2 DEF IInv, OnceInv
<1> QED
  BY <1>1, <1>2, <1>5, <1>8, <1>9 DEF IInv, OnceInv

LEMMA CommitKeepsIInv ==
    ASSUME IInv, Commit, UNCHANGED <<calls, keys>> PROVE IInv'
<1>1. /\ tx # NoTx /\ row' = Rows /\ art' = Arts /\ corr' = Corrections /\ events' = events \o tx.log
      /\ Rows' = row' /\ Arts' = art' /\ Corrections' = corr'
      /\ tx' = NoTx /\ UNCHANGED <<fenced, work, waiting, cutover>>
      /\ IsASeq(events) /\ IsASeq(tx.log) /\ Accounts(tx.log, row, row')
      /\ DOMAIN row \subseteq DOMAIN row'
  BY CommitFacts
<1>2. BaseInv' /\ OnceInv'
  BY CommitBase, CommitOnce
<1>3. BatchInv'
  <2>1. \A n \in Nat : n <= BeginsNow => n <= BeginsNow'
    BY <1>1, LaterNow DEF BeginsNow
  <2> QED
    BY <1>1, <2>1 DEF IInv, BatchInv
<1>4. JournalInv'
  BY <1>1, RecordedOn DEF IInv, JournalInv
<1>5. GateInv'
  BY <1>1 DEF IInv, GateInv, NamesSeen
<1>6. ClaimInv' /\ CheckInv'
  BY <1>1 DEF ClaimInv, CheckInv
<1>7. SuccessorInv'
  <2>1. VisualsApart(art')
    <3>1. /\ art' = Over(tx.art, art) /\ VisualsApart(art) /\ DOMAIN tx.art \cap DOMAIN art = {}
          /\ \A a \in DOMAIN tx.art : tx.art[a].document = None
      BY <1>1 DEF IInv, SuccessorInv, Arts
    <3>2. /\ DOMAIN art' = DOMAIN tx.art \cup DOMAIN art
          /\ \A a \in DOMAIN tx.art : art'[a] = tx.art[a]
          /\ \A a \in DOMAIN art : art'[a] = art[a]
      BY <3>1 DEF Over
    <3> QED
      BY <3>1, <3>2 DEF VisualsApart
  <2>2. Corrected(corr', row')
    BY <1>1 DEF IInv, SuccessorInv
  <2> QED
    BY <1>1, <2>1, <2>2 DEF SuccessorInv
<1> QED
  BY <1>2, <1>3, <1>4, <1>5, <1>6, <1>7 DEF IInv

-----------------------------------------------------------------------------
(* The invariant                                                           *)

\* What a call finds out holds until its transaction.
LEMMA CallFindsOut ==
    ASSUME IInv, NEW c \in work.calls, Call(c), NEW p \in calls' \ calls PROVE CallChecked(p)
<1>1. CallAssumed(c) /\ Admitted(row, art) /\ Reads(c)
  BY DEF IInv, BaseInv, Requests, Call
<1>2. CASE KeyOf(c) \notin DOMAIN keys
  <2>1. /\ p.call = c /\ p.path = "write" /\ p.missing = {}
        /\ p.seen = IF c.on \in DOMAIN row THEN row[c.on] ELSE NoRow
    BY <1>2 DEF Call
  <2>2. IsFiniteSet(p.missing)
    BY <2>1, FS_EmptySet
  <2>3. ASSUME c.op \in {"update_object", "update_note"}
        PROVE  c.on \in OfTable(row, "object") /\ p.seen.live \in BOOLEAN
    <3>1. c.on \in OfTable(row, "object")
      BY <1>1, <2>3 DEF Reads
    <3>2. c.on \in DOMAIN row /\ WellFormed(row[c.on])
      BY <1>1, <3>1 DEF Admitted, OfTable
    <3> QED
      BY <2>1, <3>1, <3>2 DEF WellFormed
  <2>4. ASSUME c.op = "update_task" PROVE c.on \in OfKind(row, "task")
    BY <1>1, <2>4 DEF Reads
  <2>5. ASSUME c.op = "create_note" PROVE c.fields.cites \in DOMAIN art \cup {None}
    BY <1>1, <2>5 DEF Reads, LinksAllowed
  <2> QED
    BY <2>1, <2>2, <2>3, <2>4, <2>5 DEF CallChecked
<1>3. CASE KeyOf(c) \in DOMAIN keys
  <2>1. /\ p.call = c /\ p.path = "links" /\ p.missing = {l \in c.links : LinkMissing(l)}
    BY <1>3 DEF Call
  <2>2. IsFiniteSet(p.missing)
    BY <1>1, <2>1, FS_Subset DEF CallAssumed
  <2> QED
    BY <1>3, <2>1, <2>2 DEF CallChecked
<1> QED
  BY <1>2, <1>3

LEMMA InitIInv == Init => IInv
<1> SUFFICES ASSUME Init PROVE IInv
  OBVIOUS
<1>1. PICK s \in Scenarios : /\ row = s.rows /\ art = s.arts
                             /\ work = [batches |-> s.batches, calls |-> s.calls]
  BY DEF Init
<1>2. /\ corr = {} /\ events = << >> /\ fenced = {} /\ waiting = {} /\ tx = NoTx
      /\ receipts = << >> /\ cutover = FALSE /\ calls = {} /\ keys = << >>
  BY DEF Init
<1>3. Admitted(row, art) /\ VisualsApart(art) /\ Requests
  BY <1>1, ScenariosAssumption DEF ScenariosAssumption, Requests
<1>4. Rows = row /\ Arts = art /\ Corrections = corr
  BY <1>2, <1>3, NoBatch, RowsCommitted
<1>5. Recorded(events, row) /\ DOMAIN events = {}
  BY <1>2, NothingWritten DEF Accounts
<1>6. DOMAIN receipts = {} /\ DOMAIN keys = {}
  BY <1>2
<1>7. BaseInv
  BY <1>2, <1>3, <1>4, <1>5, <1>6 DEF BaseInv
<1>8. BatchInv /\ JournalInv /\ ClaimInv /\ GateInv /\ CheckInv
  BY <1>2, <1>5 DEF BatchInv, JournalInv, ClaimInv, GateInv, CheckInv
<1>9. OnceInv
  BY <1>2, <1>5, <1>6 DEF OnceInv, AppliedOnce
<1>10. SuccessorInv
  BY <1>2, <1>3, <1>4 DEF SuccessorInv, Corrected
<1> QED
  BY <1>7, <1>8, <1>9, <1>10 DEF IInv

LEMMA ApplyKeepsIInv == ASSUME IInv, Apply, UNCHANGED <<calls, keys>> PROVE IInv'
<1>1. CASE \E b \in work.batches : Submit(b)
  BY <1>1, WaitingMoves DEF Submit
<1>2. CASE \E w \in waiting : Start(w)
  BY <1>2, StartKeepsIInv
<1>3. CASE OneOperation
  BY <1>3, OperationKeepsIInv
<1>4. CASE Commit
  BY <1>4, CommitKeepsIInv
<1>5. CASE Refuse \/ Crash \/ ValidateOnly
  <2>1. tx' = NoTx /\ UNCHANGED <<store, work, waiting, receipts, cutover>> /\ tx # NoTx
    BY <1>5 DEF Refuse, Crash, ValidateOnly, Running, Finished
  <2>2. /\ fenced' \subseteq Threads /\ cutover' \in BOOLEAN
        /\ \A w \in waiting : w.batch.thread \notin fenced'
    BY <2>1 DEF IInv, BaseInv, GateInv, store
  <2> QED
    BY <2>1, <2>2, NoBatchNow DEF store
<1>6. CASE \E t \in Threads : FenceThread(t)
  <2>1. PICK t \in Threads : FenceThread(t)
    BY <1>6
  <2>2. /\ tx' = NoTx /\ UNCHANGED <<row, art, corr, events, work, waiting, receipts, cutover>>
        /\ fenced' = fenced \cup {t} /\ waiting = {}
    BY <2>1 DEF FenceThread, Fence
  <2>3. fenced' \subseteq Threads /\ cutover' \in BOOLEAN
    BY <2>2 DEF IInv, BaseInv
  <2> QED
    BY <2>2, <2>3, NoBatchNow
<1>7. CASE CutOver
  <2>1. /\ tx' = NoTx /\ UNCHANGED <<store, work, waiting, receipts>> /\ cutover' = TRUE
    BY <1>7 DEF CutOver
  <2>2. /\ fenced' \subseteq Threads /\ cutover' \in BOOLEAN
        /\ \A w \in waiting : w.batch.thread \notin fenced'
    BY <2>1 DEF IInv, BaseInv, GateInv, store
  <2> QED
    BY <2>1, <2>2, NoBatchNow DEF store
<1> QED
  BY <1>1, <1>2, <1>3, <1>4, <1>5, <1>6, <1>7 DEF Apply

LEMMA NextKeepsIInv == IInv /\ [Next]_vars => IInv'
<1> SUFFICES ASSUME IInv, [Next]_vars PROVE IInv'
  OBVIOUS
<1>1. CASE Apply /\ UNCHANGED <<calls, keys>>
  BY <1>1, ApplyKeepsIInv
<1>2. CASE \E c \in work.calls : Call(c)
  <2>1. PICK c \in work.calls : Call(c)
    BY <1>2
  <2>2. UNCHANGED <<applyVars, keys>>
    BY <2>1 DEF Call
  <2>3. \A p \in calls' : p \in calls \/ CallChecked(p)
    BY <2>1, CallFindsOut
  <2> QED
    BY <2>2, <2>3, CallsMove
<1>3. CASE \E p \in calls : Fail(p)
  BY <1>3, CallsMove DEF Fail
<1>4. CASE \E p \in calls : Writer(p)
  <2>1. PICK p \in calls : \E log : CallWrites(p, log)
    BY <1>4, WriterWrites
  <2> QED
    BY <2>1, CallKeepsIInv
<1>5. CASE UNCHANGED vars
  <2>1. UNCHANGED <<applyVars, keys>> /\ calls' = calls
    BY <1>5 DEF vars
  <2> QED
    BY <2>1, CallsMove
<1> QED
  BY <1>1, <1>2, <1>3, <1>4, <1>5 DEF Next, Writers, Writer

\* The inductive invariant holds of every history.
THEOREM InvariantHolds == Spec => []IInv
<1>1. Init => IInv
  BY InitIInv
<1>2. IInv /\ [Next]_vars => IInv'
  BY NextKeepsIInv
<1> QED
  BY <1>1, <1>2, PTL DEF Spec

\* A step writes nothing, commits a batch or is the transaction of a call.
LEMMA WhoWrites ==
    ASSUME IInv, [Next]_vars
    PROVE  \/ UNCHANGED <<row, events, receipts>>
           \/ Commit /\ UNCHANGED <<calls, keys>>
           \/ \E p \in calls : \E log : CallWrites(p, log)
<1>1. CASE OneOperation /\ UNCHANGED <<calls, keys>>
  <2>1. Ready
    BY <1>1 DEF IInv, Ready
  <2>2. OpResult
    BY <1>1, <2>1, OneResult
  <2> QED
    BY <2>2 DEF OpResult, OpWrites, others, store
<1>2. CASE Apply /\ ~OneOperation /\ UNCHANGED <<calls, keys>>
  BY <1>2 DEF Apply, Submit, Start, Refuse, Crash, ValidateOnly, FenceThread, Fence, CutOver, store
<1>3. CASE \/ \E c \in work.calls : Call(c)
           \/ \E p \in calls : Fail(p)
           \/ UNCHANGED vars
  BY <1>3 DEF Call, Fail, vars, applyVars, store
<1>4. CASE \E p \in calls : Writer(p)
  BY <1>4, WriterWrites
<1> QED
  BY <1>1, <1>2, <1>3, <1>4 DEF Next, Writers, Writer

\* The Events a step adds are those of its transaction.
LEMMA NewEvents ==
    ASSUME NEW s, NEW t, IsASeq(s), IsASeq(t), NEW i \in DOMAIN (s \o t) \ DOMAIN s
    PROVE  \E j \in DOMAIN t : (s \o t)[i] = t[j]
<1>1. /\ Len(s) \in Nat /\ Len(t) \in Nat /\ DOMAIN s = 1..Len(s)
      /\ DOMAIN t = 1..Len(t) /\ DOMAIN (s \o t) = 1..(Len(s) + Len(t))
  BY SeqFacts, Concat
<1>2. i \in (Len(s) + 1)..(Len(s) + Len(t)) /\ i - Len(s) \in 1..Len(t)
  BY <1>1
<1> QED
  BY <1>1, <1>2, Concat

LEMMA EventsAdded ==
    ASSUME NEW s, NEW t, IsASeq(s), IsASeq(t), NEW j \in DOMAIN t
    PROVE  \E i \in DOMAIN (s \o t) \ DOMAIN s : (s \o t)[i] = t[j]
<1>1. /\ Len(s) \in Nat /\ Len(t) \in Nat /\ DOMAIN s = 1..Len(s)
      /\ DOMAIN t = 1..Len(t) /\ DOMAIN (s \o t) = 1..(Len(s) + Len(t))
  BY SeqFacts, Concat
<1>2. Len(s) + j \in 1..(Len(s) + Len(t)) /\ Len(s) + j \notin 1..Len(s) /\ j \in 1..Len(t)
  BY <1>1
<1>3. (s \o t)[Len(s) + j] = t[j]
  BY <1>2, Concat
<1> QED
  BY <1>1, <1>2, <1>3

-----------------------------------------------------------------------------
(* Theorems                                                                *)

\* Every committed state of the store is sound: rows are what their tables admit, the
\* batch in progress changes only rows it holds, an imported identity has one holder,
\* and neither corrections nor visuals fork, whatever rows, requests, threads and actors
\* there are.
THEOREM TheStoreIsSound == Spec => []StoreIsSound
<1>1. IInv => StoreIsSound
  <2> SUFFICES ASSUME IInv PROVE StoreIsSound
    OBVIOUS
  <2>1. TypeOK
    BY DEF IInv, BaseInv, BatchInv, TypeOK
  <2>2. CorrectionsFormAChain
    BY DEF IInv, SuccessorInv, Corrected, CorrectionsFormAChain
  <2> QED
    BY <2>1, <2>2 DEF IInv, SuccessorInv, StoreIsSound
<1> QED
  BY <1>1, InvariantHolds, PTL

\* However often a request is repeated, raced with itself or cut off, its Events are
\* those of one transaction, next to each other in the journal.
THEOREM RequestsApplyOnce == Spec => []AppliedOnce
<1>1. IInv => AppliedOnce
  BY DEF IInv, OnceInv
<1> QED
  BY <1>1, InvariantHolds, PTL

\* The last of some Events.
LEMMA LatestLaws ==
    ASSUME NEW log, IsASeq(log), NEW S, S \in SUBSET DOMAIN log, S # {}
    PROVE  Latest(S) \in S /\ \A j \in S : j <= Latest(S)
<1>1. DOMAIN log = 1..Len(log) /\ Len(log) \in Nat
  BY SeqFacts
<1>2. S \in SUBSET Nat /\ \A m \in S : m <= Len(log)
  BY <1>1
<1>3. \E n \in S : \A m \in S : m <= n
  BY <1>1, <1>2, GreatestNumber
<1> QED
  BY <1>3 DEF Latest

\* No update is lost: the journal leads from Event to Event of a row, and from the last
\* one to the row itself.
THEOREM HistoryIsExplained == Spec => []HistoryExplainsRows
<1>1. IInv => HistoryExplainsRows
  <2> SUFFICES ASSUME IInv PROVE HistoryExplainsRows
    OBVIOUS
  <2>1. /\ IsASeq(events) /\ Counted(events) /\ Continues(events) /\ Ends(events, row)
        /\ DOMAIN events = 1..Len(events) /\ Len(events) \in Nat
    BY SeqFacts DEF IInv, JournalInv, Recorded
  <2>2. ASSUME NEW i \in DOMAIN events, Earlier(i) # {}
        PROVE  Explains(events[i], events[Latest(Earlier(i))].after)
    <3> DEFINE l == Latest(Earlier(i))
    <3>1. Earlier(i) \in SUBSET DOMAIN events
      BY DEF Earlier, EventsOf
    <3>2. l \in Earlier(i) /\ \A j \in Earlier(i) : j <= l
      BY <2>1, <2>2, <3>1, LatestLaws
    <3> HIDE DEF l
    <3>3. l \in DOMAIN events /\ events[l].on = events[i].on /\ l < i
      BY <3>2 DEF Earlier, EventsOf
    <3>4. l \in 1..(i - 1)
      BY <2>1, <3>3
    <3>5. ASSUME NEW k \in (l + 1)..(i - 1) PROVE events[k].on # events[i].on
      <4>1. k \in DOMAIN events /\ k < i /\ ~(k <= l)
        BY <2>1, <3>3
      <4> QED
        BY <3>2, <4>1 DEF Earlier, EventsOf
    <3>6. Explains(events[i], events[l].after)
      BY <2>1, <3>3, <3>4, <3>5 DEF Continues
    <3> QED
      BY <3>6 DEF l
  <2>3. ASSUME NEW id \in DOMAIN row, EventsOf(id) # {}
        PROVE  row[id] = events[Latest(EventsOf(id))].after
    <3> DEFINE l == Latest(EventsOf(id))
    <3>1. EventsOf(id) \in SUBSET DOMAIN events
      BY DEF EventsOf
    <3>2. l \in EventsOf(id) /\ \A j \in EventsOf(id) : j <= l
      BY <2>1, <2>3, <3>1, LatestLaws
    <3> HIDE DEF l
    <3>3. l \in DOMAIN events /\ events[l].on = id
      BY <3>2 DEF EventsOf
    <3>4. ASSUME NEW k \in (l + 1)..Len(events) PROVE events[k].on # events[l].on
      <4>1. k \in DOMAIN events /\ ~(k <= l)
        BY <2>1, <3>3
      <4> QED
        BY <3>2, <3>3, <4>1 DEF EventsOf
    <3>5. row[id] = events[l].after
      BY <2>1, <3>3, <3>4 DEF Ends
    <3> QED
      BY <3>5 DEF l
  <2> QED
    BY <2>1, <2>2, <2>3 DEF HistoryExplainsRows, Counted, Explains
<1> QED
  BY <1>1, InvariantHolds, PTL

LEMMA OnlyCommitAnswers ==
    ASSUME IInv, [Next]_vars, BatchCommits PROVE Commit /\ UNCHANGED <<calls, keys>>
<1>1. ASSUME NEW p \in calls, NEW log, CallWrites(p, log) PROVE FALSE
  BY <1>1 DEF CallWrites, besides, BatchCommits
<1> QED
  BY <1>1, WhoWrites DEF BatchCommits

\* What a batch has checked of rows it did not lock holds when it commits: no active
\* Connection to an Object it archives, no excerpt that begins to derive from a Source it
\* does not cite, no category archived under an active Entity.
THEOREM ChecksHoldWhenBatchesCommit == Spec => ChecksHoldAtCommit
<1>1. ASSUME IInv, [Next]_vars, BatchCommits
      PROVE  tx # NoTx /\ row' = Rows /\ art' = Arts /\ CheckInv
  BY <1>1, OnlyCommitAnswers, CommitFacts DEF IInv
<1>2. IInv /\ [Next]_vars =>
        [BatchCommits => \A id \in DOMAIN tx.row \cap OfTable(row, "object") :
            row[id].live /\ ~row'[id].live => LinksOf(row', id) = {}]_vars
  <2> SUFFICES ASSUME IInv, [Next]_vars, BatchCommits
               PROVE  \A id \in DOMAIN tx.row \cap OfTable(row, "object") :
                          row[id].live /\ ~row'[id].live => LinksOf(row', id) = {}
    OBVIOUS
  <2> QED
    BY <1>1 DEF CheckInv
<1>3. IInv /\ [Next]_vars =>
        [BatchCommits => \A c \in ActiveLinks(row') : Miscited(row', art', c) =>
            (c \in ActiveLinks(row) /\ Miscited(row, art, c)) \/ Meanwhile(c) # {}]_vars
  <2> SUFFICES ASSUME IInv, [Next]_vars, BatchCommits
               PROVE  \A c \in ActiveLinks(row') : Miscited(row', art', c) =>
                          (c \in ActiveLinks(row) /\ Miscited(row, art, c)) \/ Meanwhile(c) # {}
    OBVIOUS
  <2> QED
    BY <1>1 DEF CheckInv
<1>4. IInv /\ [Next]_vars =>
        [BatchCommits => \A id \in DOMAIN tx.row \cap OfTable(row, "category") :
            row[id].live /\ ~row'[id].live =>
                \A o \in OfKind(row', "entity") :
                    row'[o].live /\ id \in row'[o].cats => Returned(o)]_vars
  <2> SUFFICES ASSUME IInv, [Next]_vars, BatchCommits
               PROVE  \A id \in DOMAIN tx.row \cap OfTable(row, "category") :
                          row[id].live /\ ~row'[id].live =>
                              \A o \in OfKind(row', "entity") :
                                  row'[o].live /\ id \in row'[o].cats => Returned(o)
    OBVIOUS
  <2> QED
    BY <1>1 DEF CheckInv
<1>5. Spec => BatchNeverStrandsAConnection
  BY <1>2, InvariantHolds, PTL DEF Spec, BatchNeverStrandsAConnection
<1>6. Spec => BatchNeverMiscites
  BY <1>3, InvariantHolds, PTL DEF Spec, BatchNeverMiscites
<1>7. Spec => BatchNeverStrandsACategory
  BY <1>4, InvariantHolds, PTL DEF Spec, BatchNeverStrandsACategory
<1> QED
  BY <1>5, <1>6, <1>7 DEF ChecksHoldAtCommit

\* A fenced thread writes nothing any more, and no agent's batch creates, archives or
\* restores a Memory once synthesis owns them, however long before it was begun.
THEOREM GatesHoldForBatches == Spec => GatesHold
<1>1. IInv /\ [Next]_vars =>
        [\A i \in DOMAIN events' \ DOMAIN events : events'[i].thread \notin fenced]_vars
  <2> SUFFICES ASSUME IInv, [Next]_vars, NEW i \in DOMAIN events' \ DOMAIN events
               PROVE  events'[i].thread \notin fenced
    OBVIOUS
  <2>1. CASE UNCHANGED <<row, events, receipts>>
    BY <2>1
  <2>2. CASE Commit /\ UNCHANGED <<calls, keys>>
    <3>1. tx # NoTx /\ events' = events \o tx.log /\ IsASeq(events) /\ IsASeq(tx.log)
      BY <2>2, CommitFacts
    <3>2. \A j \in DOMAIN tx.log : tx.log[j].thread \notin fenced
      BY <3>1 DEF IInv, BatchInv, GateInv, Tagged
    <3> QED
      BY <3>1, <3>2, NewEvents
  <2>3. ASSUME NEW p \in calls, NEW log, CallWrites(p, log) PROVE events'[i].thread \notin fenced
    <3>1. events' = events \o log /\ IsASeq(events) /\ IsASeq(log)
      BY <2>3, CallFacts DEF CallWrites
    <3>2. \A j \in DOMAIN log : log[j].thread \notin fenced
      BY <2>3 DEF CallWrites, Beside
    <3> QED
      BY <3>1, <3>2, NewEvents
  <2> QED
    BY <2>1, <2>2, <2>3, WhoWrites
<1>2. IInv /\ [Next]_vars =>
        [BatchCommits /\ cutover /\ tx.batch.who \notin Humans /\ ~tx.batch.maint =>
            \A m \in OfKind(row', "memory") : m \in DOMAIN row /\ row'[m].live = row[m].live]_vars
  <2> SUFFICES ASSUME IInv, [Next]_vars, BatchCommits, cutover, tx.batch.who \notin Humans,
                      ~tx.batch.maint
               PROVE  \A m \in OfKind(row', "memory") :
                          m \in DOMAIN row /\ row'[m].live = row[m].live
    OBVIOUS
  <2>1. tx # NoTx /\ row' = Rows
    BY OnlyCommitAnswers, CommitFacts
  <2> QED
    BY <2>1 DEF IInv, GateInv, ByAgent
<1>3. Spec => FencedThreadIsSilent
  BY <1>1, InvariantHolds, PTL DEF Spec, FencedThreadIsSilent
<1>4. Spec => SynthesisOwnsMemories
  BY <1>2, InvariantHolds, PTL DEF Spec, SynthesisOwnsMemories
<1> QED
  BY <1>3, <1>4 DEF GatesHold

\* A Task somebody executes changes hands or ends by her or by a human only.
THEOREM ClaimsStay == Spec => ClaimsAreNotStolen
<1>1. IInv /\ [Next]_vars =>
        [\A t \in OfKind(row, "task") :
            row[t].claim # None /\ row'[t].claim # row[t].claim =>
                \E i \in DOMAIN events' \ DOMAIN events :
                    events'[i].on = t /\ events'[i].who \in Humans \cup {row[t].claim}]_vars
  <2> SUFFICES ASSUME IInv, [Next]_vars, NEW t \in OfKind(row, "task"), row[t].claim # None,
                      row'[t].claim # row[t].claim
               PROVE  \E i \in DOMAIN events' \ DOMAIN events :
                          events'[i].on = t /\ events'[i].who \in Humans \cup {row[t].claim}
    BY DEF vars, applyVars, store
  <2>1. t \in DOMAIN row /\ row[t].table = "object" /\ row[t].kind = "task"
    BY DEF OfKind, OfTable
  <2>2. CASE UNCHANGED <<row, events, receipts>>
    BY <2>2
  <2>3. CASE Commit /\ UNCHANGED <<calls, keys>>
    <3>1. /\ tx # NoTx /\ events' = events \o tx.log /\ IsASeq(events) /\ IsASeq(tx.log)
          /\ row' = Rows
      BY <2>3, CommitFacts
    <3>2. t \in DOMAIN tx.row /\ row'[t] = tx.row[t]
      BY <2>1, <3>1 DEF Rows, Over
    <3>3. tx.batch.who \in Humans \cup {row[t].claim}
      BY <2>1, <3>1, <3>2 DEF IInv, ClaimInv, ClaimKept
    <3>4. PICK j \in DOMAIN tx.log : tx.log[j].on = t /\ tx.log[j].who = tx.batch.who
      BY <3>1, <3>2 DEF IInv, BatchInv, Ons, Tagged
    <3>5. PICK i \in DOMAIN events' \ DOMAIN events : events'[i] = tx.log[j]
      <4>1. PICK s, u : s = events /\ u = tx.log
        OBVIOUS
      <4>2. IsASeq(s) /\ IsASeq(u) /\ j \in DOMAIN u
        BY <3>1, <4>1
      <4>3. \E i \in DOMAIN (s \o u) \ DOMAIN s : (s \o u)[i] = u[j]
        BY ONLY <4>2, EventsAdded
      <4> QED
        BY <3>1, <4>1, <4>3
    <3> QED
      BY <3>3, <3>4, <3>5
  <2>4. ASSUME NEW p \in calls, NEW log, CallWrites(p, log)
        PROVE  \E i \in DOMAIN events' \ DOMAIN events :
                   events'[i].on = t /\ events'[i].who \in Humans \cup {row[t].claim}
    <3>1. /\ events' = events \o log /\ IsASeq(events) /\ IsASeq(log)
          /\ \A id \in DOMAIN row \ Ons(log) : row'[id] = row[id]
      BY <2>4, CallFacts DEF CallWrites
    <3>2. PICK j \in DOMAIN log : log[j].on = t
      BY <2>1, <3>1 DEF Ons
    <3>3. row'[t] = log[j].after /\ Beside(p, log[j])
      BY <2>4, <3>2 DEF CallWrites, Writes
    <3>4. log[j].who = p.call.who /\ ClaimKept(row[t], row'[t], p.call.who)
      BY <2>1, <3>2, <3>3 DEF Beside, Revised, Evolves
    <3>5. log[j].who \in Humans \cup {row[t].claim}
      BY <2>1, <3>4 DEF ClaimKept
    <3>6. PICK i \in DOMAIN events' \ DOMAIN events : events'[i] = log[j]
      BY <3>1, EventsAdded
    <3> QED
      BY <3>2, <3>5, <3>6
  <2> QED
    BY <2>2, <2>3, <2>4, WhoWrites
<1> QED
  BY <1>1, InvariantHolds, PTL DEF Spec, ClaimsAreNotStolen
=============================================================================
