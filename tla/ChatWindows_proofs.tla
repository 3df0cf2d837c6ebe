-------------------------- MODULE ChatWindows_proofs --------------------------
(***************************************************************************)
(* Theorems about ChatWindows, for any Chats, messages and batch size: the *)
(* windows of a Chat tile its log up to the cursor, and the drain loop of  *)
(* the capture handler bounds the backlog of a Codex Chat.  The end is     *)
(* about ChatSummary, the title and description of one Chat that those     *)
(* windows are folded into.                                                *)
(***************************************************************************)
EXTENDS ChatWindows, ChatSummary, FiniteSetTheorems, SequenceTheorems, TLAPS

\* What ON CONFLICT DO NOTHING appends is a finite extension of the log.
LEMMA AppendedFacts ==
    ASSUME TypeOK, NEW c \in Chats, NEW batch \in SUBSET Messages, NEW msgs \in Appended(c, batch)
    PROVE  /\ msgs \in Seq(Messages)
           /\ Len(log[c]) \in Nat /\ Len(msgs) \in Nat
           /\ Len(log[c]) <= Len(msgs)
           /\ Len(msgs) <= Len(log[c]) + Cardinality(batch)
           /\ Cardinality(batch) \in Nat
  <1> DEFINE fresh == batch \ Range(log[c])
  <1>1. /\ IsFiniteSet(batch) /\ IsFiniteSet(fresh)
        /\ Cardinality(batch) \in Nat /\ Cardinality(fresh) \in Nat
        /\ Cardinality(fresh) <= Cardinality(batch)
    <2>1. IsFiniteSet(batch)
      BY MessagesAssumption, FS_Subset
    <2>2. fresh \in SUBSET batch
      OBVIOUS
    <2> HIDE DEF fresh
    <2>3. QED
      BY <2>1, <2>2, FS_Subset, FS_CardinalityType
  <1>2. PICK new \in SetToSeqs(fresh) : msgs = log[c] \o new
    BY DEF Appended
  <1>3. new \in [1..Cardinality(fresh) -> fresh]
    BY <1>2 DEF SetToSeqs
  <1>4. new \in Seq(Messages) /\ Len(new) = Cardinality(fresh)
    <2>1. fresh \subseteq Messages
      OBVIOUS
    <2> HIDE DEF fresh
    <2>2. new \in [1..Cardinality(fresh) -> Messages]
      BY <1>3, <2>1
    <2>3. QED
      BY <1>1, <2>2, SeqDef
  <1>5. log[c] \in Seq(Messages)
    BY DEF TypeOK
  <1> HIDE DEF fresh
  <1>6. QED
    BY <1>1, <1>2, <1>4, <1>5, ConcatProperties, LenProperties

\* The next window ends at the end of the log, or a Batch further on.
LEMMA WindowEndFacts ==
    ASSUME NEW c, NEW msgs, NEW lo \in Nat, Len(msgs) \in Nat, lo <= Len(msgs)
    PROVE  /\ WindowEnd(c, msgs, lo) \in Nat
           /\ lo <= WindowEnd(c, msgs, lo) /\ WindowEnd(c, msgs, lo) <= Len(msgs)
           /\ c \notin CodexChats => WindowEnd(c, msgs, lo) = Len(msgs)
           /\ c \in CodexChats => /\ WindowEnd(c, msgs, lo) - lo <= Batch
                                  /\ Len(msgs) - lo <= Batch => WindowEnd(c, msgs, lo) = Len(msgs)
                                  /\ Len(msgs) - lo > Batch => WindowEnd(c, msgs, lo) = lo + Batch
  BY BatchAssumption DEF WindowEnd

LEMMA DrainRoundFacts ==
    ASSUME NEW c \in CodexChats, NEW msgs, NEW lo \in Nat, NEW finished \in BOOLEAN,
           Len(msgs) \in Nat, lo <= Len(msgs)
    PROVE  /\ DrainRound(c, msgs, lo, finished) \in Nat
           /\ lo <= DrainRound(c, msgs, lo, finished)
           /\ DrainRound(c, msgs, lo, finished) <= Len(msgs)
           /\ DrainRound(c, msgs, lo, finished) - lo <= Batch
           /\ Len(msgs) - lo < Batch =>
                Len(msgs) - DrainRound(c, msgs, lo, finished) < Batch
           /\ Len(msgs) - lo < 2 * Batch =>
                Len(msgs) - DrainRound(c, msgs, lo, finished) < Batch
           /\ finished /\ Len(msgs) - lo <= Batch =>
                DrainRound(c, msgs, lo, finished) = Len(msgs)
  BY BatchAssumption, WindowEndFacts DEF DrainRound

LEMMA CutType ==
    ASSUME NEW c \in Chats, NEW msgs, NEW lo \in Nat, NEW hi \in Nat, NEW owned
    PROVE  Cut(c, msgs, lo, hi, owned) \subseteq Window
  BY DEF Cut, Fate, Window

-----------------------------------------------------------------------------
(* The windows of one Chat.                                                *)

Of(c, ws) == {w \in ws : w.chat = c}

\* The windows in ws tile 1..k: each lies inside, none overlap, none is missing.
Tiled(ws, k) ==
    /\ \A w \in ws : 1 <= w.first /\ w.first <= w.last /\ w.last <= k
    /\ \A p \in 1..k : \E w \in ws : w.first <= p /\ p <= w.last
    /\ \A v, w \in ws : \A p \in 1..k :
         v.first <= p /\ p <= v.last /\ w.first <= p /\ p <= w.last => v = w

TilingInv ==
    \A c \in Chats : cursor[c] <= Len(log[c]) /\ Tiled(Of(c, windows), cursor[c])

\* One more window after the last keeps the tiling.
LEMMA TiledCut ==
    ASSUME NEW c \in Chats, NEW msgs, NEW lo \in Nat, NEW hi \in Nat, NEW owned, lo <= hi,
           NEW ws \in SUBSET Window, Tiled(ws, lo)
    PROVE  Tiled(ws \cup Cut(c, msgs, lo, hi, owned), hi)
  <1> DEFINE new == [chat |-> c, first |-> lo + 1, last |-> hi, fate |-> Fate(msgs, lo, hi, owned)]
             all == ws \cup Cut(c, msgs, lo, hi, owned)
  <1>1. CASE lo = hi
    <2>1. Cut(c, msgs, lo, hi, owned) = {}
      BY <1>1 DEF Cut
    <2>2. QED
      BY <1>1, <2>1
  <1>2. CASE lo < hi
    <2>1. all = ws \cup {new} /\ new.first = lo + 1 /\ new.last = hi
      BY <1>2 DEF Cut
    <2>2. \A w \in ws : w.first \in Nat /\ w.last \in Nat
      BY DEF Window
    <2> HIDE DEF new, all
    <2>3. \A w \in all : 1 <= w.first /\ w.first <= w.last /\ w.last <= hi
      BY <1>2, <2>1, <2>2 DEF Tiled
    <2>4. ASSUME NEW p \in 1..hi PROVE \E w \in all : w.first <= p /\ p <= w.last
      BY <1>2, <2>1 DEF Tiled
    <2>5. ASSUME NEW v \in all, NEW w \in all, NEW p \in 1..hi,
                 v.first <= p, p <= v.last, w.first <= p, p <= w.last
          PROVE  v = w
      <3>1. CASE p \in 1..lo
        <4>1. v \in ws /\ w \in ws
          BY <2>1, <2>5, <3>1
        <4>2. QED
          BY <2>5, <3>1, <4>1 DEF Tiled
      <3>2. CASE p \notin 1..lo
        <4>1. v = new /\ w = new
          BY <2>1, <2>2, <2>5, <3>2 DEF Tiled
        <4>2. QED
          BY <4>1
      <3>3. QED
        BY <3>1, <3>2
    <2>6. QED
      BY <2>3, <2>4, <2>5 DEF Tiled, all
  <1>3. QED
    BY <1>1, <1>2

LEMMA CutChat ==
    ASSUME NEW c, NEW msgs, NEW lo, NEW hi, NEW owned
    PROVE  \A w \in Cut(c, msgs, lo, hi, owned) : w.chat = c
  BY DEF Cut

-----------------------------------------------------------------------------
(* TypeOK and the tiling, action by action.                                *)

LEMMA CursorFacts ==
    ASSUME TypeOK, NEW c \in Chats
    PROVE  /\ log[c] \in Seq(Messages) /\ Len(log[c]) \in Nat
           /\ cursor[c] \in Nat
           /\ Of(c, windows) \in SUBSET Window
  BY LenProperties DEF TypeOK, Of

\* What ingest and capture have in common: the log of one Chat grows, its cursor
\* moves to hi by way of mid, and the messages it passes are cut.
Advance(c, msgs, mid, hi, owned) ==
    /\ log' = [log EXCEPT ![c] = msgs]
    /\ cursor' = [cursor EXCEPT ![c] = hi]
    /\ windows' = windows \cup Cut(c, msgs, cursor[c], mid, owned)
                          \cup Cut(c, msgs, mid, hi, owned)
    /\ UNCHANGED fenced

LEMMA AdvancePreserves ==
    ASSUME TypeOK, TilingInv, NEW c \in Chats, NEW msgs \in Seq(Messages), NEW mid \in Nat,
           NEW hi \in Nat, NEW owned, cursor[c] <= mid, mid <= hi, hi <= Len(msgs),
           Advance(c, msgs, mid, hi, owned)
    PROVE  TypeOK' /\ TilingInv'
  <1> DEFINE one == Cut(c, msgs, cursor[c], mid, owned)
             two == Cut(c, msgs, mid, hi, owned)
  <1>1. one \subseteq Window /\ two \subseteq Window
    BY CutType, CursorFacts
  <1>2. TypeOK'
    BY <1>1 DEF Advance, TypeOK
  <1>3. ASSUME NEW d \in Chats \ {c} PROVE Of(d, windows') = Of(d, windows)
    <2>1. \A w \in one \cup two : w.chat # d
      BY <1>3, CutChat
    <2>2. windows' = (windows \cup one) \cup two
      BY DEF Advance
    <2> HIDE DEF one, two
    <2>3. QED
      BY <2>1, <2>2 DEF Of
  <1>4. Of(c, windows') = (Of(c, windows) \cup one) \cup two
    <2>1. \A w \in one \cup two : w.chat = c
      BY CutChat
    <2>2. windows' = (windows \cup one) \cup two
      BY DEF Advance
    <2> HIDE DEF one, two
    <2>3. QED
      BY <2>1, <2>2 DEF Of
  <1>5. Tiled(Of(c, windows) \cup one, mid) /\ Of(c, windows) \cup one \in SUBSET Window
    BY <1>1, CursorFacts, TiledCut DEF TilingInv
  <1> HIDE DEF one
  <1>6. Tiled(Of(c, windows'), hi)
    BY <1>4, <1>5, TiledCut
  <1>7. log'[c] = msgs /\ cursor'[c] = hi
        /\ \A d \in Chats \ {c} : log'[d] = log[d] /\ cursor'[d] = cursor[d]
    BY DEF Advance, TypeOK
  <1>8. ASSUME NEW d \in Chats PROVE cursor'[d] <= Len(log'[d]) /\ Tiled(Of(d, windows'), cursor'[d])
    <2>1. CASE d = c
      BY <1>6, <1>7, <2>1
    <2>2. CASE d # c
      BY <1>3, <1>7, <2>2 DEF TilingInv
    <2>3. QED
      BY <2>1, <2>2
  <1>9. QED
    BY <1>2, <1>8 DEF TilingInv

LEMMA IngestAdvances ==
    ASSUME TypeOK, TilingInv, NEW c \in SlackChats, NEW batch \in SUBSET Messages,
           NEW finished \in BOOLEAN, NEW owned \in BOOLEAN, Ingest(c, batch, finished, owned)
    PROVE  \E msgs \in Seq(Messages), hi \in Nat :
             /\ msgs \in Appended(c, batch)
             /\ cursor[c] <= hi /\ hi <= Len(msgs)
             /\ Advance(c, msgs, hi, hi, owned)
  <1>1. c \in Chats /\ cursor[c] \in Nat /\ cursor[c] <= Len(log[c])
    BY CursorFacts DEF Chats, TilingInv
  <1>2. PICK msgs, hi :
          /\ msgs \in Appended(c, batch)
          /\ hi = IF finished THEN WindowEnd(c, msgs, cursor[c]) ELSE cursor[c]
          /\ log' = [log EXCEPT ![c] = msgs]
          /\ cursor' = [cursor EXCEPT ![c] = hi]
          /\ windows' = windows \cup Cut(c, msgs, cursor[c], hi, owned)
          /\ UNCHANGED fenced
    BY DEF Ingest
  <1>3. msgs \in Seq(Messages) /\ Len(msgs) \in Nat /\ cursor[c] <= Len(msgs)
    BY <1>1, <1>2, AppendedFacts
  <1>4. hi \in Nat /\ cursor[c] <= hi /\ hi <= Len(msgs)
    BY <1>1, <1>2, <1>3, WindowEndFacts
  <1>5. Cut(c, msgs, hi, hi, owned) = {}
    BY <1>4 DEF Cut
  <1>6. QED
    BY <1>2, <1>3, <1>4, <1>5 DEF Advance

\* The two drain rounds of a capture.
Drained(c, msgs, finished, mid, hi) ==
    /\ mid = DrainRound(c, msgs, cursor[c], finished)
    /\ hi = DrainRound(c, msgs, mid, finished)
    /\ Advance(c, msgs, mid, hi, FALSE)

LEMMA CaptureAdvances ==
    ASSUME TypeOK, TilingInv, NEW c \in CodexChats, NEW batch \in SUBSET Messages,
           NEW finished \in BOOLEAN, Capture(c, batch, finished)
    PROVE  \E msgs \in Seq(Messages), mid, hi \in Nat :
             /\ msgs \in Appended(c, batch)
             /\ Len(msgs) \in Nat /\ Len(msgs) <= Len(log[c]) + Batch
             /\ cursor[c] <= mid /\ mid <= hi /\ hi <= Len(msgs)
             /\ Drained(c, msgs, finished, mid, hi)
  <1>1. c \in Chats /\ cursor[c] \in Nat /\ Len(log[c]) \in Nat /\ cursor[c] <= Len(log[c])
    BY CursorFacts DEF Chats, TilingInv
  <1>2. PICK msgs, mid, hi :
          msgs \in Appended(c, batch) /\ Drained(c, msgs, finished, mid, hi)
    BY DEF Capture, Drained, Advance
  <1>3. /\ msgs \in Seq(Messages) /\ Len(msgs) \in Nat /\ cursor[c] <= Len(msgs)
        /\ Len(msgs) <= Len(log[c]) + Batch
    <2>1. msgs \in Appended(c, batch)
      BY <1>2
    <2>2. QED
      BY <1>1, <2>1, AppendedFacts, BatchAssumption DEF Capture
  <1>4. mid \in Nat /\ cursor[c] <= mid /\ mid <= Len(msgs)
    BY <1>1, <1>2, <1>3, DrainRoundFacts DEF Drained
  <1>5. hi \in Nat /\ mid <= hi /\ hi <= Len(msgs)
    BY <1>2, <1>3, <1>4, DrainRoundFacts DEF Drained
  <1>6. QED
    BY <1>2, <1>3, <1>4, <1>5

LEMMA InactivityPreserves ==
    ASSUME TypeOK, TilingInv, NEW selected \in SUBSET Inactive, InactivityPass(selected)
    PROVE  TypeOK' /\ TilingInv'
  <1> DEFINE cutOf(c) == Cut(c, log[c], cursor[c], Len(log[c]), FALSE)
  <1>1. selected \subseteq Chats
    BY DEF Inactive, Chats
  <1>2. \A c \in Chats : cutOf(c) \subseteq Window
    BY CutType, CursorFacts
  <1>3. /\ windows' = windows \cup UNION {cutOf(c) : c \in selected}
        /\ cursor' = [c \in Chats |-> IF c \in selected THEN Len(log[c]) ELSE cursor[c]]
        /\ log' = log /\ fenced' = fenced
    BY DEF InactivityPass
  <1>4. TypeOK'
    <2>1. windows' \subseteq Window
      BY <1>1, <1>2, <1>3 DEF TypeOK
    <2>2. cursor' \in [Chats -> Nat]
      BY <1>3, CursorFacts
    <2>3. QED
      BY <1>3, <2>1, <2>2 DEF TypeOK
  <1>5. ASSUME NEW d \in Chats PROVE cursor'[d] <= Len(log'[d]) /\ Tiled(Of(d, windows'), cursor'[d])
    <2>1. cursor[d] <= Len(log[d]) /\ Tiled(Of(d, windows), cursor[d])
      BY DEF TilingInv
    <2>2. CASE d \in selected
      <3>1. Of(d, windows') = Of(d, windows) \cup cutOf(d)
        <4>1. windows' = windows \cup UNION {cutOf(c) : c \in selected}
          BY <1>3
        <4>2. ASSUME NEW c, NEW w \in cutOf(c) PROVE w.chat = c
          BY <4>2 DEF Cut
        <4> HIDE DEF cutOf
        <4>3. QED
          BY <2>2, <4>1, <4>2 DEF Of
      <3>2. cursor'[d] = Len(log[d])
        BY <1>3, <2>2
      <3> HIDE DEF cutOf
      <3>3. Tiled(Of(d, windows) \cup cutOf(d), Len(log[d]))
        BY <2>1, CursorFacts, TiledCut DEF cutOf
      <3>4. log'[d] = log[d] /\ Len(log[d]) \in Nat
        BY <1>3, CursorFacts
      <3>5. QED
        BY <3>1, <3>2, <3>3, <3>4
    <2>3. CASE d \notin selected
      <3>1. Of(d, windows') = Of(d, windows)
        <4>1. windows' = windows \cup UNION {cutOf(c) : c \in selected}
          BY <1>3
        <4>2. ASSUME NEW c, NEW w \in cutOf(c) PROVE w.chat = c
          BY <4>2 DEF Cut
        <4> HIDE DEF cutOf
        <4>3. QED
          BY <2>3, <4>1, <4>2 DEF Of
      <3>2. QED
        BY <1>3, <2>1, <2>3, <3>1
    <2>4. QED
      BY <2>2, <2>3
  <1>6. QED
    BY <1>4, <1>5 DEF TilingInv
-----------------------------------------------------------------------------
LEMMA InitInv == Init => TypeOK /\ TilingInv
  <1> SUFFICES ASSUME Init PROVE TypeOK /\ TilingInv
    OBVIOUS
  <1>1. TypeOK
    BY DEF Init, TypeOK
  <1>2. ASSUME NEW c \in Chats PROVE cursor[c] <= Len(log[c]) /\ Tiled(Of(c, windows), cursor[c])
    BY DEF Init, Of, Tiled
  <1>3. QED
    BY <1>1, <1>2 DEF TilingInv

LEMMA NextInv == TypeOK /\ TilingInv /\ [Next]_vars => TypeOK' /\ TilingInv'
  <1> SUFFICES ASSUME TypeOK, TilingInv, [Next]_vars PROVE TypeOK' /\ TilingInv'
    OBVIOUS
  <1>1. ASSUME NEW c \in SlackChats, NEW batch \in SUBSET Messages, NEW finished \in BOOLEAN,
               NEW owned \in BOOLEAN, Ingest(c, batch, finished, owned)
        PROVE  TypeOK' /\ TilingInv'
    <2>1. PICK msgs \in Seq(Messages), hi \in Nat :
            cursor[c] <= hi /\ hi <= Len(msgs) /\ Advance(c, msgs, hi, hi, owned)
      BY <1>1, IngestAdvances
    <2>2. QED
      BY <2>1, AdvancePreserves DEF Chats
  <1>2. ASSUME NEW c \in CodexChats, NEW batch \in SUBSET Messages, NEW finished \in BOOLEAN,
               Capture(c, batch, finished)
        PROVE  TypeOK' /\ TilingInv'
    BY <1>2, CaptureAdvances, AdvancePreserves DEF Chats, Drained
  <1>3. ASSUME NEW selected \in SUBSET Inactive, InactivityPass(selected)
        PROVE  TypeOK' /\ TilingInv'
    BY <1>3, InactivityPreserves
  <1>4. ASSUME NEW c \in FenceableChats, Fence(c) PROVE TypeOK' /\ TilingInv'
    <2>1. TypeOK'
      BY <1>4, ChatsAssumption DEF Fence, TypeOK
    <2>2. log' = log /\ cursor' = cursor /\ windows' = windows
      BY <1>4 DEF Fence
    <2>3. TilingInv'
      BY <2>2 DEF TilingInv
    <2>4. QED
      BY <2>1, <2>3
  <1>5. CASE UNCHANGED vars
    BY <1>5 DEF vars, TypeOK, TilingInv
  <1>6. QED
    BY <1>1, <1>2, <1>3, <1>4, <1>5 DEF Next

LEMMA InvCorrect == Spec => [](TypeOK /\ TilingInv)
  BY InitInv, NextInv, PTL DEF Spec

\* The message log, cursors, windows and fences keep their types.
THEOREM TypeCorrect == Spec => []TypeOK
  BY InvCorrect, PTL

\* Whatever mix of ingest, capture and inactivity passes cuts them, the windows of
\* a Chat hold each message up to its cursor once and no other.
THEOREM WindowsArePartition == Spec => []WindowsPartition
  <1>1. TypeOK /\ TilingInv => WindowsPartition
    <2> SUFFICES ASSUME TypeOK, TilingInv, NEW c \in Chats
                 PROVE  /\ cursor[c] <= Len(log[c])
                        /\ \A p \in 1..Len(log[c]) :
                             /\ p <= cursor[c] <=> \E w \in windows : Covers(w, c, p)
                             /\ \A v, w \in windows :
                                  Covers(v, c, p) /\ Covers(w, c, p) => v = w
      BY DEF WindowsPartition
    <2>1. cursor[c] <= Len(log[c]) /\ Tiled(Of(c, windows), cursor[c]) /\ cursor[c] \in Nat
      BY CursorFacts DEF TilingInv
    <2>2. \A w \in Of(c, windows) : w.first \in Nat /\ w.last \in Nat
      BY CursorFacts DEF Window
    <2>3. ASSUME NEW p \in 1..Len(log[c])
          PROVE  \A w : w \in windows /\ Covers(w, c, p) <=>
                         w \in Of(c, windows) /\ w.first <= p /\ p <= w.last
      BY DEF Covers, Of
    <2>4. ASSUME NEW p \in 1..Len(log[c]) PROVE p <= cursor[c] <=> \E w \in windows : Covers(w, c, p)
      BY <2>1, <2>2, <2>3, CursorFacts DEF Tiled
    <2>5. ASSUME NEW p \in 1..Len(log[c]), NEW v \in windows, NEW w \in windows,
                 Covers(v, c, p), Covers(w, c, p)
          PROVE  v = w
      <3>1. p \in 1..cursor[c]
        BY <2>1, <2>4, <2>5, CursorFacts
      <3>2. QED
        BY <2>1, <2>3, <2>5, <3>1 DEF Tiled
    <2>6. QED
      BY <2>1, <2>4, <2>5
  <1>2. QED
    BY <1>1, InvCorrect, PTL

-----------------------------------------------------------------------------
(* The capture handler's drain loop.                                       *)

\* After its two rounds fewer than Batch messages are pending, and none when the
\* capture finishes the interaction.
LEMMA CaptureDrains ==
    ASSUME TypeOK, TilingInv, CodexBacklogBounded, NEW c \in CodexChats,
           NEW batch \in SUBSET Messages, NEW finished \in BOOLEAN, Capture(c, batch, finished)
    PROVE  /\ Len(log'[c]) - cursor'[c] < Batch
           /\ finished => Len(log'[c]) - cursor'[c] = 0
           /\ \A d \in Chats \ {c} : log'[d] = log[d] /\ cursor'[d] = cursor[d]
           /\ \A w \in windows' \ windows : w.last - w.first < Batch
  <1>1. c \in Chats /\ cursor[c] \in Nat /\ Len(log[c]) \in Nat /\ cursor[c] <= Len(log[c])
    BY CursorFacts DEF Chats, TilingInv
  <1>2. PICK msgs \in Seq(Messages), mid \in Nat, hi \in Nat :
          /\ Len(msgs) \in Nat /\ Len(msgs) <= Len(log[c]) + Batch
          /\ cursor[c] <= mid /\ mid <= hi /\ hi <= Len(msgs)
          /\ Drained(c, msgs, finished, mid, hi)
    BY CaptureAdvances
  <1>3. Len(msgs) - cursor[c] < 2 * Batch
    BY <1>1, <1>2, BatchAssumption DEF CodexBacklogBounded, Pending
  <1>4. /\ mid - cursor[c] <= Batch /\ hi - mid <= Batch
        /\ Len(msgs) - mid < Batch /\ Len(msgs) - hi < Batch
        /\ finished => hi = Len(msgs)
    <2>1. mid - cursor[c] <= Batch /\ Len(msgs) - mid < Batch
      <3>1. mid = DrainRound(c, msgs, cursor[c], finished) /\ cursor[c] <= Len(msgs)
        BY <1>1, <1>2 DEF Drained
      <3>2. QED
        BY <1>1, <1>2, <1>3, <3>1, DrainRoundFacts
    <2>2. mid <= Len(msgs) /\ Len(msgs) - mid <= Batch
      BY <1>2, <2>1, BatchAssumption
    <2>3. QED
      BY <1>2, <2>1, <2>2, DrainRoundFacts DEF Drained
  <1>5. /\ log'[c] = msgs /\ cursor'[c] = hi
        /\ \A d \in Chats \ {c} : log'[d] = log[d] /\ cursor'[d] = cursor[d]
    BY <1>1, <1>2 DEF Drained, Advance, TypeOK
  <1>6. \A w \in windows' \ windows : w.last - w.first < Batch
    <2>1. \A w \in Cut(c, msgs, cursor[c], mid, FALSE) : w.last - w.first < Batch
      BY <1>1, <1>2, <1>4, BatchAssumption DEF Cut
    <2>2. \A w \in Cut(c, msgs, mid, hi, FALSE) : w.last - w.first < Batch
      BY <1>1, <1>2, <1>4, BatchAssumption DEF Cut
    <2>3. QED
      BY <1>2, <2>1, <2>2 DEF Drained, Advance
  <1>7. QED
    BY <1>2, <1>4, <1>5, <1>6

LEMMA BacklogInductive ==
    TypeOK /\ TilingInv /\ CodexBacklogBounded /\ [Next]_vars => CodexBacklogBounded'
  <1> SUFFICES ASSUME TypeOK, TilingInv, CodexBacklogBounded, [Next]_vars, NEW d \in CodexChats
               PROVE  Len(log'[d]) - cursor'[d] < Batch
    BY DEF CodexBacklogBounded, Pending
  <1>1. d \in Chats /\ d \notin SlackChats /\ Len(log[d]) - cursor[d] < Batch
    BY ChatsAssumption DEF Chats, CodexBacklogBounded, Pending
  <1>2. ASSUME NEW c \in SlackChats, NEW batch \in SUBSET Messages, NEW finished \in BOOLEAN,
               NEW owned \in BOOLEAN, Ingest(c, batch, finished, owned)
        PROVE  log'[d] = log[d] /\ cursor'[d] = cursor[d]
    <2>1. c # d /\ c \in Chats
      BY <1>1 DEF Chats
    <2>2. PICK msgs \in Seq(Messages), hi \in Nat : Advance(c, msgs, hi, hi, owned)
      BY <1>2, IngestAdvances
    <2>3. QED
      BY <1>1, <2>1, <2>2 DEF Advance, TypeOK
  <1>3. ASSUME NEW c \in CodexChats, NEW batch \in SUBSET Messages, NEW finished \in BOOLEAN,
               Capture(c, batch, finished)
        PROVE  Len(log'[d]) - cursor'[d] < Batch
    <2>1. CASE c = d
      BY <1>3, <2>1, CaptureDrains
    <2>2. CASE c # d
      BY <1>1, <1>3, <2>2, CaptureDrains
    <2>3. QED
      BY <2>1, <2>2
  <1>4. ASSUME NEW selected \in SUBSET Inactive, InactivityPass(selected)
        PROVE  log'[d] = log[d] /\ cursor'[d] = cursor[d]
    <2>1. d \notin selected
      BY <1>1 DEF Inactive
    <2>2. QED
      BY <1>1, <1>4, <2>1 DEF InactivityPass
  <1>5. ASSUME NEW c, Fence(c) PROVE log'[d] = log[d] /\ cursor'[d] = cursor[d]
    BY <1>5 DEF Fence
  <1>6. CASE UNCHANGED vars
    BY <1>1, <1>6 DEF vars
  <1>7. QED
    BY <1>1, <1>2, <1>3, <1>4, <1>5, <1>6 DEF Next

\* Between captures fewer than Batch messages of a Codex Chat wait for a window.
THEOREM BacklogIsBounded == Spec => []CodexBacklogBounded
  <1>1. Init => CodexBacklogBounded
    BY BatchAssumption DEF Init, CodexBacklogBounded, Pending, Chats
  <1>2. QED
    BY <1>1, BacklogInductive, InvCorrect, PTL DEF Spec

\* Two rounds of the drain loop are enough for every batch size: a capture that
\* finishes the interaction leaves nothing pending, in windows of Batch at most.
THEOREM FinishLeavesNothing == Spec => FinishDrains
  <1>1. TypeOK /\ TilingInv /\ CodexBacklogBounded /\ [Next]_vars =>
          [\A c \in CodexChats, batch \in SUBSET Messages :
             Capture(c, batch, TRUE) =>
                 /\ Pending(c)' = 0
                 /\ \A w \in windows' \ windows : w.last - w.first < Batch]_vars
    BY CaptureDrains DEF Pending
  <1>2. QED
    BY <1>1, InvCorrect, BacklogIsBounded, PTL DEF Spec, FinishDrains

-----------------------------------------------------------------------------
(* The ledger.                                                             *)

\* Redelivered messages are not stored again.
DistinctInv == \A c \in Chats : IsInjective(log[c])

\* What every step does to a Chat: messages keep their places, the cursor does
\* not go back and no window is taken back.
Grown(c) ==
    /\ DOMAIN log[c] \subseteq DOMAIN log'[c]
    /\ \A p \in DOMAIN log[c] : log'[c][p] = log[c][p]
    /\ cursor[c] <= cursor'[c]
    /\ windows \subseteq windows'

LEMMA AppendedDistinct ==
    ASSUME TypeOK, DistinctInv, NEW c \in Chats, NEW batch \in SUBSET Messages,
           NEW msgs \in Appended(c, batch)
    PROVE  /\ IsInjective(msgs) /\ DOMAIN log[c] \subseteq DOMAIN msgs
           /\ \A p \in DOMAIN log[c] : msgs[p] = log[c][p]
  <1> DEFINE fresh == batch \ Range(log[c])
  <1>1. IsFiniteSet(fresh) /\ Cardinality(fresh) \in Nat
    <2>1. fresh \in SUBSET Messages
      OBVIOUS
    <2> HIDE DEF fresh
    <2>2. QED
      BY <2>1, MessagesAssumption, FS_Subset, FS_CardinalityType
  <1>2. PICK new \in SetToSeqs(fresh) : msgs = log[c] \o new
    BY DEF Appended
  <1>3. /\ new \in [1..Cardinality(fresh) -> fresh]
        /\ \A i, j \in 1..Cardinality(fresh) : i # j => new[i] # new[j]
    BY <1>2 DEF SetToSeqs
  <1>4. \A x \in fresh : x \in Messages /\ \A p \in DOMAIN log[c] : log[c][p] # x
    BY DEF Range
  <1>5. log[c] \in Seq(Messages) /\ IsInjective(log[c])
    BY DEF TypeOK, DistinctInv
  <1> HIDE DEF fresh
  <1>6. new \in Seq(Messages) /\ Len(new) = Cardinality(fresh)
    BY <1>1, <1>3, <1>4, SeqDef
  <1>7. /\ DOMAIN log[c] = 1..Len(log[c]) /\ DOMAIN msgs = 1..(Len(log[c]) + Len(new))
        /\ Len(log[c]) \in Nat /\ Len(new) \in Nat
        /\ \A p \in DOMAIN msgs : msgs[p] = IF p <= Len(log[c]) THEN log[c][p]
                                                  ELSE new[p - Len(log[c])]
    BY <1>2, <1>5, <1>6, ConcatProperties, LenProperties
  <1>8. ASSUME NEW a \in DOMAIN msgs, NEW b \in DOMAIN msgs, msgs[a] = msgs[b] PROVE a = b
    <2>1. CASE a <= Len(log[c]) /\ b <= Len(log[c])
      BY <1>5, <1>7, <1>8, <2>1 DEF IsInjective
    <2>2. CASE a > Len(log[c]) /\ b > Len(log[c])
      <3>1. a - Len(log[c]) \in 1..Len(new) /\ b - Len(log[c]) \in 1..Len(new)
        BY <1>7, <2>2
      <3>2. a - Len(log[c]) = b - Len(log[c])
        BY <1>3, <1>6, <1>7, <1>8, <2>2, <3>1
      <3> QED
        BY <1>7, <3>2
    <2>3. ASSUME NEW x \in DOMAIN msgs, NEW y \in DOMAIN msgs, x <= Len(log[c]), y > Len(log[c])
          PROVE  msgs[x] # msgs[y]
      <3>1. x \in DOMAIN log[c] /\ y - Len(log[c]) \in 1..Cardinality(fresh)
        BY <1>6, <1>7, <2>3
      <3>2. new[y - Len(log[c])] \in fresh
        BY <1>3, <3>1
      <3> QED
        BY <1>4, <1>7, <2>3, <3>1, <3>2
    <2> QED
      BY <1>7, <1>8, <2>1, <2>2, <2>3
  <1> QED
    BY <1>7, <1>8 DEF IsInjective

LEMMA AdvanceGrows ==
    ASSUME TypeOK, DistinctInv, NEW c \in Chats, NEW batch \in SUBSET Messages,
           NEW msgs \in Appended(c, batch), NEW mid, NEW hi \in Nat, NEW owned,
           cursor[c] <= hi, Advance(c, msgs, mid, hi, owned)
    PROVE  DistinctInv' /\ \A d \in Chats : Grown(d)
<1>1. /\ log'[c] = msgs /\ cursor'[c] = hi
      /\ \A d \in Chats \ {c} : log'[d] = log[d] /\ cursor'[d] = cursor[d]
      /\ windows \subseteq windows'
  BY DEF Advance, TypeOK
<1>2. /\ IsInjective(msgs) /\ DOMAIN log[c] \subseteq DOMAIN msgs
      /\ \A p \in DOMAIN log[c] : msgs[p] = log[c][p]
  BY AppendedDistinct
<1>3. ASSUME NEW d \in Chats PROVE IsInjective(log'[d]) /\ Grown(d)
  <2>1. CASE d = c
    BY <1>1, <1>2, <2>1 DEF Grown
  <2>2. CASE d # c
    <3>1. log'[d] = log[d] /\ cursor'[d] = cursor[d] /\ cursor[d] \in Nat
      BY <1>1, <2>2, CursorFacts
    <3> QED
      BY <1>1, <3>1 DEF Grown, DistinctInv
  <2> QED
    BY <2>1, <2>2
<1> QED
  BY <1>3 DEF DistinctInv

LEMMA StepGrows ==
    TypeOK /\ TilingInv /\ DistinctInv /\ [Next]_vars => DistinctInv' /\ \A d \in Chats : Grown(d)
  <1> SUFFICES ASSUME TypeOK, TilingInv, DistinctInv, [Next]_vars
               PROVE  DistinctInv' /\ \A d \in Chats : Grown(d)
    OBVIOUS
  <1>0. \A d \in Chats : cursor[d] \in Nat /\ Len(log[d]) \in Nat /\ cursor[d] <= Len(log[d])
    BY CursorFacts DEF TilingInv
  <1>1. ASSUME NEW c \in SlackChats, NEW batch \in SUBSET Messages, NEW finished \in BOOLEAN,
               NEW owned \in BOOLEAN, Ingest(c, batch, finished, owned)
        PROVE  DistinctInv' /\ \A d \in Chats : Grown(d)
    BY <1>1, IngestAdvances, AdvanceGrows DEF Chats
  <1>2. ASSUME NEW c \in CodexChats, NEW batch \in SUBSET Messages, NEW finished \in BOOLEAN,
               Capture(c, batch, finished)
        PROVE  DistinctInv' /\ \A d \in Chats : Grown(d)
    <2>1. PICK msgs \in Seq(Messages), mid \in Nat, hi \in Nat :
            /\ msgs \in Appended(c, batch) /\ cursor[c] <= mid /\ mid <= hi
            /\ Drained(c, msgs, finished, mid, hi)
      BY <1>2, CaptureAdvances
    <2>2. c \in Chats /\ cursor[c] <= hi
      BY <1>0, <2>1 DEF Chats
    <2> QED
      BY <2>1, <2>2, AdvanceGrows DEF Drained
  <1>3. ASSUME NEW selected \in SUBSET Inactive, InactivityPass(selected)
        PROVE  DistinctInv' /\ \A d \in Chats : Grown(d)
    <2>1. /\ log' = log /\ windows \subseteq windows'
          /\ \A d \in Chats : cursor'[d] = IF d \in selected THEN Len(log[d]) ELSE cursor[d]
      BY <1>3 DEF InactivityPass
    <2> QED
      BY <1>0, <2>1 DEF DistinctInv, Grown
  <1>4. ASSUME NEW c, Fence(c) PROVE DistinctInv' /\ \A d \in Chats : Grown(d)
    BY <1>0, <1>4 DEF Fence, DistinctInv, Grown
  <1>5. CASE UNCHANGED vars
    BY <1>0, <1>5 DEF vars, DistinctInv, Grown
  <1> QED
    BY <1>1, <1>2, <1>3, <1>4, <1>5 DEF Next

\* Where a message stands in its Chat tells its disposition.
Stands(c, m) ==
    LET d == DispositionOf(c, m) IN
    /\ m \notin Range(log[c]) => d = "absent"
    /\ \A p \in DOMAIN log[c] : log[c][p] = m =>
          /\ p > cursor[c] => d = "waiting"
          /\ p <= cursor[c] => d \in Ledger!Disposed
          /\ \A w \in windows : Covers(w, c, p) => d = w.fate

LedgerInv == \A c \in Chats : \A m \in Messages : Stands(c, m)

LEMMA DispositionsStand == TypeOK /\ TilingInv /\ DistinctInv => LedgerInv
  <1> SUFFICES ASSUME TypeOK, TilingInv, DistinctInv, NEW c \in Chats, NEW m \in Messages
               PROVE  Stands(c, m)
    BY DEF LedgerInv
  <1> DEFINE covering == {w \in windows : \E p \in w.first..w.last : Covers(w, c, p) /\ log[c][p] = m}
  <1>1. DispositionOf(c, m) = IF m \notin Range(log[c]) THEN "absent"
                              ELSE IF covering = {} THEN "waiting"
                              ELSE (CHOOSE w \in covering : TRUE).fate
    BY DEF DispositionOf
  <1>2. /\ cursor[c] <= Len(log[c]) /\ Tiled(Of(c, windows), cursor[c]) /\ cursor[c] \in Nat
        /\ DOMAIN log[c] = 1..Len(log[c]) /\ Len(log[c]) \in Nat /\ IsInjective(log[c])
    BY CursorFacts, LenProperties DEF TilingInv, DistinctInv
  <1>3. \A w \in windows : w.first \in Nat /\ w.last \in Nat /\ w.fate \in {"queued", "skipped"}
    BY DEF TypeOK, Window
  <1>4. ASSUME NEW w \in windows, NEW q \in Nat, Covers(w, c, q)
        PROVE  w \in Of(c, windows) /\ w.first <= q /\ q <= w.last /\ q \in 1..cursor[c]
    BY <1>2, <1>3, <1>4 DEF Covers, Of, Tiled
  <1>5. ASSUME NEW p \in DOMAIN log[c], log[c][p] = m
        PROVE  \A w : w \in covering <=> w \in windows /\ Covers(w, c, p)
    <2>1. ASSUME NEW w \in covering PROVE Covers(w, c, p)
      <3>1. PICK q \in w.first..w.last : Covers(w, c, q) /\ log[c][q] = m
        OBVIOUS
      <3>2. w \in windows /\ q \in Nat
        BY <1>3
      <3>3. q \in DOMAIN log[c]
        BY <1>2, <1>4, <3>1, <3>2
      <3>4. q = p
        BY <1>2, <1>5, <3>1, <3>3 DEF IsInjective
      <3> QED
        BY <3>1, <3>4
    <2>2. ASSUME NEW w \in windows, Covers(w, c, p) PROVE w \in covering
      <3>1. p \in w.first..w.last
        BY <1>2, <1>3, <2>2 DEF Covers
      <3> QED
        BY <1>5, <2>2, <3>1
    <2> QED
      BY <2>1, <2>2
  <1> HIDE DEF covering
  <1>6. ASSUME m \notin Range(log[c]) PROVE DispositionOf(c, m) = "absent"
    BY <1>1, <1>6
  <1>7. ASSUME NEW p \in DOMAIN log[c], log[c][p] = m
        PROVE  /\ p > cursor[c] => DispositionOf(c, m) = "waiting"
               /\ p <= cursor[c] => DispositionOf(c, m) \in Ledger!Disposed
               /\ \A w \in windows : Covers(w, c, p) => DispositionOf(c, m) = w.fate
    <2>1. m \in Range(log[c]) /\ p \in Nat
      BY <1>2, <1>7 DEF Range
    <2>2. CASE p > cursor[c]
      <3>1. \A w \in windows : ~Covers(w, c, p)
        BY <1>2, <1>4, <2>1, <2>2
      <3>2. covering = {}
        BY <1>5, <1>7, <3>1
      <3> QED
        BY <1>1, <1>2, <2>1, <2>2, <3>1, <3>2
    <2>3. CASE p <= cursor[c]
      <3>1. p \in 1..cursor[c]
        BY <1>2, <2>3
      <3>2. PICK w \in Of(c, windows) : w.first <= p /\ p <= w.last
        BY <1>2, <3>1 DEF Tiled
      <3>3. w \in windows /\ Covers(w, c, p)
        BY <3>2 DEF Covers, Of
      <3>4. ASSUME NEW v \in windows, Covers(v, c, p) PROVE v = w
        <4>1. v \in Of(c, windows) /\ v.first <= p /\ p <= v.last
          BY <3>4, <2>1, <1>4
        <4> QED
          BY <1>2, <3>1, <3>2, <4>1 DEF Tiled
      <3>5. covering = {w}
        BY <1>5, <1>7, <3>3, <3>4
      <3>6. DispositionOf(c, m) = w.fate
        BY <1>1, <2>1, <3>5
      <3> QED
        BY <1>3, <2>1, <2>3, <1>2, <3>3, <3>4, <3>6 DEF Ledger!Disposed
    <2> QED
      BY <1>2, <2>1, <2>2, <2>3
  <1> QED
    BY <1>6, <1>7 DEF Stands

\* One Chat of the ledger from a state to the next.
LEMMA ChatMoves ==
    ASSUME TypeOK, TilingInv, LedgerInv, TypeOK', TilingInv', LedgerInv', NEW c \in Chats, Grown(c),
           NEW m \in Messages
    PROVE  /\ DispositionOf(c, m)' \in Ledger!MayBecome(DispositionOf(c, m))
           /\ DispositionOf(c, m)' \in Ledger!Dispositions
           /\ DispositionOf(c, m) = "absent" /\ DispositionOf(c, m)' \in Ledger!Disposed =>
                \A early \in Messages : DispositionOf(c, early) = "waiting" =>
                    DispositionOf(c, early)' \in Ledger!Disposed
  <1>1. /\ cursor[c] \in Nat /\ cursor[c] <= Len(log[c]) /\ Len(log[c]) \in Nat
        /\ DOMAIN log[c] = 1..Len(log[c])
    BY CursorFacts, LenProperties DEF TilingInv
  <1>2. /\ cursor'[c] \in Nat /\ cursor'[c] <= Len(log'[c]) /\ Len(log'[c]) \in Nat
        /\ DOMAIN log'[c] = 1..Len(log'[c])
    <2>1. log'[c] \in Seq(Messages) /\ cursor'[c] \in Nat
      BY DEF TypeOK
    <2> QED
      BY <2>1, LenProperties DEF TilingInv
  <1>3. ASSUME NEW x \in Messages, x \notin Range(log[c]) PROVE DispositionOf(c, x) = "absent"
    BY <1>3 DEF LedgerInv, Stands
  <1>4. ASSUME NEW x \in Messages, NEW p \in DOMAIN log[c], log[c][p] = x
        PROVE  /\ p > cursor[c] => DispositionOf(c, x) = "waiting"
               /\ p <= cursor[c] => DispositionOf(c, x) \in Ledger!Disposed
               /\ \A w \in windows : Covers(w, c, p) => DispositionOf(c, x) = w.fate
    BY <1>4 DEF LedgerInv, Stands
  <1>5. ASSUME NEW x \in Messages, x \notin Range(log'[c]) PROVE DispositionOf(c, x)' = "absent"
    BY <1>5 DEF LedgerInv, Stands
  <1>6. ASSUME NEW x \in Messages, NEW p \in DOMAIN log'[c], log'[c][p] = x
        PROVE  /\ p > cursor'[c] => DispositionOf(c, x)' = "waiting"
               /\ p <= cursor'[c] => DispositionOf(c, x)' \in Ledger!Disposed
               /\ \A w \in windows' : Covers(w, c, p) => DispositionOf(c, x)' = w.fate
    BY <1>6 DEF LedgerInv, Stands, Covers
  <1>7. ASSUME NEW x \in Messages
        PROVE  DispositionOf(c, x)' \in {"absent", "waiting"} \cup Ledger!Disposed
    <2>1. CASE x \notin Range(log'[c])
      BY <1>5, <2>1
    <2>2. CASE \E p \in DOMAIN log'[c] : log'[c][p] = x
      BY <1>2, <1>6, <2>2
    <2> QED
      BY <2>1, <2>2 DEF Range
  <1>8. DispositionOf(c, m)' \in Ledger!MayBecome(DispositionOf(c, m))
    <2>1. CASE m \notin Range(log[c])
      BY <1>3, <1>7, <2>1 DEF Ledger!MayBecome, Ledger!Dispositions
    <2>2. ASSUME NEW p \in DOMAIN log[c], log[c][p] = m
          PROVE  DispositionOf(c, m)' \in Ledger!MayBecome(DispositionOf(c, m))
      <3>1. p \in DOMAIN log'[c] /\ log'[c][p] = m /\ p \in 1..Len(log[c])
        BY <1>1, <2>2 DEF Grown
      <3>2. CASE p > cursor[c]
        <4>1. DispositionOf(c, m) = "waiting"
          BY <1>4, <2>2, <3>2
        <4>2. DispositionOf(c, m)' \in {"waiting"} \cup Ledger!Disposed
          BY <1>2, <1>6, <3>1
        <4> QED
          BY <4>1, <4>2 DEF Ledger!MayBecome
      <3>3. CASE p <= cursor[c]
        <4>1. PICK w \in windows : Covers(w, c, p)
          <5>1. p \in 1..cursor[c]
            BY <1>1, <3>1, <3>3
          <5> QED
            BY <5>1 DEF TilingInv, Tiled, Of, Covers
        <4>2. w \in windows'
          BY DEF Grown
        <4>3. DispositionOf(c, m) = w.fate
          BY <1>4, <2>2, <4>1
        <4>4. DispositionOf(c, m)' = w.fate
          BY <1>6, <3>1, <4>1, <4>2
        <4>5. DispositionOf(c, m) \in {"queued", "skipped"}
          BY <1>4, <2>2, <3>3 DEF Ledger!Disposed
        <4> QED
          BY <4>3, <4>4, <4>5 DEF Ledger!MayBecome
      <3> QED
        BY <1>1, <3>1, <3>2, <3>3
    <2> QED
      BY <2>1, <2>2 DEF Range
  <1>9. ASSUME DispositionOf(c, m) = "absent", DispositionOf(c, m)' \in Ledger!Disposed,
               NEW early \in Messages, DispositionOf(c, early) = "waiting"
        PROVE  DispositionOf(c, early)' \in Ledger!Disposed
    <2>1. m \notin Range(log[c])
      <3>1. ASSUME NEW p \in DOMAIN log[c], log[c][p] = m PROVE FALSE
        BY <1>1, <1>4, <1>9, <3>1 DEF Ledger!Disposed
      <3> QED
        BY <3>1 DEF Range
    <2>2. PICK q \in DOMAIN log'[c] : log'[c][q] = m
      <3>1. m \in Range(log'[c])
        BY <1>5, <1>9 DEF Ledger!Disposed
      <3> QED
        BY <3>1 DEF Range
    <2>3. q <= cursor'[c]
      BY <1>2, <1>6, <1>9, <2>2 DEF Ledger!Disposed
    <2>4. q \notin DOMAIN log[c]
      BY <2>1, <2>2 DEF Grown, Range
    <2>5. PICK p \in DOMAIN log[c] : log[c][p] = early
      <3>1. early \in Range(log[c])
        BY <1>3, <1>9
      <3> QED
        BY <3>1 DEF Range
    <2>6. p \in DOMAIN log'[c] /\ log'[c][p] = early
      BY <2>5 DEF Grown
    <2>7. p <= cursor'[c]
      BY <1>1, <1>2, <2>2, <2>3, <2>4, <2>5
    <2> QED
      BY <1>6, <2>6, <2>7
  <1> QED
    BY <1>7, <1>8, <1>9 DEF Ledger!Dispositions

LEMMA StepsAreTheLedgers ==
    TypeOK /\ TilingInv /\ DistinctInv /\ LedgerInv /\ TypeOK' /\ TilingInv' /\ LedgerInv' /\ [Next]_vars
        => Ledger!Next
  <1> SUFFICES ASSUME TypeOK, TilingInv, DistinctInv, LedgerInv, TypeOK', TilingInv', LedgerInv', [Next]_vars
               PROVE  Ledger!Next
    OBVIOUS
  <1>1. \A c \in Chats : Grown(c)
    BY StepGrows
  <1>2. ASSUME NEW c \in Chats, NEW m \in Messages
        PROVE  /\ DispositionOf(c, m)' \in Ledger!MayBecome(DispositionOf(c, m))
               /\ DispositionOf(c, m)' \in Ledger!Dispositions
               /\ DispositionOf(c, m) = "absent" /\ DispositionOf(c, m)' \in Ledger!Disposed =>
                    \A early \in Messages : DispositionOf(c, early) = "waiting" =>
                        DispositionOf(c, early)' \in Ledger!Disposed
    BY <1>1, ChatMoves
  <1> QED
    BY <1>2 DEF Ledger!Next, Ledger!NoOvertaking

LEMMA StartsAsTheLedger == Init => DistinctInv /\ Ledger!Init
  BY DEF Init, DistinctInv, IsInjective, Ledger!Init, DispositionOf, Range

\* The cursor and the windows implement the ledger: whatever is redelivered and
\* whichever triggers cut, a message is disposed of at most once, for good and in order.
THEOREM LedgerIsImplemented == Spec => LedgerSpec
  <1>1. TypeOK /\ TilingInv /\ DistinctInv /\ [Next]_vars => DistinctInv'
    BY StepGrows
  <1>2. Spec => []DistinctInv
    BY <1>1, StartsAsTheLedger, InvCorrect, PTL DEF Spec
  <1>3. Spec => []LedgerInv
    BY <1>2, DispositionsStand, InvCorrect, PTL
  <1> QED
    BY <1>2, <1>3, InvCorrect, StartsAsTheLedger, StepsAreTheLedgers, PTL DEF Spec, LedgerSpec, Ledger!Spec

-----------------------------------------------------------------------------
(* The summary of a Chat, for any number of Runs, workers, attempts and    *)
(* edits.  A revision names one state of the Chat's row: a worker whose    *)
(* snapshot has the row's revision has seen the row as it is.              *)


\* No snapshot is from the future, and one of the current revision is current.
SnapshotInv ==
    \A w \in Workers :
        /\ worker[w].seen.revision <= chat.revision
        /\ worker[w].seen.revision = chat.revision => worker[w].seen = chat

Hands == [pc : {"idle", "reading", "asking", "writing", "summarised"},
          run : Runs \cup {NoRun}, seen : Metadata]

\* Whoever is past its claim has a Run in hand.
HandInv ==
    /\ worker \in [Workers -> Hands]
    /\ \A w \in Workers : worker[w].pc # "idle" => worker[w].run \in Runs

SummaryInv == SummaryTypeOK /\ HandInv /\ SnapshotInv

LEMMA NewHand ==
    ASSUME SummaryInv, NEW w \in Workers,
           NEW pc \in {"idle", "reading", "asking", "writing", "summarised"},
           NEW r \in Runs \cup {NoRun}, pc # "idle" => r \in Runs,
           worker' = [worker EXCEPT ![w] = Hand(pc, r, chat)], chat' = chat
    PROVE  HandInv' /\ SnapshotInv'
<1>1. chat \in Metadata /\ worker \in [Workers -> Hands]
  BY DEF SummaryInv, SummaryTypeOK, HandInv
<1>2. Hand(pc, r, chat) \in Hands
  BY <1>1 DEF Hand, Hands
<1>3. worker' \in [Workers -> Hands]
  BY <1>1, <1>2
<1>4. \A v \in Workers : worker'[v] = IF v = w THEN Hand(pc, r, chat) ELSE worker[v]
  BY <1>1
<1>5. \A v \in Workers : worker'[v].pc # "idle" => worker'[v].run \in Runs
  BY <1>4 DEF Hand, SummaryInv, HandInv
<1>6. SnapshotInv'
  <2>1. chat.revision \in Nat
    BY <1>1 DEF Metadata
  <2>2. \A v \in Workers : worker'[v].seen = IF v = w THEN chat ELSE worker[v].seen
    BY <1>4 DEF Hand
  <2> QED
    BY <2>1, <2>2 DEF SnapshotInv, SummaryInv
<1> QED
  BY <1>3, <1>5, <1>6 DEF HandInv

\* A step of one hand that keeps its snapshot.
LEMMA NextPc ==
    ASSUME SummaryInv, NEW w \in Workers, worker[w].pc # "idle",
           NEW pc \in {"idle", "reading", "asking", "writing", "summarised"},
           worker' = [worker EXCEPT ![w].pc = pc]
    PROVE  /\ HandInv'
           /\ \A v \in Workers : worker'[v].seen = worker[v].seen
<1>1. worker \in [Workers -> Hands]
  BY DEF SummaryInv, HandInv
<1>2. \A v \in Workers : worker'[v] = IF v = w THEN [worker[w] EXCEPT !.pc = pc] ELSE worker[v]
  BY <1>1
<1>3. [worker[w] EXCEPT !.pc = pc] \in Hands
  BY <1>1 DEF Hands
<1>4. worker' \in [Workers -> Hands]
  BY <1>1, <1>2, <1>3
<1>5. /\ [worker[w] EXCEPT !.pc = pc].run = worker[w].run
      /\ [worker[w] EXCEPT !.pc = pc].seen = worker[w].seen
  BY <1>1 DEF Hands
<1> QED
  BY <1>2, <1>4, <1>5 DEF SummaryInv, HandInv

LEMMA TypeFromHands == ASSUME HandInv', chat' \in Metadata, attempts' \in [Runs -> 0..Limit],
                              status' \in [Runs -> {"open", "running", "completed"}]
                       PROVE  SummaryTypeOK'
  BY DEF SummaryTypeOK, HandInv, Hands

LEMMA Typed ==
    ASSUME SummaryInv
    PROVE  /\ chat \in Metadata /\ chat.revision \in Nat /\ chat.folded \in Seq(Runs)
           /\ attempts \in [Runs -> 0..Limit]
           /\ status \in [Runs -> {"open", "running", "completed"}]
           /\ worker \in [Workers -> Hands] /\ HandInv /\ SnapshotInv
           /\ \A w \in Workers : worker[w].seen \in Metadata
  BY DEF SummaryInv, SummaryTypeOK, HandInv, Metadata, Hands

LEMMA SummaryStarts == SummaryInit => SummaryInv
<1> SUFFICES ASSUME SummaryInit PROVE SummaryInv
  OBVIOUS
<1>1. chat \in Metadata /\ chat.revision = 1
  BY DEF SummaryInit, Metadata
<1>2. worker \in [Workers -> Hands]
  BY <1>1 DEF SummaryInit, Hands, Hand
<1>3. \A w \in Workers : worker[w].pc = "idle" /\ worker[w].seen = chat
  BY DEF SummaryInit, Hand
<1>4. attempts \in [Runs -> 0..Limit] /\ status \in [Runs -> {"open", "running", "completed"}]
  BY BoundsAssumption DEF SummaryInit
<1>5. SnapshotInv
  BY <1>1, <1>3 DEF SnapshotInv
<1>6. HandInv
  BY <1>2, <1>3 DEF HandInv
<1>7. SummaryTypeOK
  BY <1>1, <1>2, <1>4 DEF SummaryTypeOK, Hands
<1> QED
  BY <1>5, <1>6, <1>7 DEF SummaryInv

\* What Write does to the row: nothing, or a fold of r after all it has summarised.
LEMMA WriteFacts ==
    ASSUME SummaryInv, NEW w \in Workers, Write(w)
    PROVE  /\ worker[w].run \in Runs
           /\ \/ chat' = chat
              \/ /\ chat.by = "system"
                 /\ chat' = [chat EXCEPT !.revision = @ + 1, !.by = "system",
                                         !.through = worker[w].run,
                                         !.folded = Append(chat.folded, worker[w].run)]
<1>1. worker[w].run \in Runs
  BY Typed DEF Write, HandInv
<1>2. Unmoved(worker[w].seen) => worker[w].seen = chat
  BY Typed DEF Unmoved, SnapshotInv
<1> QED
  BY <1>1, <1>2 DEF Write, Unmoved

\* The rows that an UPDATE of some columns leaves are rows.
LEMMA Rewritten ==
    ASSUME NEW m \in Metadata, NEW n \in Nat, NEW b \in {"system", "human"},
           NEW p \in BOOLEAN, NEW t \in Runs \cup {NoRun}, NEW f \in Seq(Runs)
    PROVE  /\ [m EXCEPT !.revision = n] \in Metadata
           /\ [m EXCEPT !.revision = n, !.by = b, !.protected = p, !.folded = f] \in Metadata
           /\ [m EXCEPT !.revision = n, !.by = b, !.through = t, !.folded = f] \in Metadata
<1>1. [m EXCEPT !.revision = n] \in Metadata
  BY Zenon DEF Metadata
<1>2. \A x \in Metadata : [x EXCEPT !.by = b] \in Metadata
  BY Zenon DEF Metadata
<1>3. \A x \in Metadata : [x EXCEPT !.protected = p] \in Metadata
  BY Zenon DEF Metadata
<1>4. \A x \in Metadata : [x EXCEPT !.through = t] \in Metadata
  BY Zenon DEF Metadata
<1>5. \A x \in Metadata : [x EXCEPT !.folded = f] \in Metadata
  BY Zenon DEF Metadata
<1> QED
  BY <1>1, <1>2, <1>3, <1>4, <1>5

\* A row of a later revision is seen by nobody.
LEMMA NewRevision ==
    ASSUME SummaryInv, chat' \in Metadata, chat'.revision = chat.revision + 1,
           \A v \in Workers : worker'[v].seen = worker[v].seen
    PROVE  SnapshotInv'
<1>1. \A v \in Workers : worker[v].seen.revision \in Nat /\ worker[v].seen.revision <= chat.revision
  BY Typed DEF SnapshotInv, Metadata
<1>2. chat.revision \in Nat
  BY Typed
<1> QED
  BY <1>1, <1>2 DEF SnapshotInv

LEMMA SummarySteps == SummaryInv /\ [SummaryNext]_summary_vars => SummaryInv'
<1> SUFFICES ASSUME SummaryInv, [SummaryNext]_summary_vars PROVE SummaryInv'
  OBVIOUS
<1> USE Typed
<1>1. CASE UNCHANGED summary_vars
  BY <1>1 DEF summary_vars, SummaryInv, SummaryTypeOK, HandInv, SnapshotInv
<1>2. ASSUME NEW w \in Workers, NEW r \in Runs, Claim(w, r) PROVE SummaryInv'
  <2>1. HandInv' /\ SnapshotInv'
    BY <1>2, NewHand DEF Claim
  <2>2. attempts' \in [Runs -> 0..Limit]
    BY <1>2, BoundsAssumption DEF Claim
  <2>3. status' \in [Runs -> {"open", "running", "completed"}] /\ chat' = chat
    BY <1>2 DEF Claim
  <2> QED
    BY <2>1, <2>2, <2>3, TypeFromHands DEF SummaryInv
<1>3. ASSUME NEW w \in Workers, Read(w) PROVE SummaryInv'
  <2>1. worker[w].run \in Runs
    BY <1>3 DEF Read, HandInv
  <2>2. HandInv' /\ SnapshotInv'
    BY <1>3, <2>1, NewHand DEF Read
  <2> QED
    BY <1>3, <2>2, TypeFromHands DEF Read, SummaryInv
<1>4. ASSUME NEW w \in Workers, Infer(w) PROVE SummaryInv'
  <2>1. status' \in [Runs -> {"open", "running", "completed"}]
    BY <1>4 DEF Infer
  <2>2. CASE worker' = [worker EXCEPT ![w].pc = "writing"]
    <3>1. HandInv' /\ \A v \in Workers : worker'[v].seen = worker[v].seen
      BY <1>4, <2>2, NextPc DEF Infer
    <3>2. SnapshotInv'
      BY <1>4, <3>1 DEF Infer, SnapshotInv
    <3> QED
      BY <1>4, <2>1, <3>1, <3>2, TypeFromHands DEF Infer, SummaryInv
  <2>3. CASE worker' = [worker EXCEPT ![w] = Hand("idle", NoRun, chat)]
    <3>1. HandInv' /\ SnapshotInv'
      BY <1>4, <2>3, NewHand DEF Infer
    <3> QED
      BY <1>4, <2>1, <3>1, TypeFromHands DEF Infer, SummaryInv
  <2> QED
    BY <1>4, <2>2, <2>3 DEF Infer
<1>5. ASSUME NEW w \in Workers, Write(w) PROVE SummaryInv'
  <2>1. HandInv' /\ \A v \in Workers : worker'[v].seen = worker[v].seen
    BY <1>5, NextPc DEF Write
  <2>2. CASE chat' = chat
    BY <1>5, <2>1, <2>2, TypeFromHands DEF Write, SnapshotInv, SummaryInv
  <2>3. CASE chat' = [chat EXCEPT !.revision = @ + 1, !.by = "system",
                                  !.through = worker[w].run,
                                  !.folded = Append(chat.folded, worker[w].run)]
    <3>1. worker[w].run \in Runs
      BY <1>5, WriteFacts
    <3>2. Append(chat.folded, worker[w].run) \in Seq(Runs)
      BY <3>1
    <3>3. chat' \in Metadata /\ chat'.revision = chat.revision + 1
      <4>1. chat.revision + 1 \in Nat
        OBVIOUS
      <4>2. chat' \in Metadata
        BY <2>3, <3>1, <3>2, <4>1, Rewritten
      <4>3. chat'.revision = chat.revision + 1
        BY <2>3 DEF Metadata
      <4> QED
        BY <4>2, <4>3
    <3>4. SnapshotInv'
      BY <2>1, <3>3, NewRevision
    <3> QED
      BY <1>5, <2>1, <3>3, <3>4, TypeFromHands DEF Write, SummaryInv
  <2> QED
    BY <1>5, <2>2, <2>3, WriteFacts
<1>6. ASSUME NEW w \in Workers, Finish(w) PROVE SummaryInv'
  <2>1. HandInv' /\ SnapshotInv'
    BY <1>6, NewHand DEF Finish
  <2> QED
    BY <1>6, <2>1, TypeFromHands DEF Finish, SummaryInv
<1>7. ASSUME NEW w \in Workers, Crash(w) PROVE SummaryInv'
  <2>1. HandInv' /\ SnapshotInv'
    BY <1>7, NewHand DEF Crash
  <2> QED
    BY <1>7, <2>1, TypeFromHands DEF Crash, SummaryInv
<1>8. ASSUME NEW protect \in BOOLEAN, Edit(protect) PROVE SummaryInv'
  <2>1. << >> \in Seq(Runs)
    OBVIOUS
  <2>2. chat' \in Metadata /\ chat'.revision = chat.revision + 1
    <3>1. chat.revision + 1 \in Nat
      OBVIOUS
    <3>2. chat' \in Metadata
      BY <1>8, <2>1, <3>1, Rewritten DEF Edit
    <3>3. chat'.revision = chat.revision + 1
      BY <1>8 DEF Edit, Metadata
    <3> QED
      BY <3>2, <3>3
  <2>3. SnapshotInv' /\ HandInv'
    BY <1>8, <2>2, NewRevision DEF Edit, HandInv
  <2> QED
    BY <1>8, <2>2, <2>3, TypeFromHands DEF Edit, SummaryInv
<1>9. CASE Cover
  <2>1. chat' \in Metadata /\ chat'.revision = chat.revision + 1
    <3>1. chat.revision + 1 \in Nat
      OBVIOUS
    <3>2. chat' \in Metadata
      BY <1>9, <3>1, Rewritten DEF Cover
    <3>3. chat'.revision = chat.revision + 1
      BY <1>9 DEF Cover, Metadata
    <3> QED
      BY <3>2, <3>3
  <2>2. SnapshotInv' /\ HandInv'
    BY <1>9, <2>1, NewRevision DEF Cover, HandInv
  <2> QED
    BY <1>9, <2>1, <2>2, TypeFromHands DEF Cover, SummaryInv
<1> QED
  BY <1>1, <1>2, <1>3, <1>4, <1>5, <1>6, <1>7, <1>8, <1>9 DEF SummaryNext

\* The Chat's row, the Runs and the workers' snapshots keep their types.
THEOREM SummaryTypeCorrect == SummarySpec => []SummaryTypeOK
<1>1. SummaryInv => SummaryTypeOK
  BY DEF SummaryInv
<1> QED
  BY <1>1, SummaryStarts, SummarySteps, PTL DEF SummarySpec

\* However many workers summarise windows of one Chat at once, a summary that is
\* written (summarize_chat's UPDATE) has folded in all that was folded in before.
THEOREM SummariesAreKept == SummarySpec => NoSummaryLost
<1> DEFINE Kept == chat'.by = "system" =>
                     /\ Len(chat.folded) <= Len(chat'.folded)
                     /\ SubSeq(chat'.folded, 1, Len(chat.folded)) = chat.folded
<1>1. SummaryInv /\ [SummaryNext]_summary_vars => [Kept]_summary_vars
  <2> SUFFICES ASSUME SummaryInv, SummaryNext PROVE Kept
    BY DEF summary_vars
  <2>1. chat.folded \in Seq(Runs)
    BY Typed
  <2>2. ASSUME chat'.folded = chat.folded PROVE Kept
    BY <2>1, <2>2
  <2>3. ASSUME NEW w \in Workers, Write(w) PROVE Kept
    <3>1. CASE chat' = chat
      BY <2>2, <3>1
    <3>2. CASE chat' = [chat EXCEPT !.revision = @ + 1, !.by = "system",
                                    !.through = worker[w].run,
                                    !.folded = Append(chat.folded, worker[w].run)]
      <4>1. chat'.folded = Append(chat.folded, worker[w].run)
        BY <3>2, Typed DEF Metadata
      <4>2. worker[w].run \in Runs
        BY <2>3, WriteFacts
      <4> QED
        BY <2>1, <4>1, <4>2
    <3> QED
      BY <2>3, <3>1, <3>2, WriteFacts
  <2>4. ASSUME NEW protect \in BOOLEAN, Edit(protect) PROVE Kept
    <3>1. chat'.by = "human"
      BY <2>4, Typed DEF Edit, Metadata
    <3> QED
      BY <3>1
  <2>5. ASSUME Cover PROVE Kept
    <3>1. chat'.folded = chat.folded
      BY <2>5, Typed DEF Cover, Metadata
    <3> QED
      BY <2>2, <3>1
  <2>6. CASE UNCHANGED chat
    BY <2>2, <2>6
  <2> HIDE DEF Kept
  <2> QED
    BY <2>3, <2>4, <2>5, <2>6 DEF SummaryNext, Claim, Read, Infer, Finish, Crash
<1> QED
  BY <1>1, SummaryStarts, SummarySteps, PTL DEF SummarySpec, NoSummaryLost

\* What the owner wrote is the owner's until the owner writes again, whatever was
\* asked of a model before.
THEOREM OwnersWordIsKept == SummarySpec => OwnersWordStays
<1>1. SummaryInv /\ [SummaryNext]_summary_vars =>
        [chat.by = "human" => chat'.by = "human" /\ chat'.through = chat.through]_summary_vars
  <2> SUFFICES ASSUME SummaryInv, SummaryNext, chat.by = "human"
               PROVE  chat'.by = "human" /\ chat'.through = chat.through
    BY DEF summary_vars
  <2>1. ASSUME NEW w \in Workers, Write(w) PROVE chat' = chat
    BY <2>1 DEF Write, Unmoved
  <2>2. ASSUME NEW protect \in BOOLEAN, Edit(protect)
        PROVE  chat'.by = "human" /\ chat'.through = chat.through
    BY <2>2, Typed DEF Edit, Metadata
  <2>3. ASSUME Cover PROVE chat'.by = "human" /\ chat'.through = chat.through
    BY <2>3, Typed DEF Cover, Metadata
  <2> QED
    BY <2>1, <2>2, <2>3 DEF SummaryNext, Claim, Read, Infer, Finish, Crash
<1> QED
  BY <1>1, SummaryStarts, SummarySteps, PTL DEF SummarySpec, OwnersWordStays
=============================================================================
