------------------------- MODULE FrameChannelProofs -------------------------
(***************************************************************************)
(* Proofs about the frame channel for any set of words, any readers and    *)
(* any number of publishes and panics.                                     *)
(*                                                                         *)
(* The argument.  An entry of a word that is newer than what generation g  *)
(* committed was stored by a later publish, so it carries a view larger    *)
(* than g (LaterEntriesCarryLaterView).  A reader that copied such an      *)
(* entry knows that view after its acquire fence, so the second load of    *)
(* the counter cannot return g (CopyIsTied, FenceTakesView): the attempt   *)
(* fails.  An accepted copy therefore consists of committed entries only.  *)
(***************************************************************************)
EXTENDS FrameChannel, TLAPS

\* Parity: what InFlight does to a counter, odd or even.
LEMMA OddNext ==
  ASSUME NEW n \in Nat
  PROVE  /\ Odd(n + 1) <=> ~Odd(n)
         /\ InFlight(n) \in Nat
         /\ Odd(InFlight(n))
         /\ InFlight(n) = n \/ InFlight(n) = n + 1
         /\ Odd(n) => InFlight(n) = n
         /\ ~Odd(n) => InFlight(n) = n + 1
  BY SMT DEF Odd, InFlight

\* Larger returns one of its arguments and bounds both.
LEMMA LargerNat ==
  ASSUME NEW a \in Nat, NEW b \in Nat
  PROVE  /\ Larger(a, b) \in Nat
         /\ Larger(a, b) >= a
         /\ Larger(a, b) >= b
         /\ Larger(a, b) = a \/ Larger(a, b) = b
  BY DEF Larger

\* An entry of a sequence of generations is a generation.
LEMMA EntryNat ==
  ASSUME NEW s \in Seq(Nat), NEW n \in Nat, n # 0, n <= Len(s)
  PROVE  s[n] \in Nat
  OBVIOUS

\* Publishing moves the published generations forward by exactly one.
LEMMA PublishedGrows ==
  ASSUME NEW m \in Nat, Odd(m)
  PROVE  {g \in 0 .. m + 1 : ~Odd(g)} = {g \in 0 .. m : ~Odd(g)} \union {m + 1}
  BY OddNext

\* The odd marker publishes no generation of its own.
LEMMA PublishedStays ==
  ASSUME NEW m \in Nat
  PROVE  {g \in 0 .. InFlight(m) : ~Odd(g)} = {g \in 0 .. m : ~Odd(g)}
  BY OddNext

-----------------------------------------------------------------------------
\* A fill only ever runs under an odd counter.
FillIsOdd == filling => Odd(generation)

\* Before the first publish only generation 0 counts as published.
LEMMA PublishedInit == generation = 0 => Published = {0}
  BY SMT DEF Published, Odd

\* The initial state has the types and no fill under way.
LEMMA InitTypes == Init => TypeOK /\ FillIsOdd
<1> SUFFICES ASSUME Init PROVE TypeOK /\ FillIsOdd
  OBVIOUS
<1>1. Published = {0}
  BY PublishedInit DEF Init
<1>2. TypeOK
  <2> USE DEF Init
  <2>1. hist \in [Words -> Seq(Nat)] /\ committed \in [Published -> [Words -> Nat]]
    BY <1>1
  <2>2. rpc \in [Readers -> {"idle", "copy", "check"}] /\ copied \in [Readers -> SUBSET Words]
    OBVIOUS
  <2>3. /\ before \in [Readers -> Published]
        /\ fgen \in [Readers -> Published]
        /\ last \in [Readers -> Published]
        /\ genView \in [Readers -> Nat]
        /\ pend \in [Readers -> Nat]
    BY <1>1
  <2>4. view \in [Readers -> [Words -> Nat]] /\ fword \in [Readers -> [Words -> Nat]]
    OBVIOUS
  <2> QED
    BY <2>1, <2>2, <2>3, <2>4 DEF TypeOK
<1>3. FillIsOdd
  BY DEF Init, FillIsOdd
<1> QED
  BY <1>2, <1>3

\* No writer step leaves the types, panics included.
LEMMA WriterTypes ==
  ASSUME TypeOK, FillIsOdd, Writer
  PROVE  TypeOK' /\ FillIsOdd'
<1> USE DEF TypeOK, FillIsOdd
<1>1. CASE BeginPublish
  <2>1. /\ generation' = InFlight(generation)
        /\ generation' \in Nat
        /\ Odd(generation')
    BY <1>1, OddNext, Zenon DEF BeginPublish
  <2>2. Published' = Published
    BY <2>1, PublishedStays DEF Published
  <2> QED
    BY <1>1, <2>1, <2>2 DEF BeginPublish
<1>2. ASSUME NEW w \in Words, StoreWord(w)
      PROVE  TypeOK' /\ FillIsOdd'
  BY <1>2 DEF StoreWord, Published
<1>3. CASE EndPublish
  <2>1. /\ filling
        /\ generation' = generation + 1
        /\ filling' = FALSE
        /\ UNCHANGED <<hist, fence, written, started, panics, rpc, before,
                       copied, genView, view, pend, fgen, fword, last>>
    BY <1>3 DEF EndPublish
  <2>2. Published' = Published \union {generation + 1}
    BY <2>1, PublishedGrows DEF Published
  <2>3. Lengths \in [Words -> Nat]
    BY DEF Lengths
  <2>4. committed' \in [Published' -> [Words -> Nat]]
    BY <1>3, <2>2, <2>3 DEF EndPublish
  <2>5. generation' \in Nat /\ Published \subseteq Published'
    BY <2>1, <2>2
  <2>6. /\ before' \in [Readers -> Published']
        /\ fgen' \in [Readers -> Published']
        /\ last' \in [Readers -> Published']
    <3>1. ASSUME NEW f \in [Readers -> Published]
          PROVE  f \in [Readers -> Published']
      BY <2>5
    <3> QED
      BY <2>1, <3>1
  <2>7. /\ fence' \in Nat
        /\ hist' \in [Words -> Seq(Nat)]
        /\ filling' \in BOOLEAN
        /\ written' \in SUBSET Words
        /\ started' \in Nat
        /\ panics' \in Nat
        /\ rpc' \in [Readers -> {"idle", "copy", "check"}]
        /\ copied' \in [Readers -> SUBSET Words]
    BY <2>1
  <2>8. /\ genView' \in [Readers -> Nat]
        /\ view' \in [Readers -> [Words -> Nat]]
        /\ pend' \in [Readers -> Nat]
        /\ fword' \in [Readers -> [Words -> Nat]]
    BY <2>1
  <2>9. FillIsOdd'
    BY <2>1
  <2> QED
    BY <2>4, <2>5, <2>6, <2>7, <2>8, <2>9
<1>4. CASE PanicFill
  <2>1. /\ UNCHANGED <<generation, hist, fence, committed, written, started, rpc>>
        /\ UNCHANGED <<before, copied, genView, view, pend, fgen, fword, last>>
        /\ filling' = FALSE
        /\ panics' = panics + 1
    BY <1>4 DEF PanicFill
  <2>2. Published' = Published
    BY <2>1 DEF Published
  <2>3. /\ generation' \in Nat /\ fence' \in Nat /\ started' \in Nat
        /\ panics' \in Nat /\ written' \in SUBSET Words
    BY <2>1
  <2>6. filling' \in BOOLEAN /\ FillIsOdd'
    BY <2>1, Zenon
  <2>4. /\ hist' \in [Words -> Seq(Nat)]
        /\ committed' \in [Published' -> [Words -> Nat]]
        /\ rpc' \in [Readers -> {"idle", "copy", "check"}]
        /\ before' \in [Readers -> Published']
        /\ copied' \in [Readers -> SUBSET Words]
    BY <2>1, <2>2
  <2>5. /\ genView' \in [Readers -> Nat]
        /\ view' \in [Readers -> [Words -> Nat]]
        /\ pend' \in [Readers -> Nat]
        /\ fgen' \in [Readers -> Published']
        /\ fword' \in [Readers -> [Words -> Nat]]
        /\ last' \in [Readers -> Published']
    BY <2>1, <2>2
  <2> QED
    BY <2>3, <2>4, <2>5, <2>6
<1> QED
  BY <1>1, <1>2, <1>3, <1>4 DEF Writer

\* No step of a reader leaves the types.
LEMMA ReaderTypes ==
  ASSUME TypeOK, FillIsOdd, NEW r \in Readers, Reader(r)
  PROVE  TypeOK' /\ FillIsOdd'
<1> USE DEF TypeOK, FillIsOdd, shared
<1>1. CASE ReadBegin(r)
  <2>1. PICK g \in genView[r] .. generation :
          /\ genView' = [genView EXCEPT ![r] = g]
          /\ IF Odd(g) \/ (g = fgen[r] /\ g # 0)
             THEN UNCHANGED <<rpc, before, copied, view, pend>>
             ELSE /\ rpc'    = [rpc EXCEPT ![r] = "copy"]
                  /\ before' = [before EXCEPT ![r] = g]
                  /\ copied' = [copied EXCEPT ![r] = {}]
                  /\ view'   = [view EXCEPT ![r] =
                                  [w \in Words |-> Larger(view[r][w], committed[g][w])]]
                  /\ pend'   = [pend EXCEPT ![r] = 0]
    BY <1>1, Zenon DEF ReadBegin
  <2>2. /\ UNCHANGED <<generation, hist, fence, committed, filling, written, started, panics>>
        /\ UNCHANGED <<fgen, fword, last>>
        /\ Published' = Published
    BY <1>1 DEF ReadBegin, Published
  <2>3. g \in 0 .. generation
    BY <2>1
  <2>4. CASE Odd(g) \/ (g = fgen[r] /\ g # 0)
    BY <2>1, <2>2, <2>3, <2>4
  <2>5. CASE ~(Odd(g) \/ (g = fgen[r] /\ g # 0))
    <3>1. g \in Published
      BY <2>3, <2>5 DEF Published
    <3>2. ASSUME NEW w \in Words
          PROVE  Larger(view[r][w], committed[g][w]) \in Nat
      <4>1. view[r][w] \in Nat
        OBVIOUS
      <4>2. committed[g][w] \in Nat
        BY <3>1
      <4> QED
        BY <4>1, <4>2, LargerNat
    <3>3. /\ rpc' \in [Readers -> {"idle", "copy", "check"}]
          /\ before' \in [Readers -> Published]
          /\ copied' \in [Readers -> SUBSET Words]
      BY <2>1, <2>5, <3>1
    <3>4. view' \in [Readers -> [Words -> Nat]]
      <4>1. [w \in Words |-> Larger(view[r][w], committed[g][w])] \in [Words -> Nat]
        BY <3>2
      <4> QED
        BY <2>1, <2>5, <4>1
    <3>5. pend' = [pend EXCEPT ![r] = 0] /\ genView' = [genView EXCEPT ![r] = g]
      BY <2>1, <2>5
    <3>6. pend' \in [Readers -> Nat] /\ genView' \in [Readers -> Nat]
      BY <2>3, <3>5
    <3> QED
      BY <2>2, <3>3, <3>4, <3>6
  <2> QED
    BY <2>4, <2>5
<1>2. ASSUME NEW w \in Words, ReadWord(r, w)
      PROVE  TypeOK' /\ FillIsOdd'
  <2>1. PICK i \in view[r][w] .. Len(hist[w]) :
          /\ fword' = [fword EXCEPT ![r][w] = i]
          /\ view'  = [view EXCEPT ![r][w] = i]
          /\ pend'  = [pend EXCEPT ![r] = Larger(@, EntryView(w, i))]
    BY <1>2 DEF ReadWord
  <2>2. i \in Nat /\ EntryView(w, i) \in Nat
    BY <2>1 DEF EntryView
  <2>3. Larger(pend[r], EntryView(w, i)) \in Nat
    BY <2>2, LargerNat
  <2>4. /\ UNCHANGED <<generation, hist, fence, committed, filling, written, started, panics>>
        /\ UNCHANGED <<rpc, before, genView, fgen, last>>
        /\ copied' = [copied EXCEPT ![r] = copied[r] \union {w}]
    BY <1>2 DEF ReadWord
  <2>6. Published' = Published
    BY <2>4 DEF Published
  <2>5. /\ fword' \in [Readers -> [Words -> Nat]]
        /\ view' \in [Readers -> [Words -> Nat]]
        /\ pend' \in [Readers -> Nat]
    BY <2>1, <2>2, <2>3
  <2> QED
    BY <2>4, <2>5, <2>6
<1>3. CASE AcquireFence(r)
  <2>1. Larger(genView[r], pend[r]) \in Nat
    BY LargerNat
  <2> QED
    BY <1>3, <2>1 DEF AcquireFence, Published
<1>4. CASE ReadCheck(r)
  <2>1. PICK g \in genView[r] .. generation :
          /\ genView' = [genView EXCEPT ![r] = g]
          /\ fgen'    = [fgen EXCEPT ![r] = IF g = before[r] THEN g ELSE 0]
          /\ last'    = [last EXCEPT ![r] = IF g = before[r] THEN g ELSE @]
    BY <1>4 DEF ReadCheck
  <2>2. g \in 0 .. generation /\ 0 \in Published
    BY <2>1, SMT DEF Published, Odd
  <2> QED
    BY <1>4, <2>1, <2>2 DEF ReadCheck, Published
<1> QED
  BY <1>1, <1>2, <1>3, <1>4 DEF Reader

\* Nor does a step that changes nothing.
LEMMA StutterTypes ==
  ASSUME TypeOK, FillIsOdd, UNCHANGED vars
  PROVE  TypeOK' /\ FillIsOdd'
<1>1. Published' = Published
  BY DEF vars, Published
<1> QED
  BY <1>1 DEF vars, TypeOK, FillIsOdd

\* Every variable keeps its type in every reachable state: in particular a
\* reader only ever starts from, and only ever accepts, a published (even)
\* generation, which is what read_into's first test is for.
THEOREM TypeCorrect == Spec => []TypeOK
<1>1. Init => TypeOK /\ FillIsOdd
  BY InitTypes
<1>2. TypeOK /\ FillIsOdd /\ [Next]_vars => (TypeOK /\ FillIsOdd)'
  BY WriterTypes, ReaderTypes, StutterTypes DEF Next
<1> QED
  BY <1>1, <1>2, PTL DEF Spec

-----------------------------------------------------------------------------
(* The inductive invariant behind FramesWhole.                             *)

LaterEntriesCarryLaterView ==
  \A g \in Published, w \in Words, i \in Nat :
    i > committed[g][w] /\ i <= Len(hist[w]) => hist[w][i] > g

WriterInv ==
  /\ filling => fence = generation
  /\ \A g \in Published, w \in Words : committed[g][w] <= Len(hist[w])
  /\ LaterEntriesCarryLaterView

\* An attempt has copied nothing older than the generation it started from,
\* and the views of what it copied are waiting for its acquire fence.
CopyIsTied(r) ==
  rpc[r] # "idle" =>
    \A w \in Words :
      /\ view[r][w] >= committed[before[r]][w]
      /\ w \in copied[r] =>
           /\ fword[r][w] >= committed[before[r]][w]
           /\ fword[r][w] <= Len(hist[w])
           /\ EntryView(w, fword[r][w]) <= pend[r]

FenceTakesView(r) ==
  rpc[r] = "check" => copied[r] = Words /\ genView[r] >= pend[r]

HeldIsCommitted(r) ==
  rpc[r] = "idle" /\ fgen[r] # 0 => fword[r] = committed[fgen[r]]

ReaderInv(r) == CopyIsTied(r) /\ FenceTakesView(r) /\ HeldIsCommitted(r)

ChannelInv ==
  /\ TypeOK
  /\ FillIsOdd
  /\ WriterInv
  /\ \A r \in Readers : ReaderInv(r)

\* The initial state satisfies the inductive invariant.
LEMMA InitInv == Init => ChannelInv
<1> SUFFICES ASSUME Init PROVE ChannelInv
  OBVIOUS
<1>1. Published = {0}
  BY PublishedInit DEF Init
<1>2. WriterInv
  BY <1>1 DEF Init, WriterInv, LaterEntriesCarryLaterView
<1>3. \A r \in Readers : ReaderInv(r)
  BY DEF Init, ReaderInv, CopyIsTied, FenceTakesView, HeldIsCommitted
<1> QED
  BY <1>2, <1>3, InitTypes DEF ChannelInv

\* What a writer step leaves alone is all a reader's part depends on.
LEMMA ReaderInvFrame ==
  ASSUME TypeOK, NEW r \in Readers, ReaderInv(r),
         UNCHANGED <<rpc, before, copied, genView, view, pend, fgen, fword>>,
         \A g \in Published : committed'[g] = committed[g],
         \A w \in Words, i \in Nat :
           i <= Len(hist[w]) => i <= Len(hist'[w]) /\ (i > 0 => hist'[w][i] = hist[w][i])
  PROVE  ReaderInv(r)'
<1> USE DEF TypeOK
<1>1. CopyIsTied(r)'
  <2> SUFFICES ASSUME rpc[r] # "idle", NEW w \in Words
               PROVE  /\ view[r][w] >= committed'[before[r]][w]
                      /\ w \in copied[r] =>
                           /\ fword[r][w] >= committed'[before[r]][w]
                           /\ fword[r][w] <= Len(hist'[w])
                           /\ EntryView(w, fword[r][w])' <= pend[r]
    BY DEF CopyIsTied
  <2>1. /\ view[r][w] >= committed[before[r]][w]
        /\ w \in copied[r] =>
             /\ fword[r][w] >= committed[before[r]][w]
             /\ fword[r][w] <= Len(hist[w])
             /\ EntryView(w, fword[r][w]) <= pend[r]
    BY DEF ReaderInv, CopyIsTied
  <2>2. committed'[before[r]] = committed[before[r]]
    OBVIOUS
  <2>3. fword[r][w] \in Nat
    OBVIOUS
  <2>4. w \in copied[r] => EntryView(w, fword[r][w])' = EntryView(w, fword[r][w])
    BY <2>1, <2>3 DEF EntryView
  <2>5. w \in copied[r] => fword[r][w] <= Len(hist'[w])
    BY <2>1, <2>3
  <2> QED
    BY <2>1, <2>2, <2>4, <2>5
<1>2. FenceTakesView(r)'
  BY DEF ReaderInv, FenceTakesView
<1>3. HeldIsCommitted(r)'
  BY DEF ReaderInv, HeldIsCommitted
<1> QED
  BY <1>1, <1>2, <1>3 DEF ReaderInv

\* Every writer step keeps the inductive invariant.
LEMMA WriterKeepsInv ==
  ASSUME ChannelInv, Writer
  PROVE  ChannelInv'
<1>0. TypeOK /\ FillIsOdd /\ WriterInv /\ \A r \in Readers : ReaderInv(r)
  BY DEF ChannelInv
<1>1. TypeOK' /\ FillIsOdd'
  BY <1>0, WriterTypes
<1>2. UNCHANGED <<rpc, before, copied, genView, view, pend, fgen, fword>>
  BY DEF Writer, BeginPublish, StoreWord, EndPublish, PanicFill
<1>3. CASE BeginPublish
  <2>1. /\ generation' = InFlight(generation)
        /\ fence' = InFlight(generation)
        /\ UNCHANGED <<hist, committed>>
    BY <1>3 DEF BeginPublish
  <2>2. Published' = Published
    BY <1>0, <2>1, PublishedStays DEF Published, TypeOK
  <2>3. WriterInv'
    BY <1>0, <2>1, <2>2 DEF WriterInv, LaterEntriesCarryLaterView
  <2>4. \A r \in Readers : ReaderInv(r)'
    BY <1>0, <1>2, <2>1, ReaderInvFrame
  <2> QED
    BY <1>1, <2>3, <2>4 DEF ChannelInv
<1>4. ASSUME NEW v \in Words, StoreWord(v)
      PROVE  ChannelInv'
  <2>1. /\ filling
        /\ hist' = [hist EXCEPT ![v] = Append(@, fence)]
        /\ UNCHANGED <<generation, fence, committed, filling>>
    BY <1>4 DEF StoreWord
  <2>2. Published' = Published
    BY <2>1 DEF Published
  <2>3. ASSUME NEW w \in Words
        PROVE  /\ Len(hist'[w]) >= Len(hist[w])
               /\ \A i \in 1 .. Len(hist[w]) : hist'[w][i] = hist[w][i]
               /\ \A i \in 1 .. Len(hist'[w]) : i > Len(hist[w]) => hist'[w][i] = fence
    <3>1. hist[w] \in Seq(Nat) /\ fence \in Nat /\ hist \in [Words -> Seq(Nat)]
      BY <1>0 DEF TypeOK
    <3>2. CASE w = v
      <4>1. hist'[w] = Append(hist[w], fence)
        BY <2>1, <3>1, <3>2
      <4> QED
        BY <3>1, <4>1
    <3>3. CASE w # v
      <4>1. hist'[w] = hist[w]
        BY <2>1, <3>1, <3>3
      <4> QED
        BY <3>1, <4>1
    <3> QED
      BY <3>2, <3>3
  <2>4. \A g \in Published : fence > g
    BY <1>0, <2>1 DEF WriterInv, TypeOK, Published, FillIsOdd
  <2>5. LaterEntriesCarryLaterView'
    <3> SUFFICES ASSUME NEW g \in Published, NEW w \in Words, NEW i \in Nat,
                        i > committed[g][w], i <= Len(hist'[w])
                 PROVE  hist'[w][i] > g
      BY <2>1, <2>2 DEF LaterEntriesCarryLaterView
    <3>1. committed[g][w] \in Nat /\ Len(hist[w]) \in Nat
      BY <1>0 DEF TypeOK
    <3>2. CASE i <= Len(hist[w])
      <4>1. hist[w][i] > g
        BY <1>0, <3>2 DEF WriterInv, LaterEntriesCarryLaterView
      <4> QED
        BY <2>3, <3>1, <3>2, <4>1
    <3>3. CASE i > Len(hist[w])
      <4>1. hist'[w][i] = fence
        BY <2>3, <3>1, <3>3
      <4> QED
        BY <2>4, <4>1
    <3> QED
      BY <3>1, <3>2, <3>3
  <2>6. \A g \in Published', w \in Words : committed'[g][w] <= Len(hist'[w])
    <3> SUFFICES ASSUME NEW g \in Published, NEW w \in Words
                 PROVE  committed[g][w] <= Len(hist'[w])
      BY <2>1, <2>2
    <3>1. committed[g][w] <= Len(hist[w])
      BY <1>0 DEF WriterInv
    <3>2. committed[g][w] \in Nat /\ Len(hist[w]) \in Nat /\ Len(hist'[w]) \in Nat
      BY <1>0, <1>1 DEF TypeOK
    <3> QED
      BY <2>3, <3>1, <3>2
  <2>7. WriterInv'
    BY <1>0, <2>1, <2>5, <2>6 DEF WriterInv
  <2>8. ASSUME NEW w \in Words, NEW i \in Nat, i <= Len(hist[w])
        PROVE  i <= Len(hist'[w]) /\ (i > 0 => hist'[w][i] = hist[w][i])
    <3>1. Len(hist[w]) \in Nat /\ Len(hist'[w]) \in Nat
      BY <1>0, <1>1 DEF TypeOK
    <3> QED
      BY <2>3, <2>8, <3>1
  <2>9. \A r \in Readers : ReaderInv(r)'
    BY <1>0, <1>2, <2>1, <2>8, ReaderInvFrame
  <2> QED
    BY <1>1, <2>7, <2>9 DEF ChannelInv
<1>5. CASE EndPublish
  <2>1. /\ filling
        /\ generation' = generation + 1
        /\ filling' = FALSE
        /\ UNCHANGED hist
        /\ committed' = [g \in DOMAIN committed \union {generation + 1} |->
                           IF g = generation + 1 THEN Lengths ELSE committed[g]]
    BY <1>5 DEF EndPublish
  <2>2. Published' = Published \union {generation + 1}
    BY <1>0, <2>1, PublishedGrows DEF Published, TypeOK, FillIsOdd
  <2>3. DOMAIN committed = Published /\ generation + 1 \notin Published
    BY <1>0 DEF TypeOK, Published
  <2>4. /\ committed'[generation + 1] = Lengths
        /\ \A g \in Published : committed'[g] = committed[g]
    BY <2>1, <2>3
  <2>5. ASSUME NEW w \in Words
        PROVE  committed'[generation + 1][w] = Len(hist[w])
    BY <2>4 DEF Lengths
  <2>6. LaterEntriesCarryLaterView'
    <3> SUFFICES ASSUME NEW g \in Published', NEW w \in Words, NEW i \in Nat,
                        i > committed'[g][w], i <= Len(hist[w])
                 PROVE  hist[w][i] > g
      BY <2>1 DEF LaterEntriesCarryLaterView
    <3>1. Len(hist[w]) \in Nat
      BY <1>0 DEF TypeOK
    <3>2. g # generation + 1
      BY <2>5, <3>1
    <3> QED
      BY <1>0, <2>2, <2>4, <3>2 DEF WriterInv, LaterEntriesCarryLaterView
  <2>7. \A g \in Published', w \in Words : committed'[g][w] <= Len(hist'[w])
    <3> SUFFICES ASSUME NEW g \in Published', NEW w \in Words
                 PROVE  committed'[g][w] <= Len(hist[w])
      BY <2>1
    <3>1. Len(hist[w]) \in Nat
      BY <1>0 DEF TypeOK
    <3>2. CASE g = generation + 1
      BY <2>5, <3>1, <3>2
    <3>3. CASE g \in Published
      BY <1>0, <2>4, <3>3 DEF WriterInv
    <3> QED
      BY <2>2, <3>2, <3>3
  <2>8. WriterInv'
    BY <2>1, <2>6, <2>7 DEF WriterInv
  <2>9. ASSUME NEW r \in Readers
        PROVE  ReaderInv(r)'
    BY <1>0, <1>2, <2>1, <2>4, ReaderInvFrame
  <2> QED
    BY <1>1, <2>8, <2>9 DEF ChannelInv
<1>6. CASE PanicFill
  <2>1. filling' = FALSE /\ UNCHANGED <<generation, hist, fence, committed>>
    BY <1>6 DEF PanicFill
  <2>2. Published' = Published
    BY <2>1 DEF Published
  <2>3. WriterInv'
    BY <1>0, <2>1, <2>2 DEF WriterInv, LaterEntriesCarryLaterView
  <2>4. \A r \in Readers : ReaderInv(r)'
    BY <1>0, <1>2, <2>1, ReaderInvFrame
  <2> QED
    BY <1>1, <2>3, <2>4 DEF ChannelInv
<1> QED
  BY <1>3, <1>4, <1>5, <1>6 DEF Writer

\* A step of reader r touches nothing the other readers' parts depend on.
LEMMA OthersKeepInv ==
  ASSUME TypeOK, NEW r \in Readers, Reader(r), NEW q \in Readers, q # r, ReaderInv(q)
  PROVE  ReaderInv(q)'
<1>1. UNCHANGED <<generation, hist, fence, committed, filling>>
  BY DEF Reader, ReadBegin, ReadWord, AcquireFence, ReadCheck, shared
<1>2. /\ rpc'[q] = rpc[q] /\ before'[q] = before[q] /\ copied'[q] = copied[q]
      /\ genView'[q] = genView[q] /\ view'[q] = view[q] /\ pend'[q] = pend[q]
      /\ fgen'[q] = fgen[q] /\ fword'[q] = fword[q]
  <2> USE DEF TypeOK
  <2>1. CASE ReadBegin(r)
    BY <2>1 DEF ReadBegin
  <2>2. CASE \E w \in Words : ReadWord(r, w)
    BY <2>2 DEF ReadWord
  <2>3. CASE AcquireFence(r)
    BY <2>3 DEF AcquireFence
  <2>4. CASE ReadCheck(r)
    BY <2>4 DEF ReadCheck
  <2> QED
    BY <2>1, <2>2, <2>3, <2>4 DEF Reader
<1>3. \A w \in Words, i \in Nat : EntryView(w, i)' = EntryView(w, i)
  BY <1>1 DEF EntryView
<1>4. fword[q] \in [Words -> Nat]
  BY DEF TypeOK
<1>5. CopyIsTied(q)'
  BY <1>1, <1>2, <1>3, <1>4 DEF ReaderInv, CopyIsTied
<1>6. FenceTakesView(q)' /\ HeldIsCommitted(q)'
  BY <1>1, <1>2 DEF ReaderInv, FenceTakesView, HeldIsCommitted
<1> QED
  BY <1>5, <1>6 DEF ReaderInv

\* The copy starts from nothing, with the views of what g committed.
LEMMA BeginKeepsInv ==
  ASSUME TypeOK, NEW r \in Readers, ReaderInv(r), ReadBegin(r)
  PROVE  ReaderInv(r)'
<1> USE DEF TypeOK
<1>1. PICK g \in genView[r] .. generation :
        /\ genView' = [genView EXCEPT ![r] = g]
        /\ IF Odd(g) \/ (g = fgen[r] /\ g # 0)
           THEN UNCHANGED <<rpc, before, copied, view, pend>>
           ELSE /\ rpc'    = [rpc EXCEPT ![r] = "copy"]
                /\ before' = [before EXCEPT ![r] = g]
                /\ copied' = [copied EXCEPT ![r] = {}]
                /\ view'   = [view EXCEPT ![r] =
                                [w \in Words |-> Larger(view[r][w], committed[g][w])]]
                /\ pend'   = [pend EXCEPT ![r] = 0]
  BY Zenon DEF ReadBegin
<1>2. /\ UNCHANGED <<generation, hist, fence, committed, filling>>
      /\ UNCHANGED <<fgen, fword>>
      /\ rpc[r] = "idle"
  BY DEF ReadBegin, shared
<1>3. CASE Odd(g) \/ (g = fgen[r] /\ g # 0)
  BY <1>1, <1>2, <1>3 DEF ReaderInv, CopyIsTied, FenceTakesView, HeldIsCommitted
<1>4. CASE ~(Odd(g) \/ (g = fgen[r] /\ g # 0))
  <2>1. g \in Published
    BY <1>1, <1>4 DEF Published
  <2>2. /\ rpc'[r] = "copy" /\ before'[r] = g /\ copied'[r] = {}
        /\ view'[r] = [w \in Words |-> Larger(view[r][w], committed[g][w])]
    BY <1>1, <1>4
  <2>3. ASSUME NEW w \in Words
        PROVE  view'[r][w] >= committed[g][w]
    <3>1. view[r][w] \in Nat /\ committed[g][w] \in Nat
      BY <2>1
    <3> QED
      BY <2>2, <3>1, LargerNat
  <2> QED
    BY <1>2, <2>2, <2>3 DEF ReaderInv, CopyIsTied, FenceTakesView, HeldIsCommitted
<1> QED
  BY <1>3, <1>4

\* A copied word is committed or leaves the reader a newer view to acquire.
LEMMA CopyKeepsInv ==
  ASSUME TypeOK, NEW r \in Readers, NEW v \in Words, ReaderInv(r), ReadWord(r, v)
  PROVE  ReaderInv(r)'
<1> USE DEF TypeOK
<1>1. PICK i \in view[r][v] .. Len(hist[v]) :
        /\ fword' = [fword EXCEPT ![r][v] = i]
        /\ view'  = [view EXCEPT ![r][v] = i]
        /\ pend'  = [pend EXCEPT ![r] = Larger(@, EntryView(v, i))]
  BY DEF ReadWord
<1>2. /\ UNCHANGED <<generation, hist, fence, committed, filling>>
      /\ UNCHANGED <<rpc, before, genView, fgen>>
      /\ rpc[r] = "copy"
      /\ copied'[r] = copied[r] \union {v}
  BY DEF ReadWord, shared
<1>3. /\ i \in Nat /\ i <= Len(hist[v]) /\ i >= view[r][v]
      /\ EntryView(v, i) \in Nat
      /\ \A w \in Words, j \in Nat : EntryView(w, j)' = EntryView(w, j)
  BY <1>1, <1>2 DEF EntryView
<1>4. pend'[r] >= pend[r] /\ pend'[r] >= EntryView(v, i) /\ pend'[r] \in Nat
  BY <1>1, <1>3, LargerNat
<1>5. ASSUME NEW w \in Words
      PROVE  /\ view'[r][w] >= committed[before[r]][w]
             /\ w \in copied'[r] =>
                  /\ fword'[r][w] >= committed[before[r]][w]
                  /\ fword'[r][w] <= Len(hist[w])
                  /\ EntryView(w, fword'[r][w]) <= pend'[r]
  <2>1. /\ view[r][w] >= committed[before[r]][w]
        /\ w \in copied[r] =>
             /\ fword[r][w] >= committed[before[r]][w]
             /\ fword[r][w] <= Len(hist[w])
             /\ EntryView(w, fword[r][w]) <= pend[r]
    BY <1>2 DEF ReaderInv, CopyIsTied
  <2>2. committed[before[r]][w] \in Nat /\ view[r][w] \in Nat /\ fword[r][w] \in Nat
    OBVIOUS
  <2>3. CASE w = v
    <3>1. view'[r][w] = i /\ fword'[r][w] = i
      BY <1>1, <2>3
    <3> QED
      BY <1>3, <1>4, <2>1, <2>2, <2>3, <3>1
  <2>4. CASE w # v
    <3>1. view'[r][w] = view[r][w] /\ fword'[r][w] = fword[r][w]
      BY <1>1, <2>4
    <3>2. w \in copied'[r] => w \in copied[r]
      BY <1>2, <2>4
    <3>3. w \in copied[r] => EntryView(w, fword[r][w]) <= pend'[r]
      <4>1. w \in copied[r] => EntryView(w, fword[r][w]) \in Nat
        <5>1. hist[w] \in Seq(Nat)
          OBVIOUS
        <5>2. ASSUME w \in copied[r], fword[r][w] # 0
              PROVE  hist[w][fword[r][w]] \in Nat
          BY <2>1, <2>2, <5>1, <5>2, EntryNat
        <5> QED
          BY <5>2 DEF EntryView
      <4>2. pend[r] \in Nat
        OBVIOUS
      <4> HIDE DEF TypeOK
      <4> QED
        BY <1>4, <2>1, <4>1, <4>2
    <3> QED
      BY <2>1, <2>2, <3>1, <3>2, <3>3
  <2> QED
    BY <2>3, <2>4
<1>6. CopyIsTied(r)'
  <2>1. fword' \in [Readers -> [Words -> Nat]]
    BY <1>1, <1>3
  <2> QED
    BY <1>2, <1>3, <1>5, <2>1, SMTT(30) DEF CopyIsTied
<1> QED
  BY <1>2, <1>6 DEF ReaderInv, FenceTakesView, HeldIsCommitted

\* The acquire fence turns what the copy read into a view of the counter.
LEMMA FenceKeepsInv ==
  ASSUME TypeOK, NEW r \in Readers, ReaderInv(r), AcquireFence(r)
  PROVE  ReaderInv(r)'
<1>1. /\ UNCHANGED <<hist, committed, before, copied, view, pend, fgen, fword>>
      /\ rpc[r] = "copy" /\ copied[r] = Words /\ rpc'[r] = "check"
      /\ genView'[r] = Larger(genView[r], pend[r])
  BY DEF AcquireFence, shared, TypeOK
<1>2. genView'[r] >= pend[r]
  BY <1>1, LargerNat DEF TypeOK
<1>3. \A w \in Words, j \in Nat : EntryView(w, j)' = EntryView(w, j)
  BY <1>1 DEF EntryView
<1>4. CopyIsTied(r)'
  BY <1>1, <1>3 DEF CopyIsTied, ReaderInv, TypeOK
<1> QED
  BY <1>1, <1>2, <1>4 DEF ReaderInv, FenceTakesView, HeldIsCommitted

\* An accepted copy holds the committed entries: anything newer would have
\* pushed the reader's view of the counter past the generation it accepts.
LEMMA AcceptedIsCommitted ==
  ASSUME TypeOK, WriterInv, NEW r \in Readers, ReaderInv(r),
         rpc[r] = "check", NEW g \in Nat, g >= genView[r], g = before[r]
  PROVE  fword[r] = committed[g]
<1> USE DEF TypeOK
<1>1. ASSUME NEW w \in Words
      PROVE  fword[r][w] = committed[g][w]
  <2>1. /\ fword[r][w] >= committed[g][w]
        /\ fword[r][w] <= Len(hist[w])
        /\ EntryView(w, fword[r][w]) <= pend[r]
    BY DEF ReaderInv, CopyIsTied, FenceTakesView
  <2>2. genView[r] >= pend[r]
    BY DEF ReaderInv, FenceTakesView
  <2>3. /\ fword[r][w] \in Nat /\ committed[g][w] \in Nat /\ g \in Published
        /\ genView[r] \in Nat /\ pend[r] \in Nat
    OBVIOUS
  <2>4. CASE fword[r][w] > committed[g][w]
    <3>1. hist[w][fword[r][w]] > g
      BY <2>1, <2>3, <2>4 DEF WriterInv, LaterEntriesCarryLaterView
    <3>2. EntryView(w, fword[r][w]) = hist[w][fword[r][w]] /\ hist[w][fword[r][w]] \in Nat
      BY <2>1, <2>3, <2>4 DEF EntryView
    <3> QED
      BY <2>1, <2>2, <2>3, <3>1, <3>2
  <2> QED
    BY <2>1, <2>3, <2>4
<1>2. fword[r] \in [Words -> Nat] /\ committed[g] \in [Words -> Nat]
  OBVIOUS
<1> QED
  BY <1>1, <1>2

\* The second load accepts committed entries or disowns the copy.
LEMMA CheckKeepsInv ==
  ASSUME TypeOK, WriterInv, NEW r \in Readers, ReaderInv(r), ReadCheck(r)
  PROVE  ReaderInv(r)'
<1>1. PICK g \in genView[r] .. generation :
        fgen' = [fgen EXCEPT ![r] = IF g = before[r] THEN g ELSE 0]
  BY DEF ReadCheck
<1>2. /\ UNCHANGED <<hist, committed, before, copied, view, pend, fword>>
      /\ rpc[r] = "check" /\ rpc'[r] = "idle"
  BY DEF ReadCheck, shared, TypeOK
<1>3. g \in Nat /\ g >= genView[r]
  BY <1>1 DEF TypeOK
<1>4. fgen'[r] = IF g = before[r] THEN g ELSE 0
  BY <1>1 DEF TypeOK
<1>5. fgen'[r] # 0 => fword'[r] = committed'[fgen'[r]]
  BY <1>2, <1>3, <1>4, AcceptedIsCommitted
<1> QED
  BY <1>2, <1>5 DEF ReaderInv, CopyIsTied, FenceTakesView, HeldIsCommitted

\* Every reader step keeps the inductive invariant.
LEMMA ReaderKeepsInv ==
  ASSUME ChannelInv, NEW r \in Readers, Reader(r)
  PROVE  ChannelInv'
<1>1. TypeOK /\ FillIsOdd /\ WriterInv /\ \A q \in Readers : ReaderInv(q)
  BY DEF ChannelInv
<1>2. TypeOK' /\ FillIsOdd'
  BY <1>1, ReaderTypes
<1>3. UNCHANGED <<generation, hist, fence, committed, filling>>
  BY DEF Reader, ReadBegin, ReadWord, AcquireFence, ReadCheck, shared
<1>4. WriterInv'
  BY <1>1, <1>3 DEF WriterInv, LaterEntriesCarryLaterView, Published
<1>5. ReaderInv(r)'
  BY <1>1, BeginKeepsInv, CopyKeepsInv, FenceKeepsInv, CheckKeepsInv DEF Reader
<1>6. \A q \in Readers : q # r => ReaderInv(q)'
  BY <1>1, OthersKeepInv
<1> QED
  BY <1>2, <1>4, <1>5, <1>6 DEF ChannelInv

\* So does a step that changes nothing.
LEMMA StutterKeepsInv == ChannelInv /\ UNCHANGED vars => ChannelInv'
<1> SUFFICES ASSUME ChannelInv, UNCHANGED vars PROVE ChannelInv'
  OBVIOUS
<1>1. TypeOK' /\ FillIsOdd'
  BY StutterTypes DEF ChannelInv
<1>2. Published' = Published
  BY DEF vars, Published
<1>3. WriterInv'
  BY <1>2 DEF ChannelInv, vars, WriterInv, LaterEntriesCarryLaterView
<1>4. \A r \in Readers : ReaderInv(r)'
  BY DEF ChannelInv, vars, ReaderInv, CopyIsTied, FenceTakesView, HeldIsCommitted, EntryView
<1> QED
  BY <1>1, <1>3, <1>4 DEF ChannelInv

\* The inductive invariant holds: every word a reader has copied is the entry its
\* generation committed, or is tied to a newer view of the counter, so that the
\* second load of read_into cannot return the generation the copy began with.
THEOREM ChannelInvariant == Spec => []ChannelInv
<1>1. ChannelInv /\ [Next]_vars => ChannelInv'
  BY WriterKeepsInv, ReaderKeepsInv, StutterKeepsInv DEF Next
<1> QED
  BY <1>1, InitInv, PTL DEF Spec

\* No reader ever holds a frame that is not word for word one published frame,
\* whatever the interleaving, however stale its loads and however many fills
\* panicked (FrameWriter::publish against FrameReader::read_into).
THEOREM NoTornFrame == Spec => []FramesWhole
<1>1. ChannelInv => FramesWhole
  BY DEF ChannelInv, ReaderInv, HeldIsCommitted, FramesWhole
<1> QED
  BY <1>1, ChannelInvariant, PTL

\* The stored counter is odd during a fill, and otherwise only because a fill
\* panicked (the `start | 1` of FrameWriter::publish).
THEOREM ParityTheorem == Spec => []ParityMarksFill
<1> DEFINE PInv == TypeOK /\ FillIsOdd /\ ParityMarksFill
<1>1. Init => PInv
  BY InitTypes, SMT DEF Init, ParityMarksFill, Odd
<1>2. ASSUME PInv, [Next]_vars PROVE PInv'
  <2>1. TypeOK' /\ FillIsOdd'
    BY <1>2, WriterTypes, ReaderTypes, StutterTypes DEF Next
  <2>2. CASE BeginPublish \/ (\E w \in Words : StoreWord(w)) \/ UNCHANGED vars
    BY <1>2, <2>1, <2>2, Zenon DEF BeginPublish, StoreWord, vars, ParityMarksFill, FillIsOdd
  <2>3. CASE EndPublish
    <3>1. ~Odd(generation')
      BY <1>2, <2>3, OddNext DEF EndPublish, TypeOK, FillIsOdd
    <3> QED
      BY <2>1, <3>1 DEF ParityMarksFill, FillIsOdd
  <2>4. CASE PanicFill
    <3>1. panics' > 0
      BY <1>2, <2>4 DEF PanicFill, TypeOK
    <3> QED
      BY <2>1, <3>1 DEF ParityMarksFill, FillIsOdd
  <2>5. ASSUME NEW r \in Readers, Reader(r) PROVE ParityMarksFill'
    <3>1. UNCHANGED <<generation, filling, panics>>
      BY <2>5 DEF Reader, ReadBegin, ReadWord, AcquireFence, ReadCheck, shared
    <3> QED
      BY <1>2, <3>1 DEF ParityMarksFill
  <2> QED
    BY <1>2, <2>1, <2>2, <2>3, <2>4, <2>5 DEF Next, Writer
<1>3. PInv => ParityMarksFill
  OBVIOUS
<1> QED
  BY <1>1, <1>2, <1>3, PTL DEF Spec

-----------------------------------------------------------------------------
(* The channel implements the mailbox.                                     *)

\* What a reader has taken is never newer than what it knows of the counter,
\* so the next generation it accepts is not older.
LastIsKnown == \A r \in Readers : last[r] <= genView[r]

\* A reader never knows less of the counter than the last frame it accepted.
LEMMA LastStep ==
  ASSUME TypeOK, LastIsKnown, [Next]_vars
  PROVE  LastIsKnown'
<1> USE DEF TypeOK, LastIsKnown
<1>1. CASE Writer \/ UNCHANGED vars
  <2>1. UNCHANGED <<genView, last>>
    BY <1>1 DEF Writer, BeginPublish, StoreWord, EndPublish, PanicFill, vars
  <2> QED
    BY <2>1
<1>2. ASSUME NEW r \in Readers, Reader(r) PROVE LastIsKnown'
  <2>1. CASE ReadBegin(r)
    <3>1. PICK g \in genView[r] .. generation : genView' = [genView EXCEPT ![r] = g]
      BY <2>1, Zenon DEF ReadBegin
    <3>2. UNCHANGED last
      BY <2>1 DEF ReadBegin
    <3>3. g \in Nat /\ g >= genView[r]
      BY <3>1
    <3>4. \A q \in Readers : last[q] \in Nat /\ genView[q] \in Nat
      BY DEF Published
    <3> QED
      BY <3>1, <3>2, <3>3, <3>4
  <2>2. CASE \E w \in Words : ReadWord(r, w)
    BY <2>2 DEF ReadWord
  <2>3. CASE AcquireFence(r)
    <3>1. genView' = [genView EXCEPT ![r] = Larger(genView[r], pend[r])] /\ UNCHANGED last
      BY <2>3 DEF AcquireFence
    <3>2. Larger(genView[r], pend[r]) >= genView[r] /\ Larger(genView[r], pend[r]) \in Nat
      BY LargerNat
    <3>3. \A q \in Readers : last[q] \in Nat /\ genView[q] \in Nat
      BY DEF Published
    <3> QED
      BY <3>1, <3>2, <3>3
  <2>4. CASE ReadCheck(r)
    <3>1. PICK g \in genView[r] .. generation :
            /\ genView' = [genView EXCEPT ![r] = g]
            /\ last'    = [last EXCEPT ![r] = IF g = before[r] THEN g ELSE @]
      BY <2>4 DEF ReadCheck
    <3>2. g \in Nat /\ g >= genView[r]
      BY <3>1
    <3>3. \A q \in Readers : last[q] \in Nat /\ genView[q] \in Nat
      BY DEF Published
    <3>4. ASSUME NEW q \in Readers PROVE last'[q] <= genView'[q]
      BY <3>1, <3>2, <3>3
    <3> QED
      BY <3>4
  <2> QED
    BY <1>2, <2>1, <2>2, <2>3, <2>4 DEF Reader
<1> QED
  BY <1>1, <1>2 DEF Next

\* Arithmetic of the k-th frame, which is generation 2k.
LEMMA HalfOf ==
  ASSUME NEW n \in Nat
  PROVE  /\ n \div 2 \in Nat
         /\ ~Odd(n) => 2 * (n \div 2) = n /\ (n + 1) \div 2 = n \div 2
         /\ Odd(n) => (n + 1) \div 2 = n \div 2 + 1 /\ 2 * (n \div 2 + 1) = n + 1
         /\ InFlight(n) \div 2 = n \div 2
         /\ \A m \in Nat : m <= n => m \div 2 <= n \div 2
         /\ \A m \in Nat : m <= n \div 2 => 2 * m <= n /\ ~Odd(2 * m)
  BY SMT DEF Odd, InFlight

\* Frames seen through a step that changes neither the count nor what is
\* already committed.
LEMMA FramesStay ==
  ASSUME TypeOK, generation' \div 2 = generation \div 2,
         \A g \in Published : committed'[g] = committed[g]
  PROVE  Frames' = Frames
<1>1. ASSUME NEW k \in 1 .. generation \div 2
      PROVE  FrameAt(2 * k)' = FrameAt(2 * k)
  <2>1. 2 * k \in Published
    BY HalfOf DEF TypeOK, Published
  <2> QED
    BY <2>1 DEF FrameAt
<1> QED
  BY <1>1 DEF Frames

\* The channel starts as an empty mailbox.
LEMMA InitMaps == Init => Mailbox!HInit
<1> SUFFICES ASSUME Init PROVE Mailbox!HInit
  OBVIOUS
<1>1. Frames = <<>>
  <2>1. generation \div 2 = 0
    BY SMT DEF Init
  <2>2. Frames = [k \in 1 .. 0 |-> FrameAt(2 * k)]
    BY <2>1 DEF Frames
  <2> QED
    BY <2>2
<1>2. Held = [r \in Readers |-> NoFrame]
  BY DEF Init, Held
<1>3. Seen = [r \in Readers |-> 0]
  <2>1. 0 \div 2 = 0
    BY SMT
  <2> QED
    BY <2>1 DEF Init, Seen
<1> QED
  BY <1>1, <1>2, <1>3 DEF Mailbox!HInit

\* A writer step is a publish of the mailbox or is not seen there.
LEMMA WriterMaps ==
  ASSUME ChannelInv, Writer
  PROVE  Mailbox!Publish \/ UNCHANGED <<Frames, Held, Seen>>
<1>1. TypeOK /\ FillIsOdd
  BY DEF ChannelInv
<1>2. UNCHANGED <<Held, Seen>>
  <2>1. UNCHANGED <<rpc, fgen, fword, last>>
    BY DEF Writer, BeginPublish, StoreWord, EndPublish, PanicFill
  <2> QED
    BY <2>1 DEF Held, Seen
<1>3. CASE EndPublish
  <2> DEFINE n == generation \div 2
  <2>1. /\ filling /\ Odd(generation)
        /\ generation' = generation + 1
        /\ generation' \div 2 = n + 1
        /\ 2 * (n + 1) = generation + 1
        /\ n \in Nat
    BY <1>1, <1>3, HalfOf DEF EndPublish, FillIsOdd, TypeOK
  <2>2. /\ committed' = [g \in DOMAIN committed \union {generation + 1} |->
                           IF g = generation + 1 THEN Lengths ELSE committed[g]]
        /\ DOMAIN committed = Published
        /\ generation + 1 \notin Published
    BY <1>1, <1>3 DEF EndPublish, TypeOK, Published
  <2>3. /\ \A g \in Published : committed'[g] = committed[g]
        /\ committed'[generation + 1] = Lengths
    BY <2>2
  <2>4. Frames' = [k \in 1 .. n + 1 |-> FrameAt(2 * k)']
    BY <2>1 DEF Frames
  <2>5. Frames = [k \in 1 .. n |-> FrameAt(2 * k)]
    BY DEF Frames
  <2>6. Len(Frames) = n /\ Len(Frames') = n + 1
    <3> HIDE DEF n
    <3> QED
      BY <2>1, <2>4, <2>5
  <2>7. ASSUME NEW k \in 1 .. n
        PROVE  Frames'[k] = Frames[k]
    <3>1. 2 * k \in Published
      BY <1>1, HalfOf DEF TypeOK, Published
    <3>2. FrameAt(2 * k)' = FrameAt(2 * k)
      BY <2>3, <3>1 DEF FrameAt
    <3>3. k \in 1 .. n + 1
      BY <2>1
    <3> HIDE DEF n
    <3> QED
      BY <2>4, <2>5, <3>2, <3>3
  <2>8. Frames'[n + 1] = [gen |-> generation + 1, content |-> Lengths]
    <3>1. n + 1 \in 1 .. n + 1
      BY <2>1
    <3>2. \A k \in 1 .. n + 1 :
            Frames'[k] = [gen |-> 2 * k, content |-> committed'[2 * k]]
      BY <2>4 DEF FrameAt
    <3> HIDE DEF n
    <3> QED
      BY <2>1, <2>3, <3>1, <3>2
  <2>9. Lengths \in [Words -> Nat] /\ generation + 1 \in Nat
    BY <1>1 DEF Lengths, TypeOK
  <2> HIDE DEF n
  <2> QED
    BY <1>2, <2>6, <2>7, <2>8, <2>9 DEF Mailbox!Publish
<1>4. CASE BeginPublish
  <2>1. generation' = InFlight(generation) /\ UNCHANGED committed
    BY <1>4 DEF BeginPublish
  <2> QED
    BY <1>1, <1>2, <2>1, HalfOf, FramesStay DEF TypeOK
<1>5. CASE PanicFill \/ \E w \in Words : StoreWord(w)
  <2>1. UNCHANGED <<generation, committed>>
    BY <1>5 DEF PanicFill, StoreWord
  <2> QED
    BY <1>1, <1>2, <2>1, FramesStay
<1> QED
  BY <1>3, <1>4, <1>5 DEF Writer

\* A reader step takes a frame, loses one, or is not seen in the mailbox.
LEMMA ReaderMaps ==
  ASSUME ChannelInv, LastIsKnown, NEW r \in Readers, Reader(r)
  PROVE  Mailbox!Lose(r) \/ Mailbox!Take(r) \/ UNCHANGED <<Frames, Held, Seen>>
<1>1. TypeOK /\ WriterInv /\ ReaderInv(r)
  BY DEF ChannelInv
<1>2. UNCHANGED Frames
  <2>1. UNCHANGED <<generation, committed>>
    BY DEF Reader, ReadBegin, ReadWord, AcquireFence, ReadCheck, shared
  <2> QED
    BY <2>1, <1>1, FramesStay
<1>3. CASE ReadBegin(r)
  <2>1. UNCHANGED <<fgen, fword, last>> /\ UNCHANGED Seen
    BY <1>3 DEF ReadBegin, Seen
  <2>2. rpc' = rpc \/ rpc' = [rpc EXCEPT ![r] = "copy"]
    BY <1>3, Zenon DEF ReadBegin
  <2>3. CASE rpc' = rpc
    BY <1>2, <2>1, <2>3 DEF Held
  <2>4. CASE rpc' = [rpc EXCEPT ![r] = "copy"]
    <3>1. rpc'[r] = "copy" /\ \A q \in Readers : q # r => rpc'[q] = rpc[q]
      BY <1>1, <2>4 DEF TypeOK
    <3>2. Held' = [Held EXCEPT ![r] = NoFrame]
      BY <2>1, <3>1 DEF Held
    <3> QED
      BY <1>2, <2>1, <3>2 DEF Mailbox!Lose
  <2> QED
    BY <2>2, <2>3, <2>4
<1>4. CASE (\E w \in Words : ReadWord(r, w)) \/ AcquireFence(r)
  <2>1. /\ UNCHANGED <<fgen, last>>
        /\ rpc[r] = "copy" /\ rpc'[r] # "idle"
        /\ \A q \in Readers : q # r => rpc'[q] = rpc[q] /\ fword'[q] = fword[q]
    <3>1. CASE \E w \in Words : ReadWord(r, w)
      BY <1>1, <3>1 DEF ReadWord, TypeOK
    <3>2. CASE AcquireFence(r)
      BY <1>1, <3>2 DEF AcquireFence, TypeOK
    <3> QED
      BY <1>4, <3>1, <3>2
  <2>2. UNCHANGED Held
    BY <2>1 DEF Held
  <2> QED
    BY <1>2, <2>1, <2>2 DEF Seen
<1>5. CASE ReadCheck(r)
  <2>1. PICK g \in genView[r] .. generation :
          /\ fgen' = [fgen EXCEPT ![r] = IF g = before[r] THEN g ELSE 0]
          /\ last' = [last EXCEPT ![r] = IF g = before[r] THEN g ELSE @]
    BY <1>5 DEF ReadCheck
  <2>2. /\ rpc[r] = "check" /\ rpc' = [rpc EXCEPT ![r] = "idle"]
        /\ UNCHANGED fword
    BY <1>5 DEF ReadCheck
  <2>3. g \in Nat /\ g >= genView[r] /\ g <= generation
    BY <1>1, <2>1 DEF TypeOK
  <2>4. /\ rpc'[r] = "idle"
        /\ \A q \in Readers : q # r => rpc'[q] = rpc[q] /\ fgen'[q] = fgen[q] /\ last'[q] = last[q]
    BY <1>1, <2>1, <2>2 DEF TypeOK
  <2>5. CASE g = before[r] /\ g # 0
    <3>1. fgen'[r] = g /\ last'[r] = g
      BY <1>1, <2>1, <2>5 DEF TypeOK
    <3>2. fword[r] = committed[g]
      BY <1>1, <2>2, <2>3, <2>5, AcceptedIsCommitted
    <3>3. Held' = [Held EXCEPT ![r] = FrameAt(g)]
      BY <2>2, <2>4, <2>5, <3>1, <3>2 DEF Held, FrameAt
    <3>4. Seen' = [Seen EXCEPT ![r] = g \div 2]
      BY <2>4, <3>1 DEF Seen
    <3>5. g \in Published /\ last[r] \in Nat /\ last[r] <= g
      <4>1. g \in Published
        BY <1>1, <2>5 DEF TypeOK
      <4>2. last[r] \in Nat /\ genView[r] \in Nat
        BY <1>1 DEF TypeOK, Published
      <4> QED
        BY <2>3, <4>1, <4>2 DEF LastIsKnown
    <3>6. /\ g \div 2 \in Nat /\ 2 * (g \div 2) = g
          /\ g \div 2 <= generation \div 2
          /\ last[r] \div 2 <= g \div 2
          /\ generation \div 2 \in Nat /\ last[r] \div 2 \in Nat
      <4>1. generation \in Nat /\ ~Odd(g)
        BY <1>1, <3>5 DEF TypeOK, Published
      <4> QED
        BY <2>3, <3>5, <4>1, HalfOf
    <3>7. /\ Len(Frames) = generation \div 2
          /\ g \div 2 \in Seen[r] .. Len(Frames)
          /\ g \div 2 > 0
      <4>1. Len(Frames) = generation \div 2
        BY <3>6 DEF Frames
      <4>2. Seen[r] = last[r] \div 2
        BY DEF Seen
      <4> QED
        BY <2>3, <2>5, <3>6, <4>1, <4>2
    <3>8. Frames[g \div 2] = FrameAt(g)
      <4>1. g \div 2 \in 1 .. generation \div 2
        BY <3>6, <3>7
      <4> QED
        BY <3>6, <4>1 DEF Frames
    <3> QED
      BY <1>2, <3>3, <3>4, <3>7, <3>8 DEF Mailbox!Take
  <2>6. CASE ~(g = before[r] /\ g # 0)
    <3>1. fgen'[r] = 0
      BY <1>1, <2>1, <2>6 DEF TypeOK
    <3>2. Held' = [Held EXCEPT ![r] = NoFrame]
      BY <2>2, <2>4, <3>1 DEF Held
    <3>3. last'[r] = last[r]
      <4>1. last[r] \in Nat /\ last[r] <= genView[r] /\ genView[r] \in Nat
        BY <1>1 DEF LastIsKnown, TypeOK, Published
      <4>2. g = 0 => last[r] = 0
        BY <2>3, <4>1
      <4> QED
        BY <1>1, <2>1, <2>6, <4>2 DEF TypeOK
    <3>4. UNCHANGED Seen
      BY <2>4, <3>3 DEF Seen
    <3> QED
      BY <1>2, <3>2, <3>4 DEF Mailbox!Lose
  <2> QED
    BY <2>5, <2>6
<1> QED
  BY <1>3, <1>4, <1>5 DEF Reader

\* The seqlock implements the latest-wins mailbox of FrameHandoff: a reader
\* holds nothing or one whole published frame, and never goes back in time.
THEOREM ImplementsHandoff == Spec => HandoffSpec
<1>1. Init => Mailbox!HInit /\ LastIsKnown
  BY InitMaps DEF Init, LastIsKnown
<1>2. ChannelInv /\ LastIsKnown /\ [Next]_vars => LastIsKnown'
  BY LastStep DEF ChannelInv
<1>3. ASSUME ChannelInv, LastIsKnown, [Next]_vars
      PROVE  [Mailbox!HNext]_(Mailbox!hvars)
  <2>1. CASE Writer
    BY <1>3, <2>1, WriterMaps DEF Mailbox!HNext, Mailbox!hvars
  <2>2. ASSUME NEW r \in Readers, Reader(r)
        PROVE  [Mailbox!HNext]_(Mailbox!hvars)
    BY <1>3, <2>2, ReaderMaps DEF Mailbox!HNext, Mailbox!hvars
  <2>3. CASE UNCHANGED vars
    <3>1. UNCHANGED <<Frames, Held, Seen>>
      BY <2>3 DEF vars, Frames, FrameAt, Held, Seen
    <3> QED
      BY <3>1 DEF Mailbox!hvars
  <2> QED
    BY <1>3, <2>1, <2>2, <2>3 DEF Next
<1> QED
  BY <1>1, <1>2, <1>3, ChannelInvariant, PTL DEF Spec, HandoffSpec, Mailbox!HSpec
=============================================================================
