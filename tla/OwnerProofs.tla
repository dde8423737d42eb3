---------------------------- MODULE OwnerProofs ----------------------------
(***************************************************************************)
(* Proofs about the thread that owns the sessions, for any grids, sizes,   *)
(* themes, queues, areas, fonts, gutter, floors, panes and agents: a       *)
(* rebuild of the renderer keeps what it must, the pump outlives the child *)
(* it drains, a canvas is tiled, and agents are started one at a time.     *)
(*                                                                         *)
(* First the canvas: what a re-tiling, a split and a close leave, pane by  *)
(* pane, and that every pixel belongs to one pane or one divider.  A       *)
(* re-tiling and a run of closes are loops; each fact about one is a fact  *)
(* about every prefix of it, proved for one round and carried by Climbs.   *)
(*                                                                         *)
(* RebuildsHold and the types are inductive together.  For the shutdown    *)
(* one has to say why a pump that left its loop may: it saw the pty closed *)
(* or it was told to stop, and it is told only after the child was reaped  *)
(* or given up (ShutdownInv).  For the agents one has to say which         *)
(* children a launch has shut at each of its phases, and what its notes of *)
(* the last one mean (AgentsInv).                                          *)
(***************************************************************************)
EXTENDS Owner, Climbing, SequenceTheorems, FiniteSetTheorems

-----------------------------------------------------------------------------
(* The canvas of panes.                                                    *)

Rects     == [x : Nat, y : Nat, w : Nat, h : Nat]
GridSizes == [cols : Int, rows : Int]
PaneSet   == [id : Nat, rect : Rects, geometry : GridSizes, child : GridSizes, font : PaneFonts,
              cell : PaneFonts, mouse : Int \X Int, failed : BOOLEAN, room : GridSizes]

\* What is true of a pane whatever was done to it.
PaneOK(p) ==
  /\ p \in PaneSet
  /\ ~Hopeless(p.geometry) /\ p.child.cols <= p.room.cols
  /\ ~p.failed => p.child = p.geometry /\ p.cell = p.font

\* The pane follows the rectangle it was given.
Follows(p, r) ==
  /\ p.rect = r /\ p.mouse = <<r.w, r.h>>
  /\ ~p.failed => p.geometry = Fit(r, p.cell)

-----------------------------------------------------------------------------
(* One pane.                                                               *)

LEMMA FitTyped ==
  ASSUME NEW r \in Rects, NEW cell \in PaneFonts
  PROVE  Fit(r, cell) \in GridSizes
<1>1. r.w \in Nat /\ r.h \in Nat /\ cell \in Nat \ {0}
  BY PanesAssumption DEF Rects
<1>2. r.w \div cell \in Int /\ r.h \div cell \in Int
  BY <1>1
<1>3. QED
  BY <1>2 DEF Fit, GridSizes

\* The pane after each of the three ways a resize may end (Session::resize).
WithRect(p, r)  == [p EXCEPT !.rect = r]
WithMouse(p, r) == [p EXCEPT !.mouse = <<r.w, r.h>>]
WithGrid(p, g)  == [p EXCEPT !.child = g, !.geometry = g, !.cell = p.font]
WithFailure(p, g) == [p EXCEPT !.child = g, !.failed = TRUE]

LEMMA RectMoves ==
  ASSUME NEW p, PaneOK(p), NEW r \in Rects
  PROVE  LET q == WithRect(p, r) IN
         /\ PaneOK(q) /\ q.rect = r
         /\ q.id = p.id /\ q.geometry = p.geometry /\ q.child = p.child /\ q.font = p.font
         /\ q.cell = p.cell /\ q.failed = p.failed /\ q.room = p.room
  BY DEF WithRect, PaneOK, PaneSet

LEMMA MouseMoves ==
  ASSUME NEW p, PaneOK(p), NEW r \in Rects
  PROVE  LET q == WithMouse(p, r) IN
         /\ PaneOK(q) /\ q.mouse = <<r.w, r.h>>
         /\ q.id = p.id /\ q.rect = p.rect /\ q.geometry = p.geometry
         /\ q.cell = p.cell /\ q.failed = p.failed
<1>1. <<r.w, r.h>> \in Int \X Int
  BY DEF Rects
<1>2. QED
  BY <1>1 DEF WithMouse, PaneOK, PaneSet

LEMMA GridMoves ==
  ASSUME NEW p, PaneOK(p), NEW g \in GridSizes, ~Hopeless(g), g.cols <= p.room.cols
  PROVE  LET q == WithGrid(p, g) IN
         /\ PaneOK(q) /\ q.geometry = g /\ q.cell = p.font
         /\ q.id = p.id /\ q.rect = p.rect /\ q.failed = p.failed
  BY DEF WithGrid, PaneOK, PaneSet

LEMMA FailureMoves ==
  ASSUME NEW p, PaneOK(p), NEW g \in GridSizes, g.cols <= p.room.cols
  PROVE  LET q == WithFailure(p, g) IN
         PaneOK(q) /\ q.id = p.id /\ q.rect = p.rect /\ q.failed
  BY DEF WithFailure, PaneOK, PaneSet

\* Session::resize, by how it ends.
LEMMA ResizeOutcomes ==
  ASSUME NEW p, PaneOK(p), NEW g \in GridSizes, ~Hopeless(g), NEW o \in Resizes(p, g)
  PROVE  \/ o = [pane |-> p, result |-> "ok"] /\ g = p.geometry
         \/ o = [pane |-> p, result |-> "refused"]
         \/ o = [pane |-> WithGrid(p, g), result |-> "ok"] /\ g.cols <= p.room.cols
         \/ o = [pane |-> WithFailure(p, g), result |-> "failed"] /\ g.cols <= p.room.cols
<1>1. CASE g = p.geometry
  BY <1>1 DEF Resizes
<1>2. CASE g # p.geometry /\ (g.cols > p.room.cols \/ g.rows > p.room.rows)
  BY <1>2 DEF Resizes
<1>3. CASE g # p.geometry /\ ~(g.cols > p.room.cols \/ g.rows > p.room.rows)
  <2>1. g.cols <= p.room.cols
    <3>1. g.cols \in Int /\ p.room.cols \in Int
      BY DEF PaneOK, PaneSet, GridSizes
    <3>2. QED
      BY <3>1, <1>3
  <2>2. Resizes(p, g) = {[pane |-> WithGrid(p, g), result |-> "ok"],
                         [pane |-> WithFailure(p, g), result |-> "failed"]}
    BY <1>3 DEF Resizes, WithGrid, WithFailure
  <2>3. QED
    BY <2>1, <2>2
<1>4. QED
  BY <1>1, <1>2, <1>3

Results == {"ok", "small", "refused", "failed"}

\* What a pane's turn in a re-tiling leaves (the loop body of Canvas::resize).
LEMMA TurnOfAPane ==
  ASSUME NEW p, PaneOK(p), NEW r \in Rects, NEW m \in RetilePane(p, r)
  PROVE  /\ PaneOK(m.pane) /\ m.pane.id = p.id /\ m.result \in Results
         /\ m.result = "ok" => Follows(m.pane, r)
         /\ m.result = "small" => Hopeless(Fit(r, p.cell))
<1> DEFINE moved == WithRect(p, r)
           g     == Fit(r, moved.cell)
<1>1. /\ PaneOK(moved) /\ moved.rect = r /\ moved.id = p.id /\ moved.cell = p.cell
      /\ moved.geometry = p.geometry /\ moved.failed = p.failed /\ moved.font = p.font
  BY RectMoves
<1>2. g \in GridSizes
  BY <1>1, FitTyped DEF PaneOK, PaneSet
<1>3. \/ Hopeless(g) /\ m = [pane |-> moved, result |-> "small"]
      \/ /\ ~Hopeless(g)
         /\ \E o \in Resizes(moved, g) :
              m = IF o.result # "ok" THEN o ELSE [o EXCEPT !.pane.mouse = <<r.w, r.h>>]
  BY DEF RetilePane, WithRect
<1> HIDE DEF moved, g
<1>4. CASE Hopeless(g) /\ m = [pane |-> moved, result |-> "small"]
  <2>1. g = Fit(r, p.cell)
    BY <1>1 DEF g
  <2>2. QED
    BY <1>1, <1>4, <2>1 DEF Results
<1>5. CASE ~Hopeless(g) /\ \E o \in Resizes(moved, g) :
             m = IF o.result # "ok" THEN o ELSE [o EXCEPT !.pane.mouse = <<r.w, r.h>>]
  <2>1. PICK o \in Resizes(moved, g) :
          m = IF o.result # "ok" THEN o ELSE [o EXCEPT !.pane.mouse = <<r.w, r.h>>]
    BY <1>5
  <2>2. \/ o = [pane |-> moved, result |-> "ok"] /\ g = moved.geometry
        \/ o = [pane |-> moved, result |-> "refused"]
        \/ o = [pane |-> WithGrid(moved, g), result |-> "ok"] /\ g.cols <= moved.room.cols
        \/ o = [pane |-> WithFailure(moved, g), result |-> "failed"] /\ g.cols <= moved.room.cols
    BY <1>1, <1>2, <1>5, ResizeOutcomes
  <2>3. CASE o = [pane |-> moved, result |-> "refused"]
    BY <1>1, <2>1, <2>3 DEF Results
  <2>4. CASE o = [pane |-> WithFailure(moved, g), result |-> "failed"] /\ g.cols <= moved.room.cols
    <3>1. m.pane = WithFailure(moved, g) /\ m.result = "failed"
      BY <2>1, <2>4
    <3>2. PaneOK(WithFailure(moved, g)) /\ WithFailure(moved, g).id = moved.id
      BY <1>1, <1>2, <2>4, FailureMoves
    <3>3. QED
      BY <1>1, <3>1, <3>2 DEF Results
  <2>5. ASSUME NEW q, o = [pane |-> q, result |-> "ok"], PaneOK(q), q.id = moved.id, q.rect = r,
               ~q.failed => q.geometry = Fit(r, q.cell)
        PROVE  /\ PaneOK(m.pane) /\ m.pane.id = p.id /\ m.result = "ok" /\ Follows(m.pane, r)
    <3>1. m.pane = WithMouse(q, r) /\ m.result = "ok"
      <4>1. m = [o EXCEPT !.pane.mouse = <<r.w, r.h>>]
        BY <2>1, <2>5
      <4>2. m = [pane |-> [q EXCEPT !.mouse = <<r.w, r.h>>], result |-> "ok"]
        BY <4>1, <2>5
      <4>3. QED
        BY <4>2 DEF WithMouse
    <3>2. /\ PaneOK(WithMouse(q, r)) /\ WithMouse(q, r).mouse = <<r.w, r.h>>
          /\ WithMouse(q, r).id = q.id /\ WithMouse(q, r).rect = q.rect
          /\ WithMouse(q, r).geometry = q.geometry
          /\ WithMouse(q, r).cell = q.cell /\ WithMouse(q, r).failed = q.failed
      BY <2>5, MouseMoves
    <3>3. QED
      BY <1>1, <2>5, <3>1, <3>2 DEF Follows
  <2>6. CASE o = [pane |-> moved, result |-> "ok"] /\ g = moved.geometry
    <3>1. moved.geometry = Fit(r, moved.cell)
      BY <2>6 DEF g
    <3>2. /\ PaneOK(m.pane) /\ m.pane.id = p.id /\ m.result = "ok" /\ Follows(m.pane, r)
      BY <1>1, <2>5, <2>6, <3>1
    <3>3. QED
      BY <3>2 DEF Results
  <2>7. CASE o = [pane |-> WithGrid(moved, g), result |-> "ok"] /\ g.cols <= moved.room.cols
    <3> DEFINE q == WithGrid(moved, g)
    <3>1. /\ PaneOK(q) /\ q.geometry = g /\ q.cell = moved.font
          /\ q.id = moved.id /\ q.rect = moved.rect /\ q.failed = moved.failed
      BY <1>1, <1>2, <1>5, <2>7, GridMoves
    <3>2. ~q.failed => moved.cell = moved.font
      BY <1>1, <3>1 DEF PaneOK
    <3>3. ~q.failed => q.geometry = Fit(r, q.cell)
      BY <3>1, <3>2 DEF g
    <3> HIDE DEF q
    <3>4. /\ PaneOK(m.pane) /\ m.pane.id = p.id /\ m.result = "ok" /\ Follows(m.pane, r)
      <4>1. o = [pane |-> q, result |-> "ok"]
        BY <2>7 DEF q
      <4>2. QED
        BY <1>1, <2>5, <3>1, <3>3, <4>1
    <3>5. QED
      BY <3>4 DEF Results
  <2>8. QED
    BY <2>2, <2>3, <2>4, <2>6, <2>7
<1>6. QED
  BY <1>3, <1>4, <1>5

-----------------------------------------------------------------------------
(* A re-tiling.                                                            *)

\* The outcomes after the turn of pane k, from those before it.
Turn(rects, before, k) ==
  UNION {IF o.result # "ok" \/ k > Len(rects) THEN {o}
         ELSE {[panes |-> [o.panes EXCEPT ![k] = m.pane], result |-> m.result]
                 : m \in RetilePane(o.panes[k], rects[k])} : o \in before}

\* The function Moved chooses exists: a re-tiling is its turns, one after the other.
LEMMA MovedSteps ==
  ASSUME NEW ps, NEW rects, NEW m \in Nat, Len(ps) = m
  PROVE  /\ Moved(ps, rects)[0] = {[panes |-> ps, result |-> "ok"]}
         /\ \A n \in 1 .. m : Moved(ps, rects)[n] = Turn(rects, Moved(ps, rects)[n - 1], n)
<1> DEFINE base == {[panes |-> ps, result |-> "ok"]}
           Built(f, k) ==
             f = [n \in 0 .. k |-> IF n = 0 THEN base ELSE Turn(rects, f[n - 1], n)]
           Reached == {k \in 0 .. m : \E f : Built(f, k)}
<1>0. Moved(ps, rects) = CHOOSE f : Built(f, m)
  BY DEF Moved, Turn
<1> HIDE DEF base
<1>1. 0 \in Reached
  <2>1. Built([n \in 0 .. 0 |-> base], 0)
    OBVIOUS
  <2>2. \E f : Built(f, 0)
    <3> HIDE DEF Built
    <3>1. QED
      BY <2>1
  <2>3. QED
    BY <2>2
<1>2. ASSUME NEW k \in 1 .. m, k - 1 \in Reached
      PROVE  k \in Reached
  <2>1. PICK f : Built(f, k - 1)
    BY <1>2
  <2> DEFINE g == [n \in 0 .. k |-> IF n = k THEN Turn(rects, f[k - 1], k) ELSE f[n]]
             h == [n \in 0 .. k |-> IF n = 0 THEN base ELSE Turn(rects, g[n - 1], n)]
  <2>2. \A n \in 0 .. k - 1 : f[n] = IF n = 0 THEN base ELSE Turn(rects, f[n - 1], n)
    <3> HIDE DEF g, h
    <3>1. QED
      BY <2>1, Zenon
  <2>3. \A n \in 0 .. k - 1 : g[n] = f[n]
    OBVIOUS
  <2>4. ASSUME NEW n \in 0 .. k PROVE g[n] = h[n]
    <3>1. CASE n = 0
      BY <3>1, <2>2, <2>3
    <3>2. CASE n \in 1 .. k - 1
      <4>1. h[n] = Turn(rects, g[n - 1], n) /\ n - 1 \in 0 .. k - 1 /\ n \in 0 .. k - 1
        BY <3>2
      <4>2. QED
        BY <4>1, <2>2, <2>3, <3>2
    <3>3. CASE n = k /\ k > 0
      <4>1. h[n] = Turn(rects, g[k - 1], k) /\ g[n] = Turn(rects, f[k - 1], k)
        BY <3>3
      <4>2. g[k - 1] = f[k - 1]
        BY <2>3
      <4>3. QED
        BY <4>1, <4>2
    <3>4. QED
      BY <3>1, <3>2, <3>3
  <2>5. g = h
    <3>1. g = [n \in 0 .. k |-> g[n]] /\ h = [n \in 0 .. k |-> h[n]]
      OBVIOUS
    <3>2. QED
      BY <3>1, <2>4
  <2>6. Built(g, k)
    BY <2>5
  <2>7. \E f2 : Built(f2, k)
    <3> HIDE DEF Built, g
    <3>1. QED
      BY <2>6
  <2>8. QED
    BY <2>7
<1>3. m \in Reached
  <2> HIDE DEF Reached
  <2>1. QED
    BY <1>1, <1>2, Climbs
<1>4. Built(Moved(ps, rects), m)
  BY <1>0, <1>3
<1>5. Moved(ps, rects)[0] = base /\
      \A n \in 1 .. m : Moved(ps, rects)[n] = Turn(rects, Moved(ps, rects)[n - 1], n)
  BY <1>4
<1>6. QED
  BY <1>5 DEF base

GoodPanes(ps) == ps \in Seq(PaneSet) /\ \A k \in 1 .. Len(ps) : PaneOK(ps[k])

\* After the turn of pane k: as many panes, the same ones, each still sound; so
\* far all followed, the others untouched; or one had no room.
Halfway(ps, rects, k, o) ==
  /\ GoodPanes(o.panes) /\ Len(o.panes) = Len(ps) /\ o.result \in Results
  /\ \A j \in 1 .. Len(ps) : o.panes[j].id = ps[j].id
  /\ o.result = "ok" =>
       \A j \in 1 .. Len(ps) : IF j <= k THEN j <= Len(rects) => Follows(o.panes[j], rects[j])
                               ELSE o.panes[j] = ps[j]
  /\ o.result = "small" =>
       \E j \in 1 .. Len(ps) : j <= Len(rects) /\ Hopeless(Fit(rects[j], ps[j].cell))

Replaced(ps, k, p) == [ps EXCEPT ![k] = p]

LEMMA OnePaneReplaced ==
  ASSUME NEW as, GoodPanes(as), NEW i \in 1 .. Len(as), NEW p, PaneOK(p)
  PROVE  /\ GoodPanes(Replaced(as, i, p)) /\ Len(Replaced(as, i, p)) = Len(as)
         /\ Replaced(as, i, p)[i] = p
         /\ \A j \in 1 .. Len(as) : j # i => Replaced(as, i, p)[j] = as[j]
<1> DEFINE n  == Len(as)
           bs == Replaced(as, i, p)
<1>1. as \in Seq(PaneSet) /\ n \in Nat /\ DOMAIN as = 1 .. n
  <2>1. as \in Seq(PaneSet)
    BY DEF GoodPanes
  <2>2. QED
    BY <2>1, LenProperties
<1>2. p \in PaneSet
  BY DEF PaneOK
<1>3. bs \in Seq(PaneSet) /\ Len(bs) = n
  <2>1. i \in 1 .. Len(as)
    OBVIOUS
  <2>2. bs = [as EXCEPT ![i] = p]
    BY DEF Replaced
  <2> HIDE DEF bs
  <2>3. bs \in Seq(PaneSet)
    BY <1>1, <1>2, <2>1, <2>2, ExceptSeq
  <2>4. Len(bs) = Len(as)
    BY <1>1, <1>2, <2>1, <2>2, ExceptSeq, ZenonT(60)
  <2>5. QED
    BY <2>3, <2>4
<1>4. bs[i] = p /\ \A j \in 1 .. n : j # i => bs[j] = as[j]
  BY <1>1 DEF Replaced
<1>5. \A j \in 1 .. n : PaneOK(bs[j])
  BY <1>4 DEF GoodPanes
<1>6. QED
  BY <1>3, <1>4, <1>5 DEF GoodPanes

LEMMA TurnKeeps ==
  ASSUME NEW ps, NEW m \in Nat, Len(ps) = m, NEW rects \in Seq(Rects), NEW k \in 1 .. m,
         NEW o, Halfway(ps, rects, k - 1, o), NEW u \in Turn(rects, {o}, k)
  PROVE  Halfway(ps, rects, k, u)
<1> DEFINE R == Len(rects)
<1>1. R \in Nat
  OBVIOUS
<1>2. CASE o.result # "ok"
  <2>1. u = o
    BY <1>2 DEF Turn
  <2>2. QED
    BY <1>2, <2>1 DEF Halfway
<1>3. CASE o.result = "ok" /\ k > R
  <2>1. u = o
    BY <1>3 DEF Turn
  <2> HIDE DEF R
  <2>2. \A j \in 1 .. m : IF j <= k - 1 THEN j <= R => Follows(o.panes[j], rects[j])
                          ELSE o.panes[j] = ps[j]
    BY <1>3 DEF Halfway, R
  <2>3. \A j \in 1 .. m : IF j <= k THEN j <= R => Follows(o.panes[j], rects[j])
                          ELSE o.panes[j] = ps[j]
    <3>1. SUFFICES ASSUME NEW j \in 1 .. m
                   PROVE IF j <= k THEN j <= R => Follows(o.panes[j], rects[j])
                         ELSE o.panes[j] = ps[j]
      OBVIOUS
    <3>2. CASE j <= k - 1
      BY <2>2, <3>2
    <3>3. CASE j = k
      BY <1>1, <1>3, <3>3
    <3>4. CASE j > k
      BY <2>2, <3>4
    <3>5. QED
      BY <3>2, <3>3, <3>4
  <2>4. QED
    BY <1>3, <2>1, <2>3 DEF Halfway, R
<1>4. CASE o.result = "ok" /\ k <= R
  <2>1. PICK t \in RetilePane(o.panes[k], rects[k]) :
          u = [panes |-> [o.panes EXCEPT ![k] = t.pane], result |-> t.result]
    <3>1. ~(k > R)
      BY <1>1, <1>4
    <3>2. QED
      BY <1>4, <3>1 DEF Turn
  <2>2. PaneOK(o.panes[k]) /\ rects[k] \in Rects /\ o.panes[k] = ps[k]
    <3>1. Len(o.panes) = m /\ GoodPanes(o.panes)
      BY DEF Halfway
    <3>2. PaneOK(o.panes[k])
      BY <3>1 DEF GoodPanes
    <3>3. k \in 1 .. R
      BY <1>1, <1>4
    <3>4. rects[k] \in Rects
      BY <3>3, ElementOfSeq
    <3>5. ~(k <= k - 1)
      OBVIOUS
    <3>6. o.panes[k] = ps[k]
      BY <1>4, <3>5 DEF Halfway
    <3>7. QED
      BY <3>2, <3>4, <3>6
  <2>3. /\ PaneOK(t.pane) /\ t.pane.id = ps[k].id /\ t.result \in Results
        /\ t.result = "ok" => Follows(t.pane, rects[k])
        /\ t.result = "small" => Hopeless(Fit(rects[k], ps[k].cell))
    <3>1. /\ PaneOK(t.pane) /\ t.pane.id = o.panes[k].id /\ t.result \in Results
          /\ t.result = "ok" => Follows(t.pane, rects[k])
          /\ t.result = "small" => Hopeless(Fit(rects[k], o.panes[k].cell))
      BY <2>2, TurnOfAPane
    <3>2. QED
      BY <2>2, <3>1
  <2>4. /\ GoodPanes(u.panes) /\ Len(u.panes) = m /\ u.panes[k] = t.pane /\ u.result = t.result
        /\ \A j \in 1 .. m : j # k => u.panes[j] = o.panes[j]
    <3> DEFINE os == o.panes
               qs == u.panes
               q  == t.pane
    <3>1. GoodPanes(os) /\ k \in 1 .. Len(os) /\ PaneOK(q)
      BY <2>3 DEF Halfway
    <3>2. qs = Replaced(os, k, q) /\ u.result = t.result /\ Len(os) = m
      BY <2>1 DEF Replaced, Halfway
    <3> HIDE DEF os, qs, q
    <3>3. /\ GoodPanes(Replaced(os, k, q)) /\ Len(Replaced(os, k, q)) = Len(os)
          /\ Replaced(os, k, q)[k] = q
          /\ \A j \in 1 .. Len(os) : j # k => Replaced(os, k, q)[j] = os[j]
      <4>1. GoodPanes(Replaced(os, k, q)) /\ Len(Replaced(os, k, q)) = Len(os)
        BY <3>1, OnePaneReplaced
      <4>2. Replaced(os, k, q)[k] = q
        BY <3>1, OnePaneReplaced
      <4>3. \A j \in 1 .. Len(os) : j # k => Replaced(os, k, q)[j] = os[j]
        BY <3>1, OnePaneReplaced
      <4>4. QED
        BY <4>1, <4>2, <4>3
    <3>4. QED
      BY <3>1, <3>2, <3>3 DEF os, qs, q
  <2>5. \A j \in 1 .. m : u.panes[j].id = ps[j].id
    BY <2>3, <2>4 DEF Halfway
  <2>6. t.result = "ok" =>
          \A j \in 1 .. m : IF j <= k THEN j <= R => Follows(u.panes[j], rects[j])
                            ELSE u.panes[j] = ps[j]
    <3>1. SUFFICES ASSUME t.result = "ok", NEW j \in 1 .. m
                   PROVE IF j <= k THEN j <= R => Follows(u.panes[j], rects[j])
                         ELSE u.panes[j] = ps[j]
      OBVIOUS
    <3>2. IF j <= k - 1 THEN j <= R => Follows(o.panes[j], rects[j]) ELSE o.panes[j] = ps[j]
      BY <1>4 DEF Halfway
    <3>3. CASE j <= k - 1
      BY <2>4, <3>2, <3>3
    <3>4. CASE j = k
      BY <2>3, <2>4, <3>1, <3>4
    <3>5. CASE j > k
      BY <2>4, <3>2, <3>5
    <3>6. QED
      BY <3>3, <3>4, <3>5
  <2>7. t.result = "small" => \E j \in 1 .. m : j <= R /\ Hopeless(Fit(rects[j], ps[j].cell))
    BY <1>4, <2>3
  <2> HIDE DEF R
  <2>8. QED
    BY <2>3, <2>4, <2>5, <2>6, <2>7 DEF Halfway, R
<1>5. QED
  BY <1>1, <1>2, <1>3, <1>4

\* Canvas::resize over all the panes.
LEMMA RetiledPanes ==
  ASSUME NEW ps, GoodPanes(ps), NEW rects \in Seq(Rects), NEW o \in Retiled(ps, rects)
  PROVE  Halfway(ps, rects, Len(ps), o)
<1> DEFINE m == Len(ps)
           S == {n \in 0 .. m : \A u \in Moved(ps, rects)[n] : Halfway(ps, rects, n, u)}
<1>1. m \in Nat /\ Len(ps) = m
  BY DEF GoodPanes
<1> HIDE DEF m
<1>2. /\ Moved(ps, rects)[0] = {[panes |-> ps, result |-> "ok"]}
      /\ \A n \in 1 .. m : Moved(ps, rects)[n] = Turn(rects, Moved(ps, rects)[n - 1], n)
  BY <1>1, MovedSteps
<1>3. 0 \in S
  <2>1. Halfway(ps, rects, 0, [panes |-> ps, result |-> "ok"])
    BY <1>1 DEF Halfway, Results
  <2>2. QED
    BY <1>1, <1>2, <2>1
<1>4. ASSUME NEW n \in 1 .. m, n - 1 \in S PROVE n \in S
  <2>1. ASSUME NEW u \in Turn(rects, Moved(ps, rects)[n - 1], n)
        PROVE  Halfway(ps, rects, n, u)
    <3>1. PICK v \in Moved(ps, rects)[n - 1] : u \in Turn(rects, {v}, n)
      BY <2>1 DEF Turn
    <3>2. Halfway(ps, rects, n - 1, v)
      BY <1>4, <3>1
    <3>3. QED
      BY <1>1, <3>1, <3>2, TurnKeeps
  <2>2. QED
    BY <1>2, <2>1
<1>5. \A n \in 0 .. m : n \in S
  <2> HIDE DEF S
  <2>1. QED
    BY <1>1, <1>3, <1>4, Climbs
<1>6. m \in S /\ o \in Moved(ps, rects)[m]
  BY <1>1, <1>5 DEF Retiled
<1>7. QED
  BY <1>1, <1>6

-----------------------------------------------------------------------------
(* Canvases and what they hold.                                            *)

Canvases == [cols : Nat, rows : Nat \ {0}, area : Areas]
CellCount(c) == c.rows * c.cols
PaneIds(ps)  == {ps[k].id : k \in 1 .. Len(ps)}

\* A sound pane for every cell, each with an id of its own among the first b.
PanesOf(c, ps, b) ==
  /\ c \in Canvases /\ GoodPanes(ps) /\ Len(ps) = CellCount(c)
  /\ \A k \in 1 .. Len(ps) : ps[k].id \in 1 .. b
  /\ \A j, k \in 1 .. Len(ps) : ps[j].id = ps[k].id => j = k

\* Every pane follows the cell it has.
Laid(c, ps) == \A k \in 1 .. Len(ps) : Follows(ps[k], Tile(c, c.area)[k])

LEMMA EdgeTyped ==
  ASSUME NEW i \in Nat, NEW total \in Nat, NEW count \in Nat \ {0}
  PROVE  Edge(i, total, count) \in Nat
<1>1. total \div count \in Nat /\ total % count \in Nat
  OBVIOUS
<1>2. i * (total \div count) \in Nat
  BY <1>1
<1>3. Smaller(i, total % count) \in Nat
  BY <1>1 DEF Smaller
<1>4. QED
  BY <1>2, <1>3 DEF Edge

LEMMA SpanTyped ==
  ASSUME NEW i \in Nat, NEW total \in Nat, NEW count \in Nat \ {0}
  PROVE  Span(i, total, count) \in Nat
<1> DEFINE q == total \div count
           r == total % count
<1>1. q \in Nat /\ r \in Nat
  OBVIOUS
<1>2. Span(i, total, count) = ((i + 1) * q + Smaller(i + 1, r)) - (i * q + Smaller(i, r))
  BY DEF Span, Edge
<1> HIDE DEF q, r
<1>3. (i + 1) * q = i * q + q /\ i * q \in Nat
  BY <1>1
<1>4. Smaller(i + 1, r) - Smaller(i, r) \in Nat /\ Smaller(i, r) \in Nat /\ Smaller(i + 1, r) \in Nat
  BY <1>1 DEF Smaller
<1>5. QED
  BY <1>1, <1>2, <1>3, <1>4

\* A tiling is a rectangle for every cell, of at least one.
LEMMA TileTyped ==
  ASSUME NEW g, g.cols \in Nat, g.rows \in Nat, NEW area \in Areas
  PROVE  /\ Tile(g, area) \in Seq(Rects)
         /\ Len(Tile(g, area)) = Larger(g.rows, 1) * Larger(g.cols, 1)
<1> DEFINE cols == Larger(g.cols, 1)
           rows == Larger(g.rows, 1)
           W == UsableWidth(area, cols)
           H == UsableHeight(area, rows)
           n == rows * cols
           Cell(k) == LET col == (k - 1) % cols  row == (k - 1) \div cols IN
                      Rect(area.x + Edge(col, W, cols) + Gutter * col,
                           area.y + Edge(row, H, rows) + Gutter * row,
                           Span(col, W, cols), Span(row, H, rows))
<1>1. area.x \in Nat /\ area.y \in Nat /\ area.w \in Nat /\ area.h \in Nat /\ Gutter \in Nat
  BY PanesAssumption
<1>2. cols \in Nat \ {0} /\ rows \in Nat \ {0}
  BY DEF Larger
<1> HIDE DEF cols, rows
<1>3. W \in Nat /\ H \in Nat
  <2>1. Gutter * (cols - 1) \in Nat /\ Gutter * (rows - 1) \in Nat
    BY <1>1, <1>2
  <2>2. QED
    BY <1>1, <2>1 DEF UsableWidth, UsableHeight, Minus
<1> HIDE DEF W, H
<1>4. n \in Nat
  BY <1>2
<1>5. ASSUME NEW k \in 1 .. n PROVE Cell(k) \in Rects
  <2> DEFINE col == (k - 1) % cols
             row == (k - 1) \div cols
  <2>1. k - 1 \in Nat
    BY <1>4
  <2>2. col \in Nat /\ row \in Nat
    BY <1>2, <2>1
  <2>3. Cell(k) = Rect(area.x + Edge(col, W, cols) + Gutter * col,
                       area.y + Edge(row, H, rows) + Gutter * row,
                       Span(col, W, cols), Span(row, H, rows))
    OBVIOUS
  <2> HIDE DEF col, row, Cell
  <2>4. Edge(col, W, cols) \in Nat /\ Span(col, W, cols) \in Nat
    BY <1>2, <1>3, <2>2, EdgeTyped, SpanTyped
  <2>7. Edge(row, H, rows) \in Nat /\ Span(row, H, rows) \in Nat
    BY <1>2, <1>3, <2>2, EdgeTyped, SpanTyped
  <2>5. Gutter * col \in Nat /\ Gutter * row \in Nat
    BY <1>1, <2>2
  <2>6. QED
    BY <1>1, <2>3, <2>4, <2>5, <2>7 DEF Rect, Rects
<1>6. Tile(g, area) = [k \in 1 .. n |-> Cell(k)]
  BY DEF Tile, cols, rows, W, H
<1> HIDE DEF Cell, n
<1>7. QED
  <2>1. Tile(g, area) \in Seq(Rects) /\ Len(Tile(g, area)) = n
    BY <1>4, <1>5, <1>6
  <2>2. QED
    BY <2>1 DEF n, cols, rows

\* Re-tiling a canvas keeps its panes, and places them when it succeeds.
LEMMA RetiledSound ==
  ASSUME NEW c, NEW ps, NEW b, PanesOf(c, ps, b), NEW o \in Retiled(ps, Tile(c, c.area))
  PROVE  /\ PanesOf(c, o.panes, b) /\ Len(o.panes) = Len(ps) /\ o.result \in Results
         /\ \A j \in 1 .. Len(ps) : o.panes[j].id = ps[j].id
         /\ o.result = "ok" => Laid(c, o.panes)
         /\ o.result = "small" =>
              \E j \in 1 .. Len(ps) : /\ j <= Len(Tile(c, c.area))
                                      /\ Hopeless(Fit(Tile(c, c.area)[j], ps[j].cell))
<1> DEFINE rects == Tile(c, c.area)
           m == Len(ps)
<1>1. c.cols \in Nat /\ c.rows \in Nat \ {0} /\ c.area \in Areas /\ GoodPanes(ps)
  BY DEF PanesOf, Canvases
<1>2. rects \in Seq(Rects) /\ Len(rects) = Larger(c.rows, 1) * Larger(c.cols, 1)
  BY <1>1, TileTyped
<1>3. m \in Nat /\ m = c.rows * c.cols
  BY <1>1 DEF PanesOf, CellCount, GoodPanes
<1> HIDE DEF rects, m
<1>4. Halfway(ps, rects, m, o)
  BY <1>1, <1>2, RetiledPanes DEF rects, m
<1>5. m > 0 => Len(rects) = m
  <2>1. ASSUME m > 0 PROVE c.cols # 0
    <3>1. CASE c.cols = 0
      <4>1. c.rows * 0 = 0
        BY <1>1
      <4>2. QED
        BY <1>3, <2>1, <3>1, <4>1
    <3>2. QED
      BY <3>1
  <2>2. c.cols # 0 => Larger(c.cols, 1) = c.cols
    BY <1>1 DEF Larger
  <2>3. Larger(c.rows, 1) = c.rows
    BY <1>1 DEF Larger
  <2>4. QED
    BY <1>2, <1>3, <2>1, <2>2, <2>3
<1>6. GoodPanes(o.panes) /\ Len(o.panes) = m /\ \A j \in 1 .. m : o.panes[j].id = ps[j].id
  BY <1>4 DEF Halfway, m
<1>7. PanesOf(c, o.panes, b)
  BY <1>3, <1>6 DEF PanesOf, m
<1>8. o.result = "ok" => Laid(c, o.panes)
  <2>1. SUFFICES ASSUME o.result = "ok", NEW j \in 1 .. m PROVE Follows(o.panes[j], rects[j])
    BY <1>6 DEF Laid, rects
  <2>2. j <= m /\ j <= Len(rects)
    BY <1>3, <1>5
  <2>3. QED
    BY <1>4, <2>1, <2>2 DEF Halfway, m
<1>9. o.result = "small" =>
        \E j \in 1 .. m : j <= Len(rects) /\ Hopeless(Fit(rects[j], ps[j].cell))
  BY <1>4 DEF Halfway, m
<1>10. o.result \in Results
  BY <1>4 DEF Halfway
<1>11. QED
  BY <1>6, <1>7, <1>8, <1>9, <1>10 DEF rects, m

\* A session that was just spawned.
LEMMA SpawnedSound ==
  ASSUME NEW id \in Nat, NEW r \in Rects, NEW font \in PaneFonts
  PROVE  LET p == Spawned(id, r, font) IN
         /\ PaneOK(p) /\ p.id = id /\ p.cell = font /\ p.font = font
         /\ ~Hopeless(Fit(r, font)) => Follows(p, r)
<1> DEFINE g == [cols |-> Larger(r.w \div font, 1), rows |-> Larger(r.h \div font, 1)]
           room == [cols |-> Larger(g.cols, PaneCols), rows |-> Larger(g.rows, PaneRows)]
           p == Spawned(id, r, font)
<1>1. r.w \in Nat /\ r.h \in Nat /\ font \in Nat \ {0} /\ PaneCols \in Nat /\ PaneRows \in Nat
  BY PanesAssumption DEF Rects
<1>2. r.w \div font \in Nat /\ r.h \div font \in Nat
  BY <1>1
<1>3. /\ g \in GridSizes /\ ~Hopeless(g) /\ g.cols >= 1 /\ g.rows >= 1
  BY <1>2 DEF GridSizes, Larger, Hopeless
<1>4. p = [id |-> id, rect |-> r, geometry |-> g, child |-> g, font |-> font, cell |-> font,
           mouse |-> <<r.w, r.h>>, failed |-> FALSE, room |-> room]
  BY DEF Spawned
<1>5. ~Hopeless(Fit(r, font)) => g = Fit(r, font)
  BY <1>2 DEF Hopeless, Fit, Larger
<1> HIDE DEF g
<1>6. room \in GridSizes /\ g.cols <= room.cols
  <2>1. g.cols \in Int /\ g.rows \in Int
    BY <1>3 DEF GridSizes
  <2>2. Larger(g.cols, PaneCols) \in Int /\ Larger(g.rows, PaneRows) \in Int /\ g.cols <= Larger(g.cols, PaneCols)
    BY <1>1, <2>1 DEF Larger
  <2>3. QED
    BY <2>2 DEF GridSizes
<1> HIDE DEF room, p
<1>7. p \in PaneSet
  <2>1. <<r.w, r.h>> \in Int \X Int
    BY <1>1
  <2>2. QED
    BY <1>3, <1>4, <1>6, <2>1 DEF PaneSet
<1>8. PaneOK(p) /\ p.id = id /\ p.cell = font /\ p.font = font /\ p.geometry = g
      /\ p.rect = r /\ p.mouse = <<r.w, r.h>>
  BY <1>3, <1>4, <1>6, <1>7 DEF PaneOK
<1>9. QED
  BY <1>5, <1>8 DEF Follows, p

\* A sequence without one of its elements.
LEMMA RemoveAtProperties ==
  ASSUME NEW S, NEW s \in Seq(S), NEW i \in 1 .. Len(s)
  PROVE  /\ RemoveAt(s, i) \in Seq(S) /\ Len(RemoveAt(s, i)) = Len(s) - 1
         /\ \A j \in 1 .. Len(s) - 1 : RemoveAt(s, i)[j] = IF j < i THEN s[j] ELSE s[j + 1]
<1> DEFINE n == Len(s)
           a == SubSeq(s, 1, i - 1)
           b == SubSeq(s, i + 1, n)
<1>1. n \in Nat /\ i \in 1 .. n /\ \A j \in 1 .. n : s[j] \in S
  BY ElementOfSeq
<1>2. RemoveAt(s, i) = a \o b
  BY DEF RemoveAt
<1> HIDE DEF n
<1>3. a \in Seq(S) /\ Len(a) = i - 1 /\ \A j \in 1 .. i - 1 : a[j] = s[j]
  <2>1. 1 \in Int /\ i - 1 \in Int /\ \A j \in 1 .. i - 1 : s[j] \in S
    BY <1>1
  <2>2. /\ a \in Seq(S) /\ Len(a) = IF 1 <= i - 1 THEN i - 1 - 1 + 1 ELSE 0
        /\ \A j \in 1 .. i - 1 - 1 + 1 : a[j] = s[1 + j - 1]
    BY <2>1, SubSeqProperties
  <2> HIDE DEF a
  <2>3. QED
    BY <1>1, <2>2
<1>4. b \in Seq(S) /\ Len(b) = n - i /\ \A j \in 1 .. n - i : b[j] = s[i + j]
  <2>1. i + 1 \in Int /\ n \in Int /\ \A j \in i + 1 .. n : s[j] \in S
    BY <1>1
  <2>2. /\ b \in Seq(S) /\ Len(b) = IF i + 1 <= n THEN n - (i + 1) + 1 ELSE 0
        /\ \A j \in 1 .. n - (i + 1) + 1 : b[j] = s[(i + 1) + j - 1]
    BY <2>1, SubSeqProperties
  <2> HIDE DEF b
  <2>3. QED
    BY <1>1, <2>2
<1> HIDE DEF a, b
<1>5. /\ a \o b \in Seq(S) /\ Len(a \o b) = Len(a) + Len(b)
      /\ \A j \in 1 .. Len(a) + Len(b) : (a \o b)[j] = IF j <= Len(a) THEN a[j] ELSE b[j - Len(a)]
  BY <1>3, <1>4, ConcatProperties
<1>6. Len(a) + Len(b) = n - 1
  BY <1>1, <1>3, <1>4
<1>7. ASSUME NEW j \in 1 .. n - 1
      PROVE  (a \o b)[j] = IF j < i THEN s[j] ELSE s[j + 1]
  <2>1. CASE j < i
    <3>1. j \in 1 .. i - 1 /\ j \in 1 .. Len(a) + Len(b) /\ j <= Len(a)
      BY <1>1, <1>3, <1>6, <2>1
    <3>2. QED
      BY <1>3, <1>5, <2>1, <3>1
  <2>2. CASE ~(j < i)
    <3>1. j - (i - 1) \in 1 .. n - i /\ j \in 1 .. Len(a) + Len(b) /\ ~(j <= Len(a))
      BY <1>1, <1>3, <1>6, <2>2
    <3>2. (a \o b)[j] = b[j - (i - 1)]
      BY <1>3, <1>5, <3>1
    <3>3. b[j - (i - 1)] = s[i + (j - (i - 1))] /\ i + (j - (i - 1)) = j + 1
      BY <1>1, <1>4, <3>1
    <3>4. QED
      BY <2>2, <3>2, <3>3
  <2>3. QED
    BY <2>1, <2>2
<1>8. QED
  BY <1>2, <1>5, <1>6, <1>7 DEF n

\* A canvas of one row with a column more, and a new pane in it (Canvas::split).
Grown(c) == [c EXCEPT !.cols = @ + 1]

LEMMA GrownCanvas ==
  ASSUME NEW c \in Canvases
  PROVE  /\ Grown(c) \in Canvases /\ Grown(c).rows = c.rows
         /\ Grown(c).cols = c.cols + 1 /\ Grown(c).area = c.area
  BY DEF Grown, Canvases

LEMMA AppendedSound ==
  ASSUME NEW c, NEW ps, NEW b \in Nat, PanesOf(c, ps, b), c.rows = 1,
         NEW p, PaneOK(p), p.id = b + 1
  PROVE  /\ PanesOf(Grown(c), Append(ps, p), b + 1)
         /\ PaneIds(Append(ps, p)) = PaneIds(ps) \union {b + 1}
         /\ Len(Append(ps, p)) = Len(ps) + 1
         /\ \A k \in 1 .. Len(ps) + 1 : Append(ps, p)[k] = IF k <= Len(ps) THEN ps[k] ELSE p
<1> DEFINE n  == Len(ps)
           qs == Append(ps, p)
<1>1. ps \in Seq(PaneSet) /\ n \in Nat /\ p \in PaneSet /\ c \in Canvases /\ c.cols \in Nat
  BY DEF PanesOf, GoodPanes, PaneOK, Canvases
<1>2. /\ qs \in Seq(PaneSet) /\ Len(qs) = n + 1
      /\ \A k \in 1 .. n : qs[k] = ps[k]
      /\ qs[n + 1] = p
  BY <1>1
<1>3. n = c.cols /\ \A k \in 1 .. n : PaneOK(ps[k]) /\ ps[k].id \in 1 .. b
  <2>1. n = c.rows * c.cols /\ c.rows = 1
    BY DEF PanesOf, CellCount
  <2>2. QED
    BY <1>1, <2>1 DEF PanesOf, GoodPanes
<1>4. \A j, k \in 1 .. n : ps[j].id = ps[k].id => j = k
  BY DEF PanesOf
<1> HIDE DEF n, qs
<1>5. \A k \in 1 .. n + 1 : qs[k] = IF k <= n THEN ps[k] ELSE p
  <2>1. SUFFICES ASSUME NEW k \in 1 .. n + 1 PROVE qs[k] = IF k <= n THEN ps[k] ELSE p
    OBVIOUS
  <2>2. CASE k <= n
    BY <1>1, <1>2, <2>2
  <2>3. CASE k = n + 1
    BY <1>1, <1>2, <2>3
  <2>4. QED
    BY <1>1, <2>2, <2>3
<1>6. \A k \in 1 .. n + 1 : PaneOK(qs[k]) /\ qs[k].id \in 1 .. b + 1
  <2>1. SUFFICES ASSUME NEW k \in 1 .. n + 1 PROVE PaneOK(qs[k]) /\ qs[k].id \in 1 .. b + 1
    OBVIOUS
  <2>2. CASE k <= n
    <3>1. k \in 1 .. n /\ qs[k] = ps[k]
      BY <1>1, <1>5, <2>2
    <3>2. QED
      BY <1>3, <3>1
  <2>3. CASE ~(k <= n)
    BY <1>5, <2>3
  <2>4. QED
    BY <2>2, <2>3
<1>7. ASSUME NEW j \in 1 .. n + 1, NEW k \in 1 .. n + 1, qs[j].id = qs[k].id
      PROVE  j = k
  <2>1. CASE j <= n /\ k <= n
    <3>1. j \in 1 .. n /\ k \in 1 .. n /\ qs[j] = ps[j] /\ qs[k] = ps[k]
      BY <1>1, <1>5, <2>1
    <3>2. QED
      BY <1>4, <1>7, <3>1
  <2>2. CASE j <= n /\ ~(k <= n)
    <3>1. j \in 1 .. n /\ qs[j] = ps[j] /\ qs[k] = p
      BY <1>1, <1>5, <2>2
    <3>2. ps[j].id \in 1 .. b
      BY <1>3, <3>1
    <3>3. QED
      BY <1>7, <3>1, <3>2
  <2>3. CASE ~(j <= n) /\ k <= n
    <3>1. k \in 1 .. n /\ qs[k] = ps[k] /\ qs[j] = p
      BY <1>1, <1>5, <2>3
    <3>2. ps[k].id \in 1 .. b
      BY <1>3, <3>1
    <3>3. QED
      BY <1>7, <3>1, <3>2
  <2>4. CASE ~(j <= n) /\ ~(k <= n)
    BY <1>1, <2>4
  <2>5. QED
    BY <2>1, <2>2, <2>3, <2>4
<1>8. PaneIds(qs) = PaneIds(ps) \union {b + 1}
  <2>1. ASSUME NEW i \in PaneIds(qs) PROVE i \in PaneIds(ps) \union {b + 1}
    <3>1. PICK k \in 1 .. n + 1 : i = qs[k].id
      BY <1>2 DEF PaneIds
    <3>2. CASE k <= n
      <4>1. k \in 1 .. n /\ qs[k] = ps[k]
        BY <1>1, <1>5, <3>2
      <4>2. QED
        BY <3>1, <4>1 DEF PaneIds, n
    <3>3. CASE ~(k <= n)
      BY <1>5, <3>1, <3>3
    <3>4. QED
      BY <3>2, <3>3
  <2>2. ASSUME NEW i \in PaneIds(ps) PROVE i \in PaneIds(qs)
    <3>1. PICK k \in 1 .. n : i = ps[k].id
      BY DEF PaneIds, n
    <3>2. k \in 1 .. n + 1 /\ qs[k] = ps[k]
      BY <1>1, <1>2
    <3>3. QED
      BY <1>2, <3>1, <3>2 DEF PaneIds
  <2>3. b + 1 \in PaneIds(qs)
    <3>1. n + 1 \in 1 .. n + 1 /\ qs[n + 1].id = b + 1
      BY <1>1, <1>2
    <3>2. QED
      BY <1>2, <3>1 DEF PaneIds
  <2>4. QED
    BY <2>1, <2>2, <2>3
<1>9. CellCount(Grown(c)) = n + 1 /\ Grown(c) \in Canvases
  <2>1. Grown(c) \in Canvases /\ Grown(c).rows = 1 /\ Grown(c).cols = n + 1
    BY <1>1, <1>3, GrownCanvas
  <2>2. 1 * (n + 1) = n + 1
    BY <1>1
  <2>3. QED
    BY <2>1, <2>2 DEF CellCount
<1>10. PanesOf(Grown(c), qs, b + 1)
  BY <1>2, <1>6, <1>7, <1>9 DEF PanesOf, GoodPanes
<1>11. QED
  BY <1>2, <1>5, <1>8, <1>10 DEF n, qs

\* A canvas of one row with a pane less (Canvas::close).
Lessened(c) == [c EXCEPT !.cols = Minus(@, 1)]

LEMMA LessenedCanvas ==
  ASSUME NEW c \in Canvases
  PROVE  /\ Lessened(c) \in Canvases /\ Lessened(c).rows = c.rows
         /\ Lessened(c).cols = Minus(c.cols, 1) /\ Lessened(c).area = c.area
<1>1. Minus(c.cols, 1) \in Nat
  BY DEF Canvases, Minus
<1>2. QED
  BY <1>1 DEF Lessened, Canvases

LEMMA RemovedSound ==
  ASSUME NEW c, NEW ps, NEW b, PanesOf(c, ps, b), c.rows = 1, NEW i \in 1 .. Len(ps)
  PROVE  LET qs == RemoveAt(ps, i) IN
         /\ PanesOf(Lessened(c), qs, b) /\ Len(qs) = Len(ps) - 1
         /\ PaneIds(qs) = PaneIds(ps) \ {ps[i].id}
         /\ \A j \in 1 .. Len(ps) - 1 : qs[j] = IF j < i THEN ps[j] ELSE ps[j + 1]
<1> DEFINE n  == Len(ps)
           qs == RemoveAt(ps, i)
<1>1. ps \in Seq(PaneSet) /\ n \in Nat /\ c \in Canvases /\ c.cols \in Nat /\ i \in 1 .. n
  BY DEF PanesOf, GoodPanes, Canvases
<1>2. /\ qs \in Seq(PaneSet) /\ Len(qs) = n - 1
      /\ \A j \in 1 .. n - 1 : qs[j] = IF j < i THEN ps[j] ELSE ps[j + 1]
  BY <1>1, RemoveAtProperties
<1>3. n = c.cols /\ \A k \in 1 .. n : PaneOK(ps[k]) /\ ps[k].id \in 1 .. b
  <2>1. n = c.rows * c.cols /\ c.rows = 1
    BY DEF PanesOf, CellCount
  <2>2. QED
    BY <1>1, <2>1 DEF PanesOf, GoodPanes
<1>4. \A j, k \in 1 .. n : ps[j].id = ps[k].id => j = k
  BY DEF PanesOf
<1> HIDE DEF n, qs
<1> DEFINE Old(j) == IF j < i THEN j ELSE j + 1
<1>5. ASSUME NEW j \in 1 .. n - 1 PROVE Old(j) \in 1 .. n /\ Old(j) # i /\ qs[j] = ps[Old(j)]
  BY <1>1, <1>2
<1>6. ASSUME NEW j \in 1 .. n - 1, NEW k \in 1 .. n - 1, Old(j) = Old(k) PROVE j = k
  BY <1>1, <1>6
<1>7. ASSUME NEW k \in 1 .. n, k # i PROVE \E j \in 1 .. n - 1 : Old(j) = k
  <2>1. CASE k < i
    <3>1. k \in 1 .. n - 1 /\ Old(k) = k
      BY <1>1, <2>1
    <3>2. QED
      BY <3>1
  <2>2. CASE k > i
    <3>1. k - 1 \in 1 .. n - 1 /\ Old(k - 1) = k
      BY <1>1, <2>2
    <3>2. QED
      BY <3>1
  <2>3. QED
    BY <1>1, <1>7, <2>1, <2>2
<1> HIDE DEF Old
<1>8. \A j \in 1 .. n - 1 : PaneOK(qs[j]) /\ qs[j].id \in 1 .. b
  BY <1>3, <1>5
<1>9. \A j, k \in 1 .. n - 1 : qs[j].id = qs[k].id => j = k
  <2>1. SUFFICES ASSUME NEW j \in 1 .. n - 1, NEW k \in 1 .. n - 1, qs[j].id = qs[k].id
                 PROVE j = k
    OBVIOUS
  <2>2. Old(j) = Old(k)
    BY <1>4, <1>5, <2>1
  <2>3. QED
    BY <1>6, <2>2
<1>10. PaneIds(qs) = PaneIds(ps) \ {ps[i].id}
  <2>1. ASSUME NEW x \in PaneIds(qs) PROVE x \in PaneIds(ps) /\ x # ps[i].id
    <3>1. PICK j \in 1 .. n - 1 : x = qs[j].id
      BY <1>2 DEF PaneIds
    <3>2. x = ps[Old(j)].id /\ Old(j) \in 1 .. n /\ Old(j) # i
      BY <1>5, <3>1
    <3>3. QED
      BY <1>1, <1>4, <3>2 DEF PaneIds, n
  <2>2. ASSUME NEW x \in PaneIds(ps), x # ps[i].id PROVE x \in PaneIds(qs)
    <3>1. PICK k \in 1 .. n : x = ps[k].id
      BY DEF PaneIds, n
    <3>2. PICK j \in 1 .. n - 1 : Old(j) = k
      BY <1>7, <2>2, <3>1
    <3>3. x = qs[j].id
      BY <1>5, <3>1, <3>2
    <3>4. QED
      BY <1>2, <3>3 DEF PaneIds
  <2>3. QED
    BY <2>1, <2>2
<1>11. CellCount(Lessened(c)) = n - 1 /\ Lessened(c) \in Canvases
  <2>1. Lessened(c) \in Canvases /\ Lessened(c).rows = 1 /\ Lessened(c).cols = Minus(n, 1)
    BY <1>1, <1>3, LessenedCanvas
  <2>2. Minus(n, 1) = n - 1 /\ 1 * (n - 1) = n - 1
    BY <1>1 DEF Minus
  <2>3. QED
    BY <2>1, <2>2 DEF CellCount
<1>12. PanesOf(Lessened(c), qs, b)
  BY <1>2, <1>8, <1>9, <1>11 DEF PanesOf, GoodPanes
<1>13. QED
  BY <1>2, <1>10, <1>12 DEF n, qs

-----------------------------------------------------------------------------
(* Closing.                                                                *)

\* PaneIds depend on the ids alone.
LEMMA SameIds ==
  ASSUME NEW ps, NEW qs, Len(qs) = Len(ps), \A j \in 1 .. Len(ps) : qs[j].id = ps[j].id
  PROVE  PaneIds(qs) = PaneIds(ps)
  BY DEF PaneIds

\* A close that finds no such pane, or more than one row.
LEMMA CloseRefused ==
  ASSUME NEW c, NEW ps, NEW i, NEW o \in Closed1(c, ps, i), i \notin DOMAIN ps \/ c.rows > 1
  PROVE  o.canvas = c /\ o.panes = ps /\ o.gone = {} /\ o.result \in {"none", "rows"}
  BY DEF Closed1

\* The ids of the panes but the i-th.
Others(ps, i) == PaneIds(ps) \ {ps[i].id}

\* A close on a canvas of one row: the pane goes, the others stay and are laid
\* out, up to the first that cannot follow.
LEMMA CloseDone ==
  ASSUME NEW c, NEW ps, NEW b, PanesOf(c, ps, b), c.rows = 1, NEW i \in 1 .. Len(ps),
         NEW o \in Closed1(c, ps, i)
  PROVE  /\ o.canvas = Lessened(c) /\ o.gone = {ps[i].id}
         /\ PanesOf(Lessened(c), o.panes, b) /\ Len(o.panes) = Len(ps) - 1
         /\ PaneIds(o.panes) = Others(ps, i)
         /\ \A j \in 1 .. Len(ps) - 1 : j < i => o.panes[j].id = ps[j].id
         /\ o.result \in Results
         /\ o.result = "ok" => Laid(Lessened(c), o.panes)
<1> DEFINE left == RemoveAt(ps, i)
           less == Lessened(c)
           n    == Len(ps)
<1>1. ps \in Seq(PaneSet) /\ n \in Nat /\ DOMAIN ps = 1 .. n /\ c \in Canvases
  BY DEF PanesOf, GoodPanes
<1>2. ~(c.rows > 1)
  OBVIOUS
<1>3. \/ /\ left = <<>>
         /\ o = [canvas |-> less, panes |-> left, gone |-> {ps[i].id}, result |-> "ok"]
      \/ \E t \in Retiled(left, Tile(less, less.area)) :
           o = [canvas |-> less, panes |-> t.panes, gone |-> {ps[i].id}, result |-> t.result]
  BY <1>1, <1>2 DEF Closed1, Lessened
<1>4. /\ PanesOf(less, left, b) /\ Len(left) = n - 1
      /\ PaneIds(left) = Others(ps, i)
      /\ \A j \in 1 .. n - 1 : left[j] = IF j < i THEN ps[j] ELSE ps[j + 1]
  BY RemovedSound DEF Others
<1> HIDE DEF left, less, n
<1>5. CASE /\ left = <<>>
           /\ o = [canvas |-> less, panes |-> left, gone |-> {ps[i].id}, result |-> "ok"]
  <2>1. /\ o.canvas = less /\ o.panes = left /\ o.gone = {ps[i].id} /\ o.result = "ok"
    BY <1>5
  <2>2. Len(left) = 0
    BY <1>5
  <2>3. Laid(less, left)
    BY <2>2 DEF Laid
  <2>4. \A j \in 1 .. n - 1 : j < i => left[j].id = ps[j].id
    BY <1>4
  <2>5. QED
    BY <1>4, <2>1, <2>3, <2>4 DEF Results, less, n
<1>6. CASE \E t \in Retiled(left, Tile(less, less.area)) :
             o = [canvas |-> less, panes |-> t.panes, gone |-> {ps[i].id}, result |-> t.result]
  <2>1. PICK t \in Retiled(left, Tile(less, less.area)) :
          o = [canvas |-> less, panes |-> t.panes, gone |-> {ps[i].id}, result |-> t.result]
    BY <1>6
  <2>2. /\ o.canvas = less /\ o.panes = t.panes /\ o.gone = {ps[i].id} /\ o.result = t.result
    BY <2>1
  <2>3. /\ PanesOf(less, t.panes, b) /\ Len(t.panes) = Len(left) /\ t.result \in Results
        /\ \A j \in 1 .. Len(left) : t.panes[j].id = left[j].id
        /\ t.result = "ok" => Laid(less, t.panes)
    BY <1>4, RetiledSound
  <2>4. PaneIds(t.panes) = PaneIds(left)
    BY <2>3, SameIds
  <2>5. \A j \in 1 .. n - 1 : j < i => t.panes[j].id = ps[j].id
    BY <1>4, <2>3
  <2>6. QED
    BY <1>4, <2>2, <2>3, <2>4, <2>5 DEF less, n
<1>7. QED
  BY <1>3, <1>5, <1>6

-----------------------------------------------------------------------------
(* The panes that exited.                                                  *)

Gone(k) == panes[k].id \notin running

\* The function Listed chooses exists.
LEMMA ListedSteps ==
  ASSUME NEW m \in Nat, Len(panes) = m
  PROVE  /\ Listed[0] = <<>>
         /\ \A n \in 1 .. m : Listed[n] = IF Gone(n) THEN <<n>> \o Listed[n - 1] ELSE Listed[n - 1]
<1> DEFINE Next1(s, n) == IF panes[n].id \in running THEN s ELSE <<n>> \o s
           Built(f, k) == f = [n \in 0 .. k |-> IF n = 0 THEN <<>> ELSE Next1(f[n - 1], n)]
           Reached == {k \in 0 .. m : \E f : Built(f, k)}
<1>0. Listed = CHOOSE f : Built(f, m)
  BY DEF Listed
<1> HIDE DEF Next1
<1>1. 0 \in Reached
  <2>1. Built([n \in 0 .. 0 |-> <<>>], 0)
    OBVIOUS
  <2>2. \E f : Built(f, 0)
    <3> HIDE DEF Built
    <3>1. QED
      BY <2>1
  <2>3. QED
    BY <2>2
<1>2. ASSUME NEW k \in 1 .. m, k - 1 \in Reached
      PROVE  k \in Reached
  <2>1. PICK f : Built(f, k - 1)
    BY <1>2
  <2> DEFINE g == [n \in 0 .. k |-> IF n = k THEN Next1(f[k - 1], k) ELSE f[n]]
             h == [n \in 0 .. k |-> IF n = 0 THEN <<>> ELSE Next1(g[n - 1], n)]
  <2>2. \A n \in 0 .. k - 1 : f[n] = IF n = 0 THEN <<>> ELSE Next1(f[n - 1], n)
    <3> HIDE DEF g, h
    <3>1. QED
      BY <2>1, Zenon
  <2>3. \A n \in 0 .. k - 1 : g[n] = f[n]
    OBVIOUS
  <2>4. ASSUME NEW n \in 0 .. k PROVE g[n] = h[n]
    <3>1. CASE n = 0
      <4>1. h[0] = <<>>
        OBVIOUS
      <4>2. 0 \in 0 .. k - 1
        BY <1>2
      <4>3. g[0] = f[0] /\ f[0] = <<>>
        BY <2>2, <2>3, <4>2
      <4>4. QED
        BY <3>1, <4>1, <4>3
    <3>2. CASE n \in 1 .. k - 1
      <4>1. h[n] = Next1(g[n - 1], n) /\ n - 1 \in 0 .. k - 1 /\ n \in 0 .. k - 1
        BY <3>2
      <4>2. QED
        BY <4>1, <2>2, <2>3, <3>2
    <3>3. CASE n = k /\ k > 0
      <4>1. h[n] = Next1(g[k - 1], k) /\ g[n] = Next1(f[k - 1], k)
        BY <3>3
      <4>2. g[k - 1] = f[k - 1]
        BY <2>3
      <4>3. QED
        BY <4>1, <4>2
    <3>4. QED
      BY <3>1, <3>2, <3>3
  <2>5. g = h
    <3>1. g = [n \in 0 .. k |-> g[n]] /\ h = [n \in 0 .. k |-> h[n]]
      OBVIOUS
    <3>2. QED
      BY <3>1, <2>4
  <2>6. Built(g, k)
    BY <2>5
  <2>7. \E f2 : Built(f2, k)
    <3> HIDE DEF Built, g
    <3>1. QED
      BY <2>6
  <2>8. QED
    BY <2>7
<1>3. m \in Reached
  <2> HIDE DEF Reached
  <2>1. QED
    BY <1>1, <1>2, Climbs
<1>4. Built(Listed, m)
  BY <1>0, <1>3
<1>5. Listed[0] = <<>> /\ \A n \in 1 .. m : Listed[n] = Next1(Listed[n - 1], n)
  BY <1>4
<1>6. QED
  BY <1>5 DEF Next1, Gone

\* The panes among the first n that exited, each once, the last first.
ListsTo(s, n) ==
  /\ s \in Seq(1 .. n)
  /\ \A i \in 1 .. n : Gone(i) <=> \E j \in 1 .. Len(s) : s[j] = i
  /\ \A i, j \in 1 .. Len(s) : i < j => s[j] < s[i]

LEMMA ListedGone ==
  ASSUME GoodPanes(panes)
  PROVE  ListsTo(ExitedPanes, Len(panes))
<1> DEFINE m == Len(panes)
           S == {n \in 0 .. m : ListsTo(Listed[n], n)}
<1>1. m \in Nat /\ Len(panes) = m
  BY DEF GoodPanes
<1> HIDE DEF m
<1>2. /\ Listed[0] = <<>>
      /\ \A n \in 1 .. m : Listed[n] = IF Gone(n) THEN <<n>> \o Listed[n - 1] ELSE Listed[n - 1]
  BY <1>1, ListedSteps
<1>3. 0 \in S
  <2>1. <<>> \in Seq(1 .. 0) /\ Len(<<>>) = 0
    BY EmptySeq
  <2>2. ListsTo(<<>>, 0)
    BY <2>1 DEF ListsTo
  <2>3. QED
    BY <1>1, <1>2, <2>2
<1>4. ASSUME NEW n \in 1 .. m, n - 1 \in S PROVE n \in S
  <2> DEFINE s == Listed[n - 1]
             l == Len(s)
  <2>1. ListsTo(s, n - 1)
    BY <1>4
  <2>2. s \in Seq(1 .. n) /\ l \in Nat /\ \A j \in 1 .. l : s[j] \in 1 .. n - 1
    <3>1. s \in Seq(1 .. n - 1)
      BY <2>1 DEF ListsTo
    <3>2. \A j \in 1 .. l : s[j] \in 1 .. n - 1
      BY <3>1, ElementOfSeq
    <3>3. 1 .. n - 1 \subseteq 1 .. n
      BY <1>1
    <3>4. QED
      BY <3>1, <3>2, <3>3
  <2>3. CASE Gone(n)
    <3> DEFINE t == <<n>> \o s
    <3>1. Listed[n] = t
      BY <1>2, <2>3
    <3>2. <<n>> \in Seq(1 .. n) /\ Len(<<n>>) = 1 /\ <<n>>[1] = n
      BY <1>1
    <3>3. /\ t \in Seq(1 .. n) /\ Len(t) = 1 + l
          /\ \A j \in 1 .. 1 + l : t[j] = IF j <= 1 THEN <<n>>[j] ELSE s[j - 1]
      <4> HIDE DEF s
      <4>1. /\ t \in Seq(1 .. n) /\ Len(t) = Len(<<n>>) + Len(s)
            /\ \A j \in 1 .. Len(<<n>>) + Len(s) :
                 t[j] = IF j <= Len(<<n>>) THEN <<n>>[j] ELSE s[j - Len(<<n>>)]
        BY <2>2, <3>2, ConcatProperties
      <4> HIDE DEF t
      <4>2. QED
        BY <3>2, <4>1
    <3> HIDE DEF t, s, l
    <3>4. t[1] = n /\ \A j \in 1 .. l : t[j + 1] = s[j]
      <4>1. 1 \in 1 .. 1 + l
        BY <2>2
      <4>2. \A j \in 1 .. l : j + 1 \in 1 .. 1 + l /\ ~(j + 1 <= 1) /\ (j + 1) - 1 = j
        BY <2>2
      <4>3. QED
        BY <3>2, <3>3, <4>1, <4>2
    <3>5. \A i \in 1 .. n : Gone(i) <=> \E j \in 1 .. 1 + l : t[j] = i
      <4>1. SUFFICES ASSUME NEW i \in 1 .. n PROVE Gone(i) <=> \E j \in 1 .. 1 + l : t[j] = i
        OBVIOUS
      <4>2. CASE i = n
        <5>1. 1 \in 1 .. 1 + l
          BY <2>2
        <5>2. QED
          BY <2>3, <3>4, <4>2, <5>1
      <4>3. CASE i \in 1 .. n - 1
        <5>1. Gone(i) <=> \E j \in 1 .. l : s[j] = i
          BY <2>1, <4>3 DEF ListsTo, l
        <5>2. ASSUME NEW j \in 1 .. l, s[j] = i PROVE \E k \in 1 .. 1 + l : t[k] = i
          <6>1. j + 1 \in 1 .. 1 + l /\ t[j + 1] = i
            BY <2>2, <3>4, <5>2
          <6>2. QED
            BY <6>1
        <5>3. ASSUME NEW j \in 1 .. 1 + l, t[j] = i PROVE \E k \in 1 .. l : s[k] = i
          <6>1. j # 1
            BY <3>4, <4>3, <5>3
          <6>2. j - 1 \in 1 .. l /\ (j - 1) + 1 = j
            BY <2>2, <6>1
          <6>3. s[j - 1] = i
            BY <3>4, <5>3, <6>2
          <6>4. QED
            BY <6>2, <6>3
        <5>4. QED
          BY <5>1, <5>2, <5>3
      <4>4. QED
        BY <1>1, <4>2, <4>3
    <3>6. \A i, j \in 1 .. 1 + l : i < j => t[j] < t[i]
      <4>1. SUFFICES ASSUME NEW i \in 1 .. 1 + l, NEW j \in 1 .. 1 + l, i < j PROVE t[j] < t[i]
        OBVIOUS
      <4>2. j - 1 \in 1 .. l /\ (j - 1) + 1 = j /\ t[j] = s[j - 1] /\ s[j - 1] \in 1 .. n - 1
        <5>1. j - 1 \in 1 .. l /\ (j - 1) + 1 = j
          BY <2>2, <4>1
        <5>2. QED
          BY <2>2, <3>4, <5>1
      <4>3. CASE i = 1
        BY <3>4, <4>2, <4>3
      <4>4. CASE i > 1
        <5>1. i - 1 \in 1 .. l /\ (i - 1) + 1 = i /\ i - 1 < j - 1
          BY <2>2, <4>1, <4>4
        <5>2. t[i] = s[i - 1]
          BY <3>4, <5>1
        <5>3. s[j - 1] < s[i - 1]
          BY <2>1, <4>2, <5>1 DEF ListsTo, l
        <5>4. QED
          BY <4>2, <5>2, <5>3
      <4>5. QED
        BY <2>2, <4>3, <4>4
    <3>7. QED
      BY <3>1, <3>3, <3>5, <3>6 DEF ListsTo
  <2>4. CASE ~Gone(n)
    <3>1. Listed[n] = s /\ l = Len(s)
      BY <1>2, <2>4
    <3> HIDE DEF s, l
    <3>2. \A i \in 1 .. n : Gone(i) <=> \E j \in 1 .. l : s[j] = i
      <4>1. SUFFICES ASSUME NEW i \in 1 .. n PROVE Gone(i) <=> \E j \in 1 .. l : s[j] = i
        OBVIOUS
      <4>2. CASE i = n
        BY <2>2, <2>4, <4>2
      <4>3. CASE i \in 1 .. n - 1
        BY <2>1, <3>1, <4>3 DEF ListsTo
      <4>4. QED
        BY <1>1, <4>2, <4>3
    <3>3. \A i, j \in 1 .. l : i < j => s[j] < s[i]
      BY <2>1, <3>1 DEF ListsTo
    <3>4. QED
      <4>1. s \in Seq(1 .. n)
        BY <2>2
      <4>2. /\ \A i \in 1 .. n : Gone(i) <=> \E j \in 1 .. Len(s) : s[j] = i
            /\ \A i, j \in 1 .. Len(s) : i < j => s[j] < s[i]
        BY <3>1, <3>2, <3>3
      <4>3. ListsTo(s, n)
        BY <4>1, <4>2 DEF ListsTo
      <4>4. QED
        BY <3>1, <4>3
  <2>5. QED
    BY <2>3, <2>4
<1>5. \A n \in 0 .. m : n \in S
  <2> HIDE DEF S
  <2>1. QED
    BY <1>1, <1>3, <1>4, Climbs
<1>6. m \in S
  BY <1>1, <1>5
<1>7. QED
  BY <1>1, <1>6 DEF ExitedPanes

-----------------------------------------------------------------------------
(* Closing the panes that exited, one after the other.                     *)

\* The outcomes after one more close.
Closing(before, i) == UNION {Closed1(o.canvas, o.panes, i) : o \in before}

\* The function ClosedInTurn chooses exists.
LEMMA ClosedSteps ==
  ASSUME NEW m \in Nat, Len(ExitedPanes) = m
  PROVE  /\ ClosedInTurn[0] = {[canvas |-> Canvas, panes |-> panes, gone |-> {}, result |-> "ok"]}
         /\ \A n \in 1 .. m : ClosedInTurn[n] = Closing(ClosedInTurn[n - 1], ExitedPanes[n])
<1> DEFINE base == {[canvas |-> Canvas, panes |-> panes, gone |-> {}, result |-> "ok"]}
           Built(f, k) ==
             f = [n \in 0 .. k |-> IF n = 0 THEN base ELSE Closing(f[n - 1], ExitedPanes[n])]
           Reached == {k \in 0 .. m : \E f : Built(f, k)}
<1>0. ClosedInTurn = CHOOSE f : Built(f, m)
  BY DEF ClosedInTurn, Closing
<1> HIDE DEF base
<1>1. 0 \in Reached
  <2>1. Built([n \in 0 .. 0 |-> base], 0)
    OBVIOUS
  <2>2. \E f : Built(f, 0)
    <3> HIDE DEF Built
    <3>1. QED
      BY <2>1
  <2>3. QED
    BY <2>2
<1>2. ASSUME NEW k \in 1 .. m, k - 1 \in Reached
      PROVE  k \in Reached
  <2>1. PICK f : Built(f, k - 1)
    BY <1>2
  <2> DEFINE g == [n \in 0 .. k |-> IF n = k THEN Closing(f[k - 1], ExitedPanes[k]) ELSE f[n]]
             h == [n \in 0 .. k |-> IF n = 0 THEN base ELSE Closing(g[n - 1], ExitedPanes[n])]
  <2>2. \A n \in 0 .. k - 1 : f[n] = IF n = 0 THEN base ELSE Closing(f[n - 1], ExitedPanes[n])
    <3> HIDE DEF g, h
    <3>1. QED
      BY <2>1, Zenon
  <2>3. \A n \in 0 .. k - 1 : g[n] = f[n]
    OBVIOUS
  <2>4. ASSUME NEW n \in 0 .. k PROVE g[n] = h[n]
    <3>1. CASE n = 0
      BY <3>1, <2>2, <2>3
    <3>2. CASE n \in 1 .. k - 1
      <4>1. h[n] = Closing(g[n - 1], ExitedPanes[n]) /\ n - 1 \in 0 .. k - 1 /\ n \in 0 .. k - 1
        BY <3>2
      <4>2. QED
        BY <4>1, <2>2, <2>3, <3>2
    <3>3. CASE n = k /\ k > 0
      <4>1. h[n] = Closing(g[k - 1], ExitedPanes[k]) /\ g[n] = Closing(f[k - 1], ExitedPanes[k])
        BY <3>3
      <4>2. g[k - 1] = f[k - 1]
        BY <2>3
      <4>3. QED
        BY <4>1, <4>2
    <3>4. QED
      BY <3>1, <3>2, <3>3
  <2>5. g = h
    <3>1. g = [n \in 0 .. k |-> g[n]] /\ h = [n \in 0 .. k |-> h[n]]
      OBVIOUS
    <3>2. QED
      BY <3>1, <2>4
  <2>6. Built(g, k)
    BY <2>5
  <2>7. \E f2 : Built(f2, k)
    <3> HIDE DEF Built, g
    <3>1. QED
      BY <2>6
  <2>8. QED
    BY <2>7
<1>3. m \in Reached
  <2> HIDE DEF Reached
  <2>1. QED
    BY <1>1, <1>2, Climbs
<1>4. Built(ClosedInTurn, m)
  BY <1>0, <1>3
<1>5. ClosedInTurn[0] = base
      /\ \A n \in 1 .. m : ClosedInTurn[n] = Closing(ClosedInTurn[n - 1], ExitedPanes[n])
  BY <1>4
<1>6. QED
  BY <1>5 DEF base

Answers == Results \union {"none", "rows"}

\* After n of the closes: the panes in front of the last one closed are where
\* they were, and of the ids the closed ones are missing.
InTurn(n, o) ==
  /\ PanesOf(o.canvas, o.panes, born) /\ o.canvas.rows = Canvas.rows /\ o.result \in Answers
  /\ Canvas.rows > 1 => o.panes = panes /\ (n > 0 => o.result \in {"none", "rows"})
  /\ Canvas.rows = 1 =>
       /\ Len(o.panes) = Len(panes) - n
       /\ \A j \in 1 .. Len(panes) :
            n = 0 \/ j < ExitedPanes[n] => j <= Len(panes) - n /\ o.panes[j].id = panes[j].id
       /\ PaneIds(o.panes) = PaneIds(panes) \ {panes[ExitedPanes[i]].id : i \in 1 .. n}
  /\ n > 0 /\ o.result = "ok" => Laid(o.canvas, o.panes)

LEMMA CloseKeeps ==
  ASSUME PanesOf(Canvas, panes, born), NEW n \in 1 .. Len(ExitedPanes), Len(ExitedPanes) \in Nat,
         NEW o, InTurn(n - 1, o), NEW u \in Closing({o}, ExitedPanes[n])
  PROVE  InTurn(n, u)
<1> DEFINE N == Len(panes)
           E == ExitedPanes
           i == E[n]
<1>1. GoodPanes(panes) /\ Canvas \in Canvases
  BY DEF PanesOf
<1>2. ListsTo(E, N)
  BY <1>1, ListedGone
<1>3. N \in Nat /\ i \in 1 .. N /\ n \in Nat /\ n > 0
  <2>1. E \in Seq(1 .. N)
    BY <1>2 DEF ListsTo
  <2>2. i \in 1 .. N
    BY <2>1, ElementOfSeq
  <2>3. QED
    BY <1>1, <2>2 DEF GoodPanes
<1>4. u \in Closed1(o.canvas, o.panes, i)
  BY DEF Closing
<1>5. PanesOf(o.canvas, o.panes, born) /\ o.canvas.rows = Canvas.rows
  BY DEF InTurn
<1>6. Canvas.rows \in Nat \ {0}
  BY <1>1 DEF Canvases
<1>7. CASE Canvas.rows > 1
  <2>1. u.canvas = o.canvas /\ u.panes = o.panes /\ u.result \in {"none", "rows"}
    BY <1>4, <1>5, <1>7, CloseRefused
  <2>2. ~(Canvas.rows = 1) /\ u.result # "ok" /\ u.result \in Answers
    BY <1>7, <2>1 DEF Answers
  <2>3. PanesOf(u.canvas, u.panes, born) /\ u.canvas.rows = Canvas.rows
    BY <1>5, <2>1
  <2>4. QED
    BY <2>1, <2>2, <2>3 DEF InTurn
<1>8. CASE Canvas.rows = 1
  <2> DEFINE l == Len(o.panes)
  <2>1. /\ l = N - (n - 1)
        /\ \A j \in 1 .. N : n - 1 = 0 \/ j < E[n - 1] => j <= N - (n - 1) /\ o.panes[j].id = panes[j].id
        /\ PaneIds(o.panes) = PaneIds(panes) \ {panes[E[k]].id : k \in 1 .. n - 1}
    BY <1>8 DEF InTurn
  <2> HIDE DEF N
  <2>2. n - 1 = 0 \/ i < E[n - 1]
    <3>1. CASE n - 1 = 0
      BY <3>1
    <3>2. CASE n - 1 > 0
      <4>1. n - 1 \in 1 .. Len(E) /\ n \in 1 .. Len(E) /\ n - 1 < n
        BY <1>3, <3>2
      <4>2. \A a, b \in 1 .. Len(E) : a < b => E[b] < E[a]
        BY <1>2 DEF ListsTo
      <4> HIDE DEF E
      <4>3. QED
        BY <4>1, <4>2
    <3>3. QED
      BY <1>3, <3>1, <3>2
  <2> HIDE DEF i, l
  <2>3. i <= N - (n - 1) /\ o.panes[i].id = panes[i].id
    BY <1>3, <2>1, <2>2
  <2>4. i \in 1 .. l
    BY <1>3, <2>1, <2>3
  <2>5. /\ u.canvas = Lessened(o.canvas)
        /\ PanesOf(Lessened(o.canvas), u.panes, born) /\ Len(u.panes) = l - 1
        /\ PaneIds(u.panes) = PaneIds(o.panes) \ {o.panes[i].id}
        /\ \A j \in 1 .. l - 1 : j < i => u.panes[j].id = o.panes[j].id
        /\ u.result \in Results
        /\ u.result = "ok" => Laid(Lessened(o.canvas), u.panes)
    <3>1. o.canvas.rows = 1 /\ i \in 1 .. Len(o.panes)
      BY <1>5, <1>8, <2>4 DEF l
    <3>2. u.canvas = Lessened(o.canvas)
      BY <1>4, <1>5, <3>1, CloseDone
    <3>8. Len(u.panes) = Len(o.panes) - 1
      BY <1>4, <1>5, <3>1, CloseDone
    <3>7. PanesOf(Lessened(o.canvas), u.panes, born)
      BY <1>4, <1>5, <3>1, CloseDone
    <3>3. PaneIds(u.panes) = Others(o.panes, i)
      BY <1>4, <1>5, <3>1, CloseDone
    <3>4. \A j \in 1 .. Len(o.panes) - 1 : j < i => u.panes[j].id = o.panes[j].id
      BY <1>4, <1>5, <3>1, CloseDone
    <3>5. u.result \in Results /\ (u.result = "ok" => Laid(Lessened(o.canvas), u.panes))
      BY <1>4, <1>5, <3>1, CloseDone
    <3>6. QED
      BY <3>2, <3>3, <3>4, <3>5, <3>7, <3>8 DEF l, Others
  <2>6. Len(u.panes) = N - n
    BY <1>3, <2>1, <2>5
  <2>7. ASSUME NEW j \in 1 .. N, n = 0 \/ j < i
        PROVE  j <= N - n /\ u.panes[j].id = panes[j].id
    <3>1. j < i /\ j \in 1 .. l - 1 /\ j <= N - n
      BY <1>3, <2>1, <2>3, <2>7
    <3>2. n - 1 = 0 \/ j < E[n - 1]
      <4>1. CASE n - 1 = 0
        BY <4>1
      <4>2. CASE i < E[n - 1] /\ n - 1 > 0
        <5>1. E[n - 1] \in 1 .. N
          <6>1. E \in Seq(1 .. N) /\ n - 1 \in 1 .. Len(E)
            BY <1>2, <1>3, <4>2 DEF ListsTo
          <6> HIDE DEF E
          <6>2. QED
            BY <6>1, ElementOfSeq
        <5> HIDE DEF E
        <5>2. QED
          BY <1>3, <3>1, <4>2, <5>1
      <4>3. QED
        BY <1>3, <2>2, <4>1, <4>2
    <3>3. o.panes[j].id = panes[j].id
      BY <2>1, <3>2
    <3>4. QED
      BY <2>5, <3>1, <3>3
  <2>8. PaneIds(u.panes) = PaneIds(panes) \ {panes[E[k]].id : k \in 1 .. n}
    <3> DEFINE Before == {panes[E[k]].id : k \in 1 .. n - 1}
               Upto   == {panes[E[k]].id : k \in 1 .. n}
    <3>1. Upto = Before \union {panes[i].id}
      <4>1. ASSUME NEW x \in Upto PROVE x \in Before \union {panes[i].id}
        <5>1. PICK k \in 1 .. n : x = panes[E[k]].id
          OBVIOUS
        <5>2. CASE k = n
          BY <5>1, <5>2 DEF i
        <5>3. CASE k \in 1 .. n - 1
          BY <5>1, <5>3
        <5>4. QED
          BY <1>3, <5>2, <5>3
      <4>2. \A k \in 1 .. n - 1 : k \in 1 .. n
        BY <1>3
      <4>3. panes[i].id \in Upto
        <5>1. n \in 1 .. n
          BY <1>3
        <5>2. QED
          BY <5>1 DEF i
      <4>4. QED
        BY <4>1, <4>2, <4>3
    <3>2. PaneIds(o.panes) = PaneIds(panes) \ Before
      BY <2>1
    <3> HIDE DEF Before, Upto
    <3>3. PaneIds(u.panes) = (PaneIds(panes) \ Before) \ {panes[i].id}
      BY <2>3, <2>5, <3>2
    <3>4. PaneIds(u.panes) = PaneIds(panes) \ Upto
      BY <3>1, <3>3
    <3>5. QED
      BY <3>4 DEF Upto
  <2>9. u.canvas.rows = Canvas.rows
    <3>1. o.canvas \in Canvases
      BY <1>5 DEF PanesOf
    <3>2. QED
      BY <1>5, <2>5, <3>1, LessenedCanvas
  <2>10. PanesOf(u.canvas, u.panes, born) /\ u.result \in Answers
         /\ (u.result = "ok" => Laid(u.canvas, u.panes))
    BY <2>5 DEF Answers
  <2>11. ~(Canvas.rows > 1)
    BY <1>8
  <2>12. QED
    BY <2>6, <2>7, <2>8, <2>9, <2>10, <2>11 DEF InTurn, N, i
<1>9. QED
  BY <1>6, <1>7, <1>8

\* What closing all that exited leaves.
LEMMA AllClosed ==
  ASSUME PanesOf(Canvas, panes, born), NEW o \in ClosedInTurn[Len(ExitedPanes)]
  PROVE  InTurn(Len(ExitedPanes), o)
<1> DEFINE m == Len(ExitedPanes)
           S == {n \in 0 .. m : \A u \in ClosedInTurn[n] : InTurn(n, u)}
<1>1. m \in Nat /\ Len(ExitedPanes) = m
  <2>1. ListsTo(ExitedPanes, Len(panes))
    BY ListedGone DEF PanesOf
  <2>2. QED
    BY <2>1 DEF ListsTo
<1> HIDE DEF m
<1>2. /\ ClosedInTurn[0] = {[canvas |-> Canvas, panes |-> panes, gone |-> {}, result |-> "ok"]}
      /\ \A n \in 1 .. m : ClosedInTurn[n] = Closing(ClosedInTurn[n - 1], ExitedPanes[n])
  BY <1>1, ClosedSteps
<1>3. 0 \in S
  <2>1. ASSUME NEW u \in ClosedInTurn[0] PROVE InTurn(0, u)
    <3>1. u.canvas = Canvas /\ u.panes = panes /\ u.result = "ok"
      BY <1>2
    <3>2. Len(panes) \in Nat
      BY DEF PanesOf, GoodPanes
    <3>3. {panes[ExitedPanes[i]].id : i \in 1 .. 0} = {}
      OBVIOUS
    <3>4. QED
      BY <3>1, <3>2, <3>3 DEF InTurn, Answers, Results
  <2>2. QED
    BY <1>1, <2>1
<1>4. ASSUME NEW n \in 1 .. m, n - 1 \in S PROVE n \in S
  <2>1. ASSUME NEW u \in ClosedInTurn[n] PROVE InTurn(n, u)
    <3>1. PICK v \in ClosedInTurn[n - 1] : u \in Closing({v}, ExitedPanes[n])
      BY <1>2, <2>1 DEF Closing
    <3>2. InTurn(n - 1, v)
      BY <1>4, <3>1
    <3>3. QED
      BY <1>1, <3>1, <3>2, CloseKeeps
  <2>2. QED
    BY <2>1
<1>5. \A n \in 0 .. m : n \in S
  <2> HIDE DEF S
  <2>1. QED
    BY <1>1, <1>3, <1>4, Climbs
<1>6. m \in S
  BY <1>1, <1>5
<1>7. QED
  BY <1>1, <1>6

-----------------------------------------------------------------------------
(* The canvas.                                                             *)

LayoutCalls == {"spawn", "resize", "split", "close", "exited"}

\* A canvas with a sound pane per cell, every child that runs in one of them,
\* and every pane placed if the last call laid them out.
Live ==
  /\ canvas = <<Canvas>>
  /\ PanesOf(Canvas, panes, born)
  /\ running \subseteq PaneIds(panes)
  /\ told.call \in LayoutCalls /\ told.result = "ok" => Laid(Canvas, panes)

PanesInv ==
  /\ born \in 0 .. MaxBorn
  /\ Live \/ (canvas = <<>> /\ panes = <<>> /\ running = {})

LEMMA PanesStart == PanesInit => PanesInv
  BY PanesAssumption DEF PanesInit, PanesInv

LEMMA LiveWhenCanvas ==
  ASSUME PanesInv, canvas # <<>>
  PROVE  Live
  BY DEF PanesInv

LEMMA TilesAlike ==
  ASSUME NEW g, NEW h, g.cols = h.cols, g.rows = h.rows, NEW area
  PROVE  Tile(g, area) = Tile(h, area)
  BY DEF Tile

LEMMA SpawnKeeps ==
  ASSUME PanesInv, NEW cols \in 1 .. 2, NEW rows \in 1 .. 2, NEW area \in Areas, NEW font \in PaneFonts,
         SpawnCanvas([cols |-> cols, rows |-> rows], area, font)
  PROVE  PanesInv'
<1> DEFINE g == [cols |-> cols, rows |-> rows]
           rects == Tile(g, area)
           c == [cols |-> g.cols, rows |-> g.rows, area |-> area]
           m == Len(rects)
           qs == [k \in DOMAIN rects |-> Spawned(born + k, rects[k], font)]
<1>1. born \in 0 .. MaxBorn /\ MaxBorn \in Nat /\ canvas = <<>> /\ panes = <<>> /\ running = {}
  <2>1. canvas = <<>>
    BY DEF SpawnCanvas
  <2>2. ~Live
    BY <2>1 DEF Live
  <2>3. QED
    BY <2>1, <2>2, PanesAssumption DEF PanesInv
<1>2. g.cols = cols /\ g.rows = rows /\ cols \in Nat \ {0} /\ rows \in Nat \ {0}
  OBVIOUS
<1>3. c \in Canvases /\ c.cols = cols /\ c.rows = rows /\ c.area = area
  BY <1>2 DEF Canvases
<1>4. rects \in Seq(Rects) /\ m = Larger(rows, 1) * Larger(cols, 1)
  <2> HIDE DEF g
  <2>1. QED
    BY <1>2, TileTyped
<1>5. m = rows * cols
  <2>1. Larger(rows, 1) = rows /\ Larger(cols, 1) = cols
    BY <1>2 DEF Larger
  <2>2. QED
    BY <1>4, <2>1
<1>6. Tile(c, c.area) = rects
  BY <1>2, <1>3, TilesAlike
<1>7. \/ told'.result # "ok" /\ UNCHANGED <<canvas, panes, running>> /\ born' = born + m
      \/ /\ \A k \in DOMAIN rects : ~Hopeless(Fit(rects[k], font))
         /\ canvas' = <<c>> /\ panes' = qs /\ running' = {born + k : k \in DOMAIN rects}
         /\ born' = born + m
  BY DEF SpawnCanvas, Says
<1>8. born + m <= MaxBorn
  BY DEF SpawnCanvas
<1> HIDE DEF g, rects, c, m
<1>9. m \in Nat /\ DOMAIN rects = 1 .. m /\ \A k \in 1 .. m : rects[k] \in Rects
  <2>1. m \in Nat /\ DOMAIN rects = 1 .. m
    BY <1>4 DEF m
  <2>2. \A k \in 1 .. Len(rects) : rects[k] \in Rects
    BY <1>4, ElementOfSeq
  <2>3. QED
    BY <2>1, <2>2 DEF m
<1>10. born + m \in 0 .. MaxBorn /\ born \in Nat
  BY <1>1, <1>8, <1>9
<1>11. CASE told'.result # "ok" /\ UNCHANGED <<canvas, panes, running>> /\ born' = born + m
  BY <1>1, <1>10, <1>11 DEF PanesInv
<1>12. CASE /\ \A k \in DOMAIN rects : ~Hopeless(Fit(rects[k], font))
            /\ canvas' = <<c>> /\ panes' = qs /\ running' = {born + k : k \in DOMAIN rects}
            /\ born' = born + m
  <2>1. ASSUME NEW k \in 1 .. m
        PROVE  /\ PaneOK(qs[k]) /\ qs[k].id = born + k /\ Follows(qs[k], rects[k])
    <3>1. qs[k] = Spawned(born + k, rects[k], font)
      BY <1>9
    <3>2. born + k \in Nat /\ rects[k] \in Rects /\ ~Hopeless(Fit(rects[k], font))
      BY <1>9, <1>10, <1>12
    <3> HIDE DEF qs
    <3>3. /\ PaneOK(Spawned(born + k, rects[k], font))
          /\ Spawned(born + k, rects[k], font).id = born + k
          /\ Follows(Spawned(born + k, rects[k], font), rects[k])
      BY <3>2, SpawnedSound
    <3>4. QED
      BY <3>1, <3>3
  <2>2. qs \in Seq(PaneSet) /\ Len(qs) = m
    <3>1. \A k \in 1 .. m : qs[k] \in PaneSet
      BY <2>1 DEF PaneOK
    <3>2. qs = [k \in 1 .. m |-> qs[k]]
      BY <1>9
    <3> HIDE DEF qs
    <3>3. QED
      BY <1>9, <3>1, <3>2
  <2> HIDE DEF qs
  <2>3. PanesOf(c, qs, born + m)
    <3>1. GoodPanes(qs)
      BY <2>1, <2>2 DEF GoodPanes
    <3>2. Len(qs) = CellCount(c)
      BY <1>3, <1>5, <2>2 DEF CellCount
    <3>3. \A k \in 1 .. m : qs[k].id \in 1 .. born + m
      BY <1>9, <1>10, <2>1
    <3>4. \A j, k \in 1 .. m : qs[j].id = qs[k].id => j = k
      BY <1>9, <1>10, <2>1
    <3>5. QED
      BY <1>3, <2>2, <3>1, <3>2, <3>3, <3>4 DEF PanesOf
  <2>4. {born + k : k \in 1 .. m} \subseteq PaneIds(qs)
    BY <2>1, <2>2 DEF PaneIds
  <2>5. Laid(c, qs)
    BY <1>6, <2>1, <2>2 DEF Laid
  <2>6. canvas'[1] = c
    BY <1>12
  <2>7. Live'
    BY <1>9, <1>12, <2>3, <2>4, <2>5, <2>6 DEF Live, Canvas
  <2>8. QED
    BY <1>10, <1>12, <2>7 DEF PanesInv
<1>13. QED
  BY <1>7, <1>11, <1>12

\* A canvas re-tiled, whatever the answer: one lemma for a resize, a split and
\* a close.
LEMMA LiveAfter ==
  ASSUME NEW c, canvas' = <<c>>, PanesOf(c, panes', born'), running' \subseteq PaneIds(panes'),
         told'.result = "ok" => Laid(c, panes'), born' \in 0 .. MaxBorn
  PROVE  PanesInv'
<1>1. canvas'[1] = c
  OBVIOUS
<1>2. Live'
  BY <1>1 DEF Live, Canvas
<1>3. QED
  BY <1>2 DEF PanesInv

LEMMA ResizeCanvasKeeps ==
  ASSUME PanesInv, NEW area \in Areas, ResizeCanvas(area)
  PROVE  PanesInv'
<1> DEFINE c == [Canvas EXCEPT !.area = area]
<1>1. Live /\ born \in 0 .. MaxBorn
  BY LiveWhenCanvas DEF ResizeCanvas, PanesInv
<1>2. Canvas \in Canvases
  BY <1>1 DEF Live, PanesOf
<1>3. c \in Canvases /\ c.cols = Canvas.cols /\ c.rows = Canvas.rows /\ c.area = area
  BY <1>2 DEF Canvases
<1>4. PICK o \in Retiled(panes, Tile(Canvas, area)) :
        /\ canvas' = <<c>> /\ panes' = o.panes /\ told'.result = o.result
        /\ UNCHANGED <<born, running>>
  BY DEF ResizeCanvas, Says
<1> HIDE DEF c
<1>5. PanesOf(c, panes, born)
  BY <1>1, <1>3 DEF Live, PanesOf, CellCount
<1>6. Tile(Canvas, area) = Tile(c, c.area)
  <2>1. Tile(Canvas, area) = Tile(c, area)
    BY <1>3, TilesAlike
  <2>2. QED
    BY <1>3, <2>1
<1>7. /\ PanesOf(c, o.panes, born) /\ Len(o.panes) = Len(panes)
      /\ \A j \in 1 .. Len(panes) : o.panes[j].id = panes[j].id
      /\ o.result = "ok" => Laid(c, o.panes)
  <2>1. o \in Retiled(panes, Tile(c, c.area))
    BY <1>4, <1>6
  <2>2. QED
    BY <1>5, <2>1, RetiledSound
<1>8. PaneIds(o.panes) = PaneIds(panes)
  BY <1>7, SameIds
<1>9. running \subseteq PaneIds(panes)
  BY <1>1 DEF Live
<1>10. QED
  BY <1>1, <1>4, <1>7, <1>8, <1>9, LiveAfter

\* What the session of a split is made for, and what its rectangles are.
LEMMA SplitFacts ==
  ASSUME Live, born \in Nat, Canvas.rows = 1, NEW font \in PaneFonts,
         NEW rects, rects = Tile(Grown(Canvas), Canvas.area),
         NEW new, new = Spawned(born + 1, rects[Len(rects)], font),
         NEW o \in Retiled(Append(panes, new), rects)
  PROVE  /\ PanesOf(Grown(Canvas), o.panes, born + 1)
         /\ PaneIds(o.panes) = PaneIds(panes) \union {born + 1} /\ new.id = born + 1
         /\ o.result \in Results
         /\ o.result = "ok" => Laid(Grown(Canvas), o.panes)
         /\ o.result = "small" =>
              \E j \in 1 .. Len(rects) :
                \/ Hopeless(Fit(rects[j], font))
                \/ \E k \in 1 .. Len(panes) : panes[k].cell # font
<1> DEFINE c  == Grown(Canvas)
           qs == Append(panes, new)
           n  == Len(panes)
<1>1. Canvas \in Canvases /\ PanesOf(Canvas, panes, born)
  BY DEF Live, PanesOf
<1>2. c \in Canvases /\ c.rows = 1 /\ c.cols = Canvas.cols + 1 /\ c.area = Canvas.area
      /\ Canvas.cols \in Nat /\ Canvas.area \in Areas
  <2>1. Canvas.cols \in Nat /\ Canvas.area \in Areas
    BY <1>1 DEF Canvases
  <2>2. QED
    BY <1>1, <2>1, GrownCanvas
<1> HIDE DEF c
<1>3. rects = Tile(c, c.area)
  BY <1>2 DEF c
<1>4. rects \in Seq(Rects) /\ Len(rects) = Larger(c.rows, 1) * Larger(c.cols, 1)
  BY <1>2, <1>3, TileTyped
<1>5. Len(rects) \in Nat \ {0}
  <2>1. Larger(c.rows, 1) = 1 /\ Larger(c.cols, 1) \in Nat \ {0}
    BY <1>2 DEF Larger
  <2>2. QED
    BY <1>4, <2>1
<1>6. rects[Len(rects)] \in Rects
  BY <1>4, <1>5, ElementOfSeq
<1>7. PaneOK(new) /\ new.id = born + 1 /\ new.cell = font
  <2>1. born + 1 \in Nat
    OBVIOUS
  <2>2. QED
    BY <1>6, <2>1, SpawnedSound
<1>8. /\ PanesOf(c, qs, born + 1)
      /\ PaneIds(qs) = PaneIds(panes) \union {born + 1}
      /\ Len(qs) = n + 1
      /\ \A k \in 1 .. n + 1 : qs[k] = IF k <= n THEN panes[k] ELSE new
  BY <1>1, <1>7, AppendedSound DEF c
<1> HIDE DEF qs, n
<1>9. /\ PanesOf(c, o.panes, born + 1) /\ Len(o.panes) = Len(qs) /\ o.result \in Results
      /\ \A j \in 1 .. Len(qs) : o.panes[j].id = qs[j].id
      /\ o.result = "ok" => Laid(c, o.panes)
      /\ o.result = "small" =>
           \E j \in 1 .. Len(qs) : j <= Len(rects) /\ Hopeless(Fit(rects[j], qs[j].cell))
  <2>1. o \in Retiled(qs, Tile(c, c.area))
    BY <1>3 DEF qs
  <2>2. QED
    BY <1>3, <1>8, <2>1, RetiledSound
<1>10. PaneIds(o.panes) = PaneIds(qs)
  BY <1>9, SameIds
<1>11. ASSUME o.result = "small"
       PROVE  \E j \in 1 .. Len(rects) :
                \/ Hopeless(Fit(rects[j], font))
                \/ \E k \in 1 .. n : panes[k].cell # font
  <2>1. PICK j \in 1 .. Len(qs) : j <= Len(rects) /\ Hopeless(Fit(rects[j], qs[j].cell))
    BY <1>9, <1>11
  <2>2. n \in Nat
    BY <1>1 DEF PanesOf, GoodPanes, n
  <2>3. j \in 1 .. Len(rects) /\ j \in 1 .. n + 1
    BY <1>5, <1>8, <2>1, <2>2
  <2>4. CASE j <= n
    <3>1. j \in 1 .. n /\ qs[j] = panes[j]
      BY <1>8, <2>2, <2>3, <2>4
    <3>2. QED
      BY <2>1, <2>3, <3>1
  <2>5. CASE ~(j <= n)
    <3>1. qs[j] = new
      BY <1>8, <2>3, <2>5
    <3>2. QED
      BY <1>7, <2>1, <2>3, <3>1
  <2>6. QED
    BY <2>4, <2>5
<1>12. QED
  BY <1>7, <1>8, <1>9, <1>10, <1>11 DEF c, n

\* What a split did, in the words of its lemmas.
LEMMA SplitCases ==
  ASSUME PanesInv, NEW font \in PaneFonts, Split(font)
  PROVE  /\ Live /\ born \in Nat /\ born < MaxBorn /\ told'.call = "split" /\ told'.font = font
         /\ \/ /\ born' \in {born, born + 1} /\ UNCHANGED <<canvas, panes, running>>
               /\ told'.result \in {"rows", "unspawned", "small", "narrow"}
            \/ /\ Canvas.rows = 1 /\ born' = born + 1 /\ canvas' = <<Grown(Canvas)>>
               /\ \E rects, new : \E o \in Retiled(Append(panes, new), rects) :
                    /\ rects = Tile(Grown(Canvas), Canvas.area)
                    /\ new = Spawned(born + 1, rects[Len(rects)], font)
                    /\ \A k \in DOMAIN rects : ~Hopeless(Fit(rects[k], font))
                    /\ running' = running \union {new.id} /\ panes' = o.panes
                    /\ told'.result = o.result
<1> DEFINE grown == [Canvas EXCEPT !.cols = @ + 1]
           rects == Tile(grown, Canvas.area)
           new   == Spawned(born + 1, rects[Len(rects)], font)
           Fits2 == {Fit(rects[k], font) : k \in DOMAIN rects}
           Small == \E g \in Fits2 : Hopeless(g)
<1>1. Live /\ born \in Nat /\ born < MaxBorn
  BY LiveWhenCanvas DEF Split, PanesInv
<1>2. Canvas.rows \in Nat \ {0}
  BY <1>1 DEF Live, PanesOf, Canvases
<1>3. \/ /\ born' \in {born, born + 1} /\ UNCHANGED <<canvas, panes, running>>
         /\ told' = [n |-> told.n + 1, call |-> "split", result |-> told'.result, font |-> font]
         /\ told'.result \in {"rows", "unspawned", "small", "narrow"}
      \/ /\ ~(Canvas.rows > 1) /\ born' = born + 1 /\ canvas' = <<grown>> /\ ~Small
         /\ running' = running \union {new.id}
         /\ \E o \in Retiled(Append(panes, new), rects) :
              /\ panes' = o.panes
              /\ told' = [n |-> told.n + 1, call |-> "split", result |-> o.result, font |-> font]
  BY DEF Split, Says
<1>4. ~Small => \A k \in DOMAIN rects : ~Hopeless(Fit(rects[k], font))
  OBVIOUS
<1>5. ~(Canvas.rows > 1) => Canvas.rows = 1
  BY <1>2
<1>6. grown = Grown(Canvas)
  BY DEF Grown
<1> HIDE DEF grown, rects, new, Small
<1>7. rects = Tile(Grown(Canvas), Canvas.area) /\ new = Spawned(born + 1, rects[Len(rects)], font)
  BY <1>6 DEF rects, new
<1>8. CASE /\ born' \in {born, born + 1} /\ UNCHANGED <<canvas, panes, running>>
           /\ told' = [n |-> told.n + 1, call |-> "split", result |-> told'.result, font |-> font]
           /\ told'.result \in {"rows", "unspawned", "small", "narrow"}
  BY <1>1, <1>8
<1>9. CASE /\ ~(Canvas.rows > 1) /\ born' = born + 1 /\ canvas' = <<grown>> /\ ~Small
           /\ running' = running \union {new.id}
           /\ \E o \in Retiled(Append(panes, new), rects) :
                /\ panes' = o.panes
                /\ told' = [n |-> told.n + 1, call |-> "split", result |-> o.result, font |-> font]
  <2>1. told'.call = "split" /\ told'.font = font
    BY <1>9
  <2>2. \E o \in Retiled(Append(panes, new), rects) : panes' = o.panes /\ told'.result = o.result
    BY <1>9
  <2>3. QED
    BY <1>1, <1>4, <1>5, <1>6, <1>7, <1>9, <2>1, <2>2
<1>10. QED
  BY <1>3, <1>8, <1>9

LEMMA SplitKeeps ==
  ASSUME PanesInv, NEW font \in PaneFonts, Split(font)
  PROVE  PanesInv'
<1>1. Live /\ born \in Nat /\ born < MaxBorn /\ MaxBorn \in Nat
  BY SplitCases, PanesAssumption
<1>2. CASE /\ born' \in {born, born + 1} /\ UNCHANGED <<canvas, panes, running>>
           /\ told'.result \in {"rows", "unspawned", "small", "narrow"}
  <2>1. canvas = <<Canvas>> /\ PanesOf(Canvas, panes, born) /\ running \subseteq PaneIds(panes)
    BY <1>1 DEF Live
  <2>2. PanesOf(Canvas, panes, born')
    <3>1. 1 .. born \subseteq 1 .. born'
      BY <1>1, <1>2
    <3>2. QED
      BY <2>1, <3>1 DEF PanesOf
  <2>3. born' \in 0 .. MaxBorn
    BY <1>1, <1>2
  <2>4. canvas' = <<Canvas>> /\ PanesOf(Canvas, panes', born') /\ running' \subseteq PaneIds(panes') /\ told'.result # "ok"
    BY <1>2, <2>1, <2>2
  <2>5. QED
    BY <2>3, <2>4, LiveAfter
<1>3. CASE /\ Canvas.rows = 1 /\ born' = born + 1 /\ canvas' = <<Grown(Canvas)>>
           /\ \E rects, new : \E o \in Retiled(Append(panes, new), rects) :
                /\ rects = Tile(Grown(Canvas), Canvas.area)
                /\ new = Spawned(born + 1, rects[Len(rects)], font)
                /\ \A k \in DOMAIN rects : ~Hopeless(Fit(rects[k], font))
                /\ running' = running \union {new.id} /\ panes' = o.panes
                /\ told'.result = o.result
  <2>1. PICK rects, new : \E o \in Retiled(Append(panes, new), rects) :
                /\ rects = Tile(Grown(Canvas), Canvas.area)
                /\ new = Spawned(born + 1, rects[Len(rects)], font)
                /\ running' = running \union {new.id} /\ panes' = o.panes
                /\ told'.result = o.result
    BY <1>3
  <2>2. PICK o \in Retiled(Append(panes, new), rects) :
                /\ rects = Tile(Grown(Canvas), Canvas.area)
                /\ new = Spawned(born + 1, rects[Len(rects)], font)
                /\ running' = running \union {new.id} /\ panes' = o.panes
                /\ told'.result = o.result
    BY <2>1
  <2>3. /\ PanesOf(Grown(Canvas), o.panes, born + 1)
        /\ PaneIds(o.panes) = PaneIds(panes) \union {born + 1} /\ new.id = born + 1
        /\ o.result = "ok" => Laid(Grown(Canvas), o.panes)
    BY <1>1, <1>3, <2>2, SplitFacts
  <2>4. running \subseteq PaneIds(panes)
    BY <1>1 DEF Live
  <2>5. born' \in 0 .. MaxBorn
    BY <1>1, <1>3
  <2>6. /\ PanesOf(Grown(Canvas), panes', born') /\ running' \subseteq PaneIds(panes')
        /\ told'.result = "ok" => Laid(Grown(Canvas), panes')
    BY <1>3, <2>2, <2>3, <2>4
  <2>7. QED
    BY <1>3, <2>5, <2>6, LiveAfter
<1>4. QED
  BY <1>2, <1>3, SplitCases

LEMMA ClosePaneKeeps ==
  ASSUME PanesInv, NEW index, ClosePane(index)
  PROVE  PanesInv'
<1>1. Live /\ born \in 0 .. MaxBorn
  BY LiveWhenCanvas DEF ClosePane, PanesInv
<1>2. /\ PanesOf(Canvas, panes, born) /\ running \subseteq PaneIds(panes) /\ canvas = <<Canvas>>
      /\ Canvas.rows \in Nat \ {0} /\ DOMAIN panes = 1 .. Len(panes)
  BY <1>1 DEF Live, PanesOf, Canvases, GoodPanes
<1>3. PICK o \in Closed1(Canvas, panes, index) :
        /\ canvas' = <<o.canvas>> /\ panes' = o.panes /\ running' = running \ o.gone
        /\ told'.result = o.result /\ UNCHANGED born
  BY DEF ClosePane, Says
<1>4. CASE index \notin DOMAIN panes \/ Canvas.rows > 1
  <2>1. o.canvas = Canvas /\ o.panes = panes /\ o.gone = {} /\ o.result \in {"none", "rows"}
    BY <1>4, CloseRefused
  <2>2. /\ canvas' = <<Canvas>> /\ PanesOf(Canvas, panes', born') /\ running' \subseteq PaneIds(panes')
        /\ told'.result # "ok" /\ born' \in 0 .. MaxBorn
    BY <1>1, <1>2, <1>3, <2>1
  <2>3. QED
    BY <2>2, LiveAfter
<1>5. CASE index \in DOMAIN panes /\ ~(Canvas.rows > 1)
  <2>1. index \in 1 .. Len(panes) /\ Canvas.rows = 1
    BY <1>2, <1>5
  <2>2. o.canvas = Lessened(Canvas) /\ o.gone = {panes[index].id}
    BY <1>2, <2>1, CloseDone
  <2>3. PanesOf(Lessened(Canvas), o.panes, born)
    BY <1>2, <2>1, CloseDone
  <2>4. PaneIds(o.panes) = Others(panes, index)
    BY <1>2, <2>1, CloseDone
  <2>5. o.result = "ok" => Laid(Lessened(Canvas), o.panes)
    BY <1>2, <2>1, CloseDone
  <2>6. running' \subseteq PaneIds(panes')
    BY <1>2, <1>3, <2>2, <2>4 DEF Others
  <2>7. QED
    BY <1>1, <1>3, <2>2, <2>3, <2>5, <2>6, LiveAfter
<1>6. QED
  BY <1>4, <1>5

\* What closing all that exited leaves of the ids.
LEMMA ExitedFacts ==
  ASSUME PanesInv, CloseExited
  PROVE  /\ Live /\ born \in 0 .. MaxBorn /\ told'.call = "exited" /\ UNCHANGED <<born, running>>
         /\ \E c : /\ canvas' = <<c>> /\ PanesOf(c, panes', born) /\ c.rows = Canvas.rows
                   /\ told'.result = "ok" => Laid(c, panes')
         /\ running \subseteq PaneIds(panes')
         /\ Canvas.rows = 1 => PaneIds(panes') = running
<1> DEFINE m == Len(ExitedPanes)
           E == ExitedPanes
<1>1. Live /\ born \in 0 .. MaxBorn
  BY LiveWhenCanvas DEF CloseExited, PanesInv
<1>2. PanesOf(Canvas, panes, born) /\ running \subseteq PaneIds(panes) /\ Canvas.rows \in Nat \ {0}
  BY <1>1 DEF Live, PanesOf, Canvases
<1>3. ListsTo(E, Len(panes))
  BY <1>2, ListedGone DEF PanesOf
<1>4. m \in Nat /\ m > 0 /\ \A i \in 1 .. m : E[i] \in 1 .. Len(panes)
  <2>1. E \in Seq(1 .. Len(panes)) /\ E # <<>>
    BY <1>3 DEF ListsTo, CloseExited
  <2> HIDE DEF E
  <2>2. Len(E) \in Nat /\ Len(E) > 0 /\ \A i \in 1 .. Len(E) : E[i] \in 1 .. Len(panes)
    BY <2>1, EmptySeq, ElementOfSeq
  <2>3. QED
    BY <2>2 DEF E
<1>5. PICK o \in ClosedInTurn[m] :
        /\ canvas' = <<o.canvas>> /\ panes' = o.panes
        /\ told' = [n |-> told.n + 1, call |-> "exited", result |-> o.result, font |-> 0]
        /\ UNCHANGED <<born, running>>
  BY DEF CloseExited, Says
<1>6. InTurn(m, o)
  BY <1>2, AllClosed
<1>7. told'.call = "exited" /\ told'.result = o.result
  BY <1>5
<1>8. /\ PanesOf(o.canvas, o.panes, born) /\ o.canvas.rows = Canvas.rows
      /\ o.result = "ok" => Laid(o.canvas, o.panes)
  BY <1>4, <1>6 DEF InTurn
<1> DEFINE Dead == {panes[E[i]].id : i \in 1 .. m}
<1>9. ASSUME NEW x \in running PROVE x \notin Dead
  <2>1. SUFFICES ASSUME NEW i \in 1 .. m, x = panes[E[i]].id PROVE FALSE
    OBVIOUS
  <2>2. E[i] \in 1 .. Len(panes) /\ \E j \in 1 .. Len(E) : E[j] = E[i]
    BY <1>4
  <2> HIDE DEF E
  <2>3. Gone(E[i])
    BY <1>3, <2>2 DEF ListsTo
  <2>4. QED
    BY <2>1, <2>3 DEF Gone
<1>10. ASSUME NEW x \in PaneIds(panes), x \notin Dead PROVE x \in running
  <2>1. PICK k \in 1 .. Len(panes) : x = panes[k].id
    BY DEF PaneIds
  <2>2. CASE Gone(k)
    <3>1. PICK j \in 1 .. Len(E) : E[j] = k
      BY <1>3, <2>2 DEF ListsTo
    <3>2. x \in Dead
      BY <2>1, <3>1
    <3>3. QED
      BY <1>10, <3>2
  <2>3. QED
    BY <2>1, <2>2 DEF Gone
<1>11. Canvas.rows = 1 => PaneIds(o.panes) = PaneIds(panes) \ Dead
  BY <1>6 DEF InTurn
<1> HIDE DEF Dead
<1>12. Canvas.rows = 1 => PaneIds(o.panes) = running
  BY <1>2, <1>9, <1>10, <1>11
<1>13. running \subseteq PaneIds(panes')
  <2>1. CASE Canvas.rows = 1
    BY <1>5, <1>12, <2>1
  <2>2. CASE Canvas.rows > 1
    <3>1. o.panes = panes
      BY <1>6, <2>2 DEF InTurn
    <3>2. QED
      BY <1>2, <1>5, <3>1
  <2>3. QED
    BY <1>2, <2>1, <2>2
<1>14. QED
  BY <1>1, <1>5, <1>7, <1>8, <1>12, <1>13

LEMMA CloseExitedKeeps ==
  ASSUME PanesInv, CloseExited
  PROVE  PanesInv'
<1>1. /\ Live /\ born \in 0 .. MaxBorn /\ UNCHANGED <<born, running>>
      /\ \E c : /\ canvas' = <<c>> /\ PanesOf(c, panes', born) /\ c.rows = Canvas.rows
                /\ told'.result = "ok" => Laid(c, panes')
      /\ running \subseteq PaneIds(panes')
  BY ExitedFacts
<1>2. PICK c : /\ canvas' = <<c>> /\ PanesOf(c, panes', born) /\ c.rows = Canvas.rows
               /\ told'.result = "ok" => Laid(c, panes')
  BY <1>1
<1>3. QED
  BY <1>1, <1>2, LiveAfter

\* The pane after a change of its font (Session::set_font_size).
WithFont(p, g, font)        == [p EXCEPT !.child = g, !.geometry = g, !.font = font, !.cell = font]
WithFontFailure(p, g, font) == [p EXCEPT !.child = g, !.font = font, !.failed = TRUE]

LEMMA FontMoves ==
  ASSUME NEW p, PaneOK(p), NEW g \in GridSizes, ~Hopeless(g), g.cols <= p.room.cols, NEW font \in PaneFonts
  PROVE  /\ PaneOK(WithFont(p, g, font)) /\ WithFont(p, g, font).id = p.id
         /\ PaneOK(WithFontFailure(p, g, font)) /\ WithFontFailure(p, g, font).id = p.id
<1>1. PaneOK(WithFont(p, g, font)) /\ WithFont(p, g, font).id = p.id
  BY DEF WithFont, PaneOK, PaneSet
<1>2. PaneOK(WithFontFailure(p, g, font)) /\ WithFontFailure(p, g, font).id = p.id
  BY DEF WithFontFailure, PaneOK, PaneSet
<1>3. QED
  BY <1>1, <1>2

LEMMA ZoomPaneKeeps ==
  ASSUME PanesInv, NEW k \in DOMAIN panes, NEW font \in PaneFonts, ZoomPane(k, font)
  PROVE  PanesInv' /\ told'.call = "font"
<1> DEFINE p == panes[k]
           g == [cols |-> Larger(p.rect.w \div font, 1), rows |-> Larger(p.rect.h \div font, 1)]
<1>1. /\ UNCHANGED <<canvas, born, running>>
      /\ \/ UNCHANGED panes
         \/ /\ g.cols <= p.room.cols
            /\ \/ panes' = [panes EXCEPT ![k] = WithFont(p, g, font)]
               \/ panes' = [panes EXCEPT ![k] = WithFontFailure(p, g, font)]
  BY DEF ZoomPane, WithFont, WithFontFailure
<1>2. told'.call = "font"
  BY DEF ZoomPane, Says
<1>3. Live /\ born \in 0 .. MaxBorn
  <2>1. panes # <<>>
    OBVIOUS
  <2>2. QED
    BY <2>1 DEF PanesInv
<1>4. /\ PanesOf(Canvas, panes, born) /\ running \subseteq PaneIds(panes) /\ canvas = <<Canvas>>
      /\ GoodPanes(panes) /\ k \in 1 .. Len(panes) /\ PaneOK(p)
  BY <1>3 DEF Live, PanesOf, GoodPanes
<1>5. g \in GridSizes /\ ~Hopeless(g)
  <2>1. p.rect.w \in Nat /\ p.rect.h \in Nat /\ font \in Nat \ {0}
    BY <1>4, PanesAssumption DEF PaneOK, PaneSet, Rects
  <2>2. p.rect.w \div font \in Nat /\ p.rect.h \div font \in Nat
    BY <2>1
  <2>3. QED
    BY <2>2 DEF GridSizes, Hopeless, Larger
<1> HIDE DEF p, g
<1>6. ASSUME NEW q, PaneOK(q), q.id = p.id, panes' = [panes EXCEPT ![k] = q]
      PROVE  PanesOf(Canvas, panes', born) /\ PaneIds(panes') = PaneIds(panes)
  <2>1. panes' = Replaced(panes, k, q)
    BY <1>6 DEF Replaced
  <2>2. GoodPanes(Replaced(panes, k, q)) /\ Len(Replaced(panes, k, q)) = Len(panes)
    BY <1>4, <1>6, OnePaneReplaced
  <2>3. Replaced(panes, k, q)[k] = q
    BY <1>4, <1>6, OnePaneReplaced
  <2>4. \A j \in 1 .. Len(panes) : j # k => Replaced(panes, k, q)[j] = panes[j]
    BY <1>4, <1>6, OnePaneReplaced
  <2>5. \A j \in 1 .. Len(panes) : panes'[j].id = panes[j].id
    BY <1>6, <2>1, <2>3, <2>4 DEF p
  <2>6. PaneIds(panes') = PaneIds(panes)
    BY <2>1, <2>2, <2>5, SameIds
  <2>7. QED
    BY <1>4, <2>1, <2>2, <2>5, <2>6 DEF PanesOf
<1>7. PanesOf(Canvas, panes', born) /\ PaneIds(panes') = PaneIds(panes)
  <2>1. CASE UNCHANGED panes
    BY <1>4, <2>1
  <2>2. CASE g.cols <= p.room.cols /\ panes' = [panes EXCEPT ![k] = WithFont(p, g, font)]
    <3>1. PaneOK(WithFont(p, g, font)) /\ WithFont(p, g, font).id = p.id
      BY <1>4, <1>5, <2>2, FontMoves
    <3>2. QED
      BY <1>6, <2>2, <3>1
  <2>3. CASE g.cols <= p.room.cols /\ panes' = [panes EXCEPT ![k] = WithFontFailure(p, g, font)]
    <3>1. PaneOK(WithFontFailure(p, g, font)) /\ WithFontFailure(p, g, font).id = p.id
      BY <1>4, <1>5, <2>3, FontMoves
    <3>2. QED
      BY <1>6, <2>3, <3>1
  <2>4. QED
    BY <1>1, <2>1, <2>2, <2>3
<1>8. Live'
  <2>1. canvas' = canvas /\ Canvas' = Canvas
    BY <1>1 DEF Canvas
  <2>2. told'.call \notin LayoutCalls
    BY <1>2 DEF LayoutCalls
  <2>3. running' \subseteq PaneIds(panes') /\ born' = born /\ canvas' = <<Canvas>>
    BY <1>1, <1>4, <1>7
  <2>4. QED
    BY <1>7, <2>1, <2>2, <2>3 DEF Live
<1>9. QED
  BY <1>1, <1>2, <1>3, <1>8 DEF PanesInv

LEMMA ChildEndsKeeps ==
  ASSUME PanesInv, NEW id, ChildEnds(id)
  PROVE  PanesInv'
<1>1. UNCHANGED <<canvas, panes, born, told>> /\ running' \subseteq running /\ running # {}
  BY DEF ChildEnds
<1>2. Live /\ born \in 0 .. MaxBorn
  BY <1>1 DEF PanesInv
<1>3. Live'
  BY <1>1, <1>2 DEF Live, Canvas
<1>4. QED
  BY <1>1, <1>2, <1>3 DEF PanesInv

LEMMA ShutdownPanesKeeps ==
  ASSUME PanesInv, ShutdownPanes
  PROVE  PanesInv'
  BY DEF PanesInv, ShutdownPanes

LEMMA PanesKeep == PanesInv /\ [PanesNext]_pvars => PanesInv'
<1>1. SUFFICES ASSUME PanesInv, [PanesNext]_pvars PROVE PanesInv'
  OBVIOUS
<1>2. CASE UNCHANGED pvars
  BY <1>1, <1>2 DEF PanesInv, pvars, Live, Canvas
<1>3. ASSUME NEW id \in running, ChildEnds(id) PROVE PanesInv'
  BY <1>1, <1>3, ChildEndsKeeps
<1>4. ASSUME CanvasCalls PROVE PanesInv'
  <2>1. ASSUME NEW cols \in 1 .. 2, NEW rows \in 1 .. 2, NEW area \in Areas, NEW font \in PaneFonts,
               SpawnCanvas([cols |-> cols, rows |-> rows], area, font)
        PROVE  PanesInv'
    BY <1>1, <2>1, SpawnKeeps
  <2>2. ASSUME NEW area \in Areas, ResizeCanvas(area) PROVE PanesInv'
    BY <1>1, <2>2, ResizeCanvasKeeps
  <2>3. ASSUME NEW font \in PaneFonts, Split(font) PROVE PanesInv'
    BY <1>1, <2>3, SplitKeeps
  <2>4. ASSUME NEW index \in 1 .. 3, ClosePane(index) PROVE PanesInv'
    BY <1>1, <2>4, ClosePaneKeeps
  <2>5. CASE CloseExited
    BY <1>1, <2>5, CloseExitedKeeps
  <2>6. ASSUME NEW k \in DOMAIN panes, NEW font \in PaneFonts, ZoomPane(k, font) PROVE PanesInv'
    BY <1>1, <2>6, ZoomPaneKeeps
  <2>7. CASE ShutdownPanes
    BY <1>1, <2>7, ShutdownPanesKeeps
  <2>8. QED
    BY <1>4, <2>1, <2>2, <2>3, <2>4, <2>5, <2>6, <2>7 DEF CanvasCalls
<1>5. QED
  BY <1>1, <1>2, <1>3, <1>4 DEF PanesNext

-----------------------------------------------------------------------------
(* What the invariant says.                                                *)

LEMMA PanesTyped == PanesInv => PanesTypeOK
<1>1. SUFFICES ASSUME PanesInv PROVE PanesTypeOK
  OBVIOUS
<1>2. CASE canvas = <<>> /\ panes = <<>> /\ running = {}
  BY <1>1, <1>2 DEF PanesInv, PanesTypeOK
<1>3. CASE Live
  <2>1. /\ canvas = <<Canvas>> /\ Canvas \in Canvases /\ GoodPanes(panes)
        /\ Len(panes) = Canvas.rows * Canvas.cols /\ running \subseteq PaneIds(panes)
    BY <1>3 DEF Live, PanesOf, CellCount
  <2>2. canvas # <<>>
    BY <2>1
  <2>3. DOMAIN panes = 1 .. Len(panes)
    BY <2>1 DEF GoodPanes
  <2>4. \A k \in DOMAIN panes : ~Hopeless(panes[k].geometry) /\ panes[k].child.cols <= panes[k].room.cols
    BY <2>1, <2>3 DEF GoodPanes, PaneOK
  <2>5. running \subseteq {panes[k].id : k \in DOMAIN panes}
    BY <2>1, <2>3 DEF PaneIds
  <2>6. QED
    BY <1>1, <2>1, <2>2, <2>4, <2>5 DEF PanesInv, PanesTypeOK
<1>4. QED
  BY <1>1, <1>2, <1>3 DEF PanesInv

LEMMA PanesKnow == PanesInv => PaneKnowsItsSize
<1>1. SUFFICES ASSUME PanesInv, LaidOut, NEW k \in DOMAIN panes
               PROVE  LET p == panes[k] IN
                      /\ p.rect = Tile(Canvas, Canvas.area)[k] /\ p.mouse = <<p.rect.w, p.rect.h>>
                      /\ ~p.failed => p.child = Fit(p.rect, p.cell) /\ p.geometry = p.child /\ p.cell = p.font
  BY DEF PaneKnowsItsSize
<1>2. Live
  BY <1>1 DEF PanesInv, LaidOut
<1>3. k \in 1 .. Len(panes) /\ PaneOK(panes[k])
  BY <1>2 DEF Live, PanesOf, GoodPanes
<1>4. Follows(panes[k], Tile(Canvas, Canvas.area)[k])
  BY <1>1, <1>2, <1>3 DEF Live, Laid, LaidOut, LayoutCalls
<1>5. QED
  BY <1>3, <1>4 DEF Follows, PaneOK

\* A split that answers with a refusal of its own leaves the canvas as it was.
LEMMA SplitRefusals ==
  ASSUME PanesInv, NEW font \in PaneFonts, Split(font)
  PROVE  RefusedSplitKeeps
<1>1. Live /\ born \in Nat /\ told'.font = font
  BY SplitCases
<1>2. CASE UNCHANGED <<canvas, panes, running>>
  BY <1>2 DEF RefusedSplitKeeps
<1>3. CASE /\ Canvas.rows = 1
           /\ \E rects, new : \E o \in Retiled(Append(panes, new), rects) :
                /\ rects = Tile(Grown(Canvas), Canvas.area)
                /\ new = Spawned(born + 1, rects[Len(rects)], font)
                /\ \A k \in DOMAIN rects : ~Hopeless(Fit(rects[k], font))
                /\ told'.result = o.result
  <2>1. PICK rects, new : \E o \in Retiled(Append(panes, new), rects) :
                /\ rects = Tile(Grown(Canvas), Canvas.area)
                /\ new = Spawned(born + 1, rects[Len(rects)], font)
                /\ \A k \in DOMAIN rects : ~Hopeless(Fit(rects[k], font))
                /\ told'.result = o.result
    BY <1>3
  <2>2. PICK o \in Retiled(Append(panes, new), rects) :
                /\ rects = Tile(Grown(Canvas), Canvas.area)
                /\ new = Spawned(born + 1, rects[Len(rects)], font)
                /\ \A k \in DOMAIN rects : ~Hopeless(Fit(rects[k], font))
                /\ told'.result = o.result
    BY <2>1
  <2>3. /\ o.result \in Results
        /\ o.result = "small" =>
             \E j \in 1 .. Len(rects) :
               \/ Hopeless(Fit(rects[j], font))
               \/ \E k \in 1 .. Len(panes) : panes[k].cell # font
    BY <1>1, <1>3, <2>2, SplitFacts
  <2>4. DOMAIN rects = 1 .. Len(rects)
    <3>1. Canvas \in Canvases
      BY <1>1 DEF Live, PanesOf
    <3>2. /\ Grown(Canvas).cols \in Nat /\ Grown(Canvas).rows \in Nat /\ Canvas.area \in Areas
      BY <3>1, GrownCanvas DEF Canvases
    <3>3. Tile(Grown(Canvas), Canvas.area) \in Seq(Rects)
      BY <3>2, TileTyped
    <3>4. QED
      BY <2>2, <3>3
  <2>5. ASSUME o.result = "small" PROVE ~(Fonts \subseteq {font})
    <3>1. PICK k \in 1 .. Len(panes) : panes[k].cell # font
      BY <2>2, <2>3, <2>4, <2>5
    <3>2. DOMAIN panes = 1 .. Len(panes)
      BY <1>1 DEF Live, PanesOf, GoodPanes
    <3>3. panes[k].cell \in Fonts
      BY <3>1, <3>2 DEF Fonts
    <3>4. QED
      BY <3>1, <3>3
  <2>6. QED
    BY <1>1, <2>2, <2>3, <2>5 DEF RefusedSplitKeeps, Results
<1>4. QED
  BY <1>2, <1>3, SplitCases

\* Only a split answers for a split, and only CloseExited for the closes it makes.
LEMMA CallsNamed ==
  ASSUME PanesNext
  PROVE  \/ told' = told
         \/ \E font \in PaneFonts : Split(font)
         \/ CloseExited
         \/ told'.call \notin {"split", "exited"}
<1>1. ASSUME NEW id, ChildEnds(id) PROVE told' = told
  BY <1>1 DEF ChildEnds
<1>2. ASSUME NEW g, NEW area, NEW font, SpawnCanvas(g, area, font) PROVE told'.call = "spawn"
  <2>1. \E r : told' = [n |-> told.n + 1, call |-> "spawn", result |-> r, font |-> font]
    BY <1>2 DEF SpawnCanvas, Says
  <2>2. QED
    BY <2>1
<1>3. ASSUME NEW area, ResizeCanvas(area) PROVE told'.call = "resize"
  BY <1>3 DEF ResizeCanvas, Says
<1>4. ASSUME NEW index, ClosePane(index) PROVE told'.call = "close"
  BY <1>4 DEF ClosePane, Says
<1>5. ASSUME NEW k, NEW font, ZoomPane(k, font) PROVE told'.call = "font"
  <2>1. \E r : told' = [n |-> told.n + 1, call |-> "font", result |-> r, font |-> font]
    BY <1>5 DEF ZoomPane, Says
  <2>2. QED
    BY <2>1
<1>6. ASSUME ShutdownPanes PROVE told'.call = "shutdown"
  BY <1>6 DEF ShutdownPanes, Says
<1>7. QED
  BY <1>1, <1>2, <1>3, <1>4, <1>5, <1>6 DEF PanesNext, CanvasCalls

LEMMA RefusalsHold == PanesInv /\ [PanesNext]_pvars => [RefusedSplitKeeps]_pvars
<1>1. SUFFICES ASSUME PanesInv, PanesNext PROVE RefusedSplitKeeps
  OBVIOUS
<1>2. ASSUME NEW font \in PaneFonts, Split(font) PROVE RefusedSplitKeeps
  BY <1>1, <1>2, SplitRefusals
<1>3. CASE ~\E font \in PaneFonts : Split(font)
  <2>1. told' = told \/ told'.call # "split"
    <3>1. CASE CloseExited
      BY <1>1, <3>1, ExitedFacts
    <3>2. QED
      BY <1>1, <1>3, <3>1, CallsNamed
  <2>2. QED
    BY <2>1 DEF RefusedSplitKeeps
<1>4. QED
  BY <1>2, <1>3

LEMMA ExitsHold == PanesInv /\ [PanesNext]_pvars => [ExitedAreClosed]_pvars
<1>1. SUFFICES ASSUME PanesInv, PanesNext PROVE ExitedAreClosed
  OBVIOUS
<1>2. CASE CloseExited
  <2>1. /\ \E c : canvas' = <<c>> /\ PanesOf(c, panes', born)
        /\ UNCHANGED running /\ (Canvas.rows = 1 => PaneIds(panes') = running)
    BY <1>1, <1>2, ExitedFacts
  <2>2. DOMAIN panes' = 1 .. Len(panes')
    BY <2>1 DEF PanesOf, GoodPanes
  <2>3. {panes'[k].id : k \in DOMAIN panes'} = PaneIds(panes')
    BY <2>2 DEF PaneIds
  <2>4. QED
    BY <2>1, <2>3 DEF ExitedAreClosed
<1>3. CASE ~CloseExited
  <2>1. told' = told \/ told'.call # "exited"
    <3>1. ASSUME NEW font \in PaneFonts, Split(font) PROVE told'.call = "split"
      BY <1>1, <3>1, SplitCases
    <3>2. QED
      BY <1>1, <1>3, <3>1, CallsNamed
  <2>2. QED
    BY <2>1 DEF ExitedAreClosed
<1>4. QED
  BY <1>2, <1>3

-----------------------------------------------------------------------------
(* One axis of a tiling: cells and gaps, one after the other.              *)

\* Where cell i of n begins, and where the cell after the last would.
Start(i, total, n) == Edge(i, total, n) + Gutter * i

InCell(x, i, total, n) == Start(i, total, n) <= x /\ x < Start(i, total, n) + Span(i, total, n)
InGap(x, i, total, n)  == Start(i, total, n) - Gutter <= x /\ x < Start(i, total, n)

LEMMA Division ==
  ASSUME NEW a \in Nat, NEW n \in Nat \ {0}
  PROVE  /\ a \div n \in Nat /\ a % n \in Nat /\ a % n < n
         /\ a = n * (a \div n) + (a % n)
<1>1. a \div n \in Nat
  OBVIOUS
<1>2. a % n \in Nat
  OBVIOUS
<1>3. a % n < n
  OBVIOUS
<1>4. a = n * (a \div n) + (a % n)
  OBVIOUS
<1>5. QED
  BY <1>1, <1>2, <1>3, <1>4

LEMMA StartTyped ==
  ASSUME NEW i \in Nat, NEW total \in Nat, NEW n \in Nat \ {0}
  PROVE  /\ Start(i, total, n) \in Nat
         /\ Start(i, total, n) + Span(i, total, n) = Start(i + 1, total, n) - Gutter
         /\ Start(i, total, n) + Gutter <= Start(i + 1, total, n)
         /\ Span(i, total, n) \in Nat
<1> DEFINE a == Edge(i, total, n)
           b == Edge(i + 1, total, n)
           g == Gutter * i
<1>1. a \in Nat /\ b \in Nat /\ Span(i, total, n) \in Nat
  <2>1. i + 1 \in Nat
    OBVIOUS
  <2>2. a \in Nat
    BY EdgeTyped
  <2>3. b \in Nat
    BY <2>1, EdgeTyped
  <2>4. Span(i, total, n) \in Nat
    BY SpanTyped
  <2>5. QED
    BY <2>2, <2>3, <2>4
<1>2. Gutter \in Nat
  BY PanesAssumption
<1>3. Span(i, total, n) = b - a
  BY DEF Span
<1>4. Gutter * (i + 1) = g + Gutter /\ g \in Nat
  BY <1>2
<1>5. Start(i, total, n) = a + g /\ Start(i + 1, total, n) = b + (g + Gutter)
  BY <1>4 DEF Start
<1> HIDE DEF a, b, g
<1>6. QED
  BY <1>1, <1>2, <1>3, <1>4, <1>5

\* The first cell begins at the area's edge and the last ends at its other.
LEMMA StartEnds ==
  ASSUME NEW total \in Nat, NEW n \in Nat \ {0}
  PROVE  Start(0, total, n) = 0 /\ Start(n, total, n) = total + Gutter * n
<1> DEFINE q == total \div n
           r == total % n
<1>1. q \in Nat /\ r \in Nat /\ r < n /\ total = (n * q) + r
  BY Division
<1>2. Gutter \in Nat
  BY PanesAssumption
<1>3. Edge(0, total, n) = 0 * q + Smaller(0, r) /\ Edge(n, total, n) = n * q + Smaller(n, r)
  BY DEF Edge
<1> HIDE DEF q, r
<1>4. 0 * q = 0 /\ Smaller(0, r) = 0 /\ Smaller(n, r) = r /\ Gutter * 0 = 0
  BY <1>1, <1>2 DEF Smaller
<1>5. QED
  BY <1>1, <1>2, <1>3, <1>4 DEF Start

\* Later cells begin after earlier ones end.
LEMMA StartRises ==
  ASSUME NEW i \in Nat, NEW j \in Nat, i < j, NEW total \in Nat, NEW n \in Nat \ {0}
  PROVE  Start(i + 1, total, n) <= Start(j, total, n)
<1> DEFINE m == j - (i + 1)
           S == {k \in 0 .. m : Start(i + 1, total, n) <= Start(i + 1 + k, total, n)}
<1>1. m \in Nat /\ Start(i + 1, total, n) \in Nat
  BY StartTyped
<1>2. 0 \in S
  <2>1. i + 1 + 0 = i + 1
    OBVIOUS
  <2>2. QED
    BY <1>1, <2>1
<1>3. ASSUME NEW k \in 1 .. m, k - 1 \in S PROVE k \in S
  <2> DEFINE a == i + 1 + (k - 1)
  <2>1. a \in Nat /\ a + 1 = i + 1 + k
    BY <1>1
  <2>2. Start(i + 1, total, n) <= Start(a, total, n)
    BY <1>3
  <2> HIDE DEF a
  <2>3. Start(a, total, n) \in Nat /\ Start(a + 1, total, n) \in Nat
        /\ Start(a, total, n) + Gutter <= Start(a + 1, total, n) /\ Gutter \in Nat
    BY <2>1, StartTyped, PanesAssumption
  <2>4. Start(i + 1, total, n) <= Start(a + 1, total, n)
    BY <1>1, <2>2, <2>3
  <2>5. QED
    BY <2>1, <2>4
<1>4. \A k \in 0 .. m : k \in S
  <2> HIDE DEF S, m
  <2>1. QED
    BY <1>1, <1>2, <1>3, Climbs
<1>5. m \in S /\ i + 1 + m = j
  BY <1>1, <1>4
<1>6. QED
  BY <1>5

\* A pixel is in one cell or in one gap between two, and never in both.
LEMMA AxisCovers ==
  ASSUME NEW total \in Nat, NEW n \in Nat \ {0}, NEW x \in Nat, x < total + Gutter * (n - 1)
  PROVE  \/ \E i \in 0 .. n - 1 : InCell(x, i, total, n)
         \/ \E i \in 1 .. n - 1 : InGap(x, i, total, n)
<1> DEFINE S == {i \in 0 .. n - 1 : Start(i, total, n) <= x}
<1>1. Start(0, total, n) = 0 /\ Start(n, total, n) = total + Gutter * n
  BY StartEnds
<1>2. 0 \in S /\ n - 1 \in Nat /\ S \subseteq 0 .. n - 1
  BY <1>1
<1>3. PICK i \in S : \A j \in S : j <= i
  <2> HIDE DEF S
  <2>1. QED
    BY <1>2, HasGreatest
<1>4. i \in 0 .. n - 1 /\ Start(i, total, n) <= x
  OBVIOUS
<1>5. /\ Start(i, total, n) \in Nat /\ Start(i + 1, total, n) \in Nat /\ Gutter \in Nat
      /\ Start(i, total, n) + Span(i, total, n) = Start(i + 1, total, n) - Gutter
  BY <1>4, StartTyped, PanesAssumption, SMTT(30)
<1>6. x < Start(i + 1, total, n)
  <2>1. CASE i + 1 \in 0 .. n - 1
    <3>1. i + 1 \notin S
      BY <1>3, <1>4
    <3>2. ~(Start(i + 1, total, n) <= x)
      BY <2>1, <3>1
    <3>3. QED
      BY <1>5, <3>2
  <2>2. CASE i + 1 = n
    <3>1. Gutter * (n - 1) <= Gutter * n /\ Gutter * n \in Nat /\ Gutter * (n - 1) \in Nat
      <4>1. Gutter * n = Gutter * (n - 1) + Gutter /\ Gutter * (n - 1) \in Nat
        BY <1>2, <1>5
      <4>2. QED
        BY <1>5, <4>1
    <3>2. QED
      BY <1>1, <2>2, <3>1
  <2>3. QED
    BY <1>4, <2>1, <2>2
<1>7. CASE x < Start(i + 1, total, n) - Gutter
  BY <1>4, <1>5, <1>7 DEF InCell
<1>8. CASE ~(x < Start(i + 1, total, n) - Gutter)
  <2>1. i + 1 # n
    <3>1. SUFFICES ASSUME i + 1 = n PROVE FALSE
      OBVIOUS
    <3>2. Gutter * n = Gutter * (n - 1) + Gutter /\ Gutter * (n - 1) \in Nat
      BY <1>2, <1>5
    <3>3. QED
      BY <1>1, <1>5, <1>8, <3>1, <3>2
  <2>2. i + 1 \in 1 .. n - 1
    BY <1>4, <2>1
  <2>3. InGap(x, i + 1, total, n)
    BY <1>5, <1>6, <1>8 DEF InGap
  <2>4. QED
    BY <2>2, <2>3
<1>9. QED
  BY <1>7, <1>8

LEMMA AxisOnce ==
  ASSUME NEW total \in Nat, NEW n \in Nat \ {0}, NEW x \in Nat, NEW i \in Nat, NEW j \in Nat
  PROVE  /\ InCell(x, i, total, n) /\ InCell(x, j, total, n) => i = j
         /\ InGap(x, i, total, n) /\ InGap(x, j, total, n) /\ i > 0 /\ j > 0 => i = j
         /\ ~(InCell(x, i, total, n) /\ InGap(x, j, total, n) /\ j > 0)
<1> DEFINE s(k) == Start(k, total, n)
<1>0. Gutter \in Nat
  BY PanesAssumption
<1>1. \A k \in Nat : /\ s(k) \in Nat /\ s(k) + Span(k, total, n) = s(k + 1) - Gutter
                     /\ s(k) + Gutter <= s(k + 1)
  BY StartTyped
<1>2. \A k, l \in Nat : k < l => s(k + 1) <= s(l)
  BY StartRises
<1>3. \A k \in Nat : InCell(x, k, total, n) <=> s(k) <= x /\ x < s(k + 1) - Gutter
  BY <1>1 DEF InCell
<1>4. \A k \in Nat : InGap(x, k, total, n) <=> s(k) - Gutter <= x /\ x < s(k)
  BY DEF InGap
<1>5. s(i) \in Nat /\ s(j) \in Nat /\ s(i + 1) \in Nat /\ s(j + 1) \in Nat
  BY <1>1
<1> HIDE DEF s
<1>6. ASSUME InCell(x, i, total, n), InCell(x, j, total, n) PROVE i = j
  <2>1. ~(i < j)
    BY <1>0, <1>2, <1>3, <1>5, <1>6
  <2>2. ~(j < i)
    BY <1>0, <1>2, <1>3, <1>5, <1>6
  <2>3. QED
    BY <2>1, <2>2
<1>7. ASSUME InGap(x, i, total, n), InGap(x, j, total, n), i > 0, j > 0 PROVE i = j
  <2>1. s(i) - Gutter <= x /\ x < s(i) /\ s(j) - Gutter <= x /\ x < s(j)
    BY <1>4, <1>7
  <2>2. ~(i < j)
    <3>1. SUFFICES ASSUME i < j PROVE FALSE
      OBVIOUS
    <3>2. j - 1 \in Nat /\ (j - 1) + 1 = j /\ i <= j - 1
      BY <3>1
    <3>3. s(j - 1) + Gutter <= s(j) /\ s(j - 1) \in Nat
      BY <1>1, <3>2
    <3>4. s(i) <= s(j - 1)
      <4>1. CASE i = j - 1
        BY <1>5, <4>1
      <4>2. CASE i < j - 1
        <5>1. s(i + 1) <= s(j - 1) /\ s(i) + Gutter <= s(i + 1)
          BY <1>1, <1>2, <3>2, <4>2
        <5>2. QED
          BY <1>0, <1>5, <3>3, <5>1
      <4>3. QED
        BY <3>2, <4>1, <4>2
    <3>5. QED
      BY <1>0, <1>5, <2>1, <3>3, <3>4
  <2>3. ~(j < i)
    <3>1. SUFFICES ASSUME j < i PROVE FALSE
      OBVIOUS
    <3>2. i - 1 \in Nat /\ (i - 1) + 1 = i /\ j <= i - 1
      BY <3>1
    <3>3. s(i - 1) + Gutter <= s(i) /\ s(i - 1) \in Nat
      BY <1>1, <3>2
    <3>4. s(j) <= s(i - 1)
      <4>1. CASE j = i - 1
        BY <1>5, <4>1
      <4>2. CASE j < i - 1
        <5>1. s(j + 1) <= s(i - 1) /\ s(j) + Gutter <= s(j + 1)
          BY <1>1, <1>2, <3>2, <4>2
        <5>2. QED
          BY <1>0, <1>5, <3>3, <5>1
      <4>3. QED
        BY <3>2, <4>1, <4>2
    <3>5. QED
      BY <1>0, <1>5, <2>1, <3>3, <3>4
  <2>4. QED
    BY <2>2, <2>3
<1>8. ASSUME InCell(x, i, total, n), InGap(x, j, total, n), j > 0 PROVE FALSE
  <2>1. s(i) <= x /\ x < s(i + 1) - Gutter /\ s(j) - Gutter <= x /\ x < s(j)
    BY <1>3, <1>4, <1>8
  <2>2. CASE i < j
    <3>1. s(i + 1) <= s(j)
      BY <1>2, <2>2
    <3>2. QED
      BY <1>0, <1>5, <2>1, <3>1
  <2>3. CASE i = j
    BY <1>5, <2>1, <2>3
  <2>4. CASE j < i
    <3>1. s(j + 1) <= s(i) /\ s(j) + Gutter <= s(j + 1)
      BY <1>1, <1>2, <2>4
    <3>2. QED
      BY <1>0, <1>5, <2>1, <3>1
  <2>5. QED
    BY <2>2, <2>3, <2>4
<1>9. QED
  BY <1>6, <1>7, <1>8

\* Division by n has one answer.
LEMMA DivisionOnce ==
  ASSUME NEW n \in Nat \ {0}, NEW p \in Nat, NEW q \in Nat, NEW c \in 0 .. n - 1, NEW d \in 0 .. n - 1,
         (n * p) + c = (n * q) + d
  PROVE  p = q /\ c = d
<1>1. ASSUME NEW a \in Nat, NEW b \in Nat, a < b PROVE (n * a) + n <= n * b /\ n * a \in Nat /\ n * b \in Nat
  <2> DEFINE m == b - (a + 1)
  <2>1. m \in Nat /\ b = (a + 1) + m
    BY <1>1
  <2> HIDE DEF m
  <2>2. n * b = (n * (a + 1)) + (n * m) /\ n * m \in Nat
    BY <2>1
  <2>3. n * (a + 1) = (n * a) + n /\ n * a \in Nat
    OBVIOUS
  <2>4. n * b \in Nat
    OBVIOUS
  <2>5. QED
    BY <2>2, <2>3, <2>4
<1>2. ~(p < q)
  <2>1. SUFFICES ASSUME p < q PROVE FALSE
    OBVIOUS
  <2>2. (n * p) + n <= n * q /\ n * p \in Nat /\ n * q \in Nat
    BY <1>1, <2>1
  <2>3. QED
    BY <2>2
<1>3. ~(q < p)
  <2>1. SUFFICES ASSUME q < p PROVE FALSE
    OBVIOUS
  <2>2. (n * q) + n <= n * p /\ n * p \in Nat /\ n * q \in Nat
    BY <1>1, <2>1
  <2>3. QED
    BY <2>2
<1>4. p = q
  BY <1>2, <1>3
<1>5. n * p \in Nat
  OBVIOUS
<1>6. QED
  BY <1>4, <1>5

\* The panes are numbered row by row: a number is a column and a row.
LEMMA NumberSplit ==
  ASSUME NEW cols \in Nat \ {0}, NEW rows \in Nat \ {0}, NEW k \in 1 .. rows * cols
  PROVE  /\ (k - 1) % cols \in 0 .. cols - 1
         /\ (k - 1) \div cols \in 0 .. rows - 1
         /\ k - 1 = (cols * ((k - 1) \div cols)) + ((k - 1) % cols)
<1> DEFINE a == k - 1
           q == a \div cols
           r == a % cols
<1>1. rows * cols \in Nat /\ a \in Nat /\ a < rows * cols
  OBVIOUS
<1>2. q \in Nat /\ r \in Nat /\ r < cols /\ a = (cols * q) + r
  <2> HIDE DEF a
  <2>1. QED
    BY <1>1, Division
<1> HIDE DEF a, q, r
<1>3. q < rows
  <2>1. SUFFICES ASSUME ~(q < rows) PROVE FALSE
    OBVIOUS
  <2> DEFINE m == q - rows
  <2>2. m \in Nat /\ q = rows + m
    BY <1>2, <2>1
  <2> HIDE DEF m
  <2>3. cols * q = (rows * cols) + (cols * m) /\ cols * m \in Nat
    BY <2>2
  <2>4. QED
    BY <1>1, <1>2, <2>3
<1>4. QED
  BY <1>2, <1>3 DEF a, q, r

LEMMA NumberOf ==
  ASSUME NEW cols \in Nat \ {0}, NEW rows \in Nat \ {0}, NEW i \in 0 .. cols - 1, NEW j \in 0 .. rows - 1
  PROVE  \E k \in 1 .. rows * cols : (k - 1) % cols = i /\ (k - 1) \div cols = j
<1> DEFINE a == (cols * j) + i
           m == rows - (j + 1)
<1>1. m \in Nat /\ rows = (j + 1) + m
  OBVIOUS
<1> HIDE DEF m
<1>2. rows * cols = (cols * (j + 1)) + (cols * m) /\ cols * m \in Nat
  BY <1>1
<1>3. cols * (j + 1) = (cols * j) + cols /\ cols * j \in Nat
  OBVIOUS
<1>4. rows * cols \in Nat /\ a \in Nat /\ a + 1 \in 1 .. rows * cols
  BY <1>2, <1>3
<1>5. (a + 1) - 1 = a
  BY <1>4
<1>6. a \div cols = j /\ a % cols = i
  <2> DEFINE q == a \div cols
             r == a % cols
  <2> HIDE DEF a
  <2>1. q \in Nat /\ r \in Nat /\ r < cols /\ a = (cols * q) + r
    BY <1>4, Division
  <2>2. a = (cols * j) + i
    BY DEF a
  <2> HIDE DEF q, r
  <2>3. (cols * j) + i = (cols * q) + r /\ r \in 0 .. cols - 1 /\ j \in Nat
    BY <2>1, <2>2
  <2>4. j = q /\ i = r
    BY <2>1, <2>3, DivisionOnce
  <2>5. QED
    BY <2>4 DEF q, r
<1> HIDE DEF a
<1>7. QED
  BY <1>4, <1>5, <1>6

-----------------------------------------------------------------------------
(* Both axes: the panes and the dividers of a canvas with room for its      *)
(* gutters.                                                                *)

Wide(c) == UsableWidth(c.area, c.cols)
High(c) == UsableHeight(c.area, c.rows)

Roomy(c) ==
  /\ c \in Canvases /\ c.cols > 0
  /\ c.area.w >= Gutter * (c.cols - 1) /\ c.area.h >= Gutter * (c.rows - 1)

PaneRect(c, i, j) ==
  Rect(c.area.x + Start(i, Wide(c), c.cols), c.area.y + Start(j, High(c), c.rows),
       Span(i, Wide(c), c.cols), Span(j, High(c), c.rows))
Upright(c, i)  == Rect(c.area.x + (Start(i, Wide(c), c.cols) - Gutter), c.area.y, Gutter, c.area.h)
Level(c, i, j) == Rect(c.area.x + Start(i, Wide(c), c.cols), c.area.y + (Start(j, High(c), c.rows) - Gutter),
                       Span(i, Wide(c), c.cols), Gutter)

LEMMA RoomyTyped ==
  ASSUME NEW c, Roomy(c)
  PROVE  /\ c.cols \in Nat \ {0} /\ c.rows \in Nat \ {0} /\ Gutter \in Nat
         /\ c.area.x \in Nat /\ c.area.y \in Nat /\ c.area.w \in Nat /\ c.area.h \in Nat
         /\ Wide(c) \in Nat /\ c.area.w = Wide(c) + Gutter * (c.cols - 1)
         /\ High(c) \in Nat /\ c.area.h = High(c) + Gutter * (c.rows - 1)
<1>1. c.cols \in Nat \ {0} /\ c.rows \in Nat \ {0} /\ c.area \in Areas /\ Gutter \in Nat
  BY PanesAssumption DEF Roomy, Canvases
<1>2. c.area.x \in Nat /\ c.area.y \in Nat /\ c.area.w \in Nat /\ c.area.h \in Nat
  BY <1>1, PanesAssumption
<1>3. Gutter * (c.cols - 1) \in Nat /\ Gutter * (c.rows - 1) \in Nat
  <2>1. \A n \in Nat \ {0} : Gutter * (n - 1) \in Nat
    BY <1>1
  <2>2. QED
    BY <1>1, <2>1
<1>4. c.area.w >= Gutter * (c.cols - 1) /\ c.area.h >= Gutter * (c.rows - 1)
  BY DEF Roomy
<1> DEFINE u == Gutter * (c.cols - 1)
           v == Gutter * (c.rows - 1)
<1> HIDE DEF u, v
<1>5. Wide(c) = Minus(c.area.w, u) /\ High(c) = Minus(c.area.h, v)
  BY DEF Wide, High, UsableWidth, UsableHeight, u, v
<1>6. u \in Nat /\ v \in Nat /\ c.area.w >= u /\ c.area.h >= v
  BY <1>3, <1>4 DEF u, v
<1>7. Wide(c) = c.area.w - u /\ High(c) = c.area.h - v
  BY <1>2, <1>5, <1>6 DEF Minus
<1>8. Wide(c) \in Nat /\ c.area.w = Wide(c) + u /\ High(c) \in Nat /\ c.area.h = High(c) + v
  BY <1>2, <1>6, <1>7
<1>9. QED
  BY <1>1, <1>2, <1>8 DEF u, v

LEMMA LargerIsIt ==
  ASSUME NEW n \in Nat \ {0}
  PROVE  Larger(n, 1) = n
  BY DEF Larger

LEMMA TileCell ==
  ASSUME NEW c, Roomy(c), NEW k \in 1 .. c.rows * c.cols
  PROVE  Tile(c, c.area)[k] = PaneRect(c, (k - 1) % c.cols, (k - 1) \div c.cols)
<1> DEFINE i == (k - 1) % c.cols
           j == (k - 1) \div c.cols
<1>1. c.cols \in Nat \ {0} /\ c.rows \in Nat \ {0} /\ Gutter \in Nat /\ c.area.x \in Nat /\ c.area.y \in Nat
      /\ Wide(c) \in Nat /\ High(c) \in Nat
  BY RoomyTyped
<1>2. Larger(c.cols, 1) = c.cols /\ Larger(c.rows, 1) = c.rows
  BY <1>1, LargerIsIt
<1>3. Tile(c, c.area)[k] =
        Rect(c.area.x + Edge(i, Wide(c), c.cols) + Gutter * i, c.area.y + Edge(j, High(c), c.rows) + Gutter * j,
             Span(i, Wide(c), c.cols), Span(j, High(c), c.rows))
  BY <1>2 DEF Tile, Wide, High
<1>4. i \in Nat /\ j \in Nat
  <2>1. i \in 0 .. c.cols - 1 /\ j \in 0 .. c.rows - 1
    BY <1>1, NumberSplit
  <2>2. QED
    BY <2>1
<1> HIDE DEF i, j
<1>5. Edge(i, Wide(c), c.cols) \in Nat
  BY <1>1, <1>4, EdgeTyped
<1>6. Edge(j, High(c), c.rows) \in Nat
  BY <1>1, <1>4, EdgeTyped
<1>7. Gutter * i \in Nat /\ Gutter * j \in Nat
  BY <1>1, <1>4
<1>8. c.area.x + Edge(i, Wide(c), c.cols) + Gutter * i = c.area.x + Start(i, Wide(c), c.cols)
  BY <1>1, <1>5, <1>7 DEF Start
<1>9. c.area.y + Edge(j, High(c), c.rows) + Gutter * j = c.area.y + Start(j, High(c), c.rows)
  BY <1>1, <1>6, <1>7 DEF Start
<1>10. QED
  BY <1>3, <1>8, <1>9 DEF PaneRect, i, j

\* What is inside the rectangles of a canvas, on its two axes.
LEMMA InsideParts ==
  ASSUME NEW c, Roomy(c), NEW u \in Nat, NEW v \in Nat, v < c.area.h
  PROVE  LET p == <<c.area.x + u, c.area.y + v>> IN
         /\ \A i, j \in Nat : Inside(p, PaneRect(c, i, j)) <=>
              InCell(u, i, Wide(c), c.cols) /\ InCell(v, j, High(c), c.rows)
         /\ \A i \in Nat : Inside(p, Upright(c, i)) <=> InGap(u, i, Wide(c), c.cols)
         /\ \A i, j \in Nat : Inside(p, Level(c, i, j)) <=>
              InCell(u, i, Wide(c), c.cols) /\ InGap(v, j, High(c), c.rows)
<1> DEFINE p == <<c.area.x + u, c.area.y + v>>
           s(i) == Start(i, Wide(c), c.cols)
           t(j) == Start(j, High(c), c.rows)
           m(i) == Span(i, Wide(c), c.cols)
           n(j) == Span(j, High(c), c.rows)
<1>1. /\ c.cols \in Nat \ {0} /\ c.rows \in Nat \ {0} /\ Gutter \in Nat
      /\ c.area.x \in Nat /\ c.area.y \in Nat /\ c.area.w \in Nat /\ c.area.h \in Nat
      /\ Wide(c) \in Nat /\ High(c) \in Nat
  BY RoomyTyped
<1>2. \A i \in Nat : s(i) \in Nat /\ m(i) \in Nat
  BY <1>1, StartTyped
<1>3. \A j \in Nat : t(j) \in Nat /\ n(j) \in Nat
  BY <1>1, StartTyped
<1>4. ASSUME NEW i \in Nat, NEW j \in Nat
      PROVE  Inside(p, PaneRect(c, i, j)) <=>
               InCell(u, i, Wide(c), c.cols) /\ InCell(v, j, High(c), c.rows)
  <2>1. s(i) \in Int /\ t(j) \in Int /\ m(i) \in Nat /\ n(j) \in Nat
    BY <1>2, <1>3
  <2>2. PaneRect(c, i, j) = Rect(c.area.x + s(i), c.area.y + t(j), m(i), n(j))
    BY DEF PaneRect
  <2>3. InCell(u, i, Wide(c), c.cols) <=> s(i) <= u /\ u < s(i) + m(i)
    BY DEF InCell
  <2>4. InCell(v, j, High(c), c.rows) <=> t(j) <= v /\ v < t(j) + n(j)
    BY DEF InCell
  <2> HIDE DEF s, t, m, n
  <2>5. Inside(<<c.area.x + u, c.area.y + v>>, Rect(c.area.x + s(i), c.area.y + t(j), m(i), n(j))) <=>
          s(i) <= u /\ u < s(i) + m(i) /\ t(j) <= v /\ v < t(j) + n(j)
    BY <1>1, <2>1 DEF Inside, Rect
  <2>6. QED
    BY <2>2, <2>3, <2>4, <2>5
<1>5. ASSUME NEW i \in Nat
      PROVE  Inside(p, Upright(c, i)) <=> InGap(u, i, Wide(c), c.cols)
  <2>1. s(i) - Gutter \in Int /\ s(i) \in Nat
    BY <1>1, <1>2
  <2>2. Upright(c, i) = Rect(c.area.x + (s(i) - Gutter), c.area.y + 0, Gutter, c.area.h)
    <3>1. c.area.y + 0 = c.area.y
      BY <1>1
    <3>2. QED
      BY <3>1 DEF Upright
  <2>3. InGap(u, i, Wide(c), c.cols) <=> s(i) - Gutter <= u /\ u < s(i)
    BY DEF InGap
  <2> HIDE DEF s
  <2>4. Inside(<<c.area.x + u, c.area.y + v>>,
               Rect(c.area.x + (s(i) - Gutter), c.area.y + 0, Gutter, c.area.h)) <=>
          s(i) - Gutter <= u /\ u < (s(i) - Gutter) + Gutter /\ 0 <= v /\ v < 0 + c.area.h
    BY <1>1, <2>1 DEF Inside, Rect
  <2>5. (s(i) - Gutter) + Gutter = s(i) /\ 0 <= v /\ v < 0 + c.area.h
    BY <1>1, <2>1
  <2>6. QED
    BY <2>2, <2>3, <2>4, <2>5
<1>6. ASSUME NEW i \in Nat, NEW j \in Nat
      PROVE  Inside(p, Level(c, i, j)) <=>
               InCell(u, i, Wide(c), c.cols) /\ InGap(v, j, High(c), c.rows)
  <2>1. s(i) \in Int /\ t(j) - Gutter \in Int /\ t(j) \in Nat /\ m(i) \in Nat
    BY <1>1, <1>2, <1>3
  <2>2. Level(c, i, j) = Rect(c.area.x + s(i), c.area.y + (t(j) - Gutter), m(i), Gutter)
    BY DEF Level
  <2>3. InCell(u, i, Wide(c), c.cols) <=> s(i) <= u /\ u < s(i) + m(i)
    BY DEF InCell
  <2>4. InGap(v, j, High(c), c.rows) <=> t(j) - Gutter <= v /\ v < t(j)
    BY DEF InGap
  <2> HIDE DEF s, t, m
  <2>5. Inside(<<c.area.x + u, c.area.y + v>>,
               Rect(c.area.x + s(i), c.area.y + (t(j) - Gutter), m(i), Gutter)) <=>
          s(i) <= u /\ u < s(i) + m(i) /\ t(j) - Gutter <= v /\ v < (t(j) - Gutter) + Gutter
    BY <1>1, <2>1 DEF Inside, Rect
  <2>6. (t(j) - Gutter) + Gutter = t(j)
    BY <1>1, <2>1
  <2>7. QED
    BY <2>2, <2>3, <2>4, <2>5, <2>6
<1> HIDE DEF s, t, m, n
<1>7. QED
  BY <1>4, <1>5, <1>6

\* An axis ends where the area does: its gaps and its cells are inside.
LEMMA AxisEnds ==
  ASSUME NEW total \in Nat, NEW n \in Nat \ {0}, NEW i \in 0 .. n - 1
  PROVE  /\ Start(i, total, n) <= total + Gutter * (n - 1)
         /\ Start(i, total, n) + Span(i, total, n) <= total + Gutter * (n - 1)
         /\ i > 0 => Start(i, total, n) - Gutter \in Nat
<1>0. Gutter \in Nat /\ i \in Nat /\ i + 1 \in Nat /\ n \in Nat
  BY PanesAssumption
<1>1. Start(i, total, n) \in Nat /\ Span(i, total, n) \in Nat /\ Start(i + 1, total, n) \in Nat
      /\ Start(i, total, n) + Span(i, total, n) = Start(i + 1, total, n) - Gutter
  BY <1>0, StartTyped
<1>2. Start(n, total, n) = total + Gutter * n
  BY StartEnds
<1>3. Start(i + 1, total, n) <= Start(n, total, n)
  <2>1. CASE i + 1 = n
    BY <1>1, <2>1
  <2>2. CASE i + 1 < n
    <3>1. Start(i + 1 + 1, total, n) <= Start(n, total, n) /\ Start(i + 1 + 1, total, n) \in Nat
          /\ Start(i + 1, total, n) + Gutter <= Start(i + 1 + 1, total, n)
      <4>1. i + 1 + 1 \in Nat
        OBVIOUS
      <4>2. Start(i + 1 + 1, total, n) <= Start(n, total, n)
        BY <1>0, <2>2, StartRises
      <4>3. Start(i + 1 + 1, total, n) \in Nat
        BY <4>1, StartTyped
      <4>4. Start(i + 1, total, n) + Gutter <= Start(i + 1 + 1, total, n)
        BY <1>0, StartTyped
      <4>5. QED
        BY <4>2, <4>3, <4>4
    <3>2. Start(n, total, n) \in Nat
      BY <1>0, StartTyped
    <3>3. QED
      BY <1>0, <1>1, <3>1, <3>2
  <2>3. QED
    BY <2>1, <2>2
<1>4. Gutter * n = Gutter * (n - 1) + Gutter /\ Gutter * (n - 1) \in Nat
  <2>1. n - 1 \in Nat /\ n = (n - 1) + 1
    OBVIOUS
  <2>2. Gutter * (n - 1) \in Nat
    BY <1>0, <2>1
  <2>3. Gutter * n = Gutter * (n - 1) + Gutter
    BY <1>0, <2>1
  <2>4. QED
    BY <2>2, <2>3
<1> DEFINE s == Start(i, total, n)
           e == Start(i + 1, total, n)
           g == Gutter * (n - 1)
           w == Span(i, total, n)
<1>5. e <= total + (g + Gutter) /\ s + w = e - Gutter /\ g \in Nat /\ e \in Nat /\ s \in Nat /\ w \in Nat
  BY <1>1, <1>2, <1>3, <1>4
<1> HIDE DEF s, e, g, w
<1>6. s + w <= total + g /\ s <= total + g
  BY <1>0, <1>5
<1>7. i > 0 => s - Gutter \in Nat
  <2>1. SUFFICES ASSUME i > 0 PROVE s - Gutter \in Nat
    OBVIOUS
  <2>2. i - 1 \in Nat /\ (i - 1) + 1 = i
    BY <2>1
  <2>3. Start(i - 1, total, n) \in Nat /\ Start(i - 1, total, n) + Gutter <= s
    BY <2>2, StartTyped DEF s
  <2>4. QED
    BY <1>0, <1>5, <2>3
<1>8. QED
  BY <1>6, <1>7 DEF s, e, g, w

\* What ends before the area does is not clipped.
LEMMA AxisUnclipped ==
  ASSUME NEW x \in Nat, NEW w \in Nat, NEW end \in Nat, x + w <= end
  PROVE  Smaller(x + w, end) = x + w /\ Smaller(x, x + w) = x /\ Minus(x + w, x) = w
  BY DEF Smaller, Minus

\* The gap before a cell is what its edge leaves.
LEMMA GapStart ==
  ASSUME NEW total \in Nat, NEW n \in Nat \ {0}, NEW i \in Nat \ {0}
  PROVE  /\ Edge(i, total, n) \in Nat /\ Gutter * (i - 1) \in Nat
         /\ Start(i, total, n) = Edge(i, total, n) + (Gutter * (i - 1) + Gutter)
<1>1. Edge(i, total, n) \in Nat
  BY EdgeTyped
<1>2. Gutter \in Nat /\ i - 1 \in Nat /\ i = (i - 1) + 1
  BY PanesAssumption
<1>3. Gutter * (i - 1) \in Nat /\ Gutter * i = Gutter * (i - 1) + Gutter
  BY <1>2
<1>4. QED
  BY <1>1, <1>3 DEF Start

Uprights(c) == {Upright(c, i) : i \in 1 .. c.cols - 1}
Levels(c)   == {Level(c, i, j) : i \in 0 .. c.cols - 1, j \in 1 .. c.rows - 1}

\* No divider is clipped, and the ones without a pixel are the ones left out.
LEMMA DividersAre ==
  ASSUME NEW c, Roomy(c)
  PROVE  Dividers(c, c.area) = {d \in Uprights(c) \union Levels(c) : d.w > 0 /\ d.h > 0}
<1>1. /\ c.cols \in Nat \ {0} /\ c.rows \in Nat \ {0} /\ Gutter \in Nat /\ c.area \in Areas
      /\ c.area.x \in Nat /\ c.area.y \in Nat /\ c.area.w \in Nat /\ c.area.h \in Nat
      /\ Wide(c) \in Nat /\ c.area.w = Wide(c) + Gutter * (c.cols - 1)
      /\ High(c) \in Nat /\ c.area.h = High(c) + Gutter * (c.rows - 1)
  BY RoomyTyped DEF Roomy, Canvases
<1>2. Larger(c.cols, 1) = c.cols /\ Larger(c.rows, 1) = c.rows
  BY <1>1, LargerIsIt
<1> DEFINE RawUpright(i)  == Rect(c.area.x + Edge(i, Wide(c), c.cols) + Gutter * (i - 1), c.area.y, Gutter, c.area.h)
           RawLevel(i, j) == Rect(c.area.x + Edge(i, Wide(c), c.cols) + Gutter * i,
                                  c.area.y + Edge(j, High(c), c.rows) + Gutter * (j - 1),
                                  Span(i, Wide(c), c.cols), Gutter)
           ups  == {RawUpright(i) : i \in 1 .. c.cols - 1}
           lows == {RawLevel(i, j) : i \in 0 .. c.cols - 1, j \in 1 .. c.rows - 1}
<1>3. Dividers(c, c.area) = {d \in {Clip(r, c.area) : r \in ups \union lows} : d.w > 0 /\ d.h > 0}
  BY <1>2 DEF Dividers, Wide, High
<1>4. ASSUME NEW i \in 1 .. c.cols - 1
      PROVE  RawUpright(i) = Upright(c, i) /\ Clip(RawUpright(i), c.area) = Upright(c, i)
  <2>1. c.area.x + Edge(i, Wide(c), c.cols) + Gutter * (i - 1) = c.area.x + (Start(i, Wide(c), c.cols) - Gutter)
    <3>1. i \in Nat \ {0}
      BY <1>1
    <3>2. /\ Edge(i, Wide(c), c.cols) \in Nat /\ Gutter * (i - 1) \in Nat
          /\ Start(i, Wide(c), c.cols) = Edge(i, Wide(c), c.cols) + (Gutter * (i - 1) + Gutter)
      BY <1>1, <3>1, GapStart
    <3>3. QED
      BY <1>1, <3>2
  <2>2. RawUpright(i) = Upright(c, i)
    BY <2>1 DEF Upright
  <2> DEFINE a == Start(i, Wide(c), c.cols) - Gutter
  <2>3. i \in 0 .. c.cols - 1 /\ i > 0 /\ i \in Nat
    BY <1>1
  <2>4. Start(i, Wide(c), c.cols) <= c.area.w
    BY <1>1, <2>3, AxisEnds
  <2>5. a \in Nat
    BY <1>1, <2>3, AxisEnds
  <2>6. Start(i, Wide(c), c.cols) \in Nat
    BY <1>1, <2>3, StartTyped
  <2>7. a + Gutter <= c.area.w
    BY <1>1, <2>4, <2>6
  <2> DEFINE x == c.area.x + a
  <2>8. Upright(c, i) = Rect(x, c.area.y, Gutter, c.area.h)
    BY DEF Upright
  <2> HIDE DEF a
  <2>9. x \in Nat /\ x + Gutter <= c.area.x + c.area.w /\ c.area.y + c.area.h <= c.area.y + c.area.h
    BY <1>1, <2>5, <2>7
  <2> HIDE DEF x
  <2>10. Clip(Rect(x, c.area.y, Gutter, c.area.h), c.area) = Rect(x, c.area.y, Gutter, c.area.h)
    <3>1. /\ Smaller(x + Gutter, c.area.x + c.area.w) = x + Gutter
          /\ Smaller(x, x + Gutter) = x /\ Minus(x + Gutter, x) = Gutter
      BY <1>1, <2>9, AxisUnclipped
    <3>2. /\ Smaller(c.area.y + c.area.h, c.area.y + c.area.h) = c.area.y + c.area.h
          /\ Smaller(c.area.y, c.area.y + c.area.h) = c.area.y /\ Minus(c.area.y + c.area.h, c.area.y) = c.area.h
      BY <1>1, <2>9, AxisUnclipped
    <3>3. QED
      BY <3>1, <3>2 DEF Clip, Rect
  <2>11. Clip(Upright(c, i), c.area) = Upright(c, i)
    BY <2>8, <2>10
  <2>12. QED
    BY <2>2, <2>11
<1>5. ASSUME NEW i \in 0 .. c.cols - 1, NEW j \in 1 .. c.rows - 1
      PROVE  RawLevel(i, j) = Level(c, i, j) /\ Clip(RawLevel(i, j), c.area) = Level(c, i, j)
  <2>1. c.area.x + Edge(i, Wide(c), c.cols) + Gutter * i = c.area.x + Start(i, Wide(c), c.cols)
    <3>1. i \in Nat /\ Gutter * i \in Nat
      BY <1>1
    <3>2. Edge(i, Wide(c), c.cols) \in Nat
      BY <1>1, <3>1, EdgeTyped
    <3>3. QED
      BY <1>1, <3>1, <3>2 DEF Start
  <2>2. c.area.y + Edge(j, High(c), c.rows) + Gutter * (j - 1) = c.area.y + (Start(j, High(c), c.rows) - Gutter)
    <3>1. j \in Nat \ {0}
      BY <1>1
    <3>2. /\ Edge(j, High(c), c.rows) \in Nat /\ Gutter * (j - 1) \in Nat
          /\ Start(j, High(c), c.rows) = Edge(j, High(c), c.rows) + (Gutter * (j - 1) + Gutter)
      BY <1>1, <3>1, GapStart
    <3>3. QED
      BY <1>1, <3>2
  <2>3. RawLevel(i, j) = Level(c, i, j)
    BY <2>1, <2>2 DEF Level
  <2> DEFINE a == Start(i, Wide(c), c.cols)
             b == Start(j, High(c), c.rows) - Gutter
             w == Span(i, Wide(c), c.cols)
  <2>4. i \in Nat /\ j \in 0 .. c.rows - 1 /\ j > 0 /\ j \in Nat
    BY <1>1
  <2>5. a \in Nat /\ w \in Nat
    BY <1>1, <2>4, StartTyped
  <2>6. a + w <= c.area.w
    BY <1>1, AxisEnds
  <2>7. Start(j, High(c), c.rows) <= c.area.h
    BY <1>1, <2>4, AxisEnds
  <2>8. b \in Nat
    BY <1>1, <2>4, AxisEnds
  <2>9. Start(j, High(c), c.rows) \in Nat
    BY <1>1, <2>4, StartTyped
  <2>10. b + Gutter <= c.area.h
    BY <1>1, <2>7, <2>9
  <2> DEFINE x == c.area.x + a
             y == c.area.y + b
  <2>11. Level(c, i, j) = Rect(x, y, w, Gutter)
    BY DEF Level
  <2> HIDE DEF a, b, w
  <2>12. x \in Nat /\ y \in Nat /\ x + w <= c.area.x + c.area.w /\ y + Gutter <= c.area.y + c.area.h
    BY <1>1, <2>5, <2>6, <2>8, <2>10
  <2> HIDE DEF x, y
  <2>13. Clip(Rect(x, y, w, Gutter), c.area) = Rect(x, y, w, Gutter)
    <3>1. /\ Smaller(x + w, c.area.x + c.area.w) = x + w
          /\ Smaller(x, x + w) = x /\ Minus(x + w, x) = w
      BY <1>1, <2>5, <2>12, AxisUnclipped
    <3>2. /\ Smaller(y + Gutter, c.area.y + c.area.h) = y + Gutter
          /\ Smaller(y, y + Gutter) = y /\ Minus(y + Gutter, y) = Gutter
      BY <1>1, <2>12, AxisUnclipped
    <3>3. QED
      BY <3>1, <3>2 DEF Clip, Rect
  <2>14. Clip(Level(c, i, j), c.area) = Level(c, i, j)
    BY <2>11, <2>13
  <2>15. QED
    BY <2>3, <2>14
<1>6. ups = Uprights(c) /\ lows = Levels(c)
  <2>1. ups = Uprights(c)
    BY <1>4 DEF Uprights
  <2>2. lows = Levels(c)
    BY <1>5 DEF Levels
  <2>3. QED
    BY <2>1, <2>2
<1>7. \A r \in ups \union lows : Clip(r, c.area) = r
  <2>1. \A r \in ups : Clip(r, c.area) = r
    BY <1>4
  <2>2. \A r \in lows : Clip(r, c.area) = r
    BY <1>5
  <2>3. QED
    BY <2>1, <2>2
<1> HIDE DEF ups, lows
<1>8. {Clip(r, c.area) : r \in ups \union lows} = ups \union lows
  BY <1>7
<1>9. QED
  BY <1>3, <1>6, <1>8

Under(c, p)   == {d \in Dividers(c, c.area) : Inside(p, d)}
Holding(c, p) == {k \in 1 .. c.rows * c.cols : Inside(p, Tile(c, c.area)[k])}

\* A pixel has a place in both axes: in a cell or in a gap.
LEMMA Places ==
  ASSUME NEW c, Roomy(c), NEW u \in 0 .. c.area.w - 1, NEW v \in 0 .. c.area.h - 1
  PROVE  /\ \/ \E i \in 0 .. c.cols - 1 : InCell(u, i, Wide(c), c.cols)
            \/ \E i \in 1 .. c.cols - 1 : InGap(u, i, Wide(c), c.cols)
         /\ \/ \E j \in 0 .. c.rows - 1 : InCell(v, j, High(c), c.rows)
            \/ \E j \in 1 .. c.rows - 1 : InGap(v, j, High(c), c.rows)
<1>1. /\ c.cols \in Nat \ {0} /\ c.rows \in Nat \ {0}
      /\ c.area.w \in Nat /\ c.area.h \in Nat
      /\ Wide(c) \in Nat /\ c.area.w = Wide(c) + Gutter * (c.cols - 1)
      /\ High(c) \in Nat /\ c.area.h = High(c) + Gutter * (c.rows - 1)
  BY RoomyTyped
<1>2. u \in Nat /\ u < Wide(c) + Gutter * (c.cols - 1)
  BY <1>1
<1>3. v \in Nat /\ v < High(c) + Gutter * (c.rows - 1)
  BY <1>1
<1>4. \/ \E i \in 0 .. c.cols - 1 : InCell(u, i, Wide(c), c.cols)
      \/ \E i \in 1 .. c.cols - 1 : InGap(u, i, Wide(c), c.cols)
  BY <1>1, <1>2, AxisCovers
<1>5. \/ \E j \in 0 .. c.rows - 1 : InCell(v, j, High(c), c.rows)
      \/ \E j \in 1 .. c.rows - 1 : InGap(v, j, High(c), c.rows)
  BY <1>1, <1>3, AxisCovers
<1>6. QED
  BY <1>4, <1>5

\* The panes a pixel is in, by its place in the axes.
LEMMA HoldingIs ==
  ASSUME NEW c, Roomy(c), NEW u \in Nat, NEW v \in Nat, v < c.area.h, NEW k \in 1 .. c.rows * c.cols
  PROVE  k \in Holding(c, <<c.area.x + u, c.area.y + v>>) <=>
           /\ InCell(u, (k - 1) % c.cols, Wide(c), c.cols)
           /\ InCell(v, (k - 1) \div c.cols, High(c), c.rows)
<1> DEFINE i == (k - 1) % c.cols
           j == (k - 1) \div c.cols
           p == <<c.area.x + u, c.area.y + v>>
<1>1. i \in Nat /\ j \in Nat
  <2>1. c.cols \in Nat \ {0} /\ c.rows \in Nat \ {0}
    BY RoomyTyped
  <2>2. i \in 0 .. c.cols - 1 /\ j \in 0 .. c.rows - 1
    BY <2>1, NumberSplit
  <2>3. QED
    BY <2>2
<1>2. Tile(c, c.area)[k] = PaneRect(c, i, j)
  BY TileCell
<1> HIDE DEF i, j
<1>3. Inside(p, PaneRect(c, i, j)) <=> InCell(u, i, Wide(c), c.cols) /\ InCell(v, j, High(c), c.rows)
  BY <1>1, InsideParts
<1>4. k \in Holding(c, p) <=> Inside(p, PaneRect(c, i, j))
  BY <1>2 DEF Holding
<1>5. QED
  BY <1>3, <1>4 DEF i, j

\* The dividers a pixel is in, by its place in the axes.
LEMMA UnderIs ==
  ASSUME NEW c, Roomy(c), NEW u \in Nat, NEW v \in Nat, v < c.area.h
  PROVE  Under(c, <<c.area.x + u, c.area.y + v>>) =
           {d \in Uprights(c) \union Levels(c) : Inside(<<c.area.x + u, c.area.y + v>>, d)}
<1> DEFINE p == <<c.area.x + u, c.area.y + v>>
<1>1. /\ c.cols \in Nat \ {0} /\ c.rows \in Nat \ {0} /\ Gutter \in Nat
      /\ c.area.x \in Nat /\ c.area.y \in Nat /\ c.area.h \in Nat
      /\ Wide(c) \in Nat /\ High(c) \in Nat
  BY RoomyTyped
<1>2. ASSUME NEW x \in Nat, NEW y \in Nat, NEW a \in Int, NEW b \in Int, NEW w \in Nat, NEW h \in Nat,
             Inside(<<x, y>>, Rect(a, b, w, h))
      PROVE  w > 0 /\ h > 0
  BY <1>2 DEF Inside, Rect
<1>3. c.area.x + u \in Nat /\ c.area.y + v \in Nat
  BY <1>1
<1>4. ASSUME NEW i \in 1 .. c.cols - 1, Inside(p, Upright(c, i))
      PROVE  Upright(c, i).w > 0 /\ Upright(c, i).h > 0
  <2>1. i \in Nat
    BY <1>1
  <2>2. Start(i, Wide(c), c.cols) \in Nat
    BY <1>1, <2>1, StartTyped
  <2>3. c.area.x + (Start(i, Wide(c), c.cols) - Gutter) \in Int
    BY <1>1, <2>2
  <2>4. Gutter > 0 /\ c.area.h > 0
    <3>1. c.area.y \in Int
      BY <1>1
    <3>2. Inside(<<c.area.x + u, c.area.y + v>>,
                 Rect(c.area.x + (Start(i, Wide(c), c.cols) - Gutter), c.area.y, Gutter, c.area.h))
      BY <1>4 DEF Upright
    <3>3. QED
      BY <1>1, <1>2, <1>3, <2>3, <3>1, <3>2
  <2>5. QED
    BY <2>4 DEF Upright, Rect
<1>5. ASSUME NEW i \in 0 .. c.cols - 1, NEW j \in 1 .. c.rows - 1, Inside(p, Level(c, i, j))
      PROVE  Level(c, i, j).w > 0 /\ Level(c, i, j).h > 0
  <2>1. i \in Nat /\ j \in Nat
    BY <1>1
  <2>2. Start(i, Wide(c), c.cols) \in Nat /\ Span(i, Wide(c), c.cols) \in Nat
    BY <1>1, <2>1, StartTyped
  <2>3. Start(j, High(c), c.rows) \in Nat
    BY <1>1, <2>1, StartTyped
  <2>4. c.area.x + Start(i, Wide(c), c.cols) \in Int /\ c.area.y + (Start(j, High(c), c.rows) - Gutter) \in Int
    BY <1>1, <2>2, <2>3
  <2>5. Span(i, Wide(c), c.cols) > 0 /\ Gutter > 0
    BY <1>1, <1>2, <1>3, <1>5, <2>2, <2>4 DEF Level
  <2>6. QED
    BY <2>5 DEF Level, Rect
<1>6. ASSUME NEW d \in Uprights(c) \union Levels(c), Inside(p, d) PROVE d.w > 0 /\ d.h > 0
  <2>1. CASE d \in Uprights(c)
    BY <1>4, <1>6, <2>1 DEF Uprights
  <2>2. CASE d \in Levels(c)
    BY <1>5, <1>6, <2>2 DEF Levels
  <2>3. QED
    BY <2>1, <2>2
<1>7. Dividers(c, c.area) = {d \in Uprights(c) \union Levels(c) : d.w > 0 /\ d.h > 0}
  BY DividersAre
<1>8. Under(c, p) = {d \in Dividers(c, c.area) : Inside(p, d)}
  BY DEF Under
<1> HIDE DEF p
<1>9. Under(c, p) = {d \in Uprights(c) \union Levels(c) : Inside(p, d)}
  BY <1>6, <1>7, <1>8
<1>10. QED
  BY <1>9 DEF p

\* A pixel of the area is in one divider and no pane, or in one pane and no divider.
LEMMA PixelOnce ==
  ASSUME NEW c, Roomy(c), NEW u \in 0 .. c.area.w - 1, NEW v \in 0 .. c.area.h - 1
  PROVE  LET p == <<c.area.x + u, c.area.y + v>> IN
         \/ Holding(c, p) = {} /\ \E d : Under(c, p) = {d}
         \/ Under(c, p) = {} /\ \E k : Holding(c, p) = {k}
<1> DEFINE p == <<c.area.x + u, c.area.y + v>>
           uc(i) == InCell(u, i, Wide(c), c.cols)
           ug(i) == InGap(u, i, Wide(c), c.cols)
           vc(j) == InCell(v, j, High(c), c.rows)
           vg(j) == InGap(v, j, High(c), c.rows)
<1>1. /\ c.cols \in Nat \ {0} /\ c.rows \in Nat \ {0}
      /\ c.area.w \in Nat /\ c.area.h \in Nat
      /\ Wide(c) \in Nat /\ High(c) \in Nat
  BY RoomyTyped
<1>2. u \in Nat /\ v \in Nat /\ v < c.area.h
  BY <1>1
<1>3. \A i, l \in Nat : (uc(i) /\ uc(l) => i = l) /\ ~(l > 0 /\ uc(i) /\ ug(l))
                        /\ (i > 0 /\ l > 0 /\ ug(i) /\ ug(l) => i = l)
  BY <1>1, <1>2, AxisOnce
<1>4. \A j, l \in Nat : (vc(j) /\ vc(l) => j = l) /\ ~(l > 0 /\ vc(j) /\ vg(l))
                        /\ (j > 0 /\ l > 0 /\ vg(j) /\ vg(l) => j = l)
  BY <1>1, <1>2, AxisOnce
<1>5. \A i \in Nat : Inside(p, Upright(c, i)) <=> ug(i)
  BY <1>2, InsideParts
<1>6. \A i, j \in Nat : Inside(p, Level(c, i, j)) <=> uc(i) /\ vg(j)
  BY <1>2, InsideParts
<1>7. \A k \in 1 .. c.rows * c.cols : k \in Holding(c, p) <=> uc((k - 1) % c.cols) /\ vc((k - 1) \div c.cols)
  BY <1>2, HoldingIs
<1>8. \A k \in 1 .. c.rows * c.cols : (k - 1) % c.cols \in Nat /\ (k - 1) \div c.cols \in Nat
  <2>1. SUFFICES ASSUME NEW k \in 1 .. c.rows * c.cols
                 PROVE  (k - 1) % c.cols \in Nat /\ (k - 1) \div c.cols \in Nat
    OBVIOUS
  <2>2. (k - 1) % c.cols \in 0 .. c.cols - 1 /\ (k - 1) \div c.cols \in 0 .. c.rows - 1
    BY <1>1, NumberSplit
  <2>3. QED
    BY <2>2
<1>9. Under(c, p) = {d \in Uprights(c) \union Levels(c) : Inside(p, d)}
  BY <1>2, UnderIs
<1>10. Holding(c, p) \subseteq 1 .. c.rows * c.cols
  BY DEF Holding
<1>11. /\ (\E i \in 0 .. c.cols - 1 : uc(i)) \/ (\E i \in 1 .. c.cols - 1 : ug(i))
       /\ (\E j \in 0 .. c.rows - 1 : vc(j)) \/ (\E j \in 1 .. c.rows - 1 : vg(j))
  BY Places
<1>12. /\ \A i \in 0 .. c.cols - 1 : i \in Nat
       /\ \A i \in 1 .. c.cols - 1 : i \in Nat /\ i > 0
       /\ \A j \in 0 .. c.rows - 1 : j \in Nat
       /\ \A j \in 1 .. c.rows - 1 : j \in Nat /\ j > 0
  BY <1>1
<1> HIDE DEF uc, ug, vc, vg, p
<1>13. ASSUME NEW i \in 1 .. c.cols - 1, ug(i)
       PROVE  Holding(c, p) = {} /\ Under(c, p) = {Upright(c, i)}
  <2>1. i \in Nat /\ i > 0
    BY <1>12
  <2>2. \A l \in Nat : ~uc(l)
    BY <1>3, <1>13, <2>1
  <2>3. \A l \in 1 .. c.cols - 1 : ug(l) => l = i
    BY <1>3, <1>12, <1>13, <2>1
  <2>4. Holding(c, p) = {}
    BY <1>7, <1>8, <1>10, <2>2
  <2>5. Upright(c, i) \in Under(c, p)
    BY <1>5, <1>9, <1>13, <2>1 DEF Uprights
  <2>6. ASSUME NEW d \in Under(c, p) PROVE d = Upright(c, i)
    <3>1. CASE d \in Uprights(c)
      <4>1. PICK l \in 1 .. c.cols - 1 : d = Upright(c, l)
        BY <3>1 DEF Uprights
      <4>2. ug(l)
        BY <1>5, <1>9, <1>12, <4>1
      <4>3. QED
        BY <2>3, <4>1, <4>2
    <3>2. CASE d \in Levels(c)
      <4>1. PICK l \in 0 .. c.cols - 1, j \in 1 .. c.rows - 1 : d = Level(c, l, j)
        BY <3>2 DEF Levels
      <4>2. uc(l)
        BY <1>6, <1>9, <1>12, <4>1
      <4>3. QED
        BY <1>12, <2>2, <4>2
    <3>3. QED
      BY <1>9, <3>1, <3>2
  <2>7. QED
    BY <2>4, <2>5, <2>6
<1>14. ASSUME NEW i \in 0 .. c.cols - 1, uc(i), NEW j \in 1 .. c.rows - 1, vg(j)
       PROVE  Holding(c, p) = {} /\ Under(c, p) = {Level(c, i, j)}
  <2>1. i \in Nat /\ j \in Nat /\ j > 0
    BY <1>12
  <2>2. \A l \in Nat : ~vc(l)
    BY <1>4, <1>14, <2>1
  <2>3. Holding(c, p) = {}
    BY <1>7, <1>8, <1>10, <2>2
  <2>4. Level(c, i, j) \in Under(c, p)
    BY <1>6, <1>9, <1>14, <2>1 DEF Levels
  <2>5. ASSUME NEW d \in Under(c, p) PROVE d = Level(c, i, j)
    <3>1. CASE d \in Uprights(c)
      <4>1. PICK l \in 1 .. c.cols - 1 : d = Upright(c, l)
        BY <3>1 DEF Uprights
      <4>2. ug(l) /\ l \in Nat /\ l > 0
        BY <1>5, <1>9, <1>12, <4>1
      <4>3. QED
        BY <1>3, <1>14, <2>1, <4>2
    <3>2. CASE d \in Levels(c)
      <4>1. PICK l \in 0 .. c.cols - 1, m \in 1 .. c.rows - 1 : d = Level(c, l, m)
        BY <3>2 DEF Levels
      <4>2. uc(l) /\ vg(m) /\ l \in Nat /\ m \in Nat /\ m > 0
        BY <1>6, <1>9, <1>12, <4>1
      <4>3. l = i /\ m = j
        BY <1>3, <1>4, <1>14, <2>1, <4>2
      <4>4. QED
        BY <4>1, <4>3
    <3>3. QED
      BY <1>9, <3>1, <3>2
  <2>6. QED
    BY <2>3, <2>4, <2>5
<1>15. ASSUME NEW i \in 0 .. c.cols - 1, uc(i), NEW j \in 0 .. c.rows - 1, vc(j)
       PROVE  Under(c, p) = {} /\ \E k : Holding(c, p) = {k}
  <2>1. i \in Nat /\ j \in Nat
    BY <1>12
  <2>2. ASSUME NEW d \in Under(c, p) PROVE FALSE
    <3>1. CASE d \in Uprights(c)
      <4>1. PICK l \in 1 .. c.cols - 1 : d = Upright(c, l)
        BY <3>1 DEF Uprights
      <4>2. ug(l) /\ l \in Nat /\ l > 0
        BY <1>5, <1>9, <1>12, <4>1
      <4>3. QED
        BY <1>3, <1>15, <2>1, <4>2
    <3>2. CASE d \in Levels(c)
      <4>1. PICK l \in 0 .. c.cols - 1, m \in 1 .. c.rows - 1 : d = Level(c, l, m)
        BY <3>2 DEF Levels
      <4>2. vg(m) /\ m \in Nat /\ m > 0
        BY <1>6, <1>9, <1>12, <4>1
      <4>3. QED
        BY <1>4, <1>15, <2>1, <4>2
    <3>3. QED
      BY <1>9, <2>2, <3>1, <3>2
  <2>3. PICK k \in 1 .. c.rows * c.cols : (k - 1) % c.cols = i /\ (k - 1) \div c.cols = j
    <3> DEFINE n == c.cols
               m == c.rows
    <3>1. n \in Nat \ {0} /\ m \in Nat \ {0} /\ i \in 0 .. n - 1 /\ j \in 0 .. m - 1
      BY <1>1
    <3> HIDE DEF n, m
    <3>2. \E k \in 1 .. m * n : (k - 1) % n = i /\ (k - 1) \div n = j
      BY <3>1, NumberOf
    <3>3. QED
      BY <3>2 DEF n, m
  <2>4. k \in Holding(c, p)
    BY <1>7, <1>15, <2>3
  <2>5. ASSUME NEW l \in Holding(c, p) PROVE l = k
    <3> DEFINE a == (l - 1) % c.cols
               b == (l - 1) \div c.cols
    <3>1. l \in 1 .. c.rows * c.cols
      BY <1>10
    <3>2. a \in Nat /\ b \in Nat /\ uc(a) /\ vc(b)
      BY <1>7, <1>8, <3>1
    <3>3. l - 1 = (c.cols * b) + a
      BY <1>1, <3>1, NumberSplit
    <3>4. k - 1 = (c.cols * j) + i
      <4>1. k - 1 = (c.cols * ((k - 1) \div c.cols)) + ((k - 1) % c.cols)
        BY <1>1, NumberSplit
      <4>2. QED
        BY <2>3, <4>1
    <3> HIDE DEF a, b
    <3>5. a = i /\ b = j
      BY <1>3, <1>4, <1>15, <2>1, <3>2
    <3>6. l - 1 = k - 1 /\ l \in Int /\ k \in Int
      BY <3>1, <3>3, <3>4, <3>5
    <3>7. QED
      BY <3>6
  <2>6. Holding(c, p) = {k}
    BY <2>4, <2>5
  <2>7. QED
    BY <2>2, <2>6
<1>16. \/ Holding(c, p) = {} /\ \E d : Under(c, p) = {d}
       \/ Under(c, p) = {} /\ \E k : Holding(c, p) = {k}
  BY <1>11, <1>13, <1>14, <1>15
<1>17. QED
  BY <1>16 DEF p

\* After a layout that succeeded the panes are where the tiling has them.
LEMMA LaidPanes ==
  ASSUME PanesInv, LaidOut
  PROVE  /\ Canvas \in Canvases /\ Canvas.cols > 0
         /\ panes \in Seq(PaneSet) /\ Len(panes) = Canvas.rows * Canvas.cols
         /\ \A k \in 1 .. Len(panes) : panes[k].rect = Tile(Canvas, Canvas.area)[k]
<1>1. Live /\ panes # <<>>
  BY DEF PanesInv, LaidOut
<1>2. panes \in Seq(PaneSet) /\ Canvas \in Canvases /\ Len(panes) = Canvas.rows * Canvas.cols
  BY <1>1 DEF Live, PanesOf, GoodPanes, CellCount
<1>3. Len(panes) # 0
  BY <1>1, <1>2, EmptySeq
<1>4. Canvas.cols \in Nat /\ Canvas.rows \in Nat
  BY <1>2 DEF Canvases
<1>5. Canvas.cols # 0
  BY <1>2, <1>3, <1>4
<1>6. \A k \in 1 .. Len(panes) : panes[k].rect = Tile(Canvas, Canvas.area)[k]
  BY <1>1 DEF Live, Laid, LaidOut, LayoutCalls, Follows
<1>7. QED
  BY <1>2, <1>4, <1>5, <1>6

\* EveryPixelOnce follows from where the panes are.
LEMMA PanesCover == PanesInv => EveryPixelOnce
<1> DEFINE c == Canvas
<1>1. SUFFICES ASSUME PanesInv, LaidOut,
                      c.area.w >= Gutter * (c.cols - 1), c.area.h >= Gutter * (c.rows - 1),
                      NEW p \in (c.area.x .. c.area.x + c.area.w - 1) \X (c.area.y .. c.area.y + c.area.h - 1)
               PROVE  IF \E d \in Dividers(c, c.area) : Inside(p, d)
                      THEN PaneAt(p) = {} /\ Cardinality({d \in Dividers(c, c.area) : Inside(p, d)}) = 1
                      ELSE Cardinality({k \in DOMAIN panes : Inside(p, panes[k].rect)}) = 1
  BY DEF EveryPixelOnce
<1>2. /\ Roomy(c) /\ panes \in Seq(PaneSet) /\ Len(panes) = c.rows * c.cols
      /\ \A k \in 1 .. Len(panes) : panes[k].rect = Tile(c, c.area)[k]
  BY <1>1, LaidPanes DEF Roomy
<1> HIDE DEF c
<1>3. c.area.x \in Nat /\ c.area.y \in Nat /\ c.area.w \in Nat /\ c.area.h \in Nat
  BY <1>2, RoomyTyped
<1> DEFINE u == p[1] - c.area.x
           v == p[2] - c.area.y
<1>4. /\ u \in 0 .. c.area.w - 1 /\ v \in 0 .. c.area.h - 1
      /\ p = <<c.area.x + u, c.area.y + v>>
  BY <1>3
<1> HIDE DEF u, v
<1>5. \/ Holding(c, p) = {} /\ \E d : Under(c, p) = {d}
      \/ Under(c, p) = {} /\ \E k : Holding(c, p) = {k}
  <2> DEFINE q == <<c.area.x + u, c.area.y + v>>
  <2>1. \/ Holding(c, q) = {} /\ \E d : Under(c, q) = {d}
        \/ Under(c, q) = {} /\ \E k : Holding(c, q) = {k}
    BY <1>2, <1>4, PixelOnce
  <2>2. p = q
    BY <1>4
  <2> HIDE DEF q
  <2>3. QED
    BY <2>1, <2>2
<1>6. DOMAIN panes = 1 .. c.rows * c.cols
  BY <1>2
<1>7. {k \in DOMAIN panes : Inside(p, panes[k].rect)} = Holding(c, p)
  BY <1>2, <1>6 DEF Holding
<1>8. {d \in Dividers(c, c.area) : Inside(p, d)} = Under(c, p)
  BY DEF Under
<1>9. PaneAt(p) \subseteq Holding(c, p)
  BY <1>7 DEF PaneAt
<1>10. \A x : Cardinality({x}) = 1
  BY FS_Singleton
<1>11. (\E d \in Dividers(c, c.area) : Inside(p, d)) <=> Under(c, p) # {}
  BY DEF Under
<1>12. CASE Holding(c, p) = {} /\ \E d : Under(c, p) = {d}
  BY <1>8, <1>9, <1>10, <1>11, <1>12
<1>13. CASE Under(c, p) = {} /\ \E k : Holding(c, p) = {k}
  BY <1>7, <1>10, <1>11, <1>13
<1>14. QED
  BY <1>5, <1>12, <1>13

-----------------------------------------------------------------------------
(* Rebuilding the renderer.                                                *)

Renderers == [grid : 1 .. Capacity, font : Nat, palette : Palettes, ligatures : BOOLEAN]

\* A renderer built for a grid the pty was told starts well formed.
LEMMA FreshRendererTyped ==
  ASSUME NEW g \in 1 .. Capacity, NEW size \in Nat
  PROVE  FreshRenderer(g, size) \in Renderers
  BY RebuildAssumption DEF FreshRenderer, Renderers

\* Clamping keeps a size a size, and at least the smallest.
LEMMA ClampedBounds ==
  ASSUME NEW size \in Nat
  PROVE  Clamped(size) \in Nat \ {0}
  BY RebuildAssumption DEF Clamped

\* Some column always fits.
LEMMA FittedPositive ==
  ASSUME NEW w \in Nat, NEW size \in Nat \ {0}
  PROVE  Fitted(w, size) \in Nat \ {0}
  BY DEF Fitted

\* A grid the pty accepts, other than none, is one of the channel's.
LEMMA ToldInCapacity ==
  ASSUME NEW g \in Nat \ {0}, Told(g)
  PROVE  g \in 1 .. Capacity
  BY RebuildAssumption DEF Told

RebuildInv == RebuildTypeOK /\ RebuildsHold

LEMMA RebuildStarts == RebuildInit => RebuildInv
<1>1. SUFFICES ASSUME RebuildInit PROVE RebuildInv
  OBVIOUS
<1>2. CASE SessionInit
  <2>1. PICK g \in Grids \ {0}, size \in Sizes :
          /\ g <= Capacity
          /\ pty = g /\ grid = g /\ fontSize = size /\ renderer = FreshRenderer(g, size)
    BY <1>2 DEF SessionInit
  <2>2. g \in 1 .. Capacity /\ size \in Nat
    BY <2>1, RebuildAssumption
  <2>3. QED
    BY <1>2, <2>1, <2>2, FreshRendererTyped, RebuildAssumption
    DEF SessionInit, RebuildInv, RebuildTypeOK, RebuildsHold, PaletteHolds, CommittedTogether,
        AbiAnswersHold, FreshRenderer, Renderers, NoAnswer
<1>3. CASE AbiInit
  <2>1. PICK g \in Grids \ {0}, size \in Sizes, p \in Palettes, on \in BOOLEAN :
          /\ g <= Capacity
          /\ pty = g /\ grid = g /\ fontSize = size
          /\ palette = p /\ ligatures = on
          /\ renderer = [FreshRenderer(g, size) EXCEPT !.palette = p, !.ligatures = on]
    BY <1>3 DEF AbiInit
  <2>2. g \in 1 .. Capacity /\ size \in Nat
    BY <2>1, RebuildAssumption
  <2>3. renderer \in Renderers /\ renderer.palette = p /\ renderer.ligatures = on
    BY <2>1, <2>2, FreshRendererTyped DEF FreshRenderer, Renderers
  <2>4. QED
    BY <1>3, <2>1, <2>2, <2>3
    DEF AbiInit, RebuildInv, RebuildTypeOK, RebuildsHold, PaletteHolds, CommittedTogether,
        AbiAnswersHold, LigaturesHold, Renderers, NoAnswer
<1>4. QED
  BY <1>1, <1>2, <1>3 DEF RebuildInit

\* A rebuilt renderer: fresh, with the owner's settings put back.
LEMMA RebuiltTyped ==
  ASSUME NEW g \in 1 .. Capacity, NEW size \in Nat, palette \in Palettes, ligatures \in BOOLEAN
  PROVE  LET r == [FreshRenderer(g, size) EXCEPT !.palette = palette, !.ligatures = ligatures]
         IN  /\ r \in Renderers
             /\ r.grid = g /\ r.font = size /\ r.palette = palette /\ r.ligatures = ligatures
  BY FreshRendererTyped DEF FreshRenderer, Renderers

\* The calls of a Session.
LEMMA SessionKeeps ==
  ASSUME RebuildInv, surface = "session", UNCHANGED surface, SessionNext
  PROVE  RebuildInv'
<1> USE DEF RebuildInv, RebuildTypeOK, RebuildsHold, PaletteHolds, CommittedTogether, AbiAnswersHold, Renderers
<1>1. ASSUME NEW p \in Palettes, SetPalette(p) PROVE RebuildInv'
  BY <1>1 DEF SetPalette, NoAnswer
<1>2. ASSUME NEW on \in BOOLEAN, SetLigatures(on) PROVE RebuildInv'
  BY <1>2 DEF SetLigatures, NoAnswer
<1>3. ASSUME NEW g \in Grids, Resize(g) PROVE RebuildInv'
  <2>1. CASE g = grid \/ g = 0 \/ ~Told(g)
    BY <1>3, <2>1, ToldInCapacity DEF Resize, settings, Answer, Told
  <2>2. CASE ~(g = grid \/ g = 0 \/ ~Told(g))
    <3>1. g \in 1 .. Capacity
      BY <2>2, ToldInCapacity, RebuildAssumption
    <3>2. CASE Answer("resize", g, "failed") /\ UNCHANGED <<grid, renderer>>
      BY <1>3, <2>2, <3>1, <3>2 DEF Resize, settings, Answer
    <3>3. CASE /\ renderer' = [FreshRenderer(g, fontSize) EXCEPT !.palette = palette]
               /\ grid' = g /\ Answer("resize", g, "ok")
      <4>1. /\ renderer' \in Renderers /\ renderer'.grid = g
            /\ renderer'.font = fontSize /\ renderer'.palette = palette
        BY <3>1, <3>3, FreshRendererTyped DEF FreshRenderer
      <4>2. QED
        BY <1>3, <2>2, <3>1, <3>3, <4>1 DEF Resize, settings, Answer
    <3>4. QED
      BY <1>3, <2>2, <3>2, <3>3 DEF Resize
  <2>3. QED
    BY <2>1, <2>2
<1>4. ASSUME NEW wanted \in Sizes, NEW width \in Widths, SetFontSize(wanted, width) PROVE RebuildInv'
  <2> DEFINE size == Clamped(wanted)
             g    == Fitted(width, size)
  <2>1. size \in Nat \ {0} /\ g \in Nat \ {0}
    BY ClampedBounds, FittedPositive, RebuildAssumption
  <2>2. Told(g) => g \in 1 .. Capacity
    BY <2>1, ToldInCapacity
  <2> HIDE DEF size, g
  <2>3. CASE UNCHANGED <<pty, grid, fontSize, renderer>> /\ answer'.result # "ok"
    BY <1>4, <2>3 DEF SetFontSize, settings
  <2>4. CASE Told(g) /\ pty' = g /\ fontSize' = size /\ answer'.result # "ok" /\ UNCHANGED <<grid, renderer>>
    BY <1>4, <2>1, <2>2, <2>4 DEF SetFontSize, settings
  <2>5. CASE /\ Told(g) /\ pty' = g /\ fontSize' = size /\ grid' = g
             /\ renderer' = [FreshRenderer(g, size) EXCEPT !.palette = palette, !.ligatures = ligatures]
    <3>1. /\ renderer' \in Renderers
          /\ renderer'.grid = g /\ renderer'.font = size /\ renderer'.palette = palette
      BY <2>1, <2>2, <2>5, RebuiltTyped
    <3>2. QED
      BY <1>4, <2>1, <2>2, <2>5, <3>1 DEF SetFontSize, settings
  <2>6. QED
    BY <1>4, <2>3, <2>4, <2>5 DEF SetFontSize, Answer, size, g
<1>5. QED
  BY <1>1, <1>2, <1>3, <1>4 DEF SessionNext

\* The calls of the C interface.
LEMMA AbiKeeps ==
  ASSUME RebuildInv, surface = "abi", UNCHANGED surface, AbiNext
  PROVE  RebuildInv'
<1> USE DEF RebuildInv, RebuildTypeOK, RebuildsHold, PaletteHolds, CommittedTogether, AbiAnswersHold,
            LigaturesHold, Renderers
<1>1. ASSUME NEW g \in Grids, AbiResize(g) PROVE RebuildInv'
  <2>1. CASE g = 0 \/ ~Told(g)
    BY <1>1, <2>1 DEF AbiResize, settings, Answer
  <2>2. CASE ~(g = 0 \/ ~Told(g))
    <3>1. g \in 1 .. Capacity
      BY <2>2, ToldInCapacity, RebuildAssumption
    <3>2. CASE Answer("resize", g, "failed") /\ UNCHANGED <<grid, renderer>>
      BY <1>1, <2>2, <3>1, <3>2 DEF AbiResize, settings, Answer
    <3>3. CASE renderer' = Rebuilt(g, fontSize) /\ grid' = g /\ Answer("resize", g, "ok")
      <4>1. /\ renderer' \in Renderers /\ renderer'.grid = g /\ renderer'.font = fontSize
            /\ renderer'.palette = palette /\ renderer'.ligatures = ligatures
        BY <3>1, <3>3, RebuiltTyped DEF Rebuilt
      <4>2. QED
        BY <1>1, <2>2, <3>1, <3>3, <4>1 DEF AbiResize, settings, Answer
    <3>4. QED
      BY <1>1, <2>2, <3>2, <3>3 DEF AbiResize
  <2>3. QED
    BY <2>1, <2>2
<1>2. ASSUME NEW size \in Sizes, NEW g \in Grids, AbiSetFontSize(size, g) PROVE RebuildInv'
  <2>1. CASE g = 0 \/ ~Told(g)
    BY <1>2, <2>1 DEF AbiSetFontSize, settings, Answer
  <2>2. CASE ~(g = 0 \/ ~Told(g))
    <3>1. g \in 1 .. Capacity /\ size \in Nat
      BY <2>2, ToldInCapacity, RebuildAssumption
    <3>2. CASE Answer("font", size, "failed") /\ UNCHANGED <<grid, fontSize, renderer>>
      BY <1>2, <2>2, <3>1, <3>2 DEF AbiSetFontSize, settings, Answer
    <3>3. CASE renderer' = Rebuilt(g, size) /\ grid' = g /\ fontSize' = size /\ Answer("font", size, "ok")
      <4>1. /\ renderer' \in Renderers /\ renderer'.grid = g /\ renderer'.font = size
            /\ renderer'.palette = palette /\ renderer'.ligatures = ligatures
        BY <3>1, <3>3, RebuiltTyped DEF Rebuilt
      <4>2. QED
        BY <1>2, <2>2, <3>1, <3>3, <4>1 DEF AbiSetFontSize, settings, Answer
    <3>4. QED
      BY <1>2, <2>2, <3>2, <3>3 DEF AbiSetFontSize
  <2>3. QED
    BY <2>1, <2>2
<1>3. QED
  BY <1>1, <1>2 DEF AbiNext

LEMMA RebuildKeeps == RebuildInv /\ [RebuildNext]_rvars => RebuildInv'
<1>1. CASE UNCHANGED rvars
  BY <1>1 DEF rvars, RebuildInv, RebuildTypeOK, RebuildsHold, PaletteHolds, CommittedTogether,
              AbiAnswersHold, LigaturesHold
<1>2. CASE RebuildNext
  BY <1>2, SessionKeeps, AbiKeeps DEF RebuildNext
<1>3. QED
  BY <1>1, <1>2

\* The theme outlives every rebuild, a rebuild that succeeds is in force everywhere,
\* and the C interface's answers can be believed, whatever failed before
\* (Session::resize, Session::set_font_size, mind2t_host_resize, mind2t_host_set_font_size).
THEOREM RebuildsAlwaysHold == OwnerSpec => []RebuildsHold
<1>1. OwnerInit => RebuildInv
  BY RebuildStarts DEF OwnerInit
<1>2. RebuildInv /\ [OwnerNext]_ovars => RebuildInv'
  <2>1. [OwnerNext]_ovars => [RebuildNext]_rvars
    BY DEF OwnerNext, ovars
  <2>2. QED
    BY <2>1, RebuildKeeps
<1>3. RebuildInv => RebuildsHold
  BY DEF RebuildInv
<1>4. QED
  BY <1>1, <1>2, <1>3, PTL DEF OwnerSpec

-----------------------------------------------------------------------------
(* Ending a host.                                                          *)

\* Why a pump that left its loop may: it saw the pty closed, or it was told to
\* stop, which comes after the child was reaped or given up.
StopComesLate ==
  /\ stop => owner \in {"join", "returned"}
  /\ owner \in {"stop", "join", "returned"} => child = "reaped" \/ gaveUp
DoneForAReason == pump = "done" => stop \/ child \in {"gone", "reaped"}

ShutdownInv == ShutdownTypeOK /\ StopComesLate /\ DoneForAReason

LEMMA ShutdownStarts == ShutdownInit => ShutdownInv
<1>1. 0 \in 0 .. OutCap /\ 0 \in 0 .. InCap /\ 0 \in 0 .. 0
  BY ShutdownAssumption
<1>2. QED
  BY <1>1 DEF ShutdownInit, ShutdownInv, ShutdownTypeOK, StopComesLate, DoneForAReason

\* What the child and the kernel do to the queues keeps them in their bounds.
LEMMA ChildKeeps == ShutdownInv /\ (Child \/ ChildGone) => ShutdownInv'
<1> USE DEF ShutdownInv, ShutdownTypeOK, StopComesLate, DoneForAReason, tty
<1>1. SUFFICES ASSUME ShutdownInv, Child \/ ChildGone PROVE ShutdownInv'
  OBVIOUS
<1>2. CASE ChildPrints
  <2>1. out' \in 0 .. OutCap /\ asked' \in 0 .. out'
    BY <1>1, <1>2, ShutdownAssumption DEF ChildPrints
  <2>2. QED
    BY <1>1, <1>2, <2>1 DEF ChildPrints
<1>3. CASE ChildReads
  BY <1>1, <1>3, ShutdownAssumption DEF ChildReads
<1>4. CASE ChildForks
  BY <1>1, <1>4 DEF ChildForks
<1>5. CASE ChildExits
  BY <1>1, <1>5 DEF ChildExits
<1>6. CASE ChildGone
  BY <1>1, <1>6 DEF ChildGone
<1>7. QED
  BY <1>1, <1>2, <1>3, <1>4, <1>5, <1>6 DEF Child

\* The pump leaves its loop for one of its two reasons.
LEMMA PumpKeeps == ShutdownInv /\ Pump => ShutdownInv'
<1> USE DEF ShutdownInv, ShutdownTypeOK, StopComesLate, DoneForAReason, tty
<1>1. SUFFICES ASSUME ShutdownInv, Pump PROVE ShutdownInv'
  OBVIOUS
<1>2. CASE PumpLoop
  BY <1>1, <1>2 DEF PumpLoop
<1>3. CASE PumpTick
  BY <1>1, <1>3 DEF PumpTick
<1>4. CASE PumpRead
  BY <1>1, <1>4, ShutdownAssumption DEF PumpRead
<1>5. CASE PumpEof
  BY <1>1, <1>5 DEF PumpEof, Closed
<1>6. CASE PumpReply
  BY <1>1, <1>6, ShutdownAssumption DEF PumpReply
<1>7. QED
  BY <1>1, <1>2, <1>3, <1>4, <1>5, <1>6 DEF Pump

\* The owner tells the pump to stop only once the child is reaped or given up.
LEMMA OwnerKeeps ==
  ShutdownInv /\ (OwnerSends \/ OwnerWrites \/ OwnerShutsDown \/ Shutdown) => ShutdownInv'
<1> USE DEF ShutdownInv, ShutdownTypeOK, StopComesLate, DoneForAReason, tty
<1>1. SUFFICES ASSUME ShutdownInv, OwnerSends \/ OwnerWrites \/ OwnerShutsDown \/ Shutdown
               PROVE  ShutdownInv'
  OBVIOUS
<1>2. CASE OwnerSends
  BY <1>1, <1>2 DEF OwnerSends
<1>3. CASE OwnerWrites
  BY <1>1, <1>3, ShutdownAssumption DEF OwnerWrites
<1>4. CASE OwnerShutsDown
  BY <1>1, <1>4 DEF OwnerShutsDown
<1>5. CASE Kill
  BY <1>1, <1>5 DEF Kill
<1>6. CASE Reap
  BY <1>1, <1>6 DEF Reap
<1>7. CASE GiveUp
  BY <1>1, <1>7 DEF GiveUp
<1>8. CASE SetStop
  BY <1>1, <1>8 DEF SetStop
<1>9. CASE Join
  BY <1>1, <1>9 DEF Join
<1>10. QED
  BY <1>1, <1>2, <1>3, <1>4, <1>5, <1>6, <1>7, <1>8, <1>9 DEF Shutdown

LEMMA ShutdownKeeps == ShutdownInv /\ [ShutdownNext]_svars => ShutdownInv'
<1>1. CASE UNCHANGED svars
  BY <1>1 DEF svars, ShutdownInv, ShutdownTypeOK, StopComesLate, DoneForAReason
<1>2. CASE ShutdownNext
  BY <1>2, ChildKeeps, PumpKeeps, OwnerKeeps DEF ShutdownNext
<1>3. QED
  BY <1>1, <1>2

\* The inductive invariant of a shutdown, and with it the types.
THEOREM ShutdownInvariant == OwnerSpec => []ShutdownInv
<1>1. OwnerInit => ShutdownInv
  BY ShutdownStarts DEF OwnerInit
<1>2. ShutdownInv /\ [OwnerNext]_ovars => ShutdownInv'
  <2>1. [OwnerNext]_ovars => [ShutdownNext]_svars
    BY DEF OwnerNext, ovars
  <2>2. QED
    BY <2>1, ShutdownKeeps
<1>3. QED
  BY <1>1, <1>2, PTL DEF OwnerSpec

\* The pump drains a child that has not finished exiting unless it was abandoned
\* (Host::shutdown: "the reader must outlive the child").
THEOREM ReaderAlwaysOutlives == OwnerSpec => []ReaderOutlivesChild
<1>1. ShutdownInv => ReaderOutlivesChild
  BY DEF ShutdownInv, StopComesLate, DoneForAReason, ReaderOutlivesChild
<1>2. QED
  BY <1>1, ShutdownInvariant, PTL

-----------------------------------------------------------------------------
(* The canvas of panes, and the types.                                     *)

LEMMA PanesPart == [OwnerNext]_ovars => [PanesNext]_pvars
  BY DEF OwnerNext, ovars

\* PanesInv of every reachable state: a sound pane for every cell, a child that
\* runs in one of them, and every pane where the last layout put it.
THEOREM PanesInvariant == OwnerSpec => []PanesInv
<1>1. OwnerInit => PanesInv
  BY PanesStart DEF OwnerInit
<1>2. PanesInv /\ [OwnerNext]_ovars => PanesInv'
  BY PanesPart, PanesKeep
<1>3. QED
  BY <1>1, <1>2, PTL DEF OwnerSpec

\* PanesHold, for any areas, fonts, gutter and floors, and any number of panes:
\* every pixel is in one pane or one divider, every pane knows its size, a
\* refused split keeps the canvas, and closing the exited panes closes those.
THEOREM PanesAlwaysHold == OwnerSpec => PanesHold
<1>1. PanesInv => EveryPixelOnce /\ PaneKnowsItsSize
  BY PanesCover, PanesKnow
<1>2. PanesInv /\ [OwnerNext]_ovars => [RefusedSplitKeeps /\ ExitedAreClosed]_pvars
  BY PanesPart, RefusalsHold, ExitsHold
<1>3. QED
  BY <1>1, <1>2, PanesInvariant, PTL DEF OwnerSpec, PanesHold

\* OwnerTypeOK: the types of the three parts that declare one.
THEOREM OwnerTypesCorrect == OwnerSpec => []OwnerTypeOK
<1>1. OwnerInit => RebuildInv
  BY RebuildStarts DEF OwnerInit
<1>2. RebuildInv /\ [OwnerNext]_ovars => RebuildInv'
  <2>1. [OwnerNext]_ovars => [RebuildNext]_rvars
    BY DEF OwnerNext, ovars
  <2>2. QED
    BY <2>1, RebuildKeeps
<1>3. ShutdownInv /\ PanesInv /\ RebuildInv => OwnerTypeOK
  BY PanesTyped DEF ShutdownInv, RebuildInv, OwnerTypeOK
<1>4. QED
  BY <1>1, <1>2, <1>3, ShutdownInvariant, PanesInvariant, PTL DEF OwnerSpec

-----------------------------------------------------------------------------
(* Starting agents: the guard.                                             *)

\* The library's least of two numbers and greatest of two.
LEMMA MinOfTwo ==
  ASSUME NEW a \in Int, NEW b \in Int
  PROVE  Min({a, b}) = IF a <= b THEN a ELSE b
<1>1. CASE a <= b
  <2>1. a \in {a, b} /\ \A y \in {a, b} : a <= y
    BY <1>1
  <2>2. \A x \in {a, b} : (\A y \in {a, b} : x <= y) => x = a
    BY <1>1
  <2>3. QED
    BY <1>1, <2>1, <2>2 DEF Min
<1>2. CASE ~(a <= b)
  <2>1. b \in {a, b} /\ \A y \in {a, b} : b <= y
    BY <1>2
  <2>2. \A x \in {a, b} : (\A y \in {a, b} : x <= y) => x = b
    BY <1>2
  <2>3. QED
    BY <1>2, <2>1, <2>2 DEF Min
<1>3. QED
  BY <1>1, <1>2

LEMMA MaxOfTwo ==
  ASSUME NEW a \in Int, NEW b \in Int
  PROVE  Max({a, b}) = IF a <= b THEN b ELSE a
<1>1. CASE a <= b
  <2>1. b \in {a, b} /\ \A y \in {a, b} : b >= y
    BY <1>1
  <2>2. \A x \in {a, b} : (\A y \in {a, b} : x >= y) => x = b
    BY <1>1
  <2>3. QED
    BY <1>1, <2>1, <2>2 DEF Max
<1>2. CASE ~(a <= b)
  <2>1. a \in {a, b} /\ \A y \in {a, b} : a >= y
    BY <1>2
  <2>2. \A x \in {a, b} : (\A y \in {a, b} : x >= y) => x = a
    BY <1>2
  <2>3. QED
    BY <1>2, <2>1, <2>2 DEF Max
<1>3. QED
  BY <1>1, <1>2

\* The first words of the words from i on.
LEMMA FirstOfTail ==
  ASSUME NEW s \in Seq(STRING), NEW i \in 1 .. Len(s), NEW m \in 1 .. Len(s) - i + 1
  PROVE  SubSeq(SubSeq(s, i, Len(s)), 1, m) = SubSeq(s, i, i + m - 1)
<1> DEFINE n == Len(s)
           k == n - i + 1
<1>1. n \in 1 .. n /\ i \in 1 .. n /\ k = n - i + 1 /\ m \in 1 .. k /\ 1 \in 1 .. k
  OBVIOUS
<1>2. i + 1 - 1 = i
  OBVIOUS
<1> HIDE DEF k
<1>3. SubSeq(SubSeq(s, i, n), 1, m) = SubSeq(s, i + 1 - 1, i + m - 1)
  BY <1>1, SubSeqOfSubSeq
<1>4. QED
  BY <1>2, <1>3

\* The guard refuses an argv exactly when whole words of it are a bypass.
LEMMA ScreenExact ==
  ASSUME NEW argv \in Seq(STRING)
  PROVE  Screen(argv) # {} <=> Bypasses(argv)
<1>1. ASSUME NEW i \in DOMAIN argv, NEW s \in DangerousWords, IsPrefix(s, SubSeq(argv, i, Len(argv)))
      PROVE  Bypasses(argv)
  <2> DEFINE t == SubSeq(argv, i, Len(argv))
             n == Len(argv)
             j == i + Len(s) - 1
  <2>1. i \in 1 .. n /\ n \in Nat
    OBVIOUS
  <2>2. s \in Seq(STRING) /\ s # <<>>
    BY AgentsAssumption
  <2>3. Len(s) \in Nat /\ Len(s) # 0
    BY <2>2, EmptySeq
  <2>4. t \in Seq(STRING) /\ Len(t) = n - i + 1
    BY <2>1, SubSeqProperties
  <2>5. Len(s) <= Len(t) /\ SubSeq(s, 1, Len(s)) = SubSeq(t, 1, Len(s))
    BY <1>1 DEF IsPrefix
  <2>6. j \in 1 .. n /\ Len(s) \in 1 .. n - i + 1
    BY <2>1, <2>3, <2>4, <2>5
  <2>7. SubSeq(t, 1, Len(s)) = SubSeq(argv, i, i + Len(s) - 1)
    <3> DEFINE m == Len(s)
    <3>1. m \in 1 .. n - i + 1
      BY <2>6
    <3> HIDE DEF m
    <3>2. SubSeq(t, 1, m) = SubSeq(argv, i, i + m - 1)
      BY <2>1, <3>1, FirstOfTail
    <3>3. QED
      BY <3>2 DEF m
  <2>8. i + Len(s) - 1 = j
    OBVIOUS
  <2>9. SubSeq(argv, i, j) = s
    <3>1. SubSeq(s, 1, Len(s)) = s
      BY <2>2, SubSeqFull
    <3>2. QED
      BY <2>5, <2>7, <2>8, <3>1
  <2>10. j \in DOMAIN argv
    BY <2>6
  <2> HIDE DEF j
  <2>11. QED
    BY <2>9, <2>10 DEF Bypasses
<1>2. ASSUME NEW i \in DOMAIN argv, NEW j \in DOMAIN argv, SubSeq(argv, i, j) \in DangerousWords
      PROVE  Screen(argv) # {}
  <2> DEFINE s == SubSeq(argv, i, j)
             n == Len(argv)
             t == SubSeq(argv, i, n)
  <2>1. i \in 1 .. n /\ j \in 1 .. n /\ n \in Nat
    OBVIOUS
  <2>2. s \in Seq(STRING) /\ s # <<>>
    BY <1>2, AgentsAssumption
  <2>3. i <= j
    BY <2>1, <2>2, SubSeqEmpty
  <2>4. Len(s) = j - i + 1
    BY <2>1, <2>3, SubSeqProperties
  <2>5. t \in Seq(STRING) /\ Len(t) = n - i + 1
    BY <2>1, SubSeqProperties
  <2>6. SubSeq(t, 1, Len(s)) = SubSeq(argv, i, i + Len(s) - 1)
    <3> DEFINE m == Len(s)
    <3>1. m \in 1 .. n - i + 1
      BY <2>1, <2>3, <2>4
    <3> HIDE DEF m
    <3>2. SubSeq(t, 1, m) = SubSeq(argv, i, i + m - 1)
      BY <2>1, <3>1, FirstOfTail
    <3>3. QED
      BY <3>2 DEF m
  <2>7. i + Len(s) - 1 = j
    BY <2>1, <2>4
  <2>8. SubSeq(s, 1, Len(s)) = s
    BY <2>2, SubSeqFull
  <2>9. IsPrefix(s, t)
    <3>1. SubSeq(t, 1, Len(s)) = s
      BY <2>6, <2>7
    <3>2. Len(s) <= Len(t)
      <4> HIDE DEF s, t
      <4>1. QED
        BY <2>1, <2>3, <2>4, <2>5
    <3> HIDE DEF s, t
    <3>3. QED
      BY <2>8, <3>1, <3>2 DEF IsPrefix
  <2>10. i \in Screen(argv)
    BY <1>2, <2>9 DEF Screen
  <2>11. QED
    BY <2>10
<1>3. Screen(argv) # {} => Bypasses(argv)
  BY <1>1 DEF Screen
<1>4. Bypasses(argv) => Screen(argv) # {}
  BY <1>2 DEF Bypasses
<1>5. QED
  BY <1>3, <1>4

-----------------------------------------------------------------------------
(* What is known of the machine.                                           *)

\* An answer of resolve that is remembered was true then, and what is true now
\* is noted as such.
Noticed ==
  /\ clock \in Nat
  /\ \A id \in Ids :
       /\ \E t \in lastTrue[id] : t.found = Walk(installed.files, id) /\ t.at = clock
       /\ probe[id] # <<>> =>
            /\ probe[id][1].at \in Nat /\ probe[id][1].at <= clock
            /\ \E t \in lastTrue[id] :
                 t.found = probe[id][1].found /\ t.at \in Nat /\ probe[id][1].at <= t.at

LEMMA NotedKeeps ==
  ASSUME Noticed, NEW files, NEW now \in Nat, clock <= now,
         lastTrue' = Noted(files, now), clock' = now, installed'.files = files, UNCHANGED probe
  PROVE  Noticed'
<1>1. ASSUME NEW id \in Ids
      PROVE  lastTrue'[id] = {t \in lastTrue[id] : t.found # Walk(files, id)}
                               \union {[found |-> Walk(files, id), at |-> now]}
  BY DEF Noted
<1>2. ASSUME NEW id \in Ids
      PROVE  \E t \in lastTrue'[id] : t.found = Walk(files, id) /\ t.at = now
  <2> DEFINE t == [found |-> Walk(files, id), at |-> now]
  <2>1. t \in lastTrue'[id]
    BY <1>1
  <2>2. t.found = Walk(files, id) /\ t.at = now
    OBVIOUS
  <2> HIDE DEF t
  <2>3. QED
    BY <2>1, <2>2
<1>3. ASSUME NEW id \in Ids, probe[id] # <<>>
      PROVE  /\ probe[id][1].at \in Nat /\ probe[id][1].at <= now
             /\ \E t \in lastTrue'[id] : t.found = probe[id][1].found /\ t.at \in Nat /\ probe[id][1].at <= t.at
  <2>1. PICK t \in lastTrue[id] : t.found = probe[id][1].found /\ t.at \in Nat /\ probe[id][1].at <= t.at
    BY <1>3 DEF Noticed
  <2>2. CASE t.found # Walk(files, id)
    <3>1. probe[id][1].at \in Nat /\ probe[id][1].at <= clock /\ clock \in Nat
      BY <1>3 DEF Noticed
    <3>2. t \in lastTrue'[id]
      BY <1>1, <2>1, <2>2
    <3>3. QED
      BY <2>1, <3>1, <3>2
  <2>3. CASE t.found = Walk(files, id)
    <3>1. probe[id][1].at \in Nat /\ probe[id][1].at <= clock /\ clock \in Nat
      BY <1>3 DEF Noticed
    <3>2. PICK u \in lastTrue'[id] : u.found = Walk(files, id) /\ u.at = now
      BY <1>2
    <3>3. u.found = probe[id][1].found /\ u.at \in Nat /\ probe[id][1].at <= u.at
      BY <2>1, <2>3, <3>1, <3>2
    <3>4. QED
      BY <3>1, <3>3
  <2>4. QED
    BY <2>2, <2>3
<1>4. QED
  BY <1>2, <1>3 DEF Noticed

LEMMA RememberKeeps ==
  ASSUME Noticed, NEW ids, Remember(ids), UNCHANGED <<clock, installed, lastTrue>>
  PROVE  Noticed'
<1>1. ASSUME NEW id \in Ids, probe'[id] # <<>>
      PROVE  /\ probe'[id][1].at \in Nat /\ probe'[id][1].at <= clock
             /\ \E t \in lastTrue[id] :
                  t.found = probe'[id][1].found /\ t.at \in Nat /\ probe'[id][1].at <= t.at
  <2>1. CASE id \notin ids \/ Fresh(id)
    <3>1. probe'[id] = probe[id]
      BY <2>1 DEF Remember
    <3>2. QED
      BY <1>1, <3>1 DEF Noticed
  <2>2. CASE ~(id \notin ids \/ Fresh(id))
    <3>1. probe'[id] = <<[found |-> Walk(installed.files, id), at |-> clock]>>
      BY <2>2 DEF Remember
    <3>2. probe'[id][1].found = Walk(installed.files, id) /\ probe'[id][1].at = clock /\ clock \in Nat
      BY <3>1 DEF Noticed
    <3>3. PICK t \in lastTrue[id] : t.found = Walk(installed.files, id) /\ t.at = clock
      BY DEF Noticed
    <3>4. t.found = probe'[id][1].found /\ t.at \in Nat /\ probe'[id][1].at <= t.at
      BY <3>2, <3>3
    <3>5. QED
      BY <3>2, <3>4
  <2>3. QED
    BY <2>1, <2>2
<1>2. QED
  BY <1>1 DEF Noticed

\* What resolve answers was true that recently.
LEMMA ResolvedRecent ==
  ASSUME Noticed, NEW id \in Ids
  PROVE  \E t \in lastTrue[id] :
           t.found = Resolved(id) /\ clock - t.at < Max({1, IF t.found = <<>> THEN MissFor ELSE HitFor})
<1> DEFINE room(f) == IF f = <<>> THEN MissFor ELSE HitFor
<1>1. \A f : room(f) \in Nat /\ Max({1, room(f)}) = IF 1 <= room(f) THEN room(f) ELSE 1
  BY MaxOfTwo, AgentsAssumption
<1>2. clock \in Nat
  BY DEF Noticed
<1> HIDE DEF room
<1>3. CASE Fresh(id)
  <2>1. probe[id] # <<>> /\ clock - probe[id][1].at < room(probe[id][1].found)
    BY <1>3 DEF Fresh, room
  <2>2. Resolved(id) = probe[id][1].found
    BY <1>3 DEF Resolved
  <2>3. PICK t \in lastTrue[id] : t.found = probe[id][1].found /\ t.at \in Nat /\ probe[id][1].at <= t.at
    BY <2>1 DEF Noticed
  <2>4. probe[id][1].at \in Nat
    BY <2>1 DEF Noticed
  <2>5. clock - t.at < room(t.found)
    BY <1>1, <1>2, <2>1, <2>3, <2>4
  <2>6. room(t.found) \in Nat /\ Max({1, room(t.found)}) = IF 1 <= room(t.found) THEN room(t.found) ELSE 1
    BY <1>1
  <2>7. clock - t.at < Max({1, room(t.found)})
    BY <1>2, <2>3, <2>5, <2>6
  <2>8. QED
    BY <2>2, <2>3, <2>7 DEF room
<1>4. CASE ~Fresh(id)
  <2>1. Resolved(id) = Walk(installed.files, id)
    BY <1>4 DEF Resolved
  <2>2. PICK t \in lastTrue[id] : t.found = Walk(installed.files, id) /\ t.at = clock
    BY DEF Noticed
  <2>3. room(t.found) \in Nat /\ Max({1, room(t.found)}) = IF 1 <= room(t.found) THEN room(t.found) ELSE 1
    BY <1>1
  <2>4. clock - t.at < Max({1, room(t.found)})
    BY <1>2, <2>2, <2>3
  <2>5. QED
    BY <2>1, <2>2, <2>4 DEF room
<1>5. QED
  BY <1>3, <1>4

-----------------------------------------------------------------------------
(* The children.                                                           *)

Commands == [cwd : {"home", "there", "app"}, pwd : {"home", "app"}, term : {TRUE}, marked : {FALSE}]
KidSet   == [run : Ids \union {Unknown}, argv : Argvs \union {<<>>}, cwd : Cwds, command : Commands,
             state : {"runs", "dead", "shut"}, wrote : BOOLEAN, shown : BOOLEAN, first : Nat]

\* A child with no bypass among its words, dressed, that shows only what it wrote
\* by now.
KidOK(p, now) ==
  /\ p \in KidSet /\ ~Bypasses(p.argv)
  /\ p.cwd = "there" => p.command.cwd = "there"
  /\ p.cwd # "there" /\ p.run \in Ids => p.command.cwd = "home"
  /\ p.shown => p.wrote /\ p.first <= now

\* A job may spawn a child with this command.
MaySpawn(from, command) ==
  /\ command \in Commands
  /\ from.id \in Ids \union {Unknown} /\ from.argv \in Argvs \union {<<>>} /\ from.cwd \in Cwds
  /\ ~Bypasses(from.argv)
  /\ from.cwd = "there" => command.cwd = "there"
  /\ from.cwd # "there" /\ from.id \in Ids => command.cwd = "home"

LEMMA NewKid ==
  ASSUME NEW now \in Nat, NEW from, NEW command, MaySpawn(from, command)
  PROVE  KidOK(Kid(from, command), now) /\ Kid(from, command).state = "runs"
  BY AgentsAssumption DEF MaySpawn, Kid, KidOK, KidSet

LEMMA Commanded ==
  ASSUME NEW cwd \in Cwds
  PROVE  /\ ApplyCwd(Dress, cwd) \in Commands
         /\ cwd = "there" => ApplyCwd(Dress, cwd).cwd = "there"
         /\ cwd # "there" => ApplyCwd(Dress, cwd).cwd = "home"
  BY DEF ApplyCwd, Dress, Commands

LEMMA Built ==
  ASSUME NEW cwd \in Cwds, NEW shell \in BOOLEAN
  PROVE  /\ BuildCommand(shell, cwd) \in Commands
         /\ cwd = "there" => BuildCommand(shell, cwd).cwd = "there"
  BY DEF BuildCommand, ApplyCwd, Dress, Commands

Writes(p)        == [p EXCEPT !.wrote = TRUE]
Shows(p, now)    == [p EXCEPT !.shown = TRUE, !.first = Min({@, now})]
Clears(p)        == [p EXCEPT !.shown = FALSE]
Turns(p, state)  == [p EXCEPT !.state = state]

LEMMA KidTurns ==
  ASSUME NEW now \in Nat, NEW p, KidOK(p, now)
  PROVE  /\ KidOK(Writes(p), now) /\ Writes(p).state = p.state /\ Writes(p).wrote /\ Writes(p).first = p.first
         /\ p.wrote => KidOK(Shows(p, now), now) /\ Shows(p, now).state = p.state /\ Shows(p, now).wrote
                       /\ Shows(p, now).first <= p.first /\ Shows(p, now).first <= now
         /\ KidOK(Clears(p), now) /\ Clears(p).state = p.state /\ Clears(p).wrote = p.wrote /\ Clears(p).first = p.first
         /\ \A s \in {"runs", "dead", "shut"} :
              /\ KidOK(Turns(p, s), now) /\ Turns(p, s).state = s
              /\ Turns(p, s).wrote = p.wrote /\ Turns(p, s).first = p.first
<1>1. p \in KidSet
  BY DEF KidOK
<1>2. KidOK(Writes(p), now) /\ Writes(p).state = p.state /\ Writes(p).wrote /\ Writes(p).first = p.first
  BY <1>1 DEF KidOK, Writes, KidSet
<1>3. KidOK(Clears(p), now) /\ Clears(p).state = p.state /\ Clears(p).wrote = p.wrote /\ Clears(p).first = p.first
  BY <1>1 DEF KidOK, Clears, KidSet
<1>4. ASSUME NEW s \in {"runs", "dead", "shut"}
      PROVE  /\ KidOK(Turns(p, s), now) /\ Turns(p, s).state = s
             /\ Turns(p, s).wrote = p.wrote /\ Turns(p, s).first = p.first
  BY <1>1 DEF KidOK, Turns, KidSet
<1>5. ASSUME p.wrote
      PROVE  KidOK(Shows(p, now), now) /\ Shows(p, now).state = p.state /\ Shows(p, now).wrote
             /\ Shows(p, now).first <= p.first /\ Shows(p, now).first <= now
  <2>1. p.first \in Nat /\ p.first \in Int /\ now \in Int
    BY <1>1 DEF KidSet
  <2> DEFINE f == Min({p.first, now})
  <2>2. f = IF p.first <= now THEN p.first ELSE now
    BY <2>1, MinOfTwo
  <2>3. f \in Nat /\ f <= p.first /\ f <= now
    BY <2>1, <2>2
  <2>4. Shows(p, now) = [p EXCEPT !.shown = TRUE, !.first = f]
    BY DEF Shows
  <2> HIDE DEF f
  <2>5. QED
    BY <1>1, <1>5, <2>3, <2>4 DEF KidOK, KidSet
<1>6. QED
  BY <1>2, <1>3, <1>4, <1>5

-----------------------------------------------------------------------------
(* The launch in progress.                                                 *)

Verdicts == {"Running", "Exited", "Silent", "none"}
Jobs == [kind : {"none", "pane", "spawn", "agent"}, phase : {"none", "backoff", "poll", "judge", "tick", "spawn"},
         id : Ids \union {Unknown}, argv : Argvs \union {<<>>}, cwd : Cwds, index : Nat, until : Nat,
         started : {0}, wroteAt : Seq(Nat), wrote : BOOLEAN, attempts : Seq(Verdicts), shell : BOOLEAN]

KidsWell == kids \in Seq(KidSet) /\ \A k \in 1 .. Len(kids) : KidOK(kids[k], clock)

\* A launch waits with every child shut, or watches the last one and has shut the
\* others; what it noted of that one is so.
Shut(n) == \A k \in 1 .. n : kids[k].state = "shut"
PaneJob ==
  /\ job.phase \in {"backoff", "poll", "judge", "tick"} /\ job.id \in Ids
  /\ job.phase = "backoff" => Shut(Len(kids))
  /\ job.phase # "backoff" =>
       /\ kids # <<>> /\ Shut(Len(kids) - 1) /\ kids[Len(kids)].state # "shut"
       /\ job.wrote => kids[Len(kids)].wrote
       /\ job.wroteAt # <<>> => kids[Len(kids)].wrote /\ kids[Len(kids)].first <= job.wroteAt[1]
SpawnJob ==
  /\ job.phase = "spawn" /\ kids = <<>> /\ ~Bypasses(job.argv)
  /\ job.kind = "agent" <=> job.id \in Ids
JobWell ==
  /\ job \in Jobs
  /\ job.kind = "none" => job = NoJob
  /\ job.kind = "pane" => PaneJob
  /\ job.kind \in {"spawn", "agent"} => SpawnJob

RefusedWell == said.result = "Refused" => Bypasses(said.argv)
AgentsInv   == Noticed /\ KidsWell /\ JobWell /\ RefusedWell

LEMMA NoticedStays ==
  ASSUME Noticed, UNCHANGED <<clock, installed, probe, lastTrue>>
  PROVE  Noticed'
  BY DEF Noticed

LEMMA KidsWait ==
  ASSUME KidsWell, clock \in Nat, clock' \in Nat, clock <= clock', UNCHANGED kids
  PROVE  KidsWell'
<1>1. ASSUME NEW k \in 1 .. Len(kids)
      PROVE  KidOK(kids[k], clock')
  <2>1. KidOK(kids[k], clock) /\ kids[k] \in KidSet
    BY DEF KidsWell
  <2>2. kids[k].first \in Nat
    BY <2>1 DEF KidSet
  <2>3. QED
    BY <2>1, <2>2 DEF KidOK
<1>2. QED
  BY <1>1 DEF KidsWell

\* The children with the last of them replaced, and with one more.
WithLast(p) == [kids EXCEPT ![Len(kids)] = p]

LEMMA LastReplaced ==
  ASSUME KidsWell, kids # <<>>, NEW p, KidOK(p, clock)
  PROVE  /\ Len(kids) \in Nat \ {0}
         /\ WithLast(p) \in Seq(KidSet) /\ Len(WithLast(p)) = Len(kids)
         /\ WithLast(p)[Len(kids)] = p
         /\ \A k \in 1 .. Len(kids) : k # Len(kids) => WithLast(p)[k] = kids[k]
         /\ \A k \in 1 .. Len(kids) : KidOK(WithLast(p)[k], clock)
<1>1. kids \in Seq(KidSet) /\ p \in KidSet
  BY DEF KidsWell, KidOK
<1>2. Len(kids) \in Nat \ {0} /\ Len(kids) \in 1 .. Len(kids)
  BY <1>1, LenProperties, EmptySeq
<1>3. WithLast(p) \in Seq(KidSet) /\ Len(WithLast(p)) = Len(kids)
  BY <1>1, <1>2, ExceptSeq DEF WithLast
<1>4. \A k \in 1 .. Len(kids) : WithLast(p)[k] = IF k = Len(kids) THEN p ELSE kids[k]
  BY <1>1, <1>2, ExceptSeq DEF WithLast
<1>5. \A k \in 1 .. Len(kids) : KidOK(WithLast(p)[k], clock)
  BY <1>4 DEF KidsWell
<1>6. QED
  BY <1>2, <1>3, <1>4, <1>5

LEMMA OneMoreKid ==
  ASSUME KidsWell, NEW p, KidOK(p, clock)
  PROVE  /\ Len(kids) \in Nat
         /\ Append(kids, p) \in Seq(KidSet) /\ Len(Append(kids, p)) = Len(kids) + 1
         /\ Append(kids, p)[Len(kids) + 1] = p
         /\ \A k \in 1 .. Len(kids) : Append(kids, p)[k] = kids[k]
         /\ \A k \in 1 .. Len(kids) + 1 : KidOK(Append(kids, p)[k], clock)
<1>1. kids \in Seq(KidSet) /\ p \in KidSet
  BY DEF KidsWell, KidOK
<1>2. Len(kids) \in Nat
  BY <1>1, LenProperties
<1>3. Append(kids, p) \in Seq(KidSet) /\ Len(Append(kids, p)) = Len(kids) + 1
  BY <1>1, AppendProperties
<1>4. \A k \in 1 .. Len(kids) + 1 : Append(kids, p)[k] = IF k = Len(kids) + 1 THEN p ELSE kids[k]
  BY <1>1, <1>2, AppendProperties
<1>5. \A k \in 1 .. Len(kids) + 1 : KidOK(Append(kids, p)[k], clock)
  BY <1>2, <1>4 DEF KidsWell
<1>6. QED
  BY <1>2, <1>3, <1>4, <1>5

\* The child that is watched does one thing, and stays a child that is watched.
LEMMA KidActsKeeps ==
  ASSUME AgentsInv, NEW k \in DOMAIN kids, KidActs(k)
  PROVE  AgentsInv'
<1> DEFINE n == Len(kids)
           old == kids[n]
<1>1. job.phase \in {"poll", "judge", "tick"} /\ k = n /\ UNCHANGED <<clock, installed, probe, lastTrue, job, said>>
  BY DEF KidActs
<1>2. job.kind = "pane" /\ PaneJob
  BY <1>1 DEF AgentsInv, JobWell, Jobs, SpawnJob, NoJob
<1>3. kids # <<>> /\ old.state # "shut"
  BY <1>1, <1>2 DEF PaneJob
<1>4. clock \in Nat /\ kids \in Seq(KidSet) /\ n \in Nat \ {0}
  BY <1>3, LenProperties, EmptySeq DEF AgentsInv, Noticed, KidsWell
<1>5. KidOK(old, clock) /\ old \in KidSet
  BY <1>4 DEF AgentsInv, KidsWell, KidOK
<1>6. old.state \in {"runs", "dead"} /\ old.first \in Nat
  BY <1>3, <1>5 DEF KidSet
<1>7. \E p : /\ kids' = WithLast(p) /\ KidOK(p, clock) /\ p.state # "shut"
             /\ old.wrote => p.wrote
             /\ p.first <= old.first
  <2>1. CASE Alive(k) /\ ~kids[k].wrote /\ kids' = [kids EXCEPT ![k].wrote = TRUE]
    <3>1. kids' = WithLast(Writes(old))
      BY <1>1, <2>1 DEF WithLast, Writes
    <3>2. KidOK(Writes(old), clock) /\ Writes(old).state = old.state /\ Writes(old).wrote /\ Writes(old).first = old.first
      BY <1>4, <1>5, KidTurns
    <3>3. QED
      BY <1>3, <1>6, <3>1, <3>2
  <2>2. CASE /\ kids[k].wrote /\ ~kids[k].shown
             /\ kids' = [kids EXCEPT ![k].shown = TRUE, ![k].first = Min({@, clock})]
    <3>1. kids' = WithLast(Shows(old, clock))
      BY <1>1, <2>2 DEF WithLast, Shows
    <3>2. old.wrote
      BY <1>1, <2>2
    <3>3. /\ KidOK(Shows(old, clock), clock) /\ Shows(old, clock).state = old.state /\ Shows(old, clock).wrote
          /\ Shows(old, clock).first <= old.first
      BY <1>4, <1>5, <3>2, KidTurns
    <3>4. QED
      BY <1>3, <3>1, <3>3
  <2>3. CASE Alive(k) /\ kids[k].shown /\ kids' = [kids EXCEPT ![k].shown = FALSE]
    <3>1. kids' = WithLast(Clears(old))
      BY <1>1, <2>3 DEF WithLast, Clears
    <3>2. KidOK(Clears(old), clock) /\ Clears(old).state = old.state /\ Clears(old).wrote = old.wrote
          /\ Clears(old).first = old.first
      BY <1>4, <1>5, KidTurns
    <3>3. QED
      BY <1>3, <1>6, <3>1, <3>2
  <2>4. CASE Alive(k) /\ kids' = [kids EXCEPT ![k].state = "dead"]
    <3>1. kids' = WithLast(Turns(old, "dead"))
      BY <1>1, <2>4 DEF WithLast, Turns
    <3>2. /\ KidOK(Turns(old, "dead"), clock) /\ Turns(old, "dead").state = "dead"
          /\ Turns(old, "dead").wrote = old.wrote /\ Turns(old, "dead").first = old.first
      BY <1>4, <1>5, KidTurns
    <3>3. QED
      BY <1>6, <3>1, <3>2
  <2>5. QED
    BY <2>1, <2>2, <2>3, <2>4 DEF KidActs
<1>8. PICK p : /\ kids' = WithLast(p) /\ KidOK(p, clock) /\ p.state # "shut"
               /\ old.wrote => p.wrote
               /\ p.first <= old.first
  BY <1>7
<1>9. /\ kids' \in Seq(KidSet) /\ Len(kids') = n /\ kids'[n] = p
      /\ \A j \in 1 .. n : j # n => kids'[j] = kids[j]
      /\ \A j \in 1 .. n : KidOK(kids'[j], clock)
  BY <1>3, <1>8, LastReplaced DEF AgentsInv
<1>10. KidsWell'
  BY <1>1, <1>9 DEF KidsWell
<1>11. Shut(n - 1)'
  BY <1>1, <1>2, <1>4, <1>9 DEF PaneJob, Shut
<1>12. p.first \in Nat
  BY <1>8 DEF KidOK, KidSet
<1>13. job.wroteAt # <<>> => job.wroteAt[1] \in Nat
  <2>1. job.wroteAt \in Seq(Nat)
    BY DEF AgentsInv, JobWell, Jobs
  <2>2. QED
    BY <2>1
<1>14. kids' # <<>>
  BY <1>4, <1>9, EmptySeq
<1>15. PaneJob'
  <2>1. job.wrote => p.wrote
    BY <1>1, <1>2, <1>8 DEF PaneJob
  <2>2. job.wroteAt # <<>> => p.wrote /\ p.first <= job.wroteAt[1]
    BY <1>1, <1>2, <1>6, <1>8, <1>12, <1>13 DEF PaneJob
  <2>3. QED
    BY <1>1, <1>2, <1>8, <1>9, <1>11, <1>14, <2>1, <2>2 DEF PaneJob
<1>16. QED
  BY <1>1, <1>2, <1>10, <1>15, NoticedStays DEF AgentsInv, JobWell, RefusedWell

\* A call that is over leaves no job; what it says is what it was refused for.
LEMMA DoneKeeps ==
  ASSUME Noticed', KidsWell', NEW call, NEW result, NEW id, NEW argv, NEW kid, Done(call, result, id, argv, kid),
         result = "Refused" => Bypasses(argv)
  PROVE  AgentsInv' /\ job' = NoJob /\ said'.result = result /\ said'.kid = kid /\ said'.call = call
<1>1. job' = NoJob /\ said'.result = result /\ said'.argv = argv /\ said'.kid = kid /\ said'.call = call
  BY DEF Done, Nothing
<1>2. NoJob \in Jobs /\ NoJob.kind = "none"
  BY AgentsAssumption DEF NoJob, Jobs, Cwds
<1>3. JobWell'
  BY <1>1, <1>2 DEF JobWell
<1>4. RefusedWell'
  BY <1>1 DEF RefusedWell
<1>5. QED
  BY <1>1, <1>3, <1>4 DEF AgentsInv

LEMMA PassKeeps == ASSUME AgentsInv, Pass PROVE AgentsInv'
<1>1. clock \in Nat /\ clock + 1 \in Nat /\ clock <= clock + 1
  BY DEF AgentsInv, Noticed
<1>2. Noticed'
  BY <1>1, NotedKeeps DEF AgentsInv, Pass
<1>3. KidsWell'
  BY <1>1, KidsWait DEF AgentsInv, Pass
<1>4. JobWell' /\ RefusedWell'
  BY DEF AgentsInv, Pass, JobWell, PaneJob, SpawnJob, Shut, RefusedWell
<1>5. QED
  BY <1>2, <1>3, <1>4 DEF AgentsInv

\* What leaves the children, the job and what was refused alone.
LEMMA MachineKeeps ==
  ASSUME AgentsInv, Noticed', RefusedWell', UNCHANGED <<clock, kids, job>>
  PROVE  AgentsInv'
<1>1. KidsWell' /\ JobWell'
  BY DEF AgentsInv, KidsWell, JobWell, PaneJob, SpawnJob, Shut
<1>2. QED
  BY <1>1 DEF AgentsInv

LEMMA MenuKeeps == ASSUME AgentsInv, MenuNext PROVE AgentsInv'
<1>1. CASE Pass
  BY <1>1, PassKeeps
<1>2. ASSUME NEW spot \in Spots, Installs(spot)
      PROVE  AgentsInv'
  <2>1. PICK files : /\ installed' = [files |-> files, changes |-> installed.changes + 1]
                     /\ lastTrue' = Noted(files, clock)
    BY <1>2 DEF Installs
  <2>2. clock \in Nat /\ clock <= clock /\ installed'.files = files /\ UNCHANGED <<clock, probe, kids, job, said>>
    BY <1>2, <2>1 DEF AgentsInv, Noticed, Installs
  <2>3. Noticed'
    BY <2>1, <2>2, NotedKeeps DEF AgentsInv
  <2>4. QED
    BY <2>2, <2>3, MachineKeeps DEF AgentsInv, RefusedWell
<1>3. CASE Available
  <2>1. Noticed'
    BY <1>3, RememberKeeps DEF Available, AgentsInv
  <2>2. QED
    BY <1>3, <2>1, MachineKeeps DEF Available, AgentsInv, RefusedWell, Nothing
<1>4. ASSUME NEW id \in Ids \union {Unknown}, AgentResolve(id)
      PROVE  AgentsInv'
  <2>1. Noticed'
    <3>1. CASE id \in Ids
      BY <1>4, <3>1, RememberKeeps DEF AgentResolve, AgentsInv
    <3>2. CASE id \notin Ids
      BY <1>4, <3>2, NoticedStays DEF AgentResolve, AgentsInv
    <3>3. QED
      BY <3>1, <3>2
  <2>2. said'.result # "Refused"
    BY <1>4 DEF AgentResolve, Nothing
  <2>3. QED
    BY <1>4, <2>1, <2>2, MachineKeeps DEF AgentResolve, AgentsInv, RefusedWell
<1>5. ASSUME NEW argv \in Argvs, AgentScreen(argv)
      PROVE  AgentsInv'
  <2>1. argv \in Seq(STRING)
    BY AgentsAssumption
  <2>2. RefusedWell'
    BY <1>5, <2>1, ScreenExact DEF AgentScreen, RefusedWell, Nothing
  <2>3. QED
    BY <1>5, <2>2, MachineKeeps, NoticedStays DEF AgentScreen, AgentsInv
<1>6. QED
  BY <1>1, <1>2, <1>3, <1>4, <1>5 DEF MenuNext, Machine

LEMMA IntoPaneKeeps ==
  ASSUME AgentsInv, NEW id \in Ids, NEW argv \in Argvs, NEW cwd \in Cwds, IntoPane(id, argv, cwd)
  PROVE  AgentsInv' /\ job' # NoJob
<1>1. Noticed'
  BY RememberKeeps DEF AgentsInv, IntoPane
<1>2. kids = <<>> /\ Len(kids) = 0 /\ kids' = kids
  BY DEF IntoPane, NotYet
<1>3. clock \in Nat
  BY DEF AgentsInv, Noticed
<1>4. job' = [kind |-> "pane", phase |-> "backoff", id |-> id, argv |-> argv, cwd |-> cwd, index |-> 0,
              until |-> clock, started |-> 0, wroteAt |-> <<>>, wrote |-> FALSE, attempts |-> <<>>, shell |-> FALSE]
  BY <1>2 DEF IntoPane, NoJob
<1>5. job' \in Jobs /\ job'.kind = "pane" /\ job'.phase = "backoff" /\ job'.id = id
  BY <1>3, <1>4 DEF Jobs
<1>6. PaneJob'
  BY <1>2, <1>5 DEF PaneJob, Shut
<1>7. KidsWell'
  BY <1>2, <1>3, KidsWait DEF AgentsInv, IntoPane
<1>8. RefusedWell'
  BY DEF AgentsInv, RefusedWell, IntoPane
<1>9. QED
  BY <1>1, <1>5, <1>6, <1>7, <1>8 DEF AgentsInv, JobWell, NoJob

LEMMA HostSpawnKeeps ==
  ASSUME AgentsInv, NEW shell \in BOOLEAN, NEW cwd \in Cwds, HostSpawn(shell, cwd)
  PROVE  AgentsInv'
<1>1. Noticed' /\ KidsWell' /\ kids = <<>> /\ kids' = <<>> /\ UNCHANGED <<clock, installed, probe, lastTrue>>
  <2>1. UNCHANGED <<clock, installed, probe, lastTrue, kids>> /\ kids = <<>>
    BY DEF HostSpawn, NotYet
  <2>2. clock \in Nat
    BY DEF AgentsInv, Noticed
  <2>3. QED
    BY <2>1, <2>2, NoticedStays, KidsWait DEF AgentsInv
<1>2. CASE \E why \in {"InvalidValue", "RenderFailed"} : Done("spawn", why, Unknown, <<>>, 0)
  BY <1>1, <1>2, DoneKeeps
<1>3. CASE /\ job' = [NoJob EXCEPT !.kind = "spawn", !.phase = "spawn", !.shell = shell, !.cwd = cwd]
           /\ UNCHANGED said
  <2>1. job' = [kind |-> "spawn", phase |-> "spawn", id |-> Unknown, argv |-> <<>>, cwd |-> cwd, index |-> 0,
                until |-> 0, started |-> 0, wroteAt |-> <<>>, wrote |-> FALSE, attempts |-> <<>>, shell |-> shell]
    BY <1>3 DEF NoJob
  <2>2. /\ job' \in Jobs /\ job'.kind = "spawn" /\ job'.phase = "spawn" /\ job'.id = Unknown
        /\ job'.argv = <<>>
    BY <2>1 DEF Jobs
  <2>3. ~Bypasses(<<>>)
    BY DEF Bypasses
  <2>4. SpawnJob'
    BY <1>1, <2>2, <2>3, AgentsAssumption DEF SpawnJob, Ids
  <2>5. QED
    BY <1>1, <1>3, <2>2, <2>4 DEF AgentsInv, JobWell, RefusedWell
<1>4. QED
  BY <1>2, <1>3 DEF HostSpawn

LEMMA HostSpawnAgentKeeps ==
  ASSUME AgentsInv, NEW id \in Ids \union {Unknown}, NEW argv \in Argvs, NEW cwd \in Cwds,
         HostSpawnAgent(id, argv, cwd)
  PROVE  AgentsInv'
<1>1. kids = <<>> /\ UNCHANGED <<clock, installed, lastTrue, kids>> /\ clock \in Nat
  BY DEF HostSpawnAgent, NotYet, AgentsInv, Noticed
<1>2. KidsWell'
  BY <1>1, KidsWait DEF AgentsInv
<1>3. Screen(argv) # {} <=> Bypasses(argv)
  BY ScreenExact, AgentsAssumption
<1>4. CASE id \notin Ids /\ Done("agent", "InvalidValue", id, argv, 0) /\ UNCHANGED probe
  <2>1. Noticed'
    BY <1>1, <1>4, NoticedStays DEF AgentsInv
  <2>2. QED
    BY <1>2, <1>4, <2>1, DoneKeeps
<1>5. CASE id \in Ids /\ Screen(argv) # {} /\ Done("agent", "Refused", id, argv, 0) /\ UNCHANGED probe
  <2>1. Noticed'
    BY <1>1, <1>5, NoticedStays DEF AgentsInv
  <2>2. QED
    BY <1>2, <1>3, <1>5, <2>1, DoneKeeps
<1>6. CASE /\ id \in Ids /\ Screen(argv) = {} /\ Remember({id})
           /\ \/ Resolved(id) = <<>> /\ Done("agent", "Ignored", id, argv, 0)
              \/ /\ Resolved(id) # <<>>
                 /\ \/ Done("agent", "RenderFailed", id, argv, 0)
                    \/ /\ job' = [NoJob EXCEPT !.kind = "agent", !.phase = "spawn", !.id = id, !.argv = argv,
                                               !.cwd = cwd]
                       /\ UNCHANGED said
  <2>1. Noticed'
    BY <1>1, <1>6, RememberKeeps DEF AgentsInv
  <2>2. CASE Done("agent", "Ignored", id, argv, 0) \/ Done("agent", "RenderFailed", id, argv, 0)
    BY <1>2, <2>1, <2>2, DoneKeeps
  <2>3. CASE /\ job' = [NoJob EXCEPT !.kind = "agent", !.phase = "spawn", !.id = id, !.argv = argv, !.cwd = cwd]
             /\ UNCHANGED said
    <3>1. job' = [kind |-> "agent", phase |-> "spawn", id |-> id, argv |-> argv, cwd |-> cwd, index |-> 0,
                  until |-> 0, started |-> 0, wroteAt |-> <<>>, wrote |-> FALSE, attempts |-> <<>>, shell |-> FALSE]
      BY <2>3 DEF NoJob
    <3>2. job' \in Jobs /\ job'.kind = "agent" /\ job'.phase = "spawn" /\ job'.id = id /\ job'.argv = argv
      BY <1>6, <3>1 DEF Jobs
    <3>3. SpawnJob'
      BY <1>1, <1>3, <1>6, <3>2 DEF SpawnJob
    <3>4. QED
      BY <1>2, <2>1, <2>3, <3>2, <3>3 DEF AgentsInv, JobWell, RefusedWell
  <2>4. QED
    BY <1>6, <2>2, <2>3
<1>7. QED
  BY <1>4, <1>5, <1>6 DEF HostSpawnAgent

LEMMA SpawnIntoKeeps == ASSUME AgentsInv, SpawnInto PROVE AgentsInv'
<1>1. job.phase = "spawn" /\ UNCHANGED <<clock, installed, probe, lastTrue>> /\ clock \in Nat
  BY DEF SpawnInto, AgentsInv, Noticed
<1>2. /\ job.kind \in {"spawn", "agent"} /\ SpawnJob /\ job \in Jobs
  BY <1>1 DEF AgentsInv, JobWell, PaneJob, NoJob, Jobs
<1>3. Noticed'
  BY <1>1, NoticedStays DEF AgentsInv
<1> DEFINE command == IF job.kind = "agent" THEN ApplyCwd(Dress, job.cwd) ELSE BuildCommand(job.shell, job.cwd)
<1>4. CASE /\ kids' = Append(kids, Kid(job, command))
           /\ Done(job.kind, "Success", job.id, job.argv, Len(kids) + 1)
  <2> DEFINE p == Kid(job, command)
  <2>1. /\ command \in Commands
        /\ job.cwd = "there" => command.cwd = "there"
        /\ job.cwd # "there" /\ job.id \in Ids => command.cwd = "home"
    <3>1. job.cwd \in Cwds /\ job.shell \in BOOLEAN
      BY <1>2 DEF Jobs
    <3>2. CASE job.kind = "agent"
      BY <3>1, <3>2, Commanded
    <3>3. CASE job.kind # "agent"
      BY <1>2, <3>1, <3>3, Built DEF SpawnJob
    <3>4. QED
      BY <3>2, <3>3
  <2>2. /\ job.id \in Ids \union {Unknown} /\ job.argv \in Argvs \union {<<>>} /\ job.cwd \in Cwds
        /\ ~Bypasses(job.argv)
    BY <1>2 DEF Jobs, SpawnJob
  <2> HIDE DEF command
  <2>3. KidOK(p, clock)
    <3>1. MaySpawn(job, command)
      BY <2>1, <2>2 DEF MaySpawn
    <3>2. QED
      BY <1>1, <3>1, NewKid
  <2> HIDE DEF p
  <2>4. KidsWell'
    <3>1. /\ kids' \in Seq(KidSet) /\ Len(kids') = Len(kids) + 1
          /\ \A k \in 1 .. Len(kids) + 1 : KidOK(kids'[k], clock)
      BY <1>4, <2>3, OneMoreKid DEF AgentsInv, p
    <3>2. QED
      BY <1>1, <3>1 DEF KidsWell
  <2>5. QED
    BY <1>3, <1>4, <2>4, DoneKeeps
<1>5. CASE job' = [job EXCEPT !.index = @ + 1] /\ UNCHANGED <<kids, said>>
  <2>1. /\ job' \in Jobs /\ job'.kind = job.kind /\ job'.phase = job.phase /\ job'.id = job.id
        /\ job'.argv = job.argv
    BY <1>2, <1>5 DEF Jobs
  <2>2. SpawnJob'
    BY <1>2, <1>5, <2>1 DEF SpawnJob
  <2>3. KidsWell'
    BY <1>1, <1>5, KidsWait DEF AgentsInv
  <2>4. QED
    BY <1>2, <1>3, <1>5, <2>1, <2>2, <2>3 DEF AgentsInv, JobWell, RefusedWell
<1>6. CASE Done(job.kind, "SpawnFailed", job.id, job.argv, 0) /\ UNCHANGED kids
  <2>1. KidsWell'
    BY <1>1, <1>6, KidsWait DEF AgentsInv
  <2>2. QED
    BY <1>3, <1>6, <2>1, DoneKeeps
<1>7. QED
  BY <1>4, <1>5, <1>6 DEF SpawnInto

\* What a step that ends a launch leaves behind.
Settles == NoneLeft /\ RunningIsProven

LEMMA AttemptKeeps == ASSUME AgentsInv, Attempt PROVE AgentsInv' /\ Settles
<1>1. job.phase = "backoff" /\ UNCHANGED <<clock, installed, probe, lastTrue>> /\ clock \in Nat
  BY DEF Attempt, AgentsInv, Noticed
<1>2. job.kind = "pane" /\ PaneJob /\ job \in Jobs
  BY <1>1 DEF AgentsInv, JobWell, SpawnJob, NoJob, Jobs
<1>3. Noticed'
  BY <1>1, NoticedStays DEF AgentsInv
<1>4. Shut(Len(kids)) /\ job.started = 0 /\ job.id \in Ids /\ job.argv \in Argvs \union {<<>>} /\ job.cwd \in Cwds
  BY <1>1, <1>2 DEF PaneJob, Jobs
<1>5. Screen(job.argv) # {} <=> Bypasses(job.argv)
  <2>1. job.argv \in Seq(STRING)
    <3>1. Argvs \subseteq Seq(STRING) /\ <<>> \in Seq(STRING)
      BY AgentsAssumption
    <3>2. QED
      BY <1>4, <3>1
  <2>2. QED
    BY <2>1, ScreenExact
<1>6. ASSUME NEW result \in {"Refused", "Session"}, Done("pane", result, job.id, job.argv, 0), UNCHANGED kids,
             result = "Refused" => Screen(job.argv) # {}
      PROVE  AgentsInv' /\ Settles
  <2>1. KidsWell'
    BY <1>1, <1>6, KidsWait DEF AgentsInv
  <2>2. AgentsInv' /\ said'.result = result
    BY <1>3, <1>5, <1>6, <2>1, DoneKeeps
  <2>3. \A k \in job.started + 1 .. Len(kids') : kids'[k].state = "shut"
    BY <1>4, <1>6 DEF Shut
  <2>4. QED
    BY <1>6, <2>2, <2>3 DEF Settles, NoneLeft, RunningIsProven
<1>7. CASE /\ Screen(job.argv) = {}
           /\ kids' = Append(kids, Kid(job, ApplyCwd(Dress, job.cwd)))
           /\ job'  = [job EXCEPT !.phase = "poll", !.until = clock + Registry[job.id].grace,
                                  !.wroteAt = <<>>, !.wrote = FALSE]
           /\ UNCHANGED said
  <2> DEFINE command == ApplyCwd(Dress, job.cwd)
             p == Kid(job, command)
             n == Len(kids)
  <2>1. /\ command \in Commands
        /\ job.cwd = "there" => command.cwd = "there"
        /\ job.cwd # "there" => command.cwd = "home"
    BY <1>4, Commanded
  <2> HIDE DEF command
  <2>2. KidOK(p, clock) /\ p.state = "runs"
    <3>1. MaySpawn(job, command)
      BY <1>4, <1>5, <1>7, <2>1 DEF MaySpawn
    <3>2. QED
      BY <1>1, <3>1, NewKid
  <2> HIDE DEF p
  <2>3. /\ kids' \in Seq(KidSet) /\ Len(kids') = n + 1 /\ kids'[n + 1] = p /\ n \in Nat
        /\ \A k \in 1 .. n : kids'[k] = kids[k]
        /\ \A k \in 1 .. n + 1 : KidOK(kids'[k], clock)
    BY <1>7, <2>2, OneMoreKid DEF AgentsInv, p, command
  <2>4. KidsWell'
    BY <1>1, <2>3 DEF KidsWell
  <2>5. /\ job' \in Jobs /\ job'.kind = "pane" /\ job'.phase = "poll" /\ job'.id = job.id
        /\ job'.wroteAt = <<>> /\ ~job'.wrote
    <3> DEFINE until == clock + Registry[job.id].grace
    <3>1. until \in Nat /\ <<>> \in Seq(Nat)
      <4>1. Registry[job.id].grace \in Nat
        BY <1>4, AgentsAssumption DEF Ids
      <4>2. QED
        BY <1>1, <4>1
    <3>2. job' = [job EXCEPT !.phase = "poll", !.until = until, !.wroteAt = <<>>, !.wrote = FALSE]
      BY <1>7
    <3> HIDE DEF until
    <3>3. QED
      BY <1>2, <3>1, <3>2 DEF Jobs
  <2>6. kids' # <<>>
    BY <2>3, EmptySeq
  <2>7. Shut(Len(kids) - 1)' /\ kids'[Len(kids')].state # "shut"
    BY <1>4, <2>2, <2>3 DEF Shut
  <2>8. PaneJob'
    BY <1>4, <2>5, <2>6, <2>7 DEF PaneJob
  <2>9. job' # NoJob
    BY <2>5 DEF NoJob
  <2>10. QED
    BY <1>3, <1>7, <2>4, <2>5, <2>8, <2>9
    DEF AgentsInv, JobWell, RefusedWell, Settles, NoneLeft, RunningIsProven
<1>8. QED
  BY <1>6, <1>7 DEF Attempt

LEMMA ObservePollKeeps == ASSUME AgentsInv, ObservePoll PROVE AgentsInv' /\ Settles
<1> DEFINE n == Len(kids)
           wrote == kids[n].shown
<1>1. /\ job.phase = "poll" /\ UNCHANGED <<clock, installed, probe, lastTrue, kids, said>> /\ clock \in Nat
      /\ job' = [job EXCEPT !.phase = "judge", !.wrote = wrote,
                            !.wroteAt = IF wrote /\ job.wroteAt = <<>> THEN <<clock>> ELSE job.wroteAt]
  BY DEF ObservePoll, AgentsInv, Noticed
<1>2. job.kind = "pane" /\ PaneJob /\ job \in Jobs
  BY <1>1 DEF AgentsInv, JobWell, SpawnJob, NoJob, Jobs
<1>3. kids # <<>> /\ kids \in Seq(KidSet)
  BY <1>1, <1>2 DEF PaneJob, AgentsInv, KidsWell
<1>4. n \in 1 .. n
  BY <1>3, LenProperties, EmptySeq
<1>5. KidOK(kids[n], clock) /\ wrote \in BOOLEAN
  BY <1>4 DEF AgentsInv, KidsWell, KidOK, KidSet
<1>6. wrote => kids[n].wrote /\ kids[n].first <= clock
  BY <1>5 DEF KidOK
<1>7. job.wroteAt \in Seq(Nat) /\ <<clock>> \in Seq(Nat) /\ <<clock>>[1] = clock
  BY <1>1, <1>2 DEF Jobs
<1> HIDE DEF wrote
<1>8. /\ job' \in Jobs /\ job'.kind = "pane" /\ job'.phase = "judge" /\ job'.id = job.id
      /\ job'.wrote = wrote
      /\ job'.wroteAt = IF wrote /\ job.wroteAt = <<>> THEN <<clock>> ELSE job.wroteAt
  BY <1>1, <1>2, <1>5, <1>7 DEF Jobs
<1>9. job'.wroteAt # <<>> => kids[n].wrote /\ kids[n].first <= job'.wroteAt[1]
  BY <1>1, <1>2, <1>6, <1>7, <1>8 DEF PaneJob
<1>10. PaneJob'
  BY <1>1, <1>2, <1>6, <1>8, <1>9 DEF PaneJob, Shut
<1>11. KidsWell' /\ Noticed'
  BY <1>1, KidsWait, NoticedStays DEF AgentsInv
<1>12. job' # NoJob
  BY <1>8 DEF NoJob
<1>13. QED
  BY <1>1, <1>8, <1>10, <1>11, <1>12
  DEF AgentsInv, JobWell, RefusedWell, Settles, NoneLeft, RunningIsProven

\* A verdict that succeeds is of a child that lives, and has been seen long enough
\* or all its time.
LEMMA VerdictMeans ==
  /\ Verdict \in Verdicts
  /\ Verdict = "Running" => Alive(Len(kids)) /\ (Settled \/ (clock >= job.until /\ job.wrote))
<1>1. CASE ~Alive(Len(kids))
  BY <1>1 DEF Verdict, Verdicts
<1>2. CASE Alive(Len(kids)) /\ Settled
  BY <1>2 DEF Verdict, Verdicts
<1>3. CASE Alive(Len(kids)) /\ ~Settled
  BY <1>3 DEF Verdict, Verdicts
<1>4. QED
  BY <1>1, <1>2, <1>3

LEMMA RetryKeeps ==
  ASSUME AgentsInv, job.phase = "judge", Retry, UNCHANGED <<clock, installed, probe, lastTrue>>
  PROVE  AgentsInv' /\ Settles
<1> DEFINE n == Len(kids)
           old == kids[n]
<1>1. clock \in Nat /\ job.kind = "pane" /\ PaneJob /\ job \in Jobs
  BY DEF AgentsInv, Noticed, JobWell, SpawnJob, NoJob, Jobs
<1>2. kids # <<>> /\ kids \in Seq(KidSet) /\ Shut(n - 1)
  BY <1>1 DEF PaneJob, AgentsInv, KidsWell
<1>3. n \in Nat \ {0}
  BY <1>2, LenProperties, EmptySeq
<1>4. KidOK(old, clock)
  BY <1>3 DEF AgentsInv, KidsWell
<1>5. KidOK(Turns(old, "shut"), clock) /\ Turns(old, "shut").state = "shut"
  <2> HIDE DEF old
  <2>1. QED
    BY <1>1, <1>4, KidTurns
<1>6. kids' = WithLast(Turns(old, "shut"))
  BY DEF Retry, WithLast, Turns
<1>7. /\ kids' \in Seq(KidSet) /\ Len(kids') = n /\ kids'[n] = Turns(old, "shut")
      /\ \A j \in 1 .. n : j # n => kids'[j] = kids[j]
      /\ \A j \in 1 .. n : KidOK(kids'[j], clock)
  BY <1>2, <1>5, <1>6, LastReplaced DEF AgentsInv
<1>8. KidsWell' /\ Noticed'
  BY <1>7, NoticedStays DEF KidsWell, AgentsInv
<1>9. \A j \in 1 .. n : kids'[j].state = "shut"
  BY <1>2, <1>3, <1>5, <1>7 DEF Shut
<1>10. CASE Done("pane", "Failed", job.id, job.argv, 0)
  <2>1. AgentsInv' /\ said'.result = "Failed"
    BY <1>8, <1>10, DoneKeeps
  <2>2. \A k \in job.started + 1 .. Len(kids') : kids'[k].state = "shut"
    <3>1. job.started = 0
      BY <1>1 DEF Jobs
    <3>2. QED
      BY <1>7, <1>9, <3>1
  <2>3. QED
    BY <2>1, <2>2 DEF Settles, NoneLeft, RunningIsProven
<1>11. CASE /\ job.index + 1 < Max({Tries, 1})
            /\ job' = [job EXCEPT !.phase = "backoff", !.index = @ + 1, !.attempts = Append(@, Verdict),
                                  !.until = clock + Base * 2^job.index]
            /\ UNCHANGED said
  <2> DEFINE until == clock + Base * 2^job.index
             tried == Append(job.attempts, Verdict)
             index == job.index + 1
  <2>1. job.index \in Nat /\ job.attempts \in Seq(Verdicts)
    BY <1>1 DEF Jobs
  <2>2. job.index \in 0 .. Tries
    <3>1. Tries \in Nat
      BY AgentsAssumption
    <3>2. Max({Tries, 1}) = IF Tries <= 1 THEN 1 ELSE Tries
      BY <3>1, MaxOfTwo
    <3>3. QED
      BY <1>11, <2>1, <3>1, <3>2
  <2>3. until \in Nat /\ index \in Nat
    <3>1. Base * 2^job.index \in Nat
      BY <2>2, AgentsAssumption
    <3> DEFINE wait == Base * 2^job.index
    <3> HIDE DEF wait
    <3>2. until = clock + wait
      BY DEF wait
    <3>3. wait \in Nat
      BY <3>1 DEF wait
    <3>4. QED
      BY <1>1, <2>1, <3>2, <3>3
  <2>4. tried \in Seq(Verdicts)
    BY <2>1, VerdictMeans, AppendProperties
  <2>5. job' = [job EXCEPT !.phase = "backoff", !.index = index, !.attempts = tried, !.until = until]
    BY <1>11
  <2> HIDE DEF until, tried, index
  <2>6. job' \in Jobs /\ job'.kind = "pane" /\ job'.phase = "backoff" /\ job'.id = job.id
    BY <1>1, <2>3, <2>4, <2>5 DEF Jobs
  <2>7. PaneJob'
    BY <1>1, <1>7, <1>9, <2>6 DEF PaneJob, Shut
  <2>8. job' # NoJob
    BY <2>6 DEF NoJob
  <2>9. QED
    BY <1>8, <1>11, <2>6, <2>7, <2>8
    DEF AgentsInv, JobWell, RefusedWell, Settles, NoneLeft, RunningIsProven
<1>12. QED
  BY <1>10, <1>11 DEF Retry, TryAgain

LEMMA ObserveJudgeKeeps == ASSUME AgentsInv, ObserveJudge PROVE AgentsInv' /\ Settles
<1> DEFINE n == Len(kids)
<1>1. /\ job.phase = "judge" /\ UNCHANGED <<clock, installed, probe, lastTrue>> /\ clock \in Nat
  BY DEF ObserveJudge, AgentsInv, Noticed
<1>2. job.kind = "pane" /\ PaneJob /\ job \in Jobs
  BY <1>1 DEF AgentsInv, JobWell, SpawnJob, NoJob, Jobs
<1>3. Noticed' /\ (UNCHANGED kids => KidsWell')
  BY <1>1, NoticedStays, KidsWait DEF AgentsInv
<1>4. CASE Verdict = "none" /\ job' = [job EXCEPT !.phase = "tick"] /\ UNCHANGED <<kids, said>>
  <2>1. /\ job' \in Jobs /\ job'.kind = "pane" /\ job'.phase = "tick" /\ job'.id = job.id
        /\ job'.wrote = job.wrote /\ job'.wroteAt = job.wroteAt
    BY <1>2, <1>4 DEF Jobs
  <2>2. PaneJob'
    BY <1>1, <1>2, <1>4, <2>1 DEF PaneJob, Shut
  <2>3. job' # NoJob
    BY <2>1 DEF NoJob
  <2>4. QED
    BY <1>3, <1>4, <2>1, <2>2, <2>3
    DEF AgentsInv, JobWell, RefusedWell, Settles, NoneLeft, RunningIsProven
<1>5. CASE Verdict = "Running" /\ Done("pane", "Running", job.id, job.argv, n) /\ UNCHANGED kids
  <2>1. AgentsInv' /\ said'.result = "Running" /\ said'.kid = n
    BY <1>3, <1>5, DoneKeeps
  <2>2. Alive(n) /\ (Settled \/ (clock >= job.until /\ job.wrote))
    BY <1>5, VerdictMeans
  <2>3. /\ job.wrote => kids[n].wrote
        /\ job.wroteAt # <<>> => kids[n].wrote /\ kids[n].first <= job.wroteAt[1]
    BY <1>1, <1>2 DEF PaneJob
  <2>4. kids'[n].wrote /\ kids'[n].state = "runs"
    BY <1>5, <2>2, <2>3 DEF Alive, Settled
  <2>5. clock >= Min({kids[n].first + Settle, job.until})
    <3> DEFINE f == kids[n].first
               u == job.until
               w == job.wroteAt[1]
    <3>1. kids # <<>> /\ kids \in Seq(KidSet)
      BY <1>1, <1>2 DEF PaneJob, AgentsInv, KidsWell
    <3>2. n \in 1 .. n
      BY <3>1, LenProperties, EmptySeq
    <3>3. f \in Nat /\ u \in Nat /\ Settle \in Nat
      <4>1. kids[n] \in KidSet
        BY <3>1, <3>2
      <4>2. QED
        BY <1>2, <4>1, AgentsAssumption DEF KidSet, Jobs
    <3>4. CASE Settled
      <4>1. job.wroteAt \in Seq(Nat) /\ job.wroteAt # <<>>
        BY <1>2, <3>4 DEF Settled, Jobs
      <4>2. w \in Nat /\ f <= w /\ clock - w >= Settle
        BY <2>3, <3>4, <4>1 DEF Settled
      <4> HIDE DEF f, u, w
      <4>3. clock >= f + Settle /\ f + Settle \in Int /\ u \in Int
        BY <1>1, <3>3, <4>2
      <4>4. Min({f + Settle, u}) = IF f + Settle <= u THEN f + Settle ELSE u
        BY <4>3, MinOfTwo
      <4>5. clock >= Min({f + Settle, u})
        BY <1>1, <4>3, <4>4
      <4>6. QED
        BY <4>5 DEF f, u
    <3>5. CASE clock >= job.until
      <4>1. clock >= u
        BY <3>5
      <4> HIDE DEF f, u, w
      <4>2. f + Settle \in Int /\ u \in Int
        BY <3>3
      <4>3. Min({f + Settle, u}) = IF f + Settle <= u THEN f + Settle ELSE u
        BY <4>2, MinOfTwo
      <4>4. clock >= Min({f + Settle, u})
        BY <1>1, <4>1, <4>2, <4>3
      <4>5. QED
        BY <4>4 DEF f, u
    <3>6. QED
      BY <2>2, <3>4, <3>5
  <2>6. UNCHANGED clock
    BY <1>1
  <2>7. NoneLeft
    BY <2>1 DEF NoneLeft
  <2>8. RunningIsProven
    <3>1. clock >= Min({kids[said'.kid].first + Settle, job.until})
      <4>1. said'.kid = n
        BY <2>1
      <4>2. QED
        BY ONLY <2>5, <4>1, Zenon
    <3>2. kids'[said'.kid].wrote /\ kids'[said'.kid].state = "runs"
      BY <2>1, <2>4
    <3>3. QED
      BY <3>1, <3>2 DEF RunningIsProven
  <2>9. QED
    BY <2>1, <2>7, <2>8 DEF Settles
<1>6. CASE Retry
  BY <1>1, <1>6, RetryKeeps
<1>7. QED
  BY <1>4, <1>5, <1>6 DEF ObserveJudge

LEMMA ObserveSleepsKeeps == ASSUME AgentsInv, ObserveSleeps PROVE AgentsInv' /\ Settles
<1>1. /\ job.phase = "tick" /\ UNCHANGED <<installed, probe, kids, said>> /\ clock \in Nat
      /\ clock' = clock + 1 /\ lastTrue' = Noted(installed.files, clock + 1) /\ job' = [job EXCEPT !.phase = "poll"]
  BY DEF ObserveSleeps, AgentsInv, Noticed
<1>2. job.kind = "pane" /\ PaneJob /\ job \in Jobs
  BY <1>1 DEF AgentsInv, JobWell, SpawnJob, NoJob, Jobs
<1>3. clock + 1 \in Nat /\ clock <= clock + 1
  BY <1>1
<1>4. Noticed'
  BY <1>1, <1>3, NotedKeeps DEF AgentsInv
<1>5. KidsWell'
  BY <1>1, <1>3, KidsWait DEF AgentsInv
<1>6. /\ job' \in Jobs /\ job'.kind = "pane" /\ job'.phase = "poll" /\ job'.id = job.id
      /\ job'.wrote = job.wrote /\ job'.wroteAt = job.wroteAt
  BY <1>1, <1>2 DEF Jobs
<1>7. PaneJob'
  BY <1>1, <1>2, <1>6 DEF PaneJob, Shut
<1>8. job' # NoJob
  BY <1>6 DEF NoJob
<1>9. QED
  BY <1>1, <1>4, <1>5, <1>6, <1>7, <1>8
  DEF AgentsInv, JobWell, RefusedWell, Settles, NoneLeft, RunningIsProven

LEMMA NoLaunchEnds == ASSUME AgentsInv, job.kind # "pane" \/ job' = job PROVE Settles
  BY DEF AgentsInv, JobWell, NoJob, Settles, NoneLeft, RunningIsProven

LEMMA NoneResolved ==
  ASSUME \/ said' = said
         \/ \E call, result, id, argv, kid : call # "resolve" /\ Done(call, result, id, argv, kid)
  PROVE  ResolveIsRecent
  BY DEF ResolveIsRecent, Done, Nothing

LaunchSteps == Settles /\ ResolveIsRecent

LEMMA MenuHolds == ASSUME AgentsInv, MenuNext PROVE LaunchSteps
<1>1. Settles
  <2>1. job' = job
    BY DEF MenuNext, Machine, Pass, Installs, Available, AgentResolve, AgentScreen
  <2>2. QED
    BY <2>1, NoLaunchEnds
<1>2. CASE Machine \/ Available \/ (\E argv \in Argvs : AgentScreen(argv))
  <2>1. said' = said \/ said'.call # "resolve"
    BY <1>2 DEF Machine, Pass, Installs, Available, AgentScreen, Nothing
  <2>2. QED
    BY <1>1, <2>1 DEF ResolveIsRecent, LaunchSteps
<1>3. ASSUME NEW id \in Ids \union {Unknown}, AgentResolve(id)
      PROVE  LaunchSteps
  <2>1. CASE id \in Ids
    <3>1. /\ said'.id = id /\ said'.found = Resolved(id) /\ UNCHANGED <<clock, lastTrue>>
      BY <1>3, <2>1 DEF AgentResolve, Nothing
    <3>2. PICK t \in lastTrue[id] :
            t.found = Resolved(id) /\ clock - t.at < Max({1, IF t.found = <<>> THEN MissFor ELSE HitFor})
      BY <2>1, ResolvedRecent DEF AgentsInv
    <3>3. QED
      BY <1>1, <3>1, <3>2 DEF LaunchSteps, ResolveIsRecent
  <2>2. CASE id \notin Ids
    <3>1. said'.id = Unknown
      BY <1>3, <2>2 DEF AgentResolve, Nothing
    <3>2. Unknown \notin Ids
      BY AgentsAssumption DEF Ids
    <3>3. QED
      BY <1>1, <3>1, <3>2 DEF LaunchSteps, ResolveIsRecent
  <2>3. QED
    BY <2>1, <2>2
<1>4. QED
  BY <1>2, <1>3 DEF MenuNext

LEMMA LaunchKeeps == ASSUME AgentsInv, LaunchNext PROVE AgentsInv' /\ LaunchSteps
<1>1. CASE Pass
  BY <1>1, PassKeeps, NoLaunchEnds, NoneResolved DEF Pass, LaunchSteps
<1>2. ASSUME NEW k \in DOMAIN kids, KidActs(k)
      PROVE  AgentsInv' /\ LaunchSteps
  <2>1. job' = job /\ said' = said
    BY <1>2 DEF KidActs
  <2>2. QED
    BY <1>2, <2>1, KidActsKeeps, NoLaunchEnds, NoneResolved DEF LaunchSteps
<1>3. ASSUME NEW id \in Ids, NEW argv \in Argvs, NEW cwd \in Cwds, IntoPane(id, argv, cwd)
      PROVE  AgentsInv' /\ LaunchSteps
  <2>1. AgentsInv' /\ job' # NoJob
    BY <1>3, IntoPaneKeeps
  <2>2. said' = said
    BY <1>3 DEF IntoPane
  <2>3. QED
    BY <2>1, <2>2, NoneResolved DEF LaunchSteps, Settles, NoneLeft, RunningIsProven
<1>4. CASE Attempt
  <2>1. AgentsInv' /\ Settles
    BY <1>4, AttemptKeeps
  <2>2. \/ said' = said
        \/ \E result, id, argv, kid : Done("pane", result, id, argv, kid)
    BY <1>4 DEF Attempt
  <2>3. QED
    BY <2>1, <2>2, NoneResolved DEF LaunchSteps
<1>5. CASE ObservePoll
  <2>1. said' = said
    BY <1>5 DEF ObservePoll
  <2>2. QED
    BY <1>5, <2>1, ObservePollKeeps, NoneResolved DEF LaunchSteps
<1>6. CASE ObserveJudge
  <2>1. AgentsInv' /\ Settles
    BY <1>6, ObserveJudgeKeeps
  <2>2. \/ said' = said
        \/ \E result, id, argv, kid : Done("pane", result, id, argv, kid)
    BY <1>6 DEF ObserveJudge, Retry, TryAgain
  <2>3. QED
    BY <2>1, <2>2, NoneResolved DEF LaunchSteps
<1>7. CASE ObserveSleeps
  <2>1. said' = said
    BY <1>7 DEF ObserveSleeps
  <2>2. QED
    BY <1>7, <2>1, ObserveSleepsKeeps, NoneResolved DEF LaunchSteps
<1>8. ASSUME NEW shell \in BOOLEAN, NEW cwd \in Cwds, HostSpawn(shell, cwd)
      PROVE  AgentsInv' /\ LaunchSteps
  <2>1. job.kind # "pane"
    BY <1>8 DEF HostSpawn, NotYet, NoJob
  <2>2. \/ said' = said
        \/ \E why : Done("spawn", why, Unknown, <<>>, 0)
    BY <1>8 DEF HostSpawn
  <2>3. QED
    BY <1>8, <2>1, <2>2, HostSpawnKeeps, NoLaunchEnds, NoneResolved DEF LaunchSteps
<1>9. ASSUME NEW id \in Ids \union {Unknown}, NEW argv \in Argvs, NEW cwd \in Cwds, HostSpawnAgent(id, argv, cwd)
      PROVE  AgentsInv' /\ LaunchSteps
  <2>1. job.kind # "pane"
    BY <1>9 DEF HostSpawnAgent, NotYet, NoJob
  <2>2. \/ said' = said
        \/ \E result : Done("agent", result, id, argv, 0)
    BY <1>9 DEF HostSpawnAgent
  <2>3. QED
    BY <1>9, <2>1, <2>2, HostSpawnAgentKeeps, NoLaunchEnds, NoneResolved DEF LaunchSteps
<1>10. CASE SpawnInto
  <2>1. job.kind \in {"spawn", "agent"}
    BY <1>10 DEF SpawnInto, AgentsInv, JobWell, PaneJob, NoJob, Jobs
  <2>2. \/ said' = said
        \/ \E result, id, argv, kid : Done(job.kind, result, id, argv, kid)
    BY <1>10 DEF SpawnInto
  <2>3. QED
    BY <1>10, <2>1, <2>2, SpawnIntoKeeps, NoLaunchEnds, NoneResolved DEF LaunchSteps
<1>11. QED
  BY <1>1, <1>2, <1>3, <1>4, <1>5, <1>6, <1>7, <1>8, <1>9, <1>10 DEF LaunchNext

LEMMA AgentsStart == AgentsInit => AgentsInv
<1>1. SUFFICES ASSUME AgentsInit PROVE AgentsInv
  OBVIOUS
<1>2. Noticed
  <2>1. ASSUME NEW id \in Ids
        PROVE  \E t \in lastTrue[id] : t.found = Walk(installed.files, id) /\ t.at = clock
    <3> DEFINE t == [found |-> Walk(installed.files, id), at |-> 0]
    <3>1. t \in lastTrue[id] /\ clock = 0
      BY <1>1 DEF AgentsInit
    <3>2. t.found = Walk(installed.files, id) /\ t.at = 0
      OBVIOUS
    <3> HIDE DEF t
    <3>3. QED
      BY <3>1, <3>2
  <2>2. QED
    BY <1>1, <2>1 DEF AgentsInit, Noticed
<1>3. KidsWell
  BY <1>1, EmptySeq DEF AgentsInit, KidsWell
<1>4. JobWell
  <2>1. NoJob \in Jobs /\ NoJob.kind = "none"
    BY AgentsAssumption DEF NoJob, Jobs, Cwds
  <2>2. QED
    BY <1>1, <2>1 DEF AgentsInit, JobWell
<1>5. RefusedWell
  BY <1>1 DEF AgentsInit, RefusedWell, Nothing
<1>6. QED
  BY <1>2, <1>3, <1>4, <1>5 DEF AgentsInv

LEMMA AgentsKeep == AgentsInv /\ [MenuNext \/ LaunchNext]_avars => AgentsInv' /\ [LaunchSteps]_avars
<1>1. ASSUME AgentsInv, UNCHANGED avars
      PROVE  AgentsInv'
  <2>1. Noticed'
    BY <1>1, NoticedStays DEF AgentsInv, avars
  <2>2. RefusedWell' /\ UNCHANGED <<clock, kids, job>>
    BY <1>1 DEF AgentsInv, RefusedWell, avars
  <2>3. QED
    BY <1>1, <2>1, <2>2, MachineKeeps
<1>2. QED
  BY <1>1, MenuKeeps, MenuHolds, LaunchKeeps

\* Of the children of a launch only the last may be left.
LEMMA OneIsLeft == AgentsInv => OneAgentAtATime
<1> DEFINE n == Len(kids)
           mine == {k \in DOMAIN kids : k > job.started /\ kids[k].state # "shut"}
<1>1. SUFFICES ASSUME AgentsInv, job.kind = "pane"
               PROVE  Cardinality(mine) <= IF job.phase = "backoff" THEN 0 ELSE 1
  BY DEF OneAgentAtATime
<1>2. PaneJob /\ kids \in Seq(KidSet)
  BY <1>1 DEF AgentsInv, JobWell, KidsWell
<1>3. n \in Nat /\ DOMAIN kids = 1 .. n
  BY <1>2, LenProperties
<1>4. CASE job.phase = "backoff"
  <2>1. mine = {}
    BY <1>2, <1>3, <1>4 DEF PaneJob, Shut
  <2>2. Cardinality({}) = 0
    BY FS_EmptySet
  <2> HIDE DEF mine
  <2>3. QED
    BY <1>4, <2>1, <2>2
<1>5. CASE job.phase # "backoff"
  <2>1. mine \subseteq {n}
    <3>1. Shut(n - 1)
      BY <1>2, <1>5 DEF PaneJob
    <3>2. \A k \in 1 .. n : k # n => k \in 1 .. n - 1
      <4>1. n \in Nat
        BY <1>3
      <4> HIDE DEF n
      <4>2. QED
        BY <4>1
    <3>3. QED
      BY <1>3, <3>1, <3>2 DEF Shut
  <2>2. IsFiniteSet({n}) /\ Cardinality({n}) = 1
    BY FS_Singleton
  <2> HIDE DEF mine
  <2>3. Cardinality(mine) <= Cardinality({n})
    BY <2>1, <2>2, FS_Subset
  <2>4. QED
    BY <1>5, <2>2, <2>3, SMTT(30)
<1>6. QED
  BY <1>4, <1>5

LEMMA LaunchesAre == AgentsInv => OneAgentAtATime /\ GuardIsExact /\ EveryChildDressed
<1>1. SUFFICES ASSUME AgentsInv PROVE GuardIsExact /\ EveryChildDressed
  BY OneIsLeft
<1>2. \A k \in DOMAIN kids : KidOK(kids[k], clock)
  <2>1. kids \in Seq(KidSet)
    BY <1>1 DEF AgentsInv, KidsWell
  <2>2. DOMAIN kids = 1 .. Len(kids)
    BY <2>1, LenProperties
  <2>3. QED
    BY <1>1, <2>2 DEF AgentsInv, KidsWell
<1>3. GuardIsExact
  BY <1>1, <1>2 DEF GuardIsExact, AgentsInv, RefusedWell, KidOK
<1>4. EveryChildDressed
  <2>1. ASSUME NEW k \in DOMAIN kids
        PROVE  /\ kids[k].command.term /\ ~kids[k].command.marked
               /\ kids[k].cwd = "there" => kids[k].command.cwd = "there"
               /\ kids[k].cwd # "there" /\ kids[k].run \in Ids => kids[k].command.cwd = "home"
    <3>1. kids[k].command \in Commands
      BY <1>2 DEF KidOK, KidSet
    <3>2. QED
      BY <1>2, <3>1 DEF KidOK, Commands
  <2>2. QED
    BY <2>1 DEF EveryChildDressed
<1>5. QED
  BY <1>3, <1>4

\* AgentsInv of every reachable state: what is remembered of the machine was true
\* then, every child is dressed and was screened, and a launch has shut every
\* child but the one it watches.
THEOREM AgentsInvariant == OwnerSpec => []AgentsInv
<1>1. OwnerInit => AgentsInv
  BY AgentsStart DEF OwnerInit
<1>2. AgentsInv /\ [OwnerNext]_ovars => AgentsInv'
  <2>1. [OwnerNext]_ovars => [MenuNext \/ LaunchNext]_avars
    BY DEF OwnerNext, ovars
  <2>2. QED
    BY <2>1, AgentsKeep
<1>3. QED
  BY <1>1, <1>2, PTL DEF OwnerSpec

\* LaunchesHold, for any registry, argvs, bypasses and times: one agent at a time
\* and none left by a launch that failed, no child that was not screened and
\* dressed, a success that was proven, and answers as recent as promised
\* (agent::Probe::resolve, agent::screen, launch::into_pane, mind2t_host_spawn_agent).
THEOREM LaunchesAlwaysHold == OwnerSpec => LaunchesHold
<1>1. AgentsInv => OneAgentAtATime /\ GuardIsExact /\ EveryChildDressed
  BY LaunchesAre
<1>2. AgentsInv /\ [OwnerNext]_ovars => [NoneLeft /\ RunningIsProven /\ ResolveIsRecent]_avars
  <2>1. [OwnerNext]_ovars => [MenuNext \/ LaunchNext]_avars
    BY DEF OwnerNext, ovars
  <2>2. AgentsInv /\ [MenuNext \/ LaunchNext]_avars => [NoneLeft /\ RunningIsProven /\ ResolveIsRecent]_avars
    BY AgentsKeep DEF LaunchSteps, Settles
  <2>3. QED
    BY <2>1, <2>2
<1>3. QED
  BY <1>1, <1>2, AgentsInvariant, PTL DEF OwnerSpec, LaunchesHold
=============================================================================
