------------------------------- MODULE Panes -------------------------------
(***************************************************************************)
(* A canvas of panes: the tiling arithmetic (crates/host/src/layout.rs)    *)
(* and the live canvas that spawns, splits, closes and re-tiles a session  *)
(* per cell (crates/host/src/canvas.rs, session.rs).                       *)
(*                                                                         *)
(* A font is named by the side of its square cell.  A pane is what the     *)
(* canvas knows of it (rect), what its session does (geometry, font, the   *)
(* renderer's cell, the pointer's area), and what its child was told.      *)
(***************************************************************************)
EXTENDS Integers, Sequences, SequencesExt, FiniteSetsExt

CONSTANTS Gutter,     \* pixels between two panes
          PaneFonts,  \* font sizes a caller asks for
          Areas,      \* the rectangles a canvas is laid into
          PaneCols, PaneRows,        \* Options::new's floor of the capacity
          MinSplitCols, MinSplitRows, \* MIN_SPLIT_COLS, MIN_SPLIT_ROWS
          MaxBorn, MaxCanvasCalls \* bounds: sessions spawned, calls

ASSUME PanesAssumption ==
  /\ Gutter \in Nat /\ PaneFonts \subseteq Nat \ {0} /\ MaxBorn \in Nat /\ MaxCanvasCalls \in Nat
  /\ Areas \subseteq [x : Nat, y : Nat, w : Nat, h : Nat]
  /\ {PaneCols, PaneRows, MinSplitCols, MinSplitRows} \subseteq Nat \ {0}

VARIABLES canvas,  \* <<>>, or <<[cols, rows, area]>>
          panes,   \* the panes from left to right, row by row
          born,    \* sessions spawned so far
          running, \* the sessions whose child runs
          told     \* the last call: how many there were, its name and answer, the font it asked

pvars == <<canvas, panes, born, running, told>>

-----------------------------------------------------------------------------
(* Layout.                                                                 *)

Smaller(a, b) == IF a < b THEN a ELSE b
Larger(a, b)  == IF a < b THEN b ELSE a
Minus(a, b)   == IF a < b THEN 0 ELSE a - b
Rect(x, y, w, h) == [x |-> x, y |-> y, w |-> w, h |-> h]

\* The first `total % count` cells are a pixel larger than the others.
EdgeLate(index, total, count) == index * (total \div count)
Edge(index, total, count) == index * (total \div count) + Smaller(index, total % count)

UsableWidth(area, cols)  == Minus(area.w, Gutter * (cols - 1))
UsableHeight(area, rows) == Minus(area.h, Gutter * (rows - 1))
Span(index, total, count) == Edge(index + 1, total, count) - Edge(index, total, count)

Tile(g, area) ==
  LET cols == Larger(g.cols, 1)  rows == Larger(g.rows, 1)
      W == UsableWidth(area, cols)  H == UsableHeight(area, rows)
  IN [k \in 1..rows * cols |->
       LET col == (k - 1) % cols  row == (k - 1) \div cols IN
       Rect(area.x + Edge(col, W, cols) + Gutter * col, area.y + Edge(row, H, rows) + Gutter * row,
            Span(col, W, cols), Span(row, H, rows))]

Clip(r, area) ==
  LET right  == Smaller(r.x + r.w, area.x + area.w)
      bottom == Smaller(r.y + r.h, area.y + area.h)
  IN Rect(Smaller(r.x, right), Smaller(r.y, bottom), Minus(right, r.x), Minus(bottom, r.y))

\* A full column between two columns of panes, a piece per pane between rows.
Dividers(g, area) ==
  LET cols == Larger(g.cols, 1)  rows == Larger(g.rows, 1)
      W == UsableWidth(area, cols)  H == UsableHeight(area, rows)
      upright == {Rect(area.x + Edge(c, W, cols) + Gutter * (c - 1), area.y, Gutter, area.h) : c \in 1..cols-1}
      level   == {Rect(area.x + Edge(c, W, cols) + Gutter * c,
                       area.y + Edge(r, H, rows) + Gutter * (r - 1), Span(c, W, cols), Gutter)
                    : c \in 0..cols-1, r \in 1..rows-1}
  IN {d \in {Clip(r, area) : r \in upright \union level} : d.w > 0 /\ d.h > 0}

Inside(p, r) == p[1] \in r.x .. r.x + r.w - 1 /\ p[2] \in r.y .. r.y + r.h - 1
PaneAt(p) == {k \in DOMAIN panes : Inside(p, panes[k].rect) /\ \A j \in 1..k-1 : ~Inside(p, panes[j].rect)}

-----------------------------------------------------------------------------
(* Sessions.                                                               *)

Fit(r, cell) == [cols |-> r.w \div cell, rows |-> r.h \div cell]
Hopeless(g)  == g.cols = 0 \/ g.rows = 0

\* spawn_fitted_on, with its floor of one, and the pointer's area after it.
Spawned(id, r, font) ==
  LET g == [cols |-> Larger(r.w \div font, 1), rows |-> Larger(r.h \div font, 1)] IN
  [id |-> id, rect |-> r, geometry |-> g, child |-> g, font |-> font, cell |-> font,
   mouse |-> <<r.w, r.h>>, failed |-> FALSE,
   room |-> [cols |-> Larger(g.cols, PaneCols), rows |-> Larger(g.rows, PaneRows)]]

\* Session::resize: the same or no grid, refused by the pty, built, not built.
Resizes(p, g) ==
  CASE g = p.geometry \/ Hopeless(g) -> {[pane |-> p, result |-> "ok"]}
    [] g # p.geometry /\ ~Hopeless(g) /\ (g.cols > p.room.cols \/ g.rows > p.room.rows) ->
         {[pane |-> p, result |-> "refused"]}
    [] OTHER -> {[pane |-> [p EXCEPT !.child = g, !.geometry = g, !.cell = p.font], result |-> "ok"],
                 [pane |-> [p EXCEPT !.child = g, !.failed = TRUE], result |-> "failed"]}

\* Canvas::resize: pane by pane, up to the first that cannot follow.
RetilePane(p, r) ==
  LET moved == [p EXCEPT !.rect = r]
      g     == Fit(r, p.cell)
  IN IF Hopeless(g) THEN {[pane |-> moved, result |-> "small"]}
     ELSE {IF o.result # "ok" THEN o ELSE [o EXCEPT !.pane.mouse = <<r.w, r.h>>] : o \in Resizes(moved, g)}
Moved(ps, rects) ==
  LET moved[k \in 0 .. Len(ps)] ==
        IF k = 0 THEN {[panes |-> ps, result |-> "ok"]}
        ELSE UNION {IF o.result # "ok" \/ k > Len(rects) THEN {o}
                    ELSE {[panes |-> [o.panes EXCEPT ![k] = m.pane], result |-> m.result]
                            : m \in RetilePane(o.panes[k], rects[k])} : o \in moved[k - 1]}
  IN moved
Retiled(ps, rects) == Moved(ps, rects)[Len(ps)]

-----------------------------------------------------------------------------
(* The canvas.                                                             *)

Canvas == canvas[1]
Fonts  == {panes[k].font : k \in DOMAIN panes} \union {panes[k].cell : k \in DOMAIN panes}
Says(call, result, font) == told' = [n |-> told.n + 1, call |-> call, result |-> result, font |-> font]
NoCall == [n |-> 0, call |-> "none", result |-> "ok", font |-> 0]

PanesInit == canvas = <<>> /\ panes = <<>> /\ born = 0 /\ running = {} /\ told = NoCall

\* Canvas::spawn: all the cells, or none.
SpawnCanvas(g, area, font) ==
  LET rects == Tile(g, area) IN
  /\ canvas = <<>> /\ told = NoCall /\ born + Len(rects) <= MaxBorn
  /\ born' = born + Len(rects)
  /\ \/ /\ \E k \in DOMAIN rects : Hopeless(Fit(rects[k], font))
        /\ Says("spawn", "small", font)
        /\ UNCHANGED <<canvas, panes, running>>
     \/ /\ Says("spawn", "failed", font)
        /\ UNCHANGED <<canvas, panes, running>>
     \/ /\ \A k \in DOMAIN rects : ~Hopeless(Fit(rects[k], font))
        /\ canvas' = <<[cols |-> g.cols, rows |-> g.rows, area |-> area]>>
        /\ panes' = [k \in DOMAIN rects |-> Spawned(born + k, rects[k], font)]
        /\ running' = {born + k : k \in DOMAIN rects}
        /\ Says("spawn", "ok", font)

ResizeCanvas(area) ==
  /\ canvas # <<>>
  /\ canvas' = <<[Canvas EXCEPT !.area = area]>>
  /\ \E o \in Retiled(panes, Tile(Canvas, area)) : panes' = o.panes /\ Says("resize", o.result, 0)
  /\ UNCHANGED <<born, running>>

\* The panes move first, and then the last is found too small.
SplitMovingFirst(font) ==
  LET grown == [Canvas EXCEPT !.cols = @ + 1]
      rects == Tile(grown, Canvas.area)
      new   == Spawned(born + 1, rects[Len(rects)], font)
  IN /\ canvas # <<>> /\ Canvas.rows = 1 /\ born < MaxBorn
     /\ born' = born + 1 /\ canvas' = <<grown>> /\ running' = running \union {new.id}
     /\ \E o \in Retiled(Append(panes, new), rects) :
          panes' = o.panes /\ Says("split", o.result, font)

\* Canvas::split: refused by the rows, by the spawn, by either floor; or done,
\* and then re-tiled.
Split(font) ==
  LET grown   == [Canvas EXCEPT !.cols = @ + 1]
      rects   == Tile(grown, Canvas.area)
      new     == Spawned(born + 1, rects[Len(rects)], font)
      Fits    == {Fit(rects[k], font) : k \in DOMAIN rects}
      Small   == \E g \in Fits : Hopeless(g)
      Cramped == \E g \in Fits : g.cols < MinSplitCols \/ g.rows < MinSplitRows
      Refuse(why) == Says("split", why, font) /\ UNCHANGED <<canvas, panes, running>>
  IN /\ canvas # <<>> /\ born < MaxBorn
     /\ IF Canvas.rows > 1 THEN Refuse("rows") /\ UNCHANGED born
        ELSE /\ born' = born + 1
             /\ \/ Refuse("unspawned")
                \/ Small /\ Refuse("small")
                \/ ~Small /\ Cramped /\ Refuse("narrow")
                \/ /\ ~Small /\ ~Cramped
                   /\ canvas' = <<grown>> /\ running' = running \union {new.id}
                   /\ \E o \in Retiled(Append(panes, new), rects) :
                        panes' = o.panes /\ Says("split", o.result, font)

\* Canvas::close on a canvas of one row; what is left is re-tiled.
Closed1(c, ps, index) ==
  IF index \notin DOMAIN ps THEN {[canvas |-> c, panes |-> ps, gone |-> {}, result |-> "none"]}
  ELSE IF c.rows > 1 THEN {[canvas |-> c, panes |-> ps, gone |-> {}, result |-> "rows"]}
  ELSE LET left == RemoveAt(ps, index)
           less == [c EXCEPT !.cols = Minus(@, 1)]
       IN IF left = <<>> THEN {[canvas |-> less, panes |-> left, gone |-> {ps[index].id}, result |-> "ok"]}
          ELSE {[canvas |-> less, panes |-> o.panes, gone |-> {ps[index].id}, result |-> o.result]
                  : o \in Retiled(left, Tile(less, less.area))}

ClosePane(index) ==
  /\ canvas # <<>>
  /\ \E o \in Closed1(Canvas, panes, index) :
       /\ canvas' = <<o.canvas>> /\ panes' = o.panes /\ running' = running \ o.gone
       /\ Says("close", o.result, 0)
  /\ UNCHANGED born

\* exited_panes: the indices of the panes that exited, the newest first.
ListedForward ==
  LET listed[k \in 0 .. Len(panes)] ==
        IF k = 0 THEN <<>>
        ELSE IF panes[k].id \in running THEN listed[k - 1] ELSE Append(listed[k - 1], k)
  IN listed
Listed ==
  LET listed[k \in 0 .. Len(panes)] ==
        IF k = 0 THEN <<>>
        ELSE IF panes[k].id \in running THEN listed[k - 1] ELSE <<k>> \o listed[k - 1]
  IN listed
ExitedPanes == Listed[Len(panes)]

\* The caller closes them in that order, whatever a re-tile answers on the way.
ClosedInTurn ==
  LET closed[n \in 0 .. Len(ExitedPanes)] ==
        IF n = 0 THEN {[canvas |-> Canvas, panes |-> panes, gone |-> {}, result |-> "ok"]}
        ELSE UNION {Closed1(o.canvas, o.panes, ExitedPanes[n]) : o \in closed[n - 1]}
  IN closed
CloseExited ==
  /\ canvas # <<>> /\ ExitedPanes # <<>>
  /\ \E o \in ClosedInTurn[Len(ExitedPanes)] :
       canvas' = <<o.canvas>> /\ panes' = o.panes /\ Says("exited", o.result, 0)
  /\ UNCHANGED <<born, running>>

ChildEnds(id) ==
  /\ id \in running
  /\ running' = running \ {id}
  /\ UNCHANGED <<canvas, panes, born, told>>

\* Session::set_font_size on one pane, in the rectangle it has.
ZoomPane(k, font) ==
  LET p == panes[k]
      g == [cols |-> Larger(p.rect.w \div font, 1), rows |-> Larger(p.rect.h \div font, 1)]
  IN /\ font # p.font
     /\ \/ /\ g.cols > p.room.cols \/ g.rows > p.room.rows
           /\ Says("font", "refused", font) /\ UNCHANGED panes
        \/ /\ g.cols <= p.room.cols /\ g.rows <= p.room.rows
           /\ \/ /\ panes' = [panes EXCEPT ![k] = [p EXCEPT !.child = g, !.geometry = g, !.font = font,
                                                             !.cell = font]]
                 /\ Says("font", "ok", font)
              \/ /\ panes' = [panes EXCEPT ![k] = [p EXCEPT !.child = g, !.font = font, !.failed = TRUE]]
                 /\ Says("font", "failed", font)
     /\ UNCHANGED <<canvas, born, running>>

ShutdownPanes ==
  /\ canvas # <<>> /\ running # {}
  /\ running' = {} /\ canvas' = <<>> /\ panes' = <<>> /\ Says("shutdown", "ok", 0)
  /\ UNCHANGED born

CanvasCalls ==
  \/ \E cols \in 1..2, rows \in 1..2, area \in Areas, font \in PaneFonts :
       SpawnCanvas([cols |-> cols, rows |-> rows], area, font)
  \/ \E area \in Areas : ResizeCanvas(area)
  \/ \E font \in PaneFonts : Split(font)
  \/ \E index \in 1..3 : ClosePane(index)
  \/ CloseExited
  \/ \E k \in DOMAIN panes, font \in PaneFonts : ZoomPane(k, font)
  \/ ShutdownPanes

PanesNext ==
  \/ \E id \in running : ChildEnds(id)
  \/ told.n < MaxCanvasCalls /\ CanvasCalls

-----------------------------------------------------------------------------
(* Properties.                                                             *)

\* The canvas has as many panes as cells, and every child that runs has one.
PanesTypeOK ==
  /\ born \in 0..MaxBorn
  /\ canvas = <<>> => panes = <<>> /\ running = {}
  /\ canvas # <<>> => Len(panes) = Canvas.rows * Canvas.cols
  /\ running \subseteq {panes[k].id : k \in DOMAIN panes}
  /\ \A k \in DOMAIN panes : ~Hopeless(panes[k].geometry) /\ panes[k].child.cols <= panes[k].room.cols

LaidOut == told.call \in {"spawn", "resize", "split", "close", "exited"} /\ told.result = "ok" /\ panes # <<>>

\* After a layout that succeeded every pixel of the area belongs to one pane or
\* one divider ("Every pixel of the area is counted once across both"), so the
\* pane under the pointer is the pane drawn there, and nothing is left between.
EveryPixelOnce ==
  LaidOut /\ Canvas.area.w >= Gutter * (Canvas.cols - 1) /\ Canvas.area.h >= Gutter * (Canvas.rows - 1) =>
    LET area == Canvas.area
        rules == Dividers(Canvas, area)
    IN \A p \in (area.x .. area.x + area.w - 1) \X (area.y .. area.y + area.h - 1) :
         IF \E d \in rules : Inside(p, d)
         THEN PaneAt(p) = {} /\ Cardinality({d \in rules : Inside(p, d)}) = 1
         ELSE Cardinality({k \in DOMAIN panes : Inside(p, panes[k].rect)}) = 1

\* "each pane's pty was told ITS OWN size": after a layout that succeeded the
\* child, the renderer and the pointer of every pane agree on the rectangle it
\* has, whatever was split, closed, zoomed or refused before; but for a session
\* one of whose rebuilds failed.
PaneKnowsItsSize ==
  LaidOut =>
    \A k \in DOMAIN panes :
      LET p == panes[k] IN
      /\ p.rect = Tile(Canvas, Canvas.area)[k] /\ p.mouse = <<p.rect.w, p.rect.h>>
      /\ ~p.failed => p.child = Fit(p.rect, p.cell) /\ p.geometry = p.child /\ p.cell = p.font

\* "A refused split leaves the canvas exactly as it was": one refused by the rows,
\* the spawn or a floor changes nothing and leaves no child behind, as long as
\* the panes it measures with the new one's cell have that cell.
RefusedSplitKeeps ==
  told' # told /\ told'.call = "split" =>
    \/ told'.result \in {"ok", "failed", "refused"}
    \/ told'.result = "small" /\ ~(Fonts \subseteq {told'.font})
    \/ UNCHANGED <<canvas, panes, running>>

\* Closing what exited_panes returned, in its order, closes those panes and no
\* other, though every close renumbers the panes after it and may fail to re-tile.
ExitedAreClosed ==
  told'.call = "exited" /\ told' # told /\ Canvas.rows = 1 =>
    {panes'[k].id : k \in DOMAIN panes'} = running
PanesHold == [](EveryPixelOnce /\ PaneKnowsItsSize) /\ [][RefusedSplitKeeps /\ ExitedAreClosed]_pvars
=============================================================================
