---------------------------- MODULE FrameRepaint ----------------------------
(***************************************************************************)
(* Damage, from the terminal that changes rows to the canvas that shows    *)
(* them: the core's dirty rows, the publisher that turns them into row     *)
(* stamps (crates/frame/src/publish.rs), the session that polls frames     *)
(* (crates/host/src/session.rs) and the renderer that repaints stale rows  *)
(* (crates/render/src/renderer.rs).                                        *)
(*                                                                         *)
(* Publishing and reading are single steps: FrameChannel shows that the    *)
(* seqlock hands over whole frames, in order, or nothing.                  *)
(***************************************************************************)
EXTENDS Naturals, Sequences

CONSTANTS Content,     \* what a row of text can say
          MaxRows,     \* bound: rows the terminal can grow to
          Setups       \* the set-ups of the session, with the bounds each is run to:
                       \*   capacity    rows the frame channel was allocated for
                       \*   heights     rows the terminal and the surface can have
                       \*   cols        columns the cursor can stand in
                       \*   publishes   bound: frames published
                       \*   history     scrollback budget, in rows
                       \*   highlights  sets of rows the user can select, with {}
                       \*   carets      what DECTCEM can set cursor_visible to, with TRUE

ASSUME GeometryAssumption ==
  /\ MaxRows \in Nat \ {0}
  /\ Setups \subseteq [capacity : Nat \ {0}, heights : SUBSET (1 .. MaxRows),
                       cols : Nat \ {0}, publishes : Nat, history : Nat,
                       highlights : SUBSET SUBSET (1 .. MaxRows), carets : SUBSET BOOLEAN]
  /\ \A s \in Setups : {} \in s.highlights

VARIABLES
  setup,       \* the set-up of this session, never changed
  grid,        \* the active screen's rows
  history,     \* rows that scrolled off, oldest first
  cursor,      \* terminal cursor: column, row, shown
  dirty,       \* Grid.dirty: rows changed since the last publish
  full,        \* State.full_damage
  lastOffset,  \* Publisher.last_offset
  chan,        \* the newest published frame, stamps of unused rows included
  frame,       \* Session.frame; generation 0 when it belongs to no publish
  selection,   \* Session.frame.selection: rows under the highlight
  paneRows,    \* rows the renderer's surface was built for
  drawn,       \* Renderer.drawn
  drawnGen,    \* Session.drawn_generation; 0 forces a full repaint
  canvas       \* what each row of the surface shows

terminal == <<setup, grid, history, cursor, dirty, full>>
session  == <<setup, frame, selection, paneRows, drawn, drawnGen, canvas>>
vars     == <<setup, grid, history, cursor, dirty, full, lastOffset, chan, frame,
              selection, paneRows, drawn, drawnGen, canvas>>

Capacity   == setup.capacity
Cols       == setup.cols
MaxPublish == setup.publishes
MaxHistory == setup.history
AllRows    == 1 .. MaxRows
Screens    == UNION {[1 .. n -> Content] : n \in setup.heights}
Surfaces   == {n \in setup.heights : n <= Capacity}
Histories  == UNION {[1 .. n -> Content] : n \in 0 .. MaxHistory}
Caret      == [x : 1 .. Cols, y : AllRows \union {MaxRows + 1}, shown : BOOLEAN]
NoCaret    == [x |-> 1, y |-> 1, shown |-> FALSE]
Unpainted  == [text |-> "none", tint |-> FALSE, caret |-> 0]
EmptyFrame == [gen |-> 0, rows |-> <<>>, stamp |-> <<>>, full |-> 0, cursor |-> NoCaret]

Smaller(a, b) == IF a < b THEN a ELSE b

Init ==
  /\ setup \in Setups
  /\ \E n \in Surfaces, c \in Content :
       /\ grid = [y \in 1 .. n |-> c]
       /\ paneRows = n
       /\ canvas = [y \in 1 .. n |-> Unpainted]
  /\ history    = <<>>
  /\ cursor     = [x |-> 1, y |-> 1, shown |-> TRUE]
  /\ dirty      = {}
  /\ full       = FALSE
  /\ lastOffset = 0
  /\ chan       = [EmptyFrame EXCEPT !.stamp = [y \in 1 .. Capacity |-> 0]]
  /\ frame      = EmptyFrame
  /\ selection  = {}
  /\ drawn      = 0
  /\ drawnGen   = 0

-----------------------------------------------------------------------------
(* The terminal: what changes rows, and what it marks.                     *)

\* One cluster is printed: the row changes and is marked by Grid::write.
WriteCluster(c, x) ==
  /\ grid'   = [grid EXCEPT ![cursor.y] = c]
  /\ cursor' = [cursor EXCEPT !.x = x]
  /\ dirty'  = dirty \union {cursor.y}
  /\ UNCHANGED <<history, full, lastOffset, chan, session>>

\* Screen::set_y: a move to another row marks both rows.
MoveToRow(y) ==
  /\ y \in DOMAIN grid
  /\ y # cursor.y
  /\ cursor' = [cursor EXCEPT !.y = y]
  /\ dirty'  = dirty \union {cursor.y, y}
  /\ UNCHANGED <<grid, history, full, lastOffset, chan, session>>

\* A move within the row (BS, CUB, CR) and DECTCEM mark nothing.
MoveInRow(x) ==
  /\ x # cursor.x
  /\ cursor' = [cursor EXCEPT !.x = x]
  /\ UNCHANGED <<grid, history, dirty, full, lastOffset, chan, session>>

ShowCursor(on) ==
  /\ on # cursor.shown
  /\ cursor' = [cursor EXCEPT !.shown = on]
  /\ UNCHANGED <<grid, history, dirty, full, lastOffset, chan, session>>

\* The row the scroll uncovers is marked, the rows it moves are not.
LineFeedMarksBottom(c) ==
  /\ cursor.y = Len(grid)
  /\ grid'  = Append(Tail(grid), c)
  /\ dirty' = dirty \union {cursor.y}
  /\ UNCHANGED <<history, cursor, full, lastOffset, chan, session>>

\* A line feed on the last row: the top row leaves for history, every row moves.
LineFeed(c) ==
  /\ cursor.y = Len(grid)
  /\ grid'    = Append(Tail(grid), c)
  /\ history' = LET longer == Append(history, Head(grid))
                IN  IF Len(longer) > MaxHistory THEN Tail(longer) ELSE longer
  /\ dirty'   = dirty \union DOMAIN grid
  /\ UNCHANGED <<cursor, full, lastOffset, chan, session>>

\* The cursor keeps its row past the new last one.
RewriteUnclamped(g, h) ==
  /\ grid'    = g
  /\ history' = h
  /\ dirty'   = DOMAIN g
  /\ full'    = TRUE
  /\ UNCHANGED <<cursor, lastOffset, chan, session>>

\* The rows are exchanged and nothing says so.
RewriteUnmarked(g, h) ==
  /\ grid'    = g
  /\ history' = h
  /\ cursor'  = [cursor EXCEPT !.y = Smaller(@, Len(g))]
  /\ dirty'   = dirty \intersect DOMAIN g
  /\ UNCHANGED <<full, lastOffset, chan, session>>

\* A resize, a screen switch, RIS: other rows, another history (the alternate
\* screen has none), and mark_full_damage.
Rewrite(g, h) ==
  /\ grid'    = g
  /\ history' = h
  /\ cursor'  = [cursor EXCEPT !.y = Smaller(@, Len(g))]
  /\ dirty'   = DOMAIN g
  /\ full'    = TRUE
  /\ UNCHANGED <<lastOffset, chan, session>>

\* ED 3 drops the scrollback and marks nothing, whatever the view shows.
ClearHistory ==
  /\ history # <<>>
  /\ history' = <<>>
  /\ UNCHANGED <<grid, cursor, dirty, full, lastOffset, chan, session>>

-----------------------------------------------------------------------------
(* Publisher::publish_scrolled.                                            *)

\* The frame row y of a view scrolled `offset` rows up.
ViewRow(offset, y) ==
  LET above == Smaller(offset, Len(grid))
  IN  IF y <= above THEN history[Len(history) - offset + y] ELSE grid[y - above]

\* Returning to the bottom is not seen as a change of the whole frame.
WhollyForgetsMove(offset) == full \/ offset > 0

\* The whole frame counts as changed while scrolled and on the way back.
Wholly(offset) == full \/ offset > 0 \/ offset # lastOffset

Stamp(wholly, above, gen) ==
  [y \in DOMAIN chan.stamp |->
     IF y \in DOMAIN grid /\ (y <= above \/ wholly \/ y - above \in dirty)
     THEN gen ELSE chan.stamp[y]]

\* A grid past the channel's capacity is refused, and its damage stays owed.
Publish(wanted) ==
  LET offset == Smaller(wanted, Len(history))
      above  == Smaller(offset, Len(grid))
      wholly == Wholly(offset)
      gen    == chan.gen + 1
      y      == cursor.y + above
  IN
  /\ Len(grid) <= Capacity
  /\ chan.gen < MaxPublish
  /\ chan' = [gen    |-> gen,
              rows   |-> [k \in DOMAIN grid |-> ViewRow(offset, k)],
              stamp  |-> Stamp(wholly, above, gen),
              full   |-> IF wholly THEN gen ELSE chan.full,
              cursor |-> [x |-> cursor.x, y |-> Smaller(y, Len(grid) + 1),
                          shown |-> cursor.shown /\ y <= Len(grid)]]
  /\ lastOffset' = offset
  /\ dirty' = {}
  /\ full'  = FALSE
  /\ UNCHANGED <<grid, history, cursor, session>>

-----------------------------------------------------------------------------
(* Session::poll: read, then repaint what the frame says is stale.         *)

Painted(f, sel, y) ==
  [text  |-> f.rows[y],
   tint  |-> y \in sel,
   caret |-> IF f.cursor.shown /\ f.cursor.y = y THEN f.cursor.x ELSE 0]

\* Damage as flags of the newest publish rather than as stamps.
RowChangedLast(f, y, since) == f.full = f.gen \/ f.stamp[y] = f.gen

\* Frame::row_is_stale.
RowIsStale(f, y, since) == f.full > since \/ f.stamp[y] > since

\* Renderer::draw_all and Renderer::draw; rows past the surface are clipped.
Repaint(f) ==
  LET stale == {y \in DOMAIN f.rows : drawnGen = 0 \/ RowIsStale(f, y, drawn)}
  IN  [y \in DOMAIN canvas |->
         IF y \in stale THEN Painted(f, selection, y) ELSE canvas[y]]

Draw(f) ==
  IF f.gen = 0 \/ f.gen <= drawnGen
  THEN UNCHANGED <<drawn, drawnGen, canvas>>
  ELSE /\ canvas'   = Repaint(f)
       /\ drawn'    = f.gen
       /\ drawnGen' = f.gen

\* What a read leaves in Session.frame: the newest frame; the frame it had (a
\* publish was in flight); or a copy overtaken half way, which claims nothing.
Newest    == [chan EXCEPT !.stamp = [y \in DOMAIN chan.rows |-> chan.stamp[y]]]
Overtaken == [Newest EXCEPT !.gen = 0]

Poll ==
  /\ \E f \in {Newest, frame, Overtaken} :
       /\ f = Overtaken => chan.gen # frame.gen
       /\ frame' = f
       /\ Draw(f)
  /\ UNCHANGED <<terminal, lastOffset, chan, selection, paneRows>>

\* The highlight changes and nothing asks for a repaint.
SetSelectionQuietly(sel) ==
  /\ sel # selection
  /\ selection' = sel
  /\ UNCHANGED <<terminal, lastOffset, chan, frame, paneRows, drawn, drawnGen, canvas>>

\* Session::set_selection: the highlight changes no terminal state.
SetSelection(sel) ==
  /\ sel # selection
  /\ selection' = sel
  /\ drawnGen'  = 0
  /\ UNCHANGED <<terminal, lastOffset, chan, frame, paneRows, drawn, canvas>>

\* Session::resize: a new renderer, built for the new grid.  The terminal
\* follows on the pump thread (a Rewrite), before or after the next poll.
Resize(n) ==
  /\ n # paneRows
  /\ paneRows' = n
  /\ canvas'   = [y \in 1 .. n |-> Unpainted]
  /\ drawn'    = 0
  /\ drawnGen' = 0
  /\ UNCHANGED <<terminal, lastOffset, chan, frame, selection>>

Next ==
  \/ \E c \in Content, x \in 1 .. Cols : WriteCluster(c, x)
  \/ \E y \in AllRows : MoveToRow(y)
  \/ \E x \in 1 .. Cols : MoveInRow(x)
  \/ \E on \in setup.carets : ShowCursor(on)
  \/ \E c \in Content : LineFeed(c)
  \/ \E g \in Screens, h \in Histories : Rewrite(g, h)
  \/ ClearHistory
  \/ \E offset \in 0 .. MaxHistory : Publish(offset)
  \/ Poll
  \/ \E sel \in setup.highlights : SetSelection(sel)
  \/ \E n \in Surfaces : Resize(n)

Spec == Init /\ [][Next]_vars

-----------------------------------------------------------------------------
FrameShape(f) ==
  /\ f.gen \in 0 .. MaxPublish /\ f.full \in 0 .. MaxPublish
  /\ f.rows \in Seq(Content) /\ f.cursor \in Caret

TypeOK ==
  /\ grid \in Seq(Content) /\ Len(grid) \in AllRows
  /\ history \in Seq(Content) /\ Len(history) <= MaxHistory
  /\ cursor \in Caret /\ cursor.y \in DOMAIN grid
  /\ dirty \subseteq DOMAIN grid
  /\ full \in BOOLEAN
  /\ lastOffset \in 0 .. MaxHistory
  /\ FrameShape(chan) /\ FrameShape(frame)
  /\ selection \in setup.highlights
  /\ paneRows \in AllRows /\ DOMAIN canvas = 1 .. paneRows
  /\ drawn \in 0 .. MaxPublish /\ drawnGen \in 0 .. MaxPublish

\* The session's frame is on the canvas: a poll drew it and nothing since has
\* asked for a repaint.
Settled == drawnGen # 0 /\ frame.gen = drawnGen

Visible == DOMAIN canvas \intersect DOMAIN frame.rows

\* Painting incrementally shows the same text and the same highlight as
\* painting the frame in full, however many frames the session skipped, tore or
\* found unchanged, wherever the view was scrolled in between, and whatever was
\* refused by the channel (the invariant tests/redraw.rs is built on).
TextIsFullRedraw ==
  Settled => \A y \in Visible : /\ canvas[y].text = frame.rows[y]
                                /\ canvas[y].tint = (y \in selection)

\* The same for the caret, which Renderer::draw_cursor claims "leaves no ghost".
CaretIsFullRedraw ==
  Settled => \A y \in Visible : canvas[y].caret = Painted(frame, selection, y).caret

\* What the terminal has not marked is what the newest frame shows: damage is
\* owed for every difference, including the one a refused publish left.
DamageIsOwed ==
  chan.gen > 0 /\ lastOffset = 0 /\ ~full =>
    /\ Len(grid) = Len(chan.rows)
    /\ \A y \in DOMAIN grid \ dirty : chan.rows[y] = grid[y]
=============================================================================
