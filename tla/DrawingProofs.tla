--------------------------- MODULE DrawingProofs ---------------------------
(***************************************************************************)
(* Proofs about repainting, for any texts, grids, scrollbacks, highlights  *)
(* and any number of frames; and about the back ends, for any surface,     *)
(* calls, windows and layouts.                                             *)
(*                                                                         *)
(* Repainting.  A row the terminal has not marked says what the newest     *)
(* frame says (DamageIsOwed), so a publish that leaves a row unstamped     *)
(* leaves its text alone.  Hence a row whose stamp is not newer than an    *)
(* earlier frame says in the newest frame what it said in that one         *)
(* (HeldFrameAges), and what the canvas shows of it since (CanvasAges).    *)
(* A poll paints the other rows.  None of the three is inductive without   *)
(* the two others.                                                         *)
(*                                                                         *)
(* The back ends.  The GPU's pixels, its log and the log's bytes stand for *)
(* a picture (Picture), and it is always the canvas's (BothDraw). A call   *)
(* that is logged adds its own drawing, as what comes behind the bytes of  *)
(* an earlier one does not change what that one reads (ReplaySame), and    *)
(* the shader finds, in the words a buffer is uploaded as, the bytes the   *)
(* canvas was given (DispatchDraws).  A present flushes and blits what     *)
(* therefore is the canvas's, the last over the others (BlitShows).        *)
(***************************************************************************)
EXTENDS Drawing, Climbing, SequenceTheorems, FiniteSetTheorems

\* A row of the newest frame that did not change since generation g.
Fresh(y, g) == chan.full <= g /\ chan.stamp[y] <= g

\* A frame has its five fields and no other.
IsFrame(f) ==
  f = [gen |-> f.gen, rows |-> f.rows, stamp |-> f.stamp, full |-> f.full, cursor |-> f.cursor]

\* Generations: every stamp is of a frame published, and the session is not ahead.
Generations ==
  /\ chan.gen \in Nat /\ chan.full \in 0 .. chan.gen
  /\ DOMAIN chan.stamp = 1 .. Capacity
  /\ \A y \in 1 .. Capacity : chan.stamp[y] \in 0 .. chan.gen
  /\ DOMAIN chan.rows \subseteq 1 .. Capacity
  /\ frame.gen \in 0 .. chan.gen /\ drawn \in 0 .. chan.gen
  /\ drawnGen # 0 => drawnGen = drawn /\ frame.gen \in {0, drawnGen}
  /\ drawnGen \in Nat

\* The frame the session holds and the newest one agree on what did not change.
HeldFrameAges ==
  frame.gen # 0 /\ chan.full <= frame.gen =>
    /\ DOMAIN frame.rows = DOMAIN chan.rows
    /\ \A y \in DOMAIN chan.rows : chan.stamp[y] <= frame.gen => frame.rows[y] = chan.rows[y]

\* So do the canvas and the newest frame, as of the last frame painted.
CanvasAges ==
  drawnGen # 0 =>
    \A y \in DOMAIN canvas \intersect DOMAIN chan.rows :
      Fresh(y, drawn) => canvas[y].text = chan.rows[y] /\ canvas[y].tint = (y \in selection)

RepaintInv ==
  /\ setup \in Setups /\ IsFrame(chan) /\ IsFrame(frame)
  /\ TypeOK /\ Generations /\ DamageIsOwed /\ HeldFrameAges /\ CanvasAges /\ TextIsFullRedraw

-----------------------------------------------------------------------------
(* The set-up of a session and the types.                                  *)

LEMMA SetupFacts ==
  ASSUME setup \in Setups
  PROVE  /\ Capacity \in Nat \ {0} /\ Cols \in Nat \ {0} /\ MaxPublish \in Nat /\ MaxHistory \in Nat
         /\ setup.heights \subseteq 1 .. MaxRows /\ MaxRows \in Nat \ {0}
         /\ {} \in setup.highlights /\ setup.carets \subseteq BOOLEAN
  BY GeometryAssumption DEF Capacity, Cols, MaxPublish, MaxHistory

\* A screen is a sequence of rows, and so is a scrollback.
LEMMA ScreensAreSequences ==
  ASSUME setup \in Setups, NEW g \in Screens
  PROVE  g \in Seq(Content) /\ Len(g) \in AllRows /\ DOMAIN g = 1 .. Len(g)
<1>1. PICK n \in setup.heights : g \in [1 .. n -> Content]
  BY DEF Screens
<1>2. n \in AllRows /\ n \in Nat
  BY <1>1, SetupFacts DEF AllRows
<1>3. QED
  BY <1>1, <1>2

LEMMA HistoriesAreSequences ==
  ASSUME setup \in Setups, NEW h \in Histories
  PROVE  h \in Seq(Content) /\ Len(h) <= MaxHistory
<1>1. PICK n \in 0 .. MaxHistory : h \in [1 .. n -> Content]
  BY DEF Histories
<1>2. n \in Nat
  BY <1>1, SetupFacts
<1>3. QED
  BY <1>1, <1>2

\* A view scrolled up shows rows there are.
LEMMA ViewShowsRows ==
  ASSUME grid \in Seq(Content), history \in Seq(Content), NEW offset \in 0 .. Len(history), NEW y \in DOMAIN grid
  PROVE  ViewRow(offset, y) \in Content /\ (offset = 0 => ViewRow(offset, y) = grid[y])
<1>1. CASE y <= Smaller(offset, Len(grid))
  <2>1. offset # 0 /\ Len(history) - offset + y \in 1 .. Len(history)
    BY <1>1 DEF Smaller
  <2>2. QED
    BY <1>1, <2>1 DEF ViewRow
<1>2. CASE ~(y <= Smaller(offset, Len(grid)))
  <2>1. y - Smaller(offset, Len(grid)) \in 1 .. Len(grid)
    BY <1>2 DEF Smaller
  <2>2. offset = 0 => Smaller(offset, Len(grid)) = 0
    BY DEF Smaller
  <2>3. QED
    BY <1>2, <2>1, <2>2 DEF ViewRow
<1>3. QED
  BY <1>1, <1>2

-----------------------------------------------------------------------------
(* The start.                                                              *)

LEMMA RepaintStarts == Init => RepaintInv
<1>1. SUFFICES ASSUME Init PROVE RepaintInv
  OBVIOUS
<1>2. setup \in Setups
  BY <1>1 DEF Init
<1>3. PICK n \in Surfaces, c \in Content :
        grid = [y \in 1 .. n |-> c] /\ paneRows = n /\ canvas = [y \in 1 .. n |-> Unpainted]
  BY <1>1 DEF Init
<1>4. n \in AllRows /\ n \in Nat \ {0} /\ grid \in Seq(Content) /\ Len(grid) = n
  BY <1>2, <1>3, SetupFacts DEF Surfaces, AllRows
<1>5. chan = [gen |-> 0, rows |-> <<>>, stamp |-> [y \in 1 .. Capacity |-> 0], full |-> 0, cursor |-> NoCaret]
  BY <1>1 DEF Init, EmptyFrame
<1>6. NoCaret \in Caret /\ cursor \in Caret /\ cursor.y = 1
  BY <1>1, <1>2, SetupFacts DEF Init, NoCaret, Caret, AllRows
<1>7. FrameShape(chan) /\ FrameShape(frame)
  BY <1>1, <1>2, <1>5, <1>6, SetupFacts DEF Init, EmptyFrame, FrameShape
<1>8. TypeOK
  <2>1. cursor.y \in DOMAIN grid /\ dirty \subseteq DOMAIN grid /\ DOMAIN canvas = 1 .. paneRows
    BY <1>1, <1>3, <1>4, <1>6 DEF Init
  <2>2. history \in Seq(Content) /\ Len(history) <= MaxHistory /\ lastOffset \in 0 .. MaxHistory
    BY <1>1, <1>2, SetupFacts DEF Init
  <2>3. drawn \in 0 .. MaxPublish /\ drawnGen \in 0 .. MaxPublish /\ selection \in setup.highlights
    BY <1>1, <1>2, SetupFacts DEF Init
  <2>4. full \in BOOLEAN /\ paneRows \in AllRows
    BY <1>1, <1>3, <1>4 DEF Init
  <2>5. QED
    BY <1>4, <1>6, <1>7, <2>1, <2>2, <2>3, <2>4 DEF TypeOK
<1>9. Generations
  BY <1>1, <1>2, <1>5, SetupFacts DEF Init, EmptyFrame, Generations
<1>10. DamageIsOwed /\ HeldFrameAges /\ CanvasAges /\ TextIsFullRedraw
  BY <1>1, <1>5 DEF Init, EmptyFrame, DamageIsOwed, HeldFrameAges, CanvasAges, TextIsFullRedraw, Settled
<1>11. QED
  BY <1>1, <1>2, <1>5, <1>8, <1>9, <1>10 DEF Init, EmptyFrame, RepaintInv, IsFrame

-----------------------------------------------------------------------------
(* What the terminal does: it touches neither frames nor the session, and  *)
(* marks what it changes.                                                  *)

LEMMA SessionUntouched ==
  ASSUME RepaintInv, UNCHANGED <<chan, session>>
  PROVE  /\ setup' \in Setups /\ IsFrame(chan)' /\ IsFrame(frame)'
         /\ Generations' /\ HeldFrameAges' /\ CanvasAges' /\ TextIsFullRedraw'
<1>1. UNCHANGED <<chan, setup, frame, selection, paneRows, drawn, drawnGen, canvas>>
  BY DEF session
<1>2. Generations' /\ IsFrame(chan)' /\ IsFrame(frame)' /\ setup' \in Setups
  BY <1>1 DEF RepaintInv, Generations, Capacity, IsFrame
<1>3. HeldFrameAges' /\ CanvasAges' /\ TextIsFullRedraw'
  BY <1>1 DEF RepaintInv, HeldFrameAges, CanvasAges, TextIsFullRedraw, Settled, Visible, Fresh
<1>4. QED
  BY <1>2, <1>3

\* The parts of the type invariant that speak of the terminal.
TerminalTyped ==
  /\ grid \in Seq(Content) /\ Len(grid) \in AllRows
  /\ history \in Seq(Content) /\ Len(history) <= MaxHistory
  /\ cursor \in Caret /\ cursor.y \in DOMAIN grid
  /\ dirty \subseteq DOMAIN grid
  /\ full \in BOOLEAN

LEMMA TerminalStep ==
  ASSUME RepaintInv, UNCHANGED <<lastOffset, chan, session>>, TerminalTyped', DamageIsOwed'
  PROVE  RepaintInv'
<1>1. TypeOK'
  BY DEF RepaintInv, TypeOK, TerminalTyped, FrameShape, session, MaxPublish, MaxHistory, Caret, Cols
<1>2. QED
  BY <1>1, SessionUntouched DEF RepaintInv

LEMMA TerminalKeeps ==
  ASSUME RepaintInv,
         \/ \E c \in Content, x \in 1 .. Cols : WriteCluster(c, x)
         \/ \E y \in AllRows : MoveToRow(y)
         \/ \E x \in 1 .. Cols : MoveInRow(x)
         \/ \E on \in setup.carets : ShowCursor(on)
         \/ \E c \in Content : LineFeed(c)
         \/ \E g \in Screens, h \in Histories : Rewrite(g, h)
         \/ ClearHistory
  PROVE  RepaintInv'
<1>1. /\ setup \in Setups /\ TerminalTyped /\ DamageIsOwed
      /\ DOMAIN grid = 1 .. Len(grid) /\ MaxHistory \in Nat /\ setup.carets \subseteq BOOLEAN
      /\ chan.rows \in Seq(Content)
  BY SetupFacts, SMTT(30) DEF RepaintInv, TypeOK, TerminalTyped, FrameShape
<1>2. ASSUME NEW c \in Content, NEW x \in 1 .. Cols, WriteCluster(c, x) PROVE RepaintInv'
  <2>1. TerminalTyped'
    <3>1. grid' \in Seq(Content) /\ Len(grid') = Len(grid) /\ DOMAIN grid' = DOMAIN grid
      BY <1>1, <1>2 DEF WriteCluster, TerminalTyped
    <3>2. cursor' \in Caret /\ cursor'.y = cursor.y
      BY <1>1, <1>2 DEF WriteCluster, TerminalTyped, Caret
    <3>3. QED
      BY <1>1, <1>2, <3>1, <3>2 DEF WriteCluster, TerminalTyped, session, MaxHistory, Caret, Cols
  <2>2. DamageIsOwed'
    BY <1>1, <1>2 DEF WriteCluster, TerminalTyped, DamageIsOwed
  <2>3. QED
    BY <1>2, <2>1, <2>2, TerminalStep DEF WriteCluster
<1>3. ASSUME NEW y \in AllRows, MoveToRow(y) PROVE RepaintInv'
  <2>1. TerminalTyped'
    BY <1>1, <1>3 DEF MoveToRow, TerminalTyped, session, MaxHistory, Caret, Cols, AllRows
  <2>2. DamageIsOwed'
    BY <1>1, <1>3 DEF MoveToRow, TerminalTyped, DamageIsOwed
  <2>3. QED
    BY <1>3, <2>1, <2>2, TerminalStep DEF MoveToRow
<1>4. ASSUME NEW x \in 1 .. Cols, MoveInRow(x) PROVE RepaintInv'
  <2>1. TerminalTyped'
    BY <1>1, <1>4 DEF MoveInRow, TerminalTyped, session, MaxHistory, Caret, Cols, AllRows
  <2>2. DamageIsOwed'
    BY <1>1, <1>4 DEF MoveInRow, DamageIsOwed
  <2>3. QED
    BY <1>4, <2>1, <2>2, TerminalStep DEF MoveInRow
<1>5. ASSUME NEW on \in setup.carets, ShowCursor(on) PROVE RepaintInv'
  <2>1. TerminalTyped'
    BY <1>1, <1>5 DEF ShowCursor, TerminalTyped, session, MaxHistory, Caret, Cols, AllRows
  <2>2. DamageIsOwed'
    BY <1>1, <1>5 DEF ShowCursor, DamageIsOwed
  <2>3. QED
    BY <1>5, <2>1, <2>2, TerminalStep DEF ShowCursor
<1>6. ASSUME NEW c \in Content, LineFeed(c) PROVE RepaintInv'
  <2>1. grid' \in Seq(Content) /\ Len(grid') = Len(grid)
    BY <1>1, <1>6 DEF LineFeed, TerminalTyped, AllRows
  <2>2. history' \in Seq(Content) /\ Len(history') <= MaxHistory
    <3>1. Head(grid) \in Content
      BY <1>1 DEF TerminalTyped, AllRows
    <3>2. DEFINE longer == Append(history, Head(grid))
    <3>3. longer \in Seq(Content) /\ Len(longer) = Len(history) + 1
      BY <1>1, <3>1 DEF TerminalTyped
    <3>4. QED
      BY <1>1, <1>6, <3>3 DEF LineFeed, TerminalTyped
  <2>3. TerminalTyped'
    BY <1>1, <1>6, <2>1, <2>2 DEF LineFeed, TerminalTyped, session, MaxHistory, Caret, Cols, AllRows
  <2>4. DamageIsOwed'
    BY <1>1, <1>6, <2>1 DEF LineFeed, TerminalTyped, DamageIsOwed
  <2>5. QED
    BY <1>6, <2>3, <2>4, TerminalStep DEF LineFeed
<1>7. ASSUME NEW g \in Screens, NEW h \in Histories, Rewrite(g, h) PROVE RepaintInv'
  <2>1. /\ g \in Seq(Content) /\ Len(g) \in AllRows /\ DOMAIN g = 1 .. Len(g)
        /\ h \in Seq(Content) /\ Len(h) <= MaxHistory
    BY <1>1, ScreensAreSequences, HistoriesAreSequences
  <2>2. cursor' \in Caret /\ cursor'.y \in DOMAIN g
    <3>1. cursor.y \in Nat \ {0} /\ MaxRows \in Nat \ {0} /\ Len(g) \in 1 .. MaxRows
      BY <1>1, <2>1, SetupFacts DEF TerminalTyped, AllRows
    <3>2. Smaller(cursor.y, Len(g)) \in 1 .. Len(g)
      BY <3>1 DEF Smaller
    <3>3. Smaller(cursor.y, Len(g)) \in AllRows
      BY <3>1, <3>2 DEF AllRows
    <3>4. cursor' = [cursor EXCEPT !.y = Smaller(cursor.y, Len(g))]
      BY <1>7 DEF Rewrite
    <3>5. QED
      BY <1>1, <2>1, <3>2, <3>3, <3>4 DEF TerminalTyped, Caret
  <2>3. TerminalTyped'
    BY <1>1, <1>7, <2>1, <2>2 DEF Rewrite, TerminalTyped, session, MaxHistory, Caret, Cols, AllRows
  <2>4. DamageIsOwed'
    BY <1>7 DEF Rewrite, DamageIsOwed
  <2>5. QED
    BY <1>7, <2>3, <2>4, TerminalStep DEF Rewrite
<1>8. CASE ClearHistory
  <2>1. TerminalTyped'
    BY <1>1, <1>8 DEF ClearHistory, TerminalTyped, session, MaxHistory, Caret, Cols, AllRows
  <2>2. DamageIsOwed'
    BY <1>1, <1>8 DEF ClearHistory, DamageIsOwed
  <2>3. QED
    BY <1>8, <2>1, <2>2, TerminalStep DEF ClearHistory
<1>9. QED
  BY <1>2, <1>3, <1>4, <1>5, <1>6, <1>7, <1>8

-----------------------------------------------------------------------------
(* A publish.                                                              *)

\* What a publish leaves, by its parts.
LEMMA PublishedFrame ==
  ASSUME RepaintInv, NEW wanted \in 0 .. MaxHistory, Publish(wanted),
         NEW offset, offset = Smaller(wanted, Len(history)),
         NEW above, above = Smaller(offset, Len(grid))
  PROVE  /\ offset \in 0 .. Len(history) /\ offset \in 0 .. MaxHistory /\ above \in 0 .. Len(grid)
         /\ (offset = 0 => above = 0)
         /\ Len(grid) <= Capacity /\ chan.gen + 1 \in 0 .. MaxPublish
         /\ chan'.gen = chan.gen + 1 /\ IsFrame(chan)'
         /\ chan'.rows = [k \in DOMAIN grid |-> ViewRow(offset, k)]
         /\ chan'.stamp = Stamp(Wholly(offset), above, chan.gen + 1)
         /\ chan'.full = IF Wholly(offset) THEN chan.gen + 1 ELSE chan.full
         /\ chan'.cursor = [x |-> cursor.x, y |-> Smaller(cursor.y + above, Len(grid) + 1),
                            shown |-> cursor.shown /\ cursor.y + above <= Len(grid)]
         /\ lastOffset' = offset
<1>1. Len(history) \in Nat /\ Len(grid) \in Nat /\ MaxHistory \in Nat /\ MaxPublish \in Nat
      /\ Len(history) <= MaxHistory /\ chan.gen \in Nat
  BY SetupFacts DEF RepaintInv, TypeOK, Generations
<1>2. offset \in 0 .. Len(history) /\ offset \in 0 .. MaxHistory /\ above \in 0 .. Len(grid)
      /\ (offset = 0 => above = 0)
  BY <1>1 DEF Smaller
<1>3. Len(grid) <= Capacity /\ chan.gen < MaxPublish
  BY DEF Publish
<1>4. chan' = [gen    |-> chan.gen + 1,
               rows   |-> [k \in DOMAIN grid |-> ViewRow(offset, k)],
               stamp  |-> Stamp(Wholly(offset), above, chan.gen + 1),
               full   |-> IF Wholly(offset) THEN chan.gen + 1 ELSE chan.full,
               cursor |-> [x |-> cursor.x, y |-> Smaller(cursor.y + above, Len(grid) + 1),
                           shown |-> cursor.shown /\ cursor.y + above <= Len(grid)]]
      /\ lastOffset' = offset
  BY DEF Publish
<1>5. QED
  BY <1>1, <1>2, <1>3, <1>4 DEF IsFrame

\* A row a publish does not stamp was in the frame before it, and says the same.
LEMMA UnstampedRowsStay ==
  ASSUME RepaintInv, NEW wanted \in 0 .. MaxHistory, Publish(wanted),
         NEW g \in 1 .. chan.gen, chan'.full <= g
  PROVE  /\ DOMAIN chan'.rows = DOMAIN chan.rows
         /\ chan.full <= g
         /\ \A y \in DOMAIN chan'.rows :
              chan'.stamp[y] <= g => chan.stamp[y] <= g /\ chan'.rows[y] = chan.rows[y]
<1> DEFINE offset == Smaller(wanted, Len(history))
           above  == Smaller(offset, Len(grid))
<1>1. /\ offset \in 0 .. Len(history) /\ (offset = 0 => above = 0) /\ Len(grid) <= Capacity
      /\ chan'.rows = [k \in DOMAIN grid |-> ViewRow(offset, k)]
      /\ chan'.stamp = Stamp(Wholly(offset), above, chan.gen + 1)
      /\ chan'.full = IF Wholly(offset) THEN chan.gen + 1 ELSE chan.full
  BY PublishedFrame
<1> HIDE DEF offset, above
<1>2. chan.gen \in Nat /\ g \in Nat /\ g < chan.gen + 1 /\ DOMAIN chan.stamp = 1 .. Capacity
      /\ grid \in Seq(Content) /\ history \in Seq(Content) /\ DOMAIN grid = 1 .. Len(grid)
      /\ chan.rows \in Seq(Content) /\ Capacity \in Nat
  BY SetupFacts DEF RepaintInv, TypeOK, Generations, FrameShape
<1>3. ~Wholly(offset)
  BY <1>1, <1>2
<1>4. offset = 0 /\ above = 0 /\ lastOffset = 0 /\ ~full
  BY <1>1, <1>3 DEF Wholly, RepaintInv, TypeOK
<1>5. Len(grid) = Len(chan.rows) /\ \A y \in DOMAIN grid \ dirty : chan.rows[y] = grid[y]
  BY <1>2, <1>4 DEF RepaintInv, DamageIsOwed
<1>6. DOMAIN chan'.rows = DOMAIN chan.rows /\ chan.full <= g
  BY <1>1, <1>2, <1>3, <1>5
<1>7. ASSUME NEW y \in DOMAIN chan'.rows, chan'.stamp[y] <= g
      PROVE  chan.stamp[y] <= g /\ chan'.rows[y] = chan.rows[y]
  <2>1. y \in DOMAIN grid /\ y \in 1 .. Capacity /\ y - above = y
    BY <1>1, <1>2, <1>4, <1>7
  <2>2. chan'.stamp[y] = IF y \in dirty THEN chan.gen + 1 ELSE chan.stamp[y]
    BY <1>1, <1>2, <1>3, <1>4, <2>1 DEF Stamp
  <2>3. y \notin dirty /\ chan.stamp[y] <= g
    BY <1>2, <1>7, <2>2
  <2>4. chan'.rows[y] = grid[y]
    BY <1>1, <1>2, <1>4, <2>1, ViewShowsRows
  <2>5. QED
    BY <1>5, <2>1, <2>3, <2>4
<1>8. QED
  BY <1>6, <1>7

LEMMA PublishKeepsTypes ==
  ASSUME RepaintInv, NEW wanted \in 0 .. MaxHistory, Publish(wanted)
  PROVE  TypeOK' /\ DamageIsOwed' /\ IsFrame(chan)' /\ setup' = setup
<1> DEFINE offset == Smaller(wanted, Len(history))
           above  == Smaller(offset, Len(grid))
<1>1. /\ offset \in 0 .. Len(history) /\ offset \in 0 .. MaxHistory /\ above \in 0 .. Len(grid)
      /\ chan.gen + 1 \in 0 .. MaxPublish
      /\ chan'.gen = chan.gen + 1 /\ IsFrame(chan)'
      /\ chan'.rows = [k \in DOMAIN grid |-> ViewRow(offset, k)]
      /\ chan'.full = IF Wholly(offset) THEN chan.gen + 1 ELSE chan.full
      /\ chan'.cursor = [x |-> cursor.x, y |-> Smaller(cursor.y + above, Len(grid) + 1),
                         shown |-> cursor.shown /\ cursor.y + above <= Len(grid)]
      /\ lastOffset' = offset
  BY PublishedFrame
<1> HIDE DEF offset, above
<1>2. /\ grid \in Seq(Content) /\ history \in Seq(Content) /\ DOMAIN grid = 1 .. Len(grid)
      /\ Len(grid) \in 1 .. MaxRows /\ MaxRows \in Nat /\ cursor \in Caret /\ cursor.y \in DOMAIN grid
  BY SetupFacts DEF RepaintInv, TypeOK, AllRows
<1>3. chan'.rows \in Seq(Content) /\ Len(chan'.rows) = Len(grid)
  BY <1>1, <1>2, ViewShowsRows
<1>4. chan'.cursor \in Caret
  <2>1. Smaller(cursor.y + above, Len(grid) + 1) \in AllRows \union {MaxRows + 1}
    BY <1>1, <1>2 DEF Smaller, AllRows
  <2>2. cursor.x \in 1 .. Cols
    BY <1>2 DEF Caret
  <2>3. (cursor.shown /\ cursor.y + above <= Len(grid)) \in BOOLEAN
    OBVIOUS
  <2>4. QED
    BY <1>1, <2>1, <2>2, <2>3 DEF Caret
<1>5. UNCHANGED <<grid, history, cursor, setup, frame, selection, paneRows, drawn, drawnGen, canvas>>
      /\ dirty' = {} /\ full' = FALSE
  BY DEF Publish, session
<1>6. chan'.full \in 0 .. MaxPublish
  BY <1>1 DEF RepaintInv, TypeOK, FrameShape
<1>7. FrameShape(chan)'
  BY <1>1, <1>3, <1>4, <1>5, <1>6 DEF FrameShape, MaxPublish, Caret, Cols
<1>8. TypeOK'
  BY <1>1, <1>5, <1>7 DEF RepaintInv, TypeOK, FrameShape, MaxPublish, MaxHistory, Caret, Cols
<1>9. DamageIsOwed'
  BY <1>1, <1>2, <1>3, <1>5, ViewShowsRows DEF DamageIsOwed
<1>10. QED
  BY <1>1, <1>5, <1>8, <1>9

LEMMA PublishKeeps ==
  ASSUME RepaintInv, NEW wanted \in 0 .. MaxHistory, Publish(wanted)
  PROVE  RepaintInv'
<1> DEFINE offset == Smaller(wanted, Len(history))
           above  == Smaller(offset, Len(grid))
<1>1. /\ Len(grid) <= Capacity
      /\ chan'.gen = chan.gen + 1
      /\ chan'.rows = [k \in DOMAIN grid |-> ViewRow(offset, k)]
      /\ chan'.stamp = Stamp(Wholly(offset), above, chan.gen + 1)
      /\ chan'.full = IF Wholly(offset) THEN chan.gen + 1 ELSE chan.full
  BY PublishedFrame
<1> HIDE DEF offset, above
<1>2. UNCHANGED <<setup, frame, selection, paneRows, drawn, drawnGen, canvas>>
  BY DEF Publish, session
<1>3. DOMAIN grid = 1 .. Len(grid) /\ Len(grid) \in Nat /\ Capacity \in Nat
  BY SetupFacts DEF RepaintInv, TypeOK
<1>4. Generations'
  <2>1. chan.gen \in Nat /\ chan'.gen \in Nat /\ chan'.full \in 0 .. chan'.gen
    BY <1>1 DEF RepaintInv, Generations
  <2>2. DOMAIN chan'.stamp = 1 .. Capacity /\ \A y \in 1 .. Capacity : chan'.stamp[y] \in 0 .. chan'.gen
    BY <1>1, <2>1 DEF RepaintInv, Generations, Stamp
  <2>3. DOMAIN chan'.rows \subseteq 1 .. Capacity
    BY <1>1, <1>3
  <2>4. QED
    BY <1>1, <1>2, <2>1, <2>2, <2>3 DEF RepaintInv, Generations, Capacity
<1>5. HeldFrameAges'
  <2>1. SUFFICES ASSUME frame.gen # 0, chan'.full <= frame.gen
                 PROVE  /\ DOMAIN frame.rows = DOMAIN chan'.rows
                        /\ \A y \in DOMAIN chan'.rows : chan'.stamp[y] <= frame.gen => frame.rows[y] = chan'.rows[y]
    BY <1>2 DEF HeldFrameAges
  <2>2. frame.gen \in 1 .. chan.gen
    BY <2>1 DEF RepaintInv, Generations
  <2>3. QED
    BY <2>1, <2>2, UnstampedRowsStay DEF RepaintInv, HeldFrameAges
<1>6. CanvasAges'
  <2>1. SUFFICES ASSUME drawnGen # 0,
                        NEW y \in DOMAIN canvas \intersect DOMAIN chan'.rows, chan'.full <= drawn, chan'.stamp[y] <= drawn
                 PROVE  canvas[y].text = chan'.rows[y] /\ canvas[y].tint = (y \in selection)
    BY <1>2 DEF CanvasAges, Fresh
  <2>2. drawn \in 1 .. chan.gen
    BY <2>1 DEF RepaintInv, Generations
  <2>3. y \in DOMAIN chan.rows /\ Fresh(y, drawn) /\ chan'.rows[y] = chan.rows[y]
    BY <2>1, <2>2, UnstampedRowsStay DEF Fresh
  <2>4. QED
    BY <2>1, <2>3 DEF RepaintInv, CanvasAges
<1>7. TextIsFullRedraw'
  BY <1>2 DEF RepaintInv, TextIsFullRedraw, Settled, Visible
<1>8. IsFrame(frame)'
  BY <1>2 DEF RepaintInv, IsFrame
<1>9. QED
  BY <1>2, <1>4, <1>5, <1>6, <1>7, <1>8, PublishKeepsTypes DEF RepaintInv

-----------------------------------------------------------------------------
(* The session: polls, highlights, resizes.                                *)

LEMMA NewestFrame ==
  ASSUME RepaintInv
  PROVE  /\ IsFrame(Newest) /\ Newest.gen = chan.gen /\ Newest.rows = chan.rows /\ Newest.full = chan.full
         /\ Newest.cursor = chan.cursor /\ Newest.stamp = [y \in DOMAIN chan.rows |-> chan.stamp[y]]
         /\ IsFrame(Overtaken) /\ Overtaken.gen = 0 /\ Overtaken.rows = chan.rows
         /\ Overtaken.full = chan.full /\ Overtaken.cursor = chan.cursor
<1>1. chan = [gen |-> chan.gen, rows |-> chan.rows, stamp |-> chan.stamp, full |-> chan.full, cursor |-> chan.cursor]
  BY DEF RepaintInv, IsFrame
<1>2. Newest = [gen |-> chan.gen, rows |-> chan.rows, stamp |-> [y \in DOMAIN chan.rows |-> chan.stamp[y]],
                full |-> chan.full, cursor |-> chan.cursor]
  BY <1>1 DEF Newest
<1>3. Overtaken = [gen |-> 0, rows |-> chan.rows, stamp |-> [y \in DOMAIN chan.rows |-> chan.stamp[y]],
                   full |-> chan.full, cursor |-> chan.cursor]
  BY <1>2 DEF Overtaken
<1>4. QED
  BY <1>2, <1>3 DEF IsFrame

\* A poll that paints leaves on the canvas what its frame says.
LEMMA RepaintPaints ==
  ASSUME RepaintInv, NEW f, f = Newest \/ (f = frame /\ drawnGen = 0), f.gen # 0,
         NEW y \in DOMAIN canvas, y \in DOMAIN f.rows
  PROVE  Repaint(f)[y].text = f.rows[y] /\ Repaint(f)[y].tint = (y \in selection)
<1>1. Painted(f, selection, y).text = f.rows[y] /\ Painted(f, selection, y).tint = (y \in selection)
  BY DEF Painted
<1>2. CASE drawnGen = 0 \/ RowIsStale(f, y, drawn)
  BY <1>1, <1>2 DEF Repaint
<1>3. CASE ~(drawnGen = 0 \/ RowIsStale(f, y, drawn))
  <2>1. f = Newest /\ y \in DOMAIN chan.rows /\ f.rows = chan.rows /\ f.full = chan.full
        /\ f.stamp[y] = chan.stamp[y]
    BY <1>3, NewestFrame
  <2>2. Repaint(f)[y] = canvas[y]
    BY <1>3 DEF Repaint
  <2>3. y \in 1 .. Capacity /\ chan.full \in Nat /\ chan.stamp[y] \in Nat /\ drawn \in Nat
    BY <2>1, SetupFacts DEF RepaintInv, Generations
  <2>4. Fresh(y, drawn)
    BY <1>3, <2>1, <2>3 DEF RowIsStale, Fresh
  <2>5. QED
    BY <1>3, <2>1, <2>2, <2>4 DEF RepaintInv, CanvasAges
<1>4. QED
  BY <1>2, <1>3

\* A poll that leaves the canvas alone: its frame is no newer than what is drawn.
LEMMA IdlePoll ==
  ASSUME RepaintInv, NEW f \in {Newest, frame, Overtaken}, f.gen = 0 \/ f.gen <= drawnGen,
         frame' = f, UNCHANGED <<terminal, lastOffset, chan, selection, paneRows, drawn, drawnGen, canvas>>
  PROVE  Generations' /\ HeldFrameAges' /\ CanvasAges' /\ TextIsFullRedraw'
<1>1. UNCHANGED <<setup, chan, selection, canvas, drawn, drawnGen>>
  BY DEF terminal
<1>2. chan.gen \in Nat /\ frame.gen \in 0 .. chan.gen /\ drawn \in 0 .. chan.gen /\ drawnGen \in Nat
      /\ (drawnGen # 0 => drawnGen = drawn /\ frame.gen \in {0, drawnGen})
  BY DEF RepaintInv, Generations
<1>3. CASE f.gen = 0
  BY <1>1, <1>2, <1>3 DEF RepaintInv, Generations, HeldFrameAges, CanvasAges, TextIsFullRedraw, Settled, Fresh, Capacity
<1>4. CASE f.gen # 0 /\ f = frame
  BY <1>1, <1>4 DEF RepaintInv, Generations, HeldFrameAges, CanvasAges, TextIsFullRedraw, Settled, Visible, Fresh, Capacity
<1>5. CASE f.gen # 0 /\ f = Newest
  <2>1. f.gen = chan.gen /\ f.rows = chan.rows /\ drawnGen = chan.gen /\ drawn = chan.gen /\ drawnGen # 0
    BY <1>2, <1>5, NewestFrame
  <2>2. Generations'
    BY <1>1, <1>2, <2>1 DEF RepaintInv, Generations, Capacity
  <2>3. HeldFrameAges' /\ CanvasAges'
    BY <1>1, <2>1 DEF RepaintInv, HeldFrameAges, CanvasAges, Fresh
  <2>4. \A y \in DOMAIN chan.rows : Fresh(y, drawn)
    BY <2>1 DEF RepaintInv, Generations, Fresh
  <2>5. \A y \in DOMAIN canvas \intersect DOMAIN chan.rows :
          canvas[y].text = chan.rows[y] /\ canvas[y].tint = (y \in selection)
    BY <2>1, <2>4 DEF RepaintInv, CanvasAges
  <2>6. TextIsFullRedraw'
    BY <1>1, <2>1, <2>5 DEF TextIsFullRedraw, Visible
  <2>7. QED
    BY <2>2, <2>3, <2>6
<1>6. QED
  BY <1>3, <1>4, <1>5, NewestFrame

\* A poll that paints.
LEMMA DrawingPoll ==
  ASSUME RepaintInv, NEW f \in {Newest, frame, Overtaken}, f.gen # 0, ~(f.gen <= drawnGen), frame' = f,
         canvas' = Repaint(f), drawn' = f.gen, drawnGen' = f.gen,
         UNCHANGED <<terminal, lastOffset, chan, selection, paneRows>>
  PROVE  Generations' /\ HeldFrameAges' /\ CanvasAges' /\ TextIsFullRedraw'
<1>1. UNCHANGED <<setup, chan, selection>> /\ DOMAIN canvas' = DOMAIN canvas
  BY DEF terminal, Repaint
<1>2. chan.gen \in Nat /\ frame.gen \in 0 .. chan.gen /\ drawnGen \in Nat
      /\ (drawnGen # 0 => frame.gen \in {0, drawnGen})
  BY DEF RepaintInv, Generations
<1>3. f = Newest \/ (f = frame /\ drawnGen = 0)
  BY <1>2, NewestFrame
<1>4. f.gen \in 1 .. chan.gen
  BY <1>2, <1>3, NewestFrame
<1>5. Generations'
  BY <1>1, <1>4 DEF RepaintInv, Generations, Capacity
<1>6. chan.full <= f.gen =>
        /\ DOMAIN f.rows = DOMAIN chan.rows
        /\ \A y \in DOMAIN chan.rows : chan.stamp[y] <= f.gen => f.rows[y] = chan.rows[y]
  BY <1>3, <1>4, NewestFrame DEF RepaintInv, HeldFrameAges
<1>7. HeldFrameAges'
  BY <1>1, <1>6 DEF HeldFrameAges
<1>8. \A y \in DOMAIN canvas \intersect DOMAIN f.rows :
        canvas'[y].text = f.rows[y] /\ canvas'[y].tint = (y \in selection)
  BY <1>3, RepaintPaints
<1>9. TextIsFullRedraw'
  BY <1>1, <1>8 DEF TextIsFullRedraw, Visible
<1>10. CanvasAges'
  BY <1>1, <1>6, <1>8 DEF CanvasAges, Fresh
<1>11. QED
  BY <1>5, <1>7, <1>9, <1>10

LEMMA PollKeeps ==
  ASSUME RepaintInv, Poll
  PROVE  RepaintInv'
<1>1. PICK f \in {Newest, frame, Overtaken} : frame' = f /\ Draw(f)
  BY DEF Poll
<1>2. UNCHANGED <<setup, grid, history, cursor, dirty, full, lastOffset, chan, selection, paneRows>>
  BY DEF Poll, terminal
<1>3. Generations' /\ HeldFrameAges' /\ CanvasAges' /\ TextIsFullRedraw'
  <2>1. UNCHANGED <<terminal, lastOffset, chan, selection, paneRows>>
    BY DEF Poll
  <2>2. CASE f.gen = 0 \/ f.gen <= drawnGen
    BY <1>1, <2>1, <2>2, IdlePoll DEF Draw
  <2>3. CASE ~(f.gen = 0 \/ f.gen <= drawnGen)
    BY <1>1, <2>1, <2>3, DrawingPoll DEF Draw
  <2>4. QED
    BY <2>2, <2>3
<1>4. IsFrame(f) /\ FrameShape(f)
  <2>1. MaxPublish \in Nat /\ FrameShape(chan) /\ FrameShape(frame) /\ IsFrame(frame)
    BY SetupFacts DEF RepaintInv, TypeOK
  <2>2. IsFrame(Newest) /\ FrameShape(Newest) /\ IsFrame(Overtaken) /\ FrameShape(Overtaken)
    BY <2>1, NewestFrame DEF FrameShape
  <2>3. QED
    BY <1>1, <2>1, <2>2
<1>5. DOMAIN canvas' = DOMAIN canvas /\ drawn' \in 0 .. MaxPublish /\ drawnGen' \in 0 .. MaxPublish
  BY <1>1, <1>4 DEF Draw, Repaint, RepaintInv, TypeOK, FrameShape
<1>6. TypeOK'
  BY <1>1, <1>2, <1>4, <1>5 DEF RepaintInv, TypeOK, FrameShape, MaxPublish, MaxHistory, Caret, Cols
<1>7. DamageIsOwed'
  BY <1>2 DEF RepaintInv, DamageIsOwed
<1>8. IsFrame(chan)' /\ IsFrame(frame)' /\ setup' \in Setups
  BY <1>1, <1>2, <1>4 DEF RepaintInv, IsFrame
<1>9. QED
  BY <1>3, <1>6, <1>7, <1>8 DEF RepaintInv

\* A highlight that changes, or a surface built anew, asks for a full repaint.
LEMMA AskedAgain ==
  ASSUME RepaintInv, UNCHANGED <<terminal, lastOffset, chan, frame>>, drawnGen' = 0,
         drawn' \in {0, drawn}, selection' \in setup.highlights, paneRows' \in AllRows, DOMAIN canvas' = 1 .. paneRows'
  PROVE  RepaintInv'
<1>1. UNCHANGED <<setup, grid, history, cursor, dirty, full, lastOffset, chan, frame>> /\ MaxPublish \in Nat
  BY SetupFacts DEF terminal, RepaintInv
<1>2. drawn' \in 0 .. MaxPublish
  BY <1>1 DEF RepaintInv, TypeOK
<1>3. TypeOK'
  BY <1>1, <1>2 DEF RepaintInv, TypeOK, FrameShape, MaxPublish, MaxHistory, Caret, Cols
<1>4. Generations'
  BY <1>1 DEF RepaintInv, Generations, Capacity
<1>5. DamageIsOwed' /\ HeldFrameAges' /\ CanvasAges' /\ TextIsFullRedraw'
  BY <1>1 DEF RepaintInv, DamageIsOwed, HeldFrameAges, CanvasAges, TextIsFullRedraw, Settled
<1>6. QED
  BY <1>1, <1>3, <1>4, <1>5 DEF RepaintInv, IsFrame

LEMMA SessionKeeps ==
  ASSUME RepaintInv, \/ \E sel \in setup.highlights : SetSelection(sel)
                     \/ \E n \in Surfaces : Resize(n)
  PROVE  RepaintInv'
<1>1. ASSUME NEW sel \in setup.highlights, SetSelection(sel) PROVE RepaintInv'
  BY <1>1, AskedAgain DEF SetSelection, RepaintInv, TypeOK
<1>2. ASSUME NEW n \in Surfaces, Resize(n) PROVE RepaintInv'
  <2>1. n \in AllRows
    BY SetupFacts DEF RepaintInv, Surfaces, AllRows
  <2>2. QED
    BY <1>2, <2>1, AskedAgain DEF Resize, RepaintInv, TypeOK
<1>3. QED
  BY <1>1, <1>2

-----------------------------------------------------------------------------
LEMMA RepaintKeeps == RepaintInv /\ [Next]_vars => RepaintInv'
<1>1. SUFFICES ASSUME RepaintInv, [Next]_vars PROVE RepaintInv'
  OBVIOUS
<1>2. CASE Next
  <2>1. CASE \E offset \in 0 .. MaxHistory : Publish(offset)
    BY <1>1, <2>1, PublishKeeps
  <2>2. CASE Poll
    BY <1>1, <2>2, PollKeeps
  <2>3. CASE (\E sel \in setup.highlights : SetSelection(sel)) \/ (\E n \in Surfaces : Resize(n))
    BY <1>1, <2>3, SessionKeeps
  <2>4. QED
    BY <1>1, <1>2, <2>1, <2>2, <2>3, TerminalKeeps DEF Next
<1>3. CASE UNCHANGED vars
  <2>1. UNCHANGED <<lastOffset, chan, session>> /\ TerminalTyped' /\ DamageIsOwed'
    BY <1>1, <1>3 DEF vars, session, RepaintInv, TypeOK, TerminalTyped, DamageIsOwed, MaxHistory, Caret, Cols
  <2>2. QED
    BY <1>1, <2>1, TerminalStep
<1>4. QED
  BY <1>1, <1>2, <1>3

\* In the composition the rows move as they do alone, or stand still.
THEOREM RepaintInvariant == DrawingSpec => []RepaintInv
<1>1. DrawingInit => RepaintInv
  BY RepaintStarts DEF DrawingInit
<1>2. RepaintInv /\ [DrawingNext]_<<vars, lvars, gvars, part>> => RepaintInv'
  <2>1. [DrawingNext]_<<vars, lvars, gvars, part>> => [Next]_vars
    BY DEF DrawingNext
  <2>2. QED
    BY <2>1, RepaintKeeps
<1>3. QED
  BY <1>1, <1>2, PTL DEF DrawingSpec

\* Rows, cursor, damage and frames stay in range whatever is printed, resized, scrolled or published
\* (Screen, Publisher, Frame, Session).
THEOREM TypesHold == DrawingSpec => []TypeOK
<1>1. RepaintInv => TypeOK
  BY DEF RepaintInv
<1>2. QED
  BY <1>1, RepaintInvariant, PTL

\* A row the terminal has not marked is what the newest frame says of it, whatever was refused or
\* scrolled in between (Grid.dirty, Publisher::publish_scrolled).
THEOREM DamageTheorem == DrawingSpec => []DamageIsOwed
<1>1. RepaintInv => DamageIsOwed
  BY DEF RepaintInv
<1>2. QED
  BY <1>1, RepaintInvariant, PTL

\* Painting the stale rows of the frames a session happens to read shows the text and the highlight
\* a full repaint would (Session::poll, Renderer::draw).
THEOREM RedrawTheorem == DrawingSpec => []TextIsFullRedraw
<1>1. RepaintInv => TextIsFullRedraw
  BY DEF RepaintInv
<1>2. QED
  BY <1>1, RepaintInvariant, PTL

-----------------------------------------------------------------------------
(* The back ends.                                                          *)

Byte == 0 .. 255

\* Row-major: the cell a rectangle's pixel is, is one of its cells.
LEMMA RowMajor ==
  ASSUME NEW w \in Nat, NEW h \in Nat, NEW a \in 0 .. h - 1, NEW b \in 0 .. w - 1
  PROVE  a * w + b \in Nat /\ a * w + b < w * h
<1> DEFINE d == h - 1 - a
<1>1. d \in Nat /\ a \in Nat /\ b \in Nat /\ b < w /\ h = a + 1 + d
  OBVIOUS
<1>2. d * w \in Nat /\ a * w \in Nat
  BY <1>1
<1>3. w * (a + 1 + d) = a * w + w + d * w
  BY <1>1
<1>4. w * h = a * w + w + d * w
  BY <1>1, <1>3
<1> HIDE DEF d
<1>5. QED
  BY <1>1, <1>2, <1>4

\* Where a rectangle hits a pixel, it says which of its own.
LEMMA HitsInside ==
  ASSUME NEW r, r.x \in Int, r.y \in Int, r.w \in Nat, r.h \in Nat, NEW i \in Pixels
  PROVE  Hit(r, i) >= 0 => Hit(r, i) \in Nat /\ Hit(r, i) < r.w * r.h
<1> DEFINE x == i % SurfaceW
           y == i \div SurfaceW
<1>1. SurfaceW \in Nat \ {0} /\ SurfaceH \in Nat \ {0}
  BY SurfaceAssumption
<1>2. i \in Nat
  <2>1. SurfaceW * SurfaceH \in Nat
    BY <1>1
  <2>2. QED
    BY <2>1 DEF Pixels
<1>3. x \in Int /\ y \in Int
  BY <1>1, <1>2
<1> HIDE DEF x, y
<1>4. CASE x - r.x \in 0 .. r.w - 1 /\ y - r.y \in 0 .. r.h - 1
  <2> DEFINE a == y - r.y
             b == x - r.x
             w == r.w
             h == r.h
  <2>1. Hit(r, i) = a * w + b
    BY <1>4 DEF Hit, CellOf, x, y
  <2>2. w \in Nat /\ h \in Nat /\ a \in 0 .. h - 1 /\ b \in 0 .. w - 1
    BY <1>4
  <2> HIDE DEF a, b, w, h
  <2>3. a * w + b \in Nat /\ a * w + b < w * h
    BY <2>2, RowMajor
  <2>4. QED
    BY <2>1, <2>3 DEF w, h
<1>5. CASE ~(x - r.x \in 0 .. r.w - 1 /\ y - r.y \in 0 .. r.h - 1)
  <2>1. Hit(r, i) = -1
    BY <1>5 DEF Hit, CellOf, x, y
  <2>2. QED
    BY <2>1
<1>6. QED
  BY <1>4, <1>5

LEMMA Padding ==
  ASSUME NEW bytes \in Seq(Byte)
  PROVE  /\ Padded(bytes) \in Seq(Byte) /\ Len(Padded(bytes)) % 4 = 0
         /\ Len(bytes) \in Nat /\ Len(Padded(bytes)) \in Nat /\ Len(bytes) <= Len(Padded(bytes))
         /\ \A i \in 1 .. Len(bytes) : Padded(bytes)[i] = bytes[i]
<1> DEFINE n == Len(bytes)
           m == (4 - (n % 4)) % 4
           zeros == [k \in 1 .. m |-> 0]
<1>1. n \in Nat /\ m \in Nat /\ (n + m) % 4 = 0
  <2>1. n \in Nat
    OBVIOUS
  <2> HIDE DEF n
  <2>2. n % 4 \in 0 .. 3
    BY <2>1
  <2>3. CASE n % 4 = 0
    BY <2>1, <2>3
  <2>4. CASE n % 4 = 1
    BY <2>1, <2>4
  <2>5. CASE n % 4 = 2
    BY <2>1, <2>5
  <2>6. CASE n % 4 = 3
    BY <2>1, <2>6
  <2>7. QED
    BY <2>2, <2>3, <2>4, <2>5, <2>6
<1> HIDE DEF m
<1>2. zeros \in Seq(Byte) /\ Len(zeros) = m
  BY <1>1 DEF Byte
<1>3. Padded(bytes) = bytes \o zeros
  BY DEF Padded, m
<1> HIDE DEF zeros
<1>4. bytes \o zeros \in Seq(Byte) /\ Len(bytes \o zeros) = n + m
      /\ \A i \in 1 .. n : (bytes \o zeros)[i] = bytes[i]
  <2> DEFINE all == bytes \o zeros
  <2>1. all \in Seq(Byte) /\ Len(all) = Len(bytes) + Len(zeros)
        /\ \A i \in 1 .. Len(bytes) + Len(zeros) : all[i] = IF i <= Len(bytes) THEN bytes[i] ELSE zeros[i - Len(bytes)]
    BY <1>2, ConcatProperties
  <2>2. Len(zeros) = m /\ n \in Nat /\ m \in Nat /\ Len(bytes) = n
    BY <1>1, <1>2
  <2> HIDE DEF all, n
  <2>3. ASSUME NEW i \in 1 .. n PROVE all[i] = bytes[i]
    <3>1. i \in 1 .. n + m /\ i <= n
      BY <2>2
    <3>2. QED
      BY <2>1, <2>2, <3>1
  <2>4. QED
    BY <2>1, <2>2, <2>3 DEF all
<1>5. QED
  BY <1>1, <1>3, <1>4

\* The words a log is uploaded with: whole, and the bytes there are come first.
LEMMA Words ==
  ASSUME NEW bytes \in Seq(Byte)
  PROVE  /\ WordsOf(bytes) \in Seq(Byte) /\ Len(WordsOf(bytes)) % 4 = 0
         /\ Len(WordsOf(bytes)) \in Nat /\ Len(bytes) <= Len(WordsOf(bytes))
         /\ \A i \in 1 .. Len(bytes) : WordsOf(bytes)[i] = bytes[i]
<1>1. CASE bytes = <<>>
  <2>1. WordsOf(bytes) = Padded(<< 0 >>)
    BY <1>1 DEF WordsOf
  <2>2. << 0 >> \in Seq(Byte)
    BY DEF Byte
  <2>3. Len(bytes) = 0
    BY <1>1
  <2>4. Padded(<< 0 >>) \in Seq(Byte) /\ Len(Padded(<< 0 >>)) % 4 = 0 /\ Len(Padded(<< 0 >>)) \in Nat
    BY <2>2, Padding
  <2>5. QED
    BY <2>1, <2>3, <2>4
<1>2. CASE bytes # <<>>
  <2>1. WordsOf(bytes) = Padded(bytes)
    BY <1>2 DEF WordsOf
  <2>2. QED
    BY <2>1, Padding
<1>3. QED
  BY <1>1, <1>2

LEMMA WholeWord ==
  ASSUME NEW words \in Seq(Byte), NEW k \in Nat, 4 * k + 4 <= Len(words)
  PROVE  /\ WordAt(words, k) \in Seq(Byte) /\ Len(WordAt(words, k)) = 4
         /\ \A j \in 1 .. 4 : WordAt(words, k)[j] = words[4 * k + j]
<1> DEFINE m == 4 * k + 1
           n == 4 * k + 4
<1>1. m \in 1 .. Len(words) + 1 /\ n \in m - 1 .. Len(words) /\ n - m + 1 = 4 /\ m \in Int
  OBVIOUS
<1> HIDE DEF m, n
<1>2. /\ SubSeq(words, m, n) \in Seq(Byte) /\ Len(SubSeq(words, m, n)) = n - m + 1
      /\ \A i \in 1 .. n - m + 1 : SubSeq(words, m, n)[i] = words[m + i - 1]
  BY <1>1, SubSeqProperties
<1>3. WordAt(words, k) = SubSeq(words, m, n)
  BY DEF WordAt, m, n
<1>4. \A j \in 1 .. 4 : m + j - 1 = 4 * k + j
  BY DEF m
<1>5. QED
  BY <1>1, <1>2, <1>3, <1>4

\* The bytes of the buffer an operation looks at.
Reach(op) == CASE op.kind = "fill"  -> 0
               [] op.kind = "blend" -> op.at + op.w * op.h
               [] op.kind = "image" -> op.at + 4 * (op.w * op.h)

IsOp(op) ==
  /\ op.kind \in {"fill", "blend", "image"}
  /\ op.x \in Int /\ op.y \in Int /\ op.w \in Nat /\ op.h \in Nat /\ op.at \in Nat
  /\ op.kind = "image" => op.at % 4 = 0

Agree(words, others, n) == \A i \in 1 .. n : words[i] = others[i]

IsWords(words) == words \in Seq(Byte) /\ Len(words) % 4 = 0

\* Where a pixel's byte of a mask is, in a word.
LEMMA MaskByte ==
  ASSUME NEW words, IsWords(words), NEW n \in Nat, n < Len(words)
  PROVE  WordAt(words, n \div 4)[(n % 4) + 1] = words[n + 1]
<1> DEFINE q == n \div 4
           r == n % 4
<1>1. q \in Nat /\ r \in 0 .. 3 /\ n = 4 * q + r
  OBVIOUS
<1> HIDE DEF q, r
<1>2. Len(words) \in Nat /\ Len(words) % 4 = 0 /\ words \in Seq(Byte)
  BY DEF IsWords
<1>3. 4 * q + 4 <= Len(words)
  <2> DEFINE len == Len(words)
             m == len \div 4
  <2>1. m \in Nat /\ len = 4 * m
    BY <1>2
  <2> HIDE DEF len, m
  <2>2. 4 * q < 4 * m
    BY <1>1, <2>1 DEF len
  <2>3. q + 1 <= m
    BY <2>1, <2>2, <1>1
  <2>4. 4 * q + 4 <= len
    BY <2>1, <2>3, <1>1
  <2>5. QED
    BY <2>4 DEF len
<1>4. r + 1 \in 1 .. 4 /\ WordAt(words, q)[r + 1] = words[4 * q + (r + 1)]
  <2>1. \A j \in 1 .. 4 : WordAt(words, q)[j] = words[4 * q + j]
    BY <1>1, <1>2, <1>3, WholeWord
  <2>2. r + 1 \in 1 .. 4
    BY <1>1
  <2>3. QED
    BY <2>1, <2>2
<1>5. 4 * q + (r + 1) = n + 1
  BY <1>1
<1>6. QED
  BY <1>4, <1>5 DEF q, r

LEMMA WordsAgree ==
  ASSUME NEW words \in Seq(Byte), NEW others \in Seq(Byte), NEW k \in Nat, NEW n \in Nat,
         4 * k + 4 <= Len(words), 4 * n + 4 <= Len(others),
         \A j \in 1 .. 4 : words[4 * k + j] = others[4 * n + j]
  PROVE  WordAt(words, k) = WordAt(others, n)
<1>1. /\ WordAt(words, k) \in Seq(Byte) /\ Len(WordAt(words, k)) = 4
      /\ \A j \in 1 .. 4 : WordAt(words, k)[j] = words[4 * k + j]
  BY WholeWord
<1>2. /\ WordAt(others, n) \in Seq(Byte) /\ Len(WordAt(others, n)) = 4
      /\ \A j \in 1 .. 4 : WordAt(others, n)[j] = others[4 * n + j]
  BY WholeWord
<1> DEFINE s == WordAt(words, k)
           t == WordAt(others, n)
<1> HIDE DEF s, t
<1>3. s \in Seq(Byte) /\ t \in Seq(Byte) /\ Len(s) = 4 /\ Len(t) = 4 /\ \A j \in 1 .. 4 : s[j] = t[j]
  BY <1>1, <1>2 DEF s, t
<1>4. s = t
  <2>1. Len(s) = Len(t) /\ \A j \in 1 .. Len(s) : s[j] = t[j]
    BY <1>3
  <2>2. QED
    BY <1>3, <2>1, SeqEqual
<1>5. QED
  BY <1>4 DEF s, t

\* An operation draws the same from any buffer that has its bytes.
LEMMA DispatchReads ==
  ASSUME NEW pixels, NEW op, IsOp(op), NEW words, NEW others, IsWords(words), IsWords(others),
         Reach(op) <= Len(words), Reach(op) <= Len(others), Agree(words, others, Reach(op))
  PROVE  Dispatch(pixels, op, words) = Dispatch(pixels, op, others)
<1> DEFINE m == op.w * op.h
<1>0. /\ op.x \in Int /\ op.y \in Int /\ op.w \in Nat /\ op.h \in Nat /\ op.at \in Nat /\ m \in Nat
      /\ words \in Seq(Byte) /\ others \in Seq(Byte) /\ Len(words) \in Nat /\ Len(others) \in Nat
  BY DEF IsOp, IsWords
<1>1. ASSUME NEW i \in Pixels, Hit(op, i) >= 0
      PROVE  Hit(op, i) \in Nat /\ Hit(op, i) < m
  BY <1>0, <1>1, HitsInside
<1> HIDE DEF m
<1>2. CASE op.kind = "fill"
  <2>1. \A u : Dispatch(pixels, op, u) = [i \in Pixels |-> IF Hit(op, i) >= 0 THEN op.colour ELSE pixels[i]]
    BY <1>2 DEF Dispatch, FillShader
  <2>2. QED
    BY <2>1
<1>3. CASE op.kind = "blend"
  <2>1. \A u : Dispatch(pixels, op, u) = BlendShader(pixels, op, u)
    BY <1>3 DEF Dispatch
  <2>2. Reach(op) = op.at + m
    BY <1>3 DEF Reach, m
  <2>3. ASSUME NEW i \in Pixels, Hit(op, i) >= 0
        PROVE  WordAt(words, (op.at + Hit(op, i)) \div 4)[((op.at + Hit(op, i)) % 4) + 1]
                 = WordAt(others, (op.at + Hit(op, i)) \div 4)[((op.at + Hit(op, i)) % 4) + 1]
    <3> DEFINE n == op.at + Hit(op, i)
    <3>1. n \in Nat /\ n < op.at + m
      BY <1>0, <1>1, <2>3
    <3> HIDE DEF n
    <3>2. n < Len(words) /\ n < Len(others) /\ n + 1 \in 1 .. op.at + m
      BY <1>0, <2>2, <3>1
    <3>3. words[n + 1] = others[n + 1]
      BY <2>2, <3>2 DEF Agree
    <3>4. WordAt(words, n \div 4)[(n % 4) + 1] = words[n + 1]
          /\ WordAt(others, n \div 4)[(n % 4) + 1] = others[n + 1]
      BY <3>1, <3>2, MaskByte
    <3>5. QED
      BY <3>3, <3>4 DEF n
  <2>4. BlendShader(pixels, op, words) = BlendShader(pixels, op, others)
    BY <2>3 DEF BlendShader
  <2>5. QED
    BY <2>1, <2>4
<1>4. CASE op.kind = "image"
  <2>1. \A u : Dispatch(pixels, op, u) = ImageShader(pixels, op, u)
    BY <1>4 DEF Dispatch
  <2>2. Reach(op) = op.at + 4 * m
    BY <1>4 DEF Reach, m
  <2> DEFINE q == op.at \div 4
  <2>3. q \in Nat /\ op.at = 4 * q
    BY <1>0, <1>4 DEF IsOp
  <2> HIDE DEF q
  <2>4. ASSUME NEW i \in Pixels, Hit(op, i) >= 0
        PROVE  WordAt(words, q + Hit(op, i)) = WordAt(others, q + Hit(op, i))
    <3> DEFINE n == q + Hit(op, i)
    <3>1. n \in Nat /\ n < q + m
      BY <1>0, <1>1, <2>3, <2>4
    <3> HIDE DEF n
    <3>2. 4 * n + 4 <= op.at + 4 * m
      BY <1>0, <2>3, <3>1
    <3>3. 4 * n + 4 <= Len(words) /\ 4 * n + 4 <= Len(others)
      BY <1>0, <2>2, <3>1, <3>2
    <3>4. ASSUME NEW j \in 1 .. 4 PROVE words[4 * n + j] = others[4 * n + j]
      <4>1. 4 * n + j \in 1 .. Reach(op)
        BY <1>0, <2>2, <3>1, <3>2
      <4>2. QED
        BY <4>1 DEF Agree
    <3>5. WordAt(words, n) = WordAt(others, n)
      BY <1>0, <3>1, <3>3, <3>4, WordsAgree
    <3>6. QED
      BY <3>5 DEF n
  <2>5. ImageShader(pixels, op, words) = ImageShader(pixels, op, others)
    BY <2>4 DEF ImageShader, q
  <2>6. QED
    BY <2>1, <2>5
<1>5. QED
  BY <1>2, <1>3, <1>4 DEF IsOp

\* A call as it is logged: its bytes are somewhere in the buffer.
Logs(c, op, words) ==
  /\ op.kind = c.kind /\ op.x = c.x /\ op.y = c.y /\ op.w = c.w /\ op.h = c.h /\ op.colour = c.colour
  /\ c.kind # "fill" =>
       /\ op.at + Len(c.bytes) <= Len(words)
       /\ \A j \in 1 .. Len(c.bytes) : words[op.at + j] = c.bytes[j]

\* The shaders draw what the canvas draws.
LEMMA DispatchDraws ==
  ASSUME NEW pixels, NEW c, IsCall(c), NEW op, IsOp(op), NEW words, IsWords(words), Logs(c, op, words)
  PROVE  Dispatch(pixels, op, words) = Drew(pixels, c)
<1> DEFINE m == c.w * c.h
<1>0. /\ c.x \in Int /\ c.y \in Int /\ c.w \in Nat /\ c.h \in Nat /\ op.at \in Nat /\ m \in Nat
      /\ words \in Seq(Byte) /\ Len(words) \in Nat /\ c.bytes \in Seq(Byte) /\ Len(c.bytes) \in Nat
  <2>1. c.x \in Int /\ c.y \in Int /\ c.w \in Nat /\ c.h \in Nat /\ op.at \in Nat
    BY DEF IsOp, IsCall
  <2>2. m \in Nat
    BY <2>1
  <2>3. words \in Seq(Byte) /\ c.bytes \in Seq(Byte)
    BY DEF IsWords, IsCall, Byte
  <2> HIDE DEF m
  <2>4. Len(words) \in Nat /\ Len(c.bytes) \in Nat
    BY <2>3
  <2>5. QED
    BY <2>1, <2>2, <2>3, <2>4
<1>1. ASSUME NEW i \in Pixels
      PROVE  Hit(op, i) = Hit(c, i) /\ (Hit(c, i) >= 0 => Hit(c, i) \in Nat /\ Hit(c, i) < m)
  <2>1. Hit(op, i) = Hit(c, i)
    BY DEF Logs, Hit, CellOf
  <2>2. QED
    BY <1>0, <2>1, HitsInside
<1> HIDE DEF m
<1>2. CASE c.kind = "fill"
  <2>1. Dispatch(pixels, op, words) = FillShader(pixels, op, words) /\ Drew(pixels, c) = DrawFill(pixels, c)
    BY <1>2 DEF Dispatch, Drew, Logs
  <2>2. FillShader(pixels, op, words) = DrawFill(pixels, c)
    BY <1>1 DEF FillShader, DrawFill, Logs
  <2>3. QED
    BY <2>1, <2>2
<1>3. CASE c.kind = "blend"
  <2>1. Dispatch(pixels, op, words) = BlendShader(pixels, op, words) /\ Drew(pixels, c) = DrawMask(pixels, c)
    BY <1>3 DEF Dispatch, Drew, Logs
  <2>2. /\ Len(c.bytes) = m /\ op.at + m <= Len(words) /\ op.colour = c.colour
        /\ \A j \in 1 .. m : words[op.at + j] = c.bytes[j]
    BY <1>3 DEF IsCall, Logs, m
  <2>3. ASSUME NEW i \in Pixels, Hit(c, i) >= 0
        PROVE  WordAt(words, (op.at + Hit(op, i)) \div 4)[((op.at + Hit(op, i)) % 4) + 1]
                 = c.bytes[Hit(c, i) + 1]
    <3> DEFINE k == Hit(c, i)
               n == op.at + k
    <3>1. k \in Nat /\ k < m /\ Hit(op, i) = k
      BY <1>1, <2>3
    <3> HIDE DEF k
    <3>2. n \in Nat /\ n < Len(words) /\ k + 1 \in 1 .. m /\ n + 1 = op.at + (k + 1)
      BY <1>0, <2>2, <3>1
    <3>3. words[n + 1] = c.bytes[k + 1]
      <4> HIDE DEF n
      <4>1. QED
        BY <2>2, <3>2
    <3> HIDE DEF n
    <3>4. WordAt(words, n \div 4)[(n % 4) + 1] = words[n + 1]
      BY <3>2, MaskByte
    <3>5. QED
      BY <3>1, <3>3, <3>4 DEF n, k
  <2>4. BlendShader(pixels, op, words) = DrawMask(pixels, c)
    <3> DEFINE A(i) == WordAt(words, (op.at + Hit(op, i)) \div 4)[((op.at + Hit(op, i)) % 4) + 1]
               B(i) == c.bytes[Hit(c, i) + 1]
               G(i) == IF Hit(op, i) >= 0 THEN Blend(ShaderMix, pixels[i], op.colour, A(i)) ELSE pixels[i]
               C(i) == IF Hit(c, i) >= 0 THEN Blend(Mixed, pixels[i], c.colour, B(i)) ELSE pixels[i]
    <3>1. BlendShader(pixels, op, words) = [i \in Pixels |-> G(i)]
      BY DEF BlendShader
    <3>2. DrawMask(pixels, c) = [i \in Pixels |-> C(i)]
      BY DEF DrawMask
    <3>3. ASSUME NEW i \in Pixels PROVE G(i) = C(i)
      <4>1. CASE Hit(c, i) >= 0
        <5>1. A(i) = B(i) /\ Hit(op, i) = Hit(c, i)
          BY <4>1, <2>3, <1>1
        <5> HIDE DEF A, B
        <5>2. QED
          BY <5>1, <4>1, <2>2 DEF Blend, Mixed, ShaderMix
      <4>2. CASE ~(Hit(c, i) >= 0)
        BY <4>2, <1>1
      <4>3. QED
        BY <4>1, <4>2
    <3> HIDE DEF G, C
    <3>4. QED
      BY <3>1, <3>2, <3>3
  <2>5. QED
    BY <2>1, <2>4
<1>4. CASE c.kind = "image"
  <2>1. Dispatch(pixels, op, words) = ImageShader(pixels, op, words) /\ Drew(pixels, c) = DrawImage(pixels, c)
    BY <1>4 DEF Dispatch, Drew, Logs
  <2>2. /\ Len(c.bytes) = 4 * m /\ op.at + 4 * m <= Len(words)
        /\ \A j \in 1 .. 4 * m : words[op.at + j] = c.bytes[j]
    BY <1>4 DEF IsCall, Logs, m
  <2> DEFINE q == op.at \div 4
  <2>3. q \in Nat /\ op.at = 4 * q
    BY <1>0, <1>4 DEF IsOp, Logs
  <2> HIDE DEF q
  <2>4. ASSUME NEW i \in Pixels, Hit(c, i) >= 0
        PROVE  WordAt(words, q + Hit(c, i)) = WordAt(c.bytes, Hit(c, i))
    <3> DEFINE k == Hit(c, i)
               n == q + k
    <3>1. k \in Nat /\ k < m
      BY <1>1, <2>4
    <3> HIDE DEF k
    <3>2. n \in Nat /\ 4 * n + 4 <= Len(words) /\ 4 * k + 4 <= Len(c.bytes) /\ 4 * n = op.at + 4 * k
      BY <1>0, <2>2, <2>3, <3>1
    <3>3. ASSUME NEW j \in 1 .. 4 PROVE words[4 * n + j] = c.bytes[4 * k + j]
      <4>1. m \in Nat /\ op.at \in Nat /\ k \in Nat /\ k < m /\ n \in Nat /\ 4 * n = op.at + 4 * k
        BY <1>0, <3>1, <3>2
      <4> DEFINE at == op.at
      <4> HIDE DEF at, n
      <4>2. 4 * k + j \in 1 .. 4 * m /\ 4 * n + j = at + (4 * k + j)
        BY <4>1 DEF at
      <4>3. QED
        BY <4>2, <2>2 DEF at
    <3> HIDE DEF n
    <3>4. WordAt(words, n) = WordAt(c.bytes, k)
      <4> DEFINE bytes == c.bytes
      <4>1. /\ bytes \in Seq(Byte) /\ words \in Seq(Byte) /\ n \in Nat /\ k \in Nat
            /\ 4 * n + 4 <= Len(words) /\ 4 * k + 4 <= Len(bytes)
        BY <1>0, <3>1, <3>2
      <4>2. \A j \in 1 .. 4 : words[4 * n + j] = bytes[4 * k + j]
        BY <3>3
      <4> HIDE DEF bytes
      <4>3. WordAt(words, n) = WordAt(bytes, k)
        BY <4>1, <4>2, WordsAgree
      <4>4. QED
        BY <4>3 DEF bytes
    <3>5. QED
      BY <3>4 DEF n, k
  <2>5. ImageShader(pixels, op, words) = DrawImage(pixels, c)
    <3> DEFINE A(i) == WordAt(words, q + Hit(op, i))
               B(i) == WordAt(c.bytes, Hit(c, i))
               G(i) == IF Hit(op, i) >= 0 THEN Blend(ShaderMix, pixels[i], A(i), A(i)[4]) ELSE pixels[i]
               C(i) == IF Hit(c, i) >= 0 THEN Blend(Mixed, pixels[i], B(i), B(i)[4]) ELSE pixels[i]
    <3>1. ImageShader(pixels, op, words) = [i \in Pixels |-> G(i)]
      BY DEF ImageShader, q
    <3>2. DrawImage(pixels, c) = [i \in Pixels |-> C(i)]
      BY DEF DrawImage, WordAt
    <3>3. ASSUME NEW i \in Pixels PROVE G(i) = C(i)
      <4>1. CASE Hit(c, i) >= 0
        <5>1. A(i) = B(i) /\ Hit(op, i) = Hit(c, i)
          BY <4>1, <2>4, <1>1
        <5> HIDE DEF A, B
        <5>2. QED
          BY <5>1, <4>1 DEF Blend, Mixed, ShaderMix
      <4>2. CASE ~(Hit(c, i) >= 0)
        BY <4>2, <1>1
      <4>3. QED
        BY <4>1, <4>2
    <3> HIDE DEF G, C
    <3>4. QED
      BY <3>1, <3>2, <3>3
  <2>6. QED
    BY <2>1, <2>5
<1>5. QED
  BY <1>2, <1>3, <1>4 DEF IsCall

\* What one step of a replay, of the panes' and of the rules' blits is.
LEMMA ReplaySteps ==
  ASSUME NEW pixels, NEW ops, NEW words, NEW m \in Nat, Len(ops) = m
  PROVE  /\ Replayed(pixels, ops, words)[0] = pixels
         /\ \A n \in 1 .. m : Replayed(pixels, ops, words)[n] = Dispatch(Replayed(pixels, ops, words)[n - 1], ops[n], words)
<1> DEFINE start == pixels
           Built(f, k) ==
             f = [n \in 0 .. k |-> IF n = 0 THEN start ELSE Dispatch(f[n - 1], ops[n], words)]
           Reached == {k \in 0 .. m : \E f : Built(f, k)}
<1>0. Replayed(pixels, ops, words) = CHOOSE f : Built(f, m)
  BY DEF Replayed
<1> HIDE DEF start
<1>1. 0 \in Reached
  <2>1. Built([n \in 0 .. 0 |-> start], 0)
    OBVIOUS
  <2>2. \E f : Built(f, 0)
    <3> HIDE DEF Built
    <3>1. QED
      BY <2>1
  <2>3. QED
    BY <2>2
<1>2. ASSUME NEW k \in 1 .. m, k - 1 \in Reached
      PROVE  k \in Reached
  <2>1. PICK f : Built(f, k - 1)
    BY <1>2
  <2> DEFINE h1 == [n \in 0 .. k |-> IF n = k THEN Dispatch(f[k - 1], ops[k], words) ELSE f[n]]
             h2 == [n \in 0 .. k |-> IF n = 0 THEN start ELSE Dispatch(h1[n - 1], ops[n], words)]
  <2>2. \A n \in 0 .. k - 1 : f[n] = IF n = 0 THEN start ELSE Dispatch(f[n - 1], ops[n], words)
    <3> HIDE DEF h1, h2
    <3>1. QED
      BY <2>1, Zenon
  <2>3. \A n \in 0 .. k - 1 : h1[n] = f[n]
    OBVIOUS
  <2>4. ASSUME NEW n \in 0 .. k PROVE h1[n] = h2[n]
    <3>1. CASE n = 0
      BY <3>1, <2>2, <2>3
    <3>2. CASE n \in 1 .. k - 1
      <4>1. h2[n] = Dispatch(h1[n - 1], ops[n], words) /\ n - 1 \in 0 .. k - 1 /\ n \in 0 .. k - 1
        BY <3>2
      <4>2. QED
        BY <4>1, <2>2, <2>3, <3>2
    <3>3. CASE n = k /\ k > 0
      <4>1. h2[n] = Dispatch(h1[k - 1], ops[n], words) /\ h1[n] = Dispatch(f[k - 1], ops[n], words)
        BY <3>3
      <4>2. h1[k - 1] = f[k - 1]
        BY <2>3
      <4>3. QED
        BY <4>1, <4>2
    <3>4. QED
      BY <3>1, <3>2, <3>3
  <2>5. h1 = h2
    <3>1. h1 = [n \in 0 .. k |-> h1[n]] /\ h2 = [n \in 0 .. k |-> h2[n]]
      OBVIOUS
    <3>2. QED
      BY <3>1, <2>4
  <2>6. Built(h1, k)
    BY <2>5
  <2>7. \E f2 : Built(f2, k)
    <3> HIDE DEF Built, h1
    <3>1. QED
      BY <2>6
  <2>8. QED
    BY <2>7
<1>3. m \in Reached
  <2> HIDE DEF Reached
  <2>1. QED
    BY <1>1, <1>2, Climbs
<1>4. Built(Replayed(pixels, ops, words), m)
  BY <1>0, <1>3
<1>5. Replayed(pixels, ops, words)[0] = start /\
      \A n \in 1 .. m : Replayed(pixels, ops, words)[n] = Dispatch(Replayed(pixels, ops, words)[n - 1], ops[n], words)
  BY <1>4
<1>6. QED
  BY <1>5 DEF start

LEMMA PanesSteps ==
  ASSUME NEW w, NEW target, NEW images, NEW m \in Nat, Len(images) = m
  PROVE  /\ PanesOver(w, target, images)[0] = target
         /\ \A n \in 1 .. m : PanesOver(w, target, images)[n] = BlitPane(w, PanesOver(w, target, images)[n - 1], images[n])
<1> DEFINE start == target
           Built(f, k) ==
             f = [n \in 0 .. k |-> IF n = 0 THEN start ELSE BlitPane(w, f[n - 1], images[n])]
           Reached == {k \in 0 .. m : \E f : Built(f, k)}
<1>0. PanesOver(w, target, images) = CHOOSE f : Built(f, m)
  BY DEF PanesOver
<1> HIDE DEF start
<1>1. 0 \in Reached
  <2>1. Built([n \in 0 .. 0 |-> start], 0)
    OBVIOUS
  <2>2. \E f : Built(f, 0)
    <3> HIDE DEF Built
    <3>1. QED
      BY <2>1
  <2>3. QED
    BY <2>2
<1>2. ASSUME NEW k \in 1 .. m, k - 1 \in Reached
      PROVE  k \in Reached
  <2>1. PICK f : Built(f, k - 1)
    BY <1>2
  <2> DEFINE h1 == [n \in 0 .. k |-> IF n = k THEN BlitPane(w, f[k - 1], images[k]) ELSE f[n]]
             h2 == [n \in 0 .. k |-> IF n = 0 THEN start ELSE BlitPane(w, h1[n - 1], images[n])]
  <2>2. \A n \in 0 .. k - 1 : f[n] = IF n = 0 THEN start ELSE BlitPane(w, f[n - 1], images[n])
    <3> HIDE DEF h1, h2
    <3>1. QED
      BY <2>1, Zenon
  <2>3. \A n \in 0 .. k - 1 : h1[n] = f[n]
    OBVIOUS
  <2>4. ASSUME NEW n \in 0 .. k PROVE h1[n] = h2[n]
    <3>1. CASE n = 0
      BY <3>1, <2>2, <2>3
    <3>2. CASE n \in 1 .. k - 1
      <4>1. h2[n] = BlitPane(w, h1[n - 1], images[n]) /\ n - 1 \in 0 .. k - 1 /\ n \in 0 .. k - 1
        BY <3>2
      <4>2. QED
        BY <4>1, <2>2, <2>3, <3>2
    <3>3. CASE n = k /\ k > 0
      <4>1. h2[n] = BlitPane(w, h1[k - 1], images[n]) /\ h1[n] = BlitPane(w, f[k - 1], images[n])
        BY <3>3
      <4>2. h1[k - 1] = f[k - 1]
        BY <2>3
      <4>3. QED
        BY <4>1, <4>2
    <3>4. QED
      BY <3>1, <3>2, <3>3
  <2>5. h1 = h2
    <3>1. h1 = [n \in 0 .. k |-> h1[n]] /\ h2 = [n \in 0 .. k |-> h2[n]]
      OBVIOUS
    <3>2. QED
      BY <3>1, <2>4
  <2>6. Built(h1, k)
    BY <2>5
  <2>7. \E f2 : Built(f2, k)
    <3> HIDE DEF Built, h1
    <3>1. QED
      BY <2>6
  <2>8. QED
    BY <2>7
<1>3. m \in Reached
  <2> HIDE DEF Reached
  <2>1. QED
    BY <1>1, <1>2, Climbs
<1>4. Built(PanesOver(w, target, images), m)
  BY <1>0, <1>3
<1>5. PanesOver(w, target, images)[0] = start /\
      \A n \in 1 .. m : PanesOver(w, target, images)[n] = BlitPane(w, PanesOver(w, target, images)[n - 1], images[n])
  BY <1>4
<1>6. QED
  BY <1>5 DEF start

LEMMA RulesSteps ==
  ASSUME NEW w, NEW target, NEW rules, NEW m \in Nat, Len(rules) = m
  PROVE  /\ RulesOver(w, target, rules)[0] = target
         /\ \A n \in 1 .. m : RulesOver(w, target, rules)[n] = BlitRule(w, RulesOver(w, target, rules)[n - 1], rules[n])
<1> DEFINE start == target
           Built(f, k) ==
             f = [n \in 0 .. k |-> IF n = 0 THEN start ELSE BlitRule(w, f[n - 1], rules[n])]
           Reached == {k \in 0 .. m : \E f : Built(f, k)}
<1>0. RulesOver(w, target, rules) = CHOOSE f : Built(f, m)
  BY DEF RulesOver
<1> HIDE DEF start
<1>1. 0 \in Reached
  <2>1. Built([n \in 0 .. 0 |-> start], 0)
    OBVIOUS
  <2>2. \E f : Built(f, 0)
    <3> HIDE DEF Built
    <3>1. QED
      BY <2>1
  <2>3. QED
    BY <2>2
<1>2. ASSUME NEW k \in 1 .. m, k - 1 \in Reached
      PROVE  k \in Reached
  <2>1. PICK f : Built(f, k - 1)
    BY <1>2
  <2> DEFINE h1 == [n \in 0 .. k |-> IF n = k THEN BlitRule(w, f[k - 1], rules[k]) ELSE f[n]]
             h2 == [n \in 0 .. k |-> IF n = 0 THEN start ELSE BlitRule(w, h1[n - 1], rules[n])]
  <2>2. \A n \in 0 .. k - 1 : f[n] = IF n = 0 THEN start ELSE BlitRule(w, f[n - 1], rules[n])
    <3> HIDE DEF h1, h2
    <3>1. QED
      BY <2>1, Zenon
  <2>3. \A n \in 0 .. k - 1 : h1[n] = f[n]
    OBVIOUS
  <2>4. ASSUME NEW n \in 0 .. k PROVE h1[n] = h2[n]
    <3>1. CASE n = 0
      BY <3>1, <2>2, <2>3
    <3>2. CASE n \in 1 .. k - 1
      <4>1. h2[n] = BlitRule(w, h1[n - 1], rules[n]) /\ n - 1 \in 0 .. k - 1 /\ n \in 0 .. k - 1
        BY <3>2
      <4>2. QED
        BY <4>1, <2>2, <2>3, <3>2
    <3>3. CASE n = k /\ k > 0
      <4>1. h2[n] = BlitRule(w, h1[k - 1], rules[n]) /\ h1[n] = BlitRule(w, f[k - 1], rules[n])
        BY <3>3
      <4>2. h1[k - 1] = f[k - 1]
        BY <2>3
      <4>3. QED
        BY <4>1, <4>2
    <3>4. QED
      BY <3>1, <3>2, <3>3
  <2>5. h1 = h2
    <3>1. h1 = [n \in 0 .. k |-> h1[n]] /\ h2 = [n \in 0 .. k |-> h2[n]]
      OBVIOUS
    <3>2. QED
      BY <3>1, <2>4
  <2>6. Built(h1, k)
    BY <2>5
  <2>7. \E f2 : Built(f2, k)
    <3> HIDE DEF Built, h1
    <3>1. QED
      BY <2>6
  <2>8. QED
    BY <2>7
<1>3. m \in Reached
  <2> HIDE DEF Reached
  <2>1. QED
    BY <1>1, <1>2, Climbs
<1>4. Built(RulesOver(w, target, rules), m)
  BY <1>0, <1>3
<1>5. RulesOver(w, target, rules)[0] = start /\
      \A n \in 1 .. m : RulesOver(w, target, rules)[n] = BlitRule(w, RulesOver(w, target, rules)[n - 1], rules[n])
  BY <1>4
<1>6. QED
  BY <1>5 DEF start

LEMMA ReachCounts ==
  ASSUME NEW op, IsOp(op)
  PROVE  Reach(op) \in Nat
<1>1. op.w \in Nat /\ op.h \in Nat /\ op.at \in Nat
  BY DEF IsOp
<1> DEFINE m == op.w * op.h
<1>2. m \in Nat
  BY <1>1
<1>3. Reach(op) = CASE op.kind = "fill" -> 0 [] op.kind = "blend" -> op.at + m [] op.kind = "image" -> op.at + 4 * m
  BY DEF Reach
<1> HIDE DEF m
<1>4. QED
  BY <1>1, <1>2, <1>3 DEF IsOp

Replays(f, pixels, ops, words, m) ==
  f[0] = pixels /\ \A n \in 1 .. m : f[n] = Dispatch(f[n - 1], ops[n], words)

LEMMA ReplayedReplays ==
  ASSUME NEW pixels, NEW ops, NEW words, NEW m \in Nat, Len(ops) = m
  PROVE  Replays(Replayed(pixels, ops, words), pixels, ops, words, m)
<1> DEFINE f == Replayed(pixels, ops, words)
<1>1. f[0] = pixels /\ \A n \in 1 .. m : f[n] = Dispatch(f[n - 1], ops[n], words)
  BY ReplaySteps
<1> HIDE DEF f
<1>2. Replays(f, pixels, ops, words, m)
  BY <1>1 DEF Replays
<1>3. QED
  BY <1>2 DEF f

Longer(ops, more, m, l) == m \in Nat /\ l \in Nat /\ m <= l /\ Len(ops) = m /\ Len(more) = l

SameBytes(words, others, n) ==
  IsWords(words) /\ IsWords(others) /\ n <= Len(words) /\ n <= Len(others) /\ Agree(words, others, n)

SameLog(ops, more, m, n) == \A k \in 1 .. m : IsOp(ops[k]) /\ Reach(ops[k]) <= n /\ more[k] = ops[k]

\* What comes behind a log, and behind its bytes, does not change what it drew.
LEMMA ReplaySame ==
  ASSUME NEW pixels, NEW ops, NEW more, NEW words, NEW others, NEW n \in Nat, NEW m, NEW l,
         Longer(ops, more, m, l), SameBytes(words, others, n), SameLog(ops, more, m, n)
  PROVE  Replayed(pixels, more, others)[m] = Replayed(pixels, ops, words)[m]
<1> DEFINE f == Replayed(pixels, ops, words)
           g == Replayed(pixels, more, others)
           Reached == {k \in 0 .. m : g[k] = f[k]}
<1>0. m \in Nat /\ l \in Nat /\ m <= l /\ Len(ops) = m /\ Len(more) = l
  BY DEF Longer
<1>1. f[0] = pixels /\ \A k \in 1 .. m : f[k] = Dispatch(f[k - 1], ops[k], words)
  <2>1. Replays(f, pixels, ops, words, m)
    BY <1>0, ReplayedReplays
  <2> HIDE DEF f
  <2>2. QED
    BY <2>1 DEF Replays
<1>2. g[0] = pixels /\ \A k \in 1 .. l : g[k] = Dispatch(g[k - 1], more[k], others)
  <2>1. Replays(g, pixels, more, others, l)
    BY <1>0, ReplayedReplays
  <2> HIDE DEF g
  <2>2. QED
    BY <2>1 DEF Replays
<1> HIDE DEF f, g
<1>3. 0 \in Reached
  BY <1>0, <1>1, <1>2
<1>4. ASSUME NEW k \in 1 .. m, k - 1 \in Reached
      PROVE  k \in Reached
  <2> DEFINE before == f[k - 1]
             op == ops[k]
  <2>1. k \in 1 .. l /\ k \in 0 .. m
    BY <1>0
  <2>2. f[k] = Dispatch(before, op, words)
    BY <1>1
  <2>3. g[k] = Dispatch(before, op, others)
    <3>1. g[k - 1] = before /\ more[k] = op
      BY <1>4 DEF SameLog
    <3>2. g[k] = Dispatch(g[k - 1], more[k], others)
      BY <1>2, <2>1
    <3>3. QED
      BY <3>1, <3>2
  <2>4. IsOp(op) /\ Reach(op) <= n
    BY DEF SameLog
  <2> HIDE DEF before, op
  <2>5. Reach(op) \in Nat
    BY <2>4, ReachCounts
  <2>6. Len(words) \in Nat /\ Len(others) \in Nat
    BY DEF IsWords, SameBytes
  <2>7. Reach(op) <= Len(words) /\ Reach(op) <= Len(others) /\ Agree(words, others, Reach(op))
    BY <2>4, <2>5, <2>6 DEF Agree, SameBytes
  <2>8. Dispatch(before, op, words) = Dispatch(before, op, others)
    <3>1. IsWords(words) /\ IsWords(others)
      BY DEF SameBytes
    <3>2. QED
      BY <2>4, <2>7, <3>1, DispatchReads
  <2>9. QED
    BY <2>1, <2>2, <2>3, <2>8
<1>5. \A k \in 0 .. m : k \in Reached
  <2> HIDE DEF Reached
  <2>1. QED
    BY <1>0, <1>3, <1>4, Climbs
<1>6. m \in Reached
  <2>1. m \in 0 .. m
    BY <1>0
  <2> HIDE DEF Reached
  <2>2. QED
    BY <1>5, <2>1
<1>7. QED
  BY <1>6 DEF f, g

\* A surface has its four fields, and a log whose operations find their bytes.
LoggedAt(c, n) == [c EXCEPT !.bytes = <<>>, !.at = n]
Ops == {LoggedAt(c, n) : c \in PaintCalls, n \in Nat}

IsSurface(g) ==
  /\ g = [pixels |-> g.pixels, ops |-> g.ops, coverage |-> g.coverage, reads |-> g.reads]
  /\ g.ops \in Seq(Ops) /\ g.coverage \in Seq(Byte)
  /\ \A k \in 1 .. Len(g.ops) : IsOp(g.ops[k]) /\ Reach(g.ops[k]) <= Len(g.coverage)

\* What reading it now would give.
Picture(g) == Replayed(g.pixels, g.ops, WordsOf(g.coverage))[Len(g.ops)]

IsPicture(f) == f = [i \in Pixels |-> f[i]]

LEMMA LoggedDraws ==
  ASSUME NEW g, IsSurface(g), NEW c \in PaintCalls,
         NEW coverage \in Seq(Byte), Len(g.coverage) <= Len(coverage),
         Agree(g.coverage, coverage, Len(g.coverage)),
         NEW at \in Nat, c.kind = "image" => at % 4 = 0,
         c.kind # "fill" => /\ at + Len(c.bytes) <= Len(coverage)
                            /\ \A j \in 1 .. Len(c.bytes) : coverage[at + j] = c.bytes[j]
  PROVE  /\ IsSurface(Logged(g, c, coverage, at))
         /\ Picture(Logged(g, c, coverage, at)) = Drew(Picture(g), c)
<1> DEFINE op == [c EXCEPT !.bytes = <<>>, !.at = at]
           ops == g.ops
           more == Append(ops, op)
           m == Len(ops)
           n == Len(g.coverage)
           words == WordsOf(g.coverage)
           others == WordsOf(coverage)
           h == Logged(g, c, coverage, at)
<1>1. IsCall(c) /\ op \in Ops
  <2>1. IsCall(c)
    BY SurfaceAssumption
  <2>2. op = LoggedAt(c, at)
    BY DEF LoggedAt
  <2> HIDE DEF op
  <2>3. op \in Ops
    BY <2>2 DEF Ops
  <2>4. QED
    BY <2>1, <2>3
<1>2. /\ op.kind = c.kind /\ op.x = c.x /\ op.y = c.y /\ op.w = c.w /\ op.h = c.h
      /\ op.colour = c.colour /\ op.at = at
  BY <1>1 DEF IsCall
<1>3. h = [pixels |-> g.pixels, ops |-> more, coverage |-> coverage, reads |-> g.reads]
  <2> DEFINE pixels == g.pixels
             cov == g.coverage
             reads == g.reads
  <2>1. g = [pixels |-> pixels, ops |-> ops, coverage |-> cov, reads |-> reads]
    BY DEF IsSurface
  <2>2. h = [g EXCEPT !.coverage = coverage, !.ops = Append(@, op)]
    BY DEF Logged
  <2> HIDE DEF pixels, cov, reads, h, ops
  <2>3. h = [pixels |-> pixels, ops |-> Append(ops, op), coverage |-> coverage, reads |-> reads]
    BY <2>1, <2>2
  <2>4. QED
    BY <2>3 DEF pixels, reads
<1> HIDE DEF op, h
<1>4. ops \in Seq(Ops) /\ m \in Nat /\ n \in Nat /\ Len(coverage) \in Nat /\ g.coverage \in Seq(Byte)
  BY DEF IsSurface
<1>5. /\ more \in Seq(Ops) /\ Len(more) = m + 1 /\ more[m + 1] = op
      /\ \A k \in 1 .. m : more[k] = ops[k]
  BY <1>1, <1>4
<1>6. IsOp(op)
  BY <1>1, <1>2 DEF IsOp, IsCall
<1>7. Reach(op) <= Len(coverage)
  <2> DEFINE s == c.w * c.h
  <2>1. Reach(op) = CASE op.kind = "fill" -> 0 [] op.kind = "blend" -> op.at + s [] op.kind = "image" -> op.at + 4 * s
    BY <1>2 DEF Reach
  <2>2. c.kind = "blend" => Len(c.bytes) = s
    BY <1>1 DEF IsCall
  <2>3. c.kind = "image" => Len(c.bytes) = 4 * s
    BY <1>1 DEF IsCall
  <2>4. c.kind \in {"fill", "blend", "image"}
    BY <1>1 DEF IsCall
  <2> HIDE DEF s
  <2>5. QED
    BY <1>2, <1>4, <2>1, <2>2, <2>3, <2>4
<1>8. IsWords(words) /\ IsWords(others) /\ n <= Len(words) /\ Len(coverage) <= Len(others)
      /\ Agree(g.coverage, words, n) /\ Agree(coverage, others, Len(coverage))
  BY <1>4, Words DEF IsWords, Agree
<1>9. Len(words) \in Nat /\ Len(others) \in Nat
  BY <1>8 DEF IsWords
<1>10. n <= Len(others) /\ Agree(words, others, n)
  BY <1>4, <1>8, <1>9 DEF Agree
<1>11. Logs(c, op, others)
  <2>1. c.bytes \in Seq(Byte) /\ Len(c.bytes) \in Nat
    <3>1. c.bytes \in Seq(Byte)
      BY <1>1 DEF IsCall, Byte
    <3>2. QED
      BY <3>1
  <2>2. c.kind # "fill" => op.at + Len(c.bytes) <= Len(others)
    BY <1>2, <1>4, <1>8, <1>9, <2>1
  <2>3. ASSUME c.kind # "fill", NEW j \in 1 .. Len(c.bytes)
        PROVE  others[op.at + j] = c.bytes[j]
    <3>1. at + j \in 1 .. Len(coverage)
      BY <1>4, <2>1, <2>3
    <3>2. others[at + j] = coverage[at + j]
      BY <1>8, <3>1 DEF Agree
    <3>3. QED
      BY <1>2, <2>3, <3>2
  <2>4. QED
    BY <1>2, <2>2, <2>3 DEF Logs
<1>12. IsSurface(h)
  <2>1. h.ops = more /\ h.coverage = coverage /\ h.pixels = g.pixels /\ h.reads = g.reads
    BY <1>3
  <2>2. ASSUME NEW k \in 1 .. m + 1
        PROVE  IsOp(more[k]) /\ Reach(more[k]) <= Len(coverage)
    <3>1. CASE k \in 1 .. m
      <4>1. more[k] = ops[k] /\ IsOp(ops[k]) /\ Reach(ops[k]) <= n
        BY <1>5, <3>1 DEF IsSurface
      <4>2. Reach(ops[k]) \in Nat
        BY <4>1, ReachCounts
      <4>3. QED
        BY <1>4, <4>1, <4>2
    <3>2. CASE k = m + 1
      BY <1>5, <1>6, <1>7, <3>2
    <3>3. QED
      BY <1>4, <3>1, <3>2, SMTT(30)
  <2>3. QED
    BY <1>3, <1>5, <2>1, <2>2 DEF IsSurface
<1>13. Picture(h) = Drew(Picture(g), c)
  <2> DEFINE pixels == g.pixels
             f == Replayed(pixels, more, others)
             before == Replayed(pixels, ops, words)[m]
  <2>1. Picture(h) = f[m + 1]
    BY <1>3, <1>5 DEF Picture
  <2>2. Picture(g) = before
    BY DEF Picture
  <2>3. SameLog(ops, more, m, n)
    BY <1>5 DEF IsSurface, SameLog
  <2> HIDE DEF pixels, ops, more, words, others, m, n
  <2>4. Len(more) = m + 1 /\ m + 1 \in Nat /\ m <= m + 1 /\ Len(ops) = m
    BY <1>4, <1>5 DEF m
  <2>5. f[m] = before
    <3> DEFINE l == m + 1
    <3>1. Longer(ops, more, m, l) /\ n \in Nat
      BY <1>4, <2>4 DEF Longer
    <3>2. SameBytes(words, others, n)
      BY <1>8, <1>10 DEF SameBytes
    <3> HIDE DEF l
    <3>3. Replayed(pixels, more, others)[m] = Replayed(pixels, ops, words)[m]
      BY <2>3, <3>1, <3>2, ReplaySame
    <3>4. QED
      BY <3>3
  <2>6. f[m + 1] = Dispatch(f[m], op, others)
    <3> DEFINE l == m + 1
    <3>1. l \in Nat /\ Len(more) = l /\ l \in 1 .. l /\ l - 1 = m /\ more[l] = op
      BY <1>4, <1>5, <2>4
    <3> HIDE DEF l
    <3>2. Replays(f, pixels, more, others, l)
      BY <3>1, ReplayedReplays
    <3> HIDE DEF f
    <3>3. f[l] = Dispatch(f[m], op, others)
      BY <3>1, <3>2 DEF Replays
    <3>4. QED
      BY <3>3 DEF l
  <2> HIDE DEF f, before
  <2>7. Dispatch(before, op, others) = Drew(before, c)
    BY <1>1, <1>6, <1>8, <1>11, DispatchDraws
  <2>8. QED
    BY <2>1, <2>2, <2>5, <2>6, <2>7
<1>14. QED
  BY <1>12, <1>13 DEF h

\* Nothing of an empty size is drawn, by either.
LEMMA NothingDrawn ==
  ASSUME NEW c, IsCall(c), c.w = 0 \/ c.h = 0, NEW f, IsPicture(f)
  PROVE  Drew(f, c) = f
<1>1. ASSUME NEW i \in Pixels
      PROVE  ~(Hit(c, i) >= 0)
  <2> DEFINE x == i % SurfaceW
             y == i \div SurfaceW
  <2>1. ~(x - c.x \in 0 .. c.w - 1 /\ y - c.y \in 0 .. c.h - 1)
    BY DEF IsCall
  <2>2. Hit(c, i) = -1
    BY <2>1 DEF Hit, CellOf
  <2>3. QED
    BY <2>2
<1>2. f = [i \in Pixels |-> f[i]]
  BY DEF IsPicture
<1>3. CASE c.kind = "fill"
  BY <1>1, <1>2, <1>3 DEF Drew, DrawFill
<1>4. CASE c.kind = "blend"
  BY <1>1, <1>2, <1>4 DEF Drew, DrawMask
<1>5. CASE c.kind = "image"
  BY <1>1, <1>2, <1>5 DEF Drew, DrawImage
<1>6. QED
  BY <1>3, <1>4, <1>5 DEF IsCall

LEMMA DrewPicture ==
  ASSUME NEW c, IsCall(c), NEW f
  PROVE  IsPicture(Drew(f, c))
<1>1. CASE c.kind = "fill"
  BY <1>1 DEF Drew, DrawFill, IsPicture
<1>2. CASE c.kind = "blend"
  BY <1>2 DEF Drew, DrawMask, IsPicture
<1>3. CASE c.kind = "image"
  BY <1>3 DEF Drew, DrawImage, IsPicture
<1>4. QED
  BY <1>1, <1>2, <1>3 DEF IsCall

\* A call that is recorded is drawn by whoever reads the surface next.
LEMMA RecordDraws ==
  ASSUME NEW g, IsSurface(g), NEW c \in PaintCalls, IsPicture(Picture(g))
  PROVE  /\ IsSurface(Record(g, c)) /\ Picture(Record(g, c)) = Drew(Picture(g), c)
         /\ Record(g, c).reads = g.reads
<1> DEFINE cov == g.coverage
           bytes == c.bytes
           n == Len(cov)
<1>1. IsCall(c)
  BY SurfaceAssumption
<1>2. cov \in Seq(Byte) /\ bytes \in Seq(Byte) /\ n \in Nat /\ Len(bytes) \in Nat
  <2>1. cov \in Seq(Byte) /\ bytes \in Seq(Byte)
    BY <1>1 DEF IsSurface, IsCall, Byte
  <2>2. QED
    BY <2>1
<1>3. ASSUME NEW coverage, NEW at PROVE Logged(g, c, coverage, at).reads = g.reads
  BY DEF Logged, IsSurface
<1>4. CASE c.w = 0 \/ c.h = 0
  BY <1>1, <1>4, NothingDrawn DEF Record
<1>5. CASE ~(c.w = 0 \/ c.h = 0) /\ c.kind = "fill"
  <2>1. Record(g, c) = Logged(g, c, cov, 0)
    BY <1>5 DEF Record, RecordFill
  <2>2. n <= n /\ Agree(cov, cov, n)
    BY <1>2 DEF Agree
  <2>3. IsSurface(Logged(g, c, cov, 0)) /\ Picture(Logged(g, c, cov, 0)) = Drew(Picture(g), c)
    BY <1>2, <1>5, <2>2, LoggedDraws
  <2>4. QED
    BY <1>3, <2>1, <2>3
<1>6. CASE ~(c.w = 0 \/ c.h = 0) /\ c.kind = "blend"
  <2> DEFINE all == cov \o bytes
  <2>1. Record(g, c) = Logged(g, c, all, n)
    BY <1>6 DEF Record, RecordMask
  <2>2. /\ all \in Seq(Byte) /\ Len(all) = n + Len(bytes)
        /\ \A i \in 1 .. n : all[i] = cov[i]
        /\ \A j \in 1 .. Len(bytes) : all[n + j] = bytes[j]
    <3>1. all \in Seq(Byte) /\ Len(all) = n + Len(bytes)
          /\ \A i \in 1 .. n + Len(bytes) : all[i] = IF i <= n THEN cov[i] ELSE bytes[i - n]
      BY <1>2, ConcatProperties
    <3> HIDE DEF all, cov, bytes, n
    <3>2. ASSUME NEW i \in 1 .. n PROVE all[i] = cov[i]
      BY <1>2, <3>1
    <3>3. ASSUME NEW j \in 1 .. Len(bytes) PROVE all[n + j] = bytes[j]
      <4>1. n + j \in 1 .. n + Len(bytes) /\ ~(n + j <= n) /\ (n + j) - n = j
        BY <1>2
      <4>2. QED
        BY <3>1, <4>1
    <3>4. QED
      BY <3>1, <3>2, <3>3
  <2> HIDE DEF all
  <2>3. n <= Len(all) /\ Agree(cov, all, n) /\ n + Len(bytes) <= Len(all)
    <3>1. \A i \in 1 .. n : cov[i] = all[i]
      BY <2>2
    <3>2. n <= Len(all) /\ n + Len(bytes) <= Len(all)
      <4> HIDE DEF n, bytes
      <4>1. QED
        BY <1>2, <2>2
    <3>3. QED
      BY <3>1, <3>2 DEF Agree
  <2>4. IsSurface(Logged(g, c, all, n)) /\ Picture(Logged(g, c, all, n)) = Drew(Picture(g), c)
    BY <1>2, <1>6, <2>2, <2>3, LoggedDraws
  <2>5. QED
    BY <1>3, <2>1, <2>4
<1>7. CASE ~(c.w = 0 \/ c.h = 0) /\ c.kind = "image"
  <2> DEFINE pad == Padded(cov)
             m == Len(pad)
             all == pad \o bytes
  <2>1. Record(g, c) = Logged(g, c, all, m)
    BY <1>7 DEF Record, RecordImage
  <2>2. pad \in Seq(Byte) /\ m % 4 = 0 /\ m \in Nat /\ n <= m /\ \A i \in 1 .. n : pad[i] = cov[i]
    BY <1>2, Padding
  <2> HIDE DEF pad
  <2>3. /\ all \in Seq(Byte) /\ Len(all) = m + Len(bytes)
        /\ \A i \in 1 .. m : all[i] = pad[i]
        /\ \A j \in 1 .. Len(bytes) : all[m + j] = bytes[j]
    <3>1. all \in Seq(Byte) /\ Len(all) = m + Len(bytes)
          /\ \A i \in 1 .. m + Len(bytes) : all[i] = IF i <= m THEN pad[i] ELSE bytes[i - m]
      BY <1>2, <2>2, ConcatProperties
    <3> HIDE DEF all, cov, bytes, m
    <3>2. ASSUME NEW i \in 1 .. m PROVE all[i] = pad[i]
      BY <1>2, <2>2, <3>1
    <3>3. ASSUME NEW j \in 1 .. Len(bytes) PROVE all[m + j] = bytes[j]
      <4>1. m + j \in 1 .. m + Len(bytes) /\ ~(m + j <= m) /\ (m + j) - m = j
        BY <1>2, <2>2
      <4>2. QED
        BY <3>1, <4>1
    <3>4. QED
      BY <3>1, <3>2, <3>3
  <2> HIDE DEF all, m, n
  <2>4. n <= Len(all) /\ Agree(cov, all, n) /\ m + Len(bytes) <= Len(all)
    <3>1. \A i \in 1 .. n : i \in 1 .. m
      BY <1>2, <2>2
    <3>2. \A i \in 1 .. n : cov[i] = all[i]
      BY <2>2, <2>3, <3>1
    <3>3. n <= Len(all) /\ m + Len(bytes) <= Len(all)
      BY <1>2, <2>2, <2>3
    <3>4. QED
      BY <3>2, <3>3 DEF Agree
  <2>5. IsSurface(Logged(g, c, all, m)) /\ Picture(Logged(g, c, all, m)) = Drew(Picture(g), c)
    BY <1>2, <1>7, <2>2, <2>3, <2>4, LoggedDraws DEF n
  <2>6. QED
    BY <1>3, <2>1, <2>5
<1>8. QED
  BY <1>1, <1>4, <1>5, <1>6, <1>7 DEF IsCall

Topmost(s) == CHOOSE k \in s : \A j \in s : j <= k

\* The last of the numbers a step writes at is the one that is read.
Writes(X, V, hits, m) ==
  hits \subseteq 1 .. m /\ \A n \in 1 .. m : X[n] = IF n \in hits THEN V[n] ELSE X[n - 1]

LEMMA LastWins ==
  ASSUME NEW m \in Nat, NEW X, NEW V, NEW hits, Writes(X, V, hits, m)
  PROVE  (hits = {} => X[m] = X[0]) /\ (hits # {} => X[m] = V[Topmost(hits)])
<1> DEFINE start == X[0]
<1>0. hits \subseteq 1 .. m /\ \A n \in 1 .. m : X[n] = IF n \in hits THEN V[n] ELSE X[n - 1]
  BY DEF Writes
<1> DEFINE Newest1(n) == \E k \in hits : k <= n /\ (\A j \in hits : j <= n => j <= k) /\ X[n] = V[k]
           None(n) == (\A j \in hits : ~(j <= n)) /\ X[n] = start
           Reached == {n \in 0 .. m : None(n) \/ Newest1(n)}
<1>1. 0 \in Reached
  BY <1>0
<1>2. ASSUME NEW n \in 1 .. m, n - 1 \in Reached
      PROVE  n \in Reached
  <2>1. n \in Nat /\ n - 1 \in Nat /\ n \in 0 .. m /\ hits \subseteq Nat
    BY <1>0
  <2>2. CASE n \in hits
    <3>1. X[n] = V[n] /\ n <= n /\ \A j \in hits : j <= n => j <= n
      BY <1>0, <2>1, <2>2
    <3>2. Newest1(n)
      BY <2>2, <3>1
    <3>3. QED
      BY <2>1, <3>2
  <2>3. CASE n \notin hits
    <3>1. X[n] = X[n - 1]
      BY <1>0, <2>3
    <3>2. \A j \in hits : j <= n <=> j <= n - 1
      BY <2>1, <2>3
    <3>3. CASE None(n - 1)
      BY <2>1, <3>1, <3>2, <3>3
    <3>4. CASE Newest1(n - 1)
      <4>1. PICK k \in hits : k <= n - 1 /\ (\A j \in hits : j <= n - 1 => j <= k) /\ X[n - 1] = V[k]
        BY <3>4
      <4>2. k <= n /\ (\A j \in hits : j <= n => j <= k) /\ X[n] = V[k]
        BY <2>1, <3>1, <3>2, <4>1
      <4>3. Newest1(n)
        BY <4>2
      <4>4. QED
        BY <2>1, <4>3
    <3>5. QED
      BY <1>2, <3>3, <3>4
  <2>4. QED
    BY <2>2, <2>3
<1>3. m \in Reached
  <2>1. m \in 0 .. m
    OBVIOUS
  <2> HIDE DEF Reached
  <2>2. \A n \in 0 .. m : n \in Reached
    BY <1>1, <1>2, Climbs
  <2>3. QED
    BY <2>1, <2>2
<1>4. CASE None(m)
  <2>1. ASSUME NEW j \in hits PROVE j <= m
    <3>1. j \in 1 .. m
      BY <1>0
    <3>2. QED
      BY <3>1
  <2>2. hits = {}
    BY <1>4, <2>1
  <2>3. QED
    BY <1>4, <2>2
<1>5. CASE Newest1(m)
  <2>1. PICK k \in hits : (\A j \in hits : j <= m => j <= k) /\ X[m] = V[k]
    BY <1>5
  <2>2. \A j \in hits : j <= k /\ j \in Nat
    BY <1>0, <2>1
  <2> DEFINE top == Topmost(hits)
  <2>3. top \in hits /\ \A j \in hits : j <= top
    BY <2>2 DEF Topmost
  <2> HIDE DEF top
  <2>4. top = k
    <3>1. top <= k /\ k <= top /\ k \in Nat /\ top \in Nat
      BY <2>2, <2>3
    <3>2. QED
      BY <3>1
  <2>5. hits # {}
    BY <2>1
  <2>6. X[m] = V[top]
    BY <2>1, <2>4
  <2>7. QED
    BY <2>5, <2>6 DEF top
<1>6. QED
  BY <1>3, <1>4, <1>5

Under(images, m, p) == {k \in 1 .. m : PaneCell(images[k].origin, p) >= 0}
Ruled(rules, m, p) == {k \in 1 .. m : CellOf(rules[k], p[1], p[2]) >= 0}
\* A pixel of a window shows the last pane that covers it, and the last rule.
LEMMA PanesLaid ==
  ASSUME NEW w, NEW target, NEW images, NEW m \in Nat, Len(images) = m, NEW p \in Shown(w)
  PROVE  PanesOver(w, target, images)[m][p]
           = IF Under(images, m, p) = {} THEN target[p]
             ELSE images[Topmost(Under(images, m, p))].pixels[PaneCell(images[Topmost(Under(images, m, p))].origin, p)]
<1> DEFINE hits == Under(images, m, p)
<1>0. hits = {k \in 1 .. m : PaneCell(images[k].origin, p) >= 0}
  BY DEF Under
<1> HIDE DEF hits
<1> DEFINE f == PanesOver(w, target, images)
           X == [n \in 0 .. m |-> f[n][p]]
           V == [k \in 1 .. m |-> images[k].pixels[PaneCell(images[k].origin, p)]]
           start == target[p]
<1>1. f[0] = target /\ \A n \in 1 .. m : f[n] = BlitPane(w, f[n - 1], images[n])
  <2>1. /\ PanesOver(w, target, images)[0] = target
        /\ \A n \in 1 .. m : PanesOver(w, target, images)[n]
                               = BlitPane(w, PanesOver(w, target, images)[n - 1], images[n])
    BY PanesSteps
  <2>2. QED
    BY <2>1
<1> HIDE DEF f
<1>2. X[0] = start
  BY <1>1
<1>3. ASSUME NEW n \in 1 .. m
      PROVE  X[n] = IF n \in hits THEN V[n] ELSE X[n - 1]
  <2> DEFINE image == images[n]
             before == f[n - 1]
  <2>1. f[n] = BlitPane(w, before, image)
    BY <1>1
  <2>2. X[n] = f[n][p] /\ X[n - 1] = before[p] /\ V[n] = image.pixels[PaneCell(image.origin, p)]
    OBVIOUS
  <2>3. n \in hits <=> PaneCell(image.origin, p) >= 0
    BY <1>0
  <2> HIDE DEF image, before, X, V
  <2>4. BlitPane(w, before, image)[p]
          = IF PaneCell(image.origin, p) >= 0 THEN image.pixels[PaneCell(image.origin, p)] ELSE before[p]
    BY DEF BlitPane
  <2>5. QED
    BY <2>1, <2>2, <2>3, <2>4
<1>4. hits \subseteq 1 .. m
  BY <1>0
<1> DEFINE top == Topmost(hits)
<1>5. X[m] = f[m][p]
  OBVIOUS
<1>6. \A k \in hits : V[k] = images[k].pixels[PaneCell(images[k].origin, p)]
  BY <1>4
<1> HIDE DEF X, V, start
<1>7. X[m] = IF hits = {} THEN start ELSE V[top]
  <2>1. Writes(X, V, hits, m)
    BY <1>3, <1>4 DEF Writes
  <2>2. (hits = {} => X[m] = X[0]) /\ (hits # {} => X[m] = V[Topmost(hits)])
    BY <2>1, LastWins
  <2>3. QED
    BY <1>2, <2>2
<1>8. hits # {} => top \in hits
  <2>1. ASSUME hits # {} PROVE \E k \in hits : \A j \in hits : j <= k
    <3>1. hits \subseteq 0 .. m
      BY <1>4
    <3>2. QED
      BY <2>1, <3>1, HasGreatest
  <2>2. QED
    BY <2>1 DEF Topmost
<1>9. QED
  BY <1>5, <1>6, <1>7, <1>8 DEF f, start, hits

LEMMA RulesLaid ==
  ASSUME NEW w, NEW target, NEW rules, NEW m \in Nat, Len(rules) = m, NEW p \in Shown(w)
  PROVE  RulesOver(w, target, rules)[m][p]
           = IF Ruled(rules, m, p) = {} THEN target[p] ELSE rules[Topmost(Ruled(rules, m, p))].colour
<1> DEFINE hits == Ruled(rules, m, p)
<1>0. hits = {k \in 1 .. m : CellOf(rules[k], p[1], p[2]) >= 0}
  BY DEF Ruled
<1> HIDE DEF hits
<1> DEFINE f == RulesOver(w, target, rules)
           X == [n \in 0 .. m |-> f[n][p]]
           V == [k \in 1 .. m |-> rules[k].colour]
           start == target[p]
<1>1. f[0] = target /\ \A n \in 1 .. m : f[n] = BlitRule(w, f[n - 1], rules[n])
  <2>1. /\ RulesOver(w, target, rules)[0] = target
        /\ \A n \in 1 .. m : RulesOver(w, target, rules)[n] = BlitRule(w, RulesOver(w, target, rules)[n - 1], rules[n])
    BY RulesSteps
  <2>2. QED
    BY <2>1
<1> HIDE DEF f
<1>2. X[0] = start
  BY <1>1
<1>3. ASSUME NEW n \in 1 .. m
      PROVE  X[n] = IF n \in hits THEN V[n] ELSE X[n - 1]
  <2> DEFINE rule == rules[n]
             before == f[n - 1]
  <2>1. f[n] = BlitRule(w, before, rule)
    BY <1>1
  <2>2. X[n] = f[n][p] /\ X[n - 1] = before[p] /\ V[n] = rule.colour
    OBVIOUS
  <2>3. n \in hits <=> CellOf(rule, p[1], p[2]) >= 0
    BY <1>0
  <2> HIDE DEF rule, before, X, V
  <2>4. BlitRule(w, before, rule)[p] = IF CellOf(rule, p[1], p[2]) >= 0 THEN rule.colour ELSE before[p]
    BY DEF BlitRule
  <2>5. QED
    BY <2>1, <2>2, <2>3, <2>4
<1>4. hits \subseteq 1 .. m
  BY <1>0
<1> DEFINE top == Topmost(hits)
<1>5. X[m] = f[m][p]
  OBVIOUS
<1>6. \A k \in hits : V[k] = rules[k].colour
  BY <1>4, SMTT(30)
<1> HIDE DEF X, V, start
<1>7. X[m] = IF hits = {} THEN start ELSE V[top]
  <2>1. Writes(X, V, hits, m)
    BY <1>3, <1>4 DEF Writes
  <2>2. (hits = {} => X[m] = X[0]) /\ (hits # {} => X[m] = V[Topmost(hits)])
    BY <2>1, LastWins
  <2>3. QED
    BY <1>2, <2>2
<1>8. hits # {} => top \in hits
  <2>1. ASSUME hits # {} PROVE \E k \in hits : \A j \in hits : j <= k
    <3>1. hits \subseteq 0 .. m
      BY <1>4
    <3>2. QED
      BY <2>1, <3>1, HasGreatest
  <2>2. QED
    BY <2>1 DEF Topmost
<1>9. QED
  BY <1>5, <1>6, <1>7, <1>8 DEF f, start, hits

\* A frame blitted whole is one that shows every pane.
LEMMA BlitShows ==
  ASSUME NEW w, NEW v, NEW images, NEW what, NEW pictures, NEW m \in Nat, NEW n \in Nat,
         v.size = w.size, v.shown = BlitAll(w, images, what.rules, what.clear),
         Len(images) = m, DOMAIN what.origins = 1 .. m, Len(what.rules) = n, DOMAIN what.rules = 1 .. n,
         \A k \in 1 .. m : images[k].origin = what.origins[k] /\ images[k].pixels = pictures[k]
  PROVE  ShowsAll(v, pictures, what)
<1> SUFFICES ASSUME NEW p \in Shown(v)
             PROVE  LET Cell(k) == CellOf([x |-> what.origins[k][1], y |-> what.origins[k][2], w |-> SurfaceW, h |-> SurfaceH], p[1], p[2])
                        rules == {k \in DOMAIN what.rules : CellOf(what.rules[k], p[1], p[2]) >= 0}
                        under == {k \in DOMAIN what.origins : Cell(k) >= 0}
                        Top(s) == CHOOSE k \in s : \A j \in s : j <= k
                    IN v.shown[p] = IF rules # {} THEN what.rules[Top(rules)].colour
                                    ELSE IF under # {} THEN pictures[Top(under)][Cell(Top(under))]
                                    ELSE what.clear
  BY DEF ShowsAll
<1> DEFINE rules == {k \in 1 .. n : CellOf(what.rules[k], p[1], p[2]) >= 0}
           under == {k \in 1 .. m : PaneCell(what.origins[k], p) >= 0}
           clear == what.clear
           marks == what.rules
           blank == Cleared(w, clear)
           panes == PanesOver(w, blank, images)
           shown == v.shown
<1>1. p \in Shown(w)
  BY DEF Shown
<1>2. under = Under(images, m, p)
  BY DEF Under
<1>3. blank[p] = clear
  BY <1>1 DEF Cleared
<1>4. shown = RulesOver(w, panes[m], marks)[n]
  BY DEF BlitAll
<1>5. rules = Ruled(marks, n, p) /\ Len(marks) = n
  BY DEF Ruled
<1>6. under # {} => Topmost(under) \in 1 .. m
  <2>1. ASSUME under # {} PROVE \E k \in under : \A j \in under : j <= k
    <3>1. under \subseteq 0 .. m
      OBVIOUS
    <3> HIDE DEF under
    <3>2. QED
      BY <2>1, <3>1, HasGreatest
  <2>2. QED
    BY <2>1 DEF Topmost
<1> HIDE DEF rules, under, clear, marks, blank, shown
<1>7. panes[m][p] = IF under = {} THEN blank[p]
                    ELSE images[Topmost(under)].pixels[PaneCell(images[Topmost(under)].origin, p)]
  BY <1>1, <1>2, PanesLaid
<1> HIDE DEF panes
<1>8. shown[p] = IF rules = {} THEN panes[m][p] ELSE marks[Topmost(rules)].colour
  <2> DEFINE target == panes[m]
  <2>1. shown = RulesOver(w, target, marks)[n]
    BY <1>4
  <2> HIDE DEF target
  <2>2. RulesOver(w, target, marks)[n][p] = IF rules = {} THEN target[p] ELSE marks[Topmost(rules)].colour
    BY <1>1, <1>5, RulesLaid
  <2>3. QED
    BY <2>1, <2>2 DEF target
<1>9. under # {} => panes[m][p] = pictures[Topmost(under)][PaneCell(what.origins[Topmost(under)], p)]
  <2> DEFINE top == Topmost(under)
  <2>1. SUFFICES ASSUME under # {}
                 PROVE  panes[m][p] = pictures[top][PaneCell(what.origins[top], p)]
    OBVIOUS
  <2>2. top \in 1 .. m
    BY <1>6, <2>1
  <2> HIDE DEF top
  <2>3. images[top].origin = what.origins[top] /\ images[top].pixels = pictures[top]
    BY <2>2
  <2>4. QED
    BY <1>7, <2>1, <2>3 DEF top
<1>10. shown[p] = IF rules # {} THEN marks[Topmost(rules)].colour
                  ELSE IF under # {} THEN pictures[Topmost(under)][PaneCell(what.origins[Topmost(under)], p)]
                  ELSE clear
  BY <1>3, <1>7, <1>8, <1>9
<1>11. QED
  BY <1>10, ZenonT(60) DEF rules, under, marks, clear, shown, Topmost, PaneCell

\* Each pane's log, its bytes and the pixels kept stand for what the canvas has.
BothDraw ==
  /\ gpu = [p \in SurfacePanes |-> gpu[p]] /\ cpu = [p \in SurfacePanes |-> cpu[p]]
  /\ \A p \in SurfacePanes : IsSurface(gpu[p]) /\ IsPicture(cpu[p]) /\ Picture(gpu[p]) = cpu[p]

\* A window has its fields, and a view without a curve that the swapchain allows.
IsWindow(w) ==
  /\ w = [config |-> w.config, view |-> w.view, size |-> w.size, origin |-> w.origin,
          views |-> w.views, shown |-> w.shown]
  /\ ~w.view[2] /\ w.view \in w.views /\ w.size \in (Nat \ {0}) \X (Nat \ {0})

SurfaceInv ==
  /\ BothDraw /\ (window # NoWindow => IsWindow(window))
  /\ did.call = "present" /\ window # NoWindow => ShowsAll(window, cpu, did)
  /\ ReadsTrue /\ LogRetired

-----------------------------------------------------------------------------
(* Reading and flushing.                                                   *)

LEMMA FlushKeeps ==
  ASSUME NEW g, IsSurface(g)
  PROVE  /\ IsSurface(Flush(g)) /\ Flush(g).pixels = Picture(g) /\ Picture(Flush(g)) = Picture(g)
         /\ Flush(g).ops = <<>> /\ Flush(g).coverage = <<>> /\ Flush(g).reads = g.reads
<1> DEFINE pixels == g.pixels
           ops == g.ops
           cov == g.coverage
           reads == g.reads
           h == Flush(g)
           seen == Picture(g)
<1>1. g = [pixels |-> pixels, ops |-> ops, coverage |-> cov, reads |-> reads]
  BY DEF IsSurface
<1>2. FlushKeepingLog(g) = [g EXCEPT !.pixels = seen]
  BY <1>1 DEF FlushKeepingLog, Picture
<1>3. h = [FlushKeepingLog(g) EXCEPT !.ops = <<>>, !.coverage = <<>>]
  BY DEF Flush
<1> HIDE DEF pixels, ops, cov, reads, h, seen
<1>4. h = [pixels |-> seen, ops |-> <<>>, coverage |-> <<>>, reads |-> reads]
  BY <1>1, <1>2, <1>3
<1>5. h.pixels = seen /\ h.ops = <<>> /\ h.coverage = <<>> /\ h.reads = reads
  BY <1>4
<1>6. IsSurface(h)
  BY <1>4, <1>5 DEF IsSurface
<1>7. Picture(h) = seen
  <2> DEFINE words == WordsOf(<<>>)
             none == <<>>
  <2>1. Picture(h) = Replayed(seen, none, words)[0]
    BY <1>5 DEF Picture
  <2>2. Len(none) = 0 /\ 0 \in Nat
    OBVIOUS
  <2> HIDE DEF none, words
  <2>3. Replayed(seen, none, words)[0] = seen
    BY <2>2, ReplaySteps
  <2>4. QED
    BY <2>1, <2>3
<1>8. QED
  BY <1>5, <1>6, <1>7 DEF h, seen, reads

LEMMA ExecuteKeeps ==
  ASSUME NEW g, IsSurface(g)
  PROVE  /\ IsSurface(Execute(g)) /\ Execute(g).pixels = Picture(g) /\ Picture(Execute(g)) = Picture(g)
         /\ Execute(g).ops = <<>> /\ Execute(g).coverage = <<>>
<1> DEFINE h == Flush(g)
           e == Execute(g)
<1>1. /\ IsSurface(h) /\ h.pixels = Picture(g) /\ Picture(h) = Picture(g) /\ h.ops = <<>> /\ h.coverage = <<>>
  BY FlushKeeps
<1>2. e = [h EXCEPT !.reads = @ + 1]
  BY DEF Execute
<1> HIDE DEF h, e
<1>3. h = [pixels |-> h.pixels, ops |-> h.ops, coverage |-> h.coverage, reads |-> h.reads]
  BY <1>1 DEF IsSurface
<1>4. e.pixels = h.pixels /\ e.ops = h.ops /\ e.coverage = h.coverage
      /\ e = [pixels |-> e.pixels, ops |-> e.ops, coverage |-> e.coverage, reads |-> e.reads]
  <2> DEFINE pixels == h.pixels
             ops == h.ops
             cov == h.coverage
             reads == h.reads
  <2>1. h = [pixels |-> pixels, ops |-> ops, coverage |-> cov, reads |-> reads]
    BY <1>3
  <2> HIDE DEF pixels, ops, cov, reads
  <2>2. e = [pixels |-> pixels, ops |-> ops, coverage |-> cov, reads |-> reads + 1]
    BY <1>2, <2>1
  <2>3. QED
    BY <2>2 DEF pixels, ops, cov
<1>5. IsSurface(e)
  BY <1>1, <1>4 DEF IsSurface
<1>6. Picture(e) = Picture(h)
  BY <1>4 DEF Picture
<1>7. QED
  BY <1>1, <1>4, <1>5, <1>6 DEF e

LEMMA SurfaceStarts == SurfaceInit => SurfaceInv
<1> SUFFICES ASSUME SurfaceInit PROVE SurfaceInv
  OBVIOUS
<1> DEFINE blank == [i \in Pixels |-> Clear]
           g == FreshSurface
<1>1. g = [pixels |-> blank, ops |-> <<>>, coverage |-> <<>>, reads |-> 0]
  BY DEF FreshSurface
<1> HIDE DEF g, blank
<1>2. g.pixels = blank /\ g.ops = <<>> /\ g.coverage = <<>> /\ g.reads = 0
  BY <1>1
<1>3. IsSurface(g)
  BY <1>1, <1>2 DEF IsSurface
<1>4. Picture(g) = blank
  <2> DEFINE words == WordsOf(<<>>)
             none == <<>>
  <2>1. Picture(g) = Replayed(blank, none, words)[0]
    BY <1>2 DEF Picture
  <2>2. Len(none) = 0 /\ 0 \in Nat
    OBVIOUS
  <2> HIDE DEF none, words
  <2>3. Replayed(blank, none, words)[0] = blank
    BY <2>2, ReplaySteps
  <2>4. QED
    BY <2>1, <2>3
<1>5. IsPicture(blank)
  BY DEF IsPicture, blank
<1>6. gpu = [p \in SurfacePanes |-> g] /\ cpu = [p \in SurfacePanes |-> blank] /\ window = NoWindow
      /\ did.call = "none"
  BY <1>2 DEF SurfaceInit, g
<1>7. BothDraw
  BY <1>3, <1>4, <1>5, <1>6 DEF BothDraw
<1>8. QED
  BY <1>6, <1>7 DEF SurfaceInv, ReadsTrue, LogRetired

-----------------------------------------------------------------------------
(* The calls.                                                              *)

LEMMA DrawKeeps ==
  ASSUME SurfaceInv, DrawOnBoth
  PROVE  SurfaceInv' /\ gpu'[1].reads = gpu[1].reads /\ did'.call = "draw"
<1>1. PICK c \in PaintCalls : /\ gpu' = [gpu EXCEPT ![c.pane] = Record(@, c)]
                              /\ cpu' = [cpu EXCEPT ![c.pane] = Drew(@, c)]
                              /\ did' = [call |-> "draw"]
  BY DEF DrawOnBoth
<1> DEFINE q == c.pane
           g == gpu[q]
<1>2. IsCall(c) /\ q \in SurfacePanes
  BY SurfaceAssumption DEF IsCall
<1>3. BothDraw
  BY DEF SurfaceInv
<1>4. IsSurface(g) /\ IsPicture(cpu[q]) /\ Picture(g) = cpu[q]
  BY <1>2, <1>3 DEF BothDraw
<1> HIDE DEF g
<1>5. IsSurface(Record(g, c)) /\ Picture(Record(g, c)) = Drew(Picture(g), c) /\ Record(g, c).reads = g.reads
  BY <1>4, RecordDraws
<1>6. IsPicture(Drew(cpu[q], c))
  BY <1>2, DrewPicture
<1>7. /\ gpu' = [p \in SurfacePanes |-> IF p = q THEN Record(g, c) ELSE gpu[p]]
      /\ cpu' = [p \in SurfacePanes |-> IF p = q THEN Drew(cpu[q], c) ELSE cpu[p]]
  BY <1>1, <1>2, <1>3 DEF BothDraw, g
<1> HIDE DEF q
<1>8. BothDraw'
  BY <1>3, <1>4, <1>5, <1>6, <1>7 DEF BothDraw
<1>9. gpu'[1].reads = gpu[1].reads
  BY <1>5, <1>7 DEF SurfacePanes, g
<1>10. window' = window /\ did'.call = "draw"
  BY <1>1 DEF DrawOnBoth
<1>11. QED
  BY <1>8, <1>9, <1>10 DEF SurfaceInv, ReadsTrue, LogRetired, IsWindow

LEMMA ReadKeeps ==
  ASSUME SurfaceInv, ReadPixels
  PROVE  SurfaceInv' /\ did'.call \in {"read", "poll"}
<1> DEFINE g == gpu[1]
           e == Execute(g)
<1>1. BothDraw /\ 1 \in SurfacePanes
  BY DEF SurfaceInv, SurfacePanes
<1>2. IsSurface(g) /\ Picture(g) = cpu[1]
  BY <1>1 DEF BothDraw
<1>3. /\ did'.call \in {"read", "poll"} /\ did'.pixels = e.pixels
      /\ gpu' = [gpu EXCEPT ![1] = Execute(@)] /\ UNCHANGED <<cpu, window>>
  BY DEF ReadPixels, Called
<1>4. gpu' = [p \in SurfacePanes |-> IF p = 1 THEN e ELSE gpu[p]]
  BY <1>1, <1>3 DEF BothDraw
<1> HIDE DEF g
<1>5. IsSurface(e) /\ e.pixels = cpu[1] /\ Picture(e) = cpu[1] /\ e.ops = <<>> /\ e.coverage = <<>>
  BY <1>2, ExecuteKeeps
<1> HIDE DEF e
<1>6. BothDraw'
  BY <1>1, <1>3, <1>4, <1>5 DEF BothDraw
<1>7. gpu'[1] = e
  BY <1>1, <1>4
<1>8. ReadsTrue' /\ LogRetired'
  BY <1>3, <1>5, <1>7 DEF ReadsTrue, LogRetired
<1>9. QED
  BY <1>3, <1>6, <1>8 DEF SurfaceInv, IsWindow

LEMMA ConfiguredWindow ==
  ASSUME NEW w, IsWindow(w), NEW size \in (Nat \ {0}) \X (Nat \ {0})
  PROVE  IsWindow(Configured([w EXCEPT !.size = size]))
<1> DEFINE config == w.config
           view == w.view
           old == w.size
           origin == w.origin
           views == w.views
           shown == w.shown
           u == [w EXCEPT !.size = size]
           v == Configured(u)
<1>1. w = [config |-> config, view |-> view, size |-> old, origin |-> origin, views |-> views, shown |-> shown]
      /\ ~view[2]
  BY DEF IsWindow
<1> HIDE DEF config, view, old, origin, views, shown
<1>2. u = [config |-> config, view |-> view, size |-> size, origin |-> origin, views |-> views, shown |-> shown]
  BY <1>1
<1> HIDE DEF u
<1>3. u.config = config /\ u.view = view
  BY <1>2
<1>4. v = [u EXCEPT !.views = ViewFormats(u), !.shown = <<>>]
  BY DEF Configured
<1>5. view \in ViewFormats(u)
  BY <1>3 DEF ViewFormats
<1> DEFINE formats == ViewFormats(u)
<1> HIDE DEF v, formats
<1>6. v = [config |-> config, view |-> view, size |-> size, origin |-> origin, views |-> formats, shown |-> <<>>]
  BY <1>2, <1>4 DEF formats
<1>7. IsWindow(v)
  BY <1>1, <1>5, <1>6 DEF IsWindow, formats
<1>8. QED
  BY <1>7 DEF v, u

LEMMA SizeAtLeast1 ==
  ASSUME NEW size \in WindowSizes
  PROVE  <<AtLeast1(size[1]), AtLeast1(size[2])>> \in (Nat \ {0}) \X (Nat \ {0})
<1>1. size[1] \in Nat /\ size[2] \in Nat
  BY SurfaceAssumption
<1>2. QED
  BY <1>1 DEF AtLeast1

LEMMA BuiltWindow ==
  ASSUME NEW supported, NEW offered, NEW size \in WindowSizes,
         NEW w, w = FromSurface(supported, offered, size), w # NoWindow
  PROVE  IsWindow(w)
<1> DEFINE linear == Linear(offered[1])
           config == IF linear \in ToSet(offered) THEN linear ELSE offered[1]
           area == <<AtLeast1(size[1]), AtLeast1(size[2])>>
           origin == << 0, 0 >>
           u == [config |-> config, view |-> linear, size |-> area, origin |-> origin, views |-> {}, shown |-> <<>>]
<1>1. w = Configured(u)
  BY DEF FromSurface
<1>2. area \in (Nat \ {0}) \X (Nat \ {0})
  BY SizeAtLeast1
<1>3. ~linear[2]
  BY DEF Linear
<1> HIDE DEF linear, config, area, origin
<1>4. u.config = config /\ u.view = linear
  OBVIOUS
<1> DEFINE formats == ViewFormats(u)
<1>5. linear \in formats
  BY <1>4 DEF ViewFormats
<1>6. Configured(u) = [u EXCEPT !.views = formats, !.shown = <<>>]
  BY DEF Configured
<1> HIDE DEF formats
<1>7. w = [config |-> config, view |-> linear, size |-> area, origin |-> origin, views |-> formats, shown |-> <<>>]
  BY <1>1, <1>6
<1>8. QED
  BY <1>2, <1>3, <1>5, <1>7 DEF IsWindow

\* A call that draws nothing: the window is gone, or one again.
LEMMA WindowKeeps ==
  ASSUME SurfaceInv, UNCHANGED <<gpu, cpu>>, window' # NoWindow => IsWindow(window'),
         did'.call \notin {"present", "read", "poll"}
  PROVE  SurfaceInv'
<1>1. BothDraw'
  BY DEF SurfaceInv, BothDraw
<1>2. (window # NoWindow => IsWindow(window))'
  BY DEF IsWindow
<1>3. QED
  BY <1>1, <1>2 DEF SurfaceInv, ReadsTrue, LogRetired

LEMMA AttachKeeps ==
  ASSUME SurfaceInv, AttachWindow \/ DetachWindow \/ ResizeWindow \/ SetOrigin
  PROVE  SurfaceInv' /\ gpu' = gpu /\ did'.call \in {"attach", "detach", "resize", "origin"}
<1>1. CASE AttachWindow
  <2>1. PICK supported \in BOOLEAN, offered \in Offers, size \in WindowSizes :
          /\ window' = IF FromSurface(supported, offered, size) = NoWindow THEN window
                       ELSE FromSurface(supported, offered, size)
          /\ Called([call |-> "attach"])
    BY <1>1 DEF AttachWindow
  <2> DEFINE built == FromSurface(supported, offered, size)
  <2>2. window' = IF built = NoWindow THEN window ELSE built
    BY <2>1
  <2>3. built # NoWindow => IsWindow(built)
    BY BuiltWindow
  <2> HIDE DEF built
  <2>4. window' # NoWindow => IsWindow(window')
    BY <2>2, <2>3 DEF SurfaceInv
  <2>5. UNCHANGED <<gpu, cpu>> /\ did'.call = "attach"
    BY <1>1, <2>1 DEF AttachWindow, Called
  <2>6. QED
    BY <2>4, <2>5, WindowKeeps
<1>2. CASE DetachWindow
  <2>1. window' = NoWindow /\ UNCHANGED <<gpu, cpu>> /\ did'.call = "detach"
    BY <1>2 DEF DetachWindow, Called
  <2>2. QED
    BY <2>1, WindowKeeps
<1>3. CASE ResizeWindow
  <2>1. PICK asked \in WindowSizes : window' = Resized(window, <<AtLeast1(asked[1]), AtLeast1(asked[2])>>)
    BY <1>3 DEF ResizeWindow
  <2>2. IsWindow(window) /\ UNCHANGED <<gpu, cpu>> /\ did'.call = "resize"
    BY <1>3 DEF ResizeWindow, Called, SurfaceInv
  <2> DEFINE size == <<AtLeast1(asked[1]), AtLeast1(asked[2])>>
  <2>3. size \in (Nat \ {0}) \X (Nat \ {0})
    BY SizeAtLeast1
  <2>4. window' = IF size = window.size THEN window ELSE Configured([window EXCEPT !.size = size])
    BY <2>1 DEF Resized
  <2> HIDE DEF size
  <2>5. IsWindow(Configured([window EXCEPT !.size = size]))
    BY <2>2, <2>3, ConfiguredWindow
  <2>6. window' # NoWindow => IsWindow(window')
    BY <2>2, <2>4, <2>5
  <2>7. QED
    BY <2>2, <2>6, WindowKeeps
<1>4. CASE SetOrigin
  <2>1. PICK corner \in Corners : window' = [window EXCEPT !.origin = corner]
    BY <1>4 DEF SetOrigin
  <2>2. IsWindow(window) /\ UNCHANGED <<gpu, cpu>> /\ did'.call = "origin"
    BY <1>4 DEF SetOrigin, Called, SurfaceInv
  <2>3. IsWindow(window')
    <3> DEFINE w == window
               v == window'
               config == w.config
               view == w.view
               size == w.size
               origin == w.origin
               views == w.views
               shown == w.shown
    <3>1. /\ w = [config |-> config, view |-> view, size |-> size, origin |-> origin, views |-> views, shown |-> shown]
          /\ ~view[2] /\ view \in views /\ size \in (Nat \ {0}) \X (Nat \ {0})
      BY <2>2 DEF IsWindow
    <3>2. v = [w EXCEPT !.origin = corner]
      BY <2>1
    <3> HIDE DEF config, view, size, origin, views, shown, w, v
    <3>3. v = [config |-> config, view |-> view, size |-> size, origin |-> corner, views |-> views, shown |-> shown]
      BY <3>1, <3>2
    <3>4. IsWindow(v)
      BY <3>1, <3>3 DEF IsWindow
    <3>5. QED
      BY <3>4 DEF v
  <2>4. QED
    BY <2>2, <2>3, WindowKeeps
<1>5. QED
  BY <1>1, <1>2, <1>3, <1>4

\* The swapchain gave no frame: nothing is drawn, nothing is lost.
LEMMA NoFrame ==
  ASSUME SurfaceInv, window # NoWindow, UNCHANGED <<gpu, cpu>>,
         \/ window' = Configured(window) /\ did'.call = "lost"
         \/ window' = window /\ did'.call = "timeout"
  PROVE  SurfaceInv'
<1>1. IsWindow(window)
  BY DEF SurfaceInv
<1>2. CASE window' = Configured(window) /\ did'.call = "lost"
  <2> DEFINE size == window.size
             w == window
  <2>1. size \in (Nat \ {0}) \X (Nat \ {0}) /\ w = [w EXCEPT !.size = size]
    <3> DEFINE config == w.config
               view == w.view
               origin == w.origin
               views == w.views
               shown == w.shown
    <3>1. size \in (Nat \ {0}) \X (Nat \ {0})
      BY <1>1 DEF IsWindow
    <3>2. w = [config |-> config, view |-> view, size |-> size, origin |-> origin, views |-> views, shown |-> shown]
      BY <1>1 DEF IsWindow
    <3> HIDE DEF config, view, size, origin, views, shown, w
    <3>3. w = [w EXCEPT !.size = size]
      BY <3>2
    <3>4. QED
      BY <3>1, <3>3
  <2> HIDE DEF size
  <2>2. IsWindow(Configured([w EXCEPT !.size = size]))
    BY <1>1, <2>1, ConfiguredWindow
  <2>3. IsWindow(Configured(w))
    BY <2>1, <2>2
  <2>4. QED
    BY <1>2, <2>3, WindowKeeps
<1>3. CASE window' = window /\ did'.call = "timeout"
  BY <1>1, <1>3, WindowKeeps
<1>4. QED
  BY <1>2, <1>3

\* A frame of the panes 1 to m, each flushed and blitted at its origin.
LEMMA FrameShown ==
  ASSUME SurfaceInv, window # NoWindow, NEW m \in 1 .. 2, NEW origins, NEW rules, NEW clear, NEW n \in Nat,
         DOMAIN origins = 1 .. m, Len(rules) = n, DOMAIN rules = 1 .. n,
         gpu' = [p \in SurfacePanes |-> IF p \in 1 .. m THEN Flush(gpu[p]) ELSE gpu[p]],
         window' = [window EXCEPT !.shown = BlitAll(window,
             [k \in 1 .. m |-> [pixels |-> gpu'[k].pixels, origin |-> origins[k]]], rules, clear)],
         did' = [call |-> "present", origins |-> origins, rules |-> rules, clear |-> clear],
         cpu' = cpu
  PROVE  SurfaceInv' /\ gpu'[1].reads = gpu[1].reads
<1> DEFINE images == [k \in 1 .. m |-> [pixels |-> gpu'[k].pixels, origin |-> origins[k]]]
           after == gpu'
           w == window
           v == window'
           what == did'
           seen == BlitAll(w, images, rules, clear)
<1>1. BothDraw /\ IsWindow(w) /\ m \in Nat /\ \A k \in 1 .. m : k \in SurfacePanes
  BY DEF SurfaceInv, SurfacePanes
<1>2. ASSUME NEW p \in SurfacePanes
      PROVE  /\ IsSurface(after[p]) /\ Picture(after[p]) = cpu[p] /\ after[p].reads = gpu[p].reads
             /\ p \in 1 .. m => after[p].pixels = cpu[p] /\ after[p].ops = <<>> /\ after[p].coverage = <<>>
  <2> DEFINE g == gpu[p]
  <2>1. after[p] = IF p \in 1 .. m THEN Flush(g) ELSE g
    OBVIOUS
  <2>2. IsSurface(g) /\ Picture(g) = cpu[p]
    BY <1>1 DEF BothDraw
  <2> HIDE DEF g, after
  <2>3. /\ IsSurface(Flush(g)) /\ Flush(g).pixels = Picture(g) /\ Picture(Flush(g)) = Picture(g)
        /\ Flush(g).ops = <<>> /\ Flush(g).coverage = <<>> /\ Flush(g).reads = g.reads
    BY <2>2, FlushKeeps
  <2>4. QED
    BY <2>1, <2>2, <2>3 DEF g
<1>3. BothDraw'
  <2>1. gpu' = [p \in SurfacePanes |-> gpu'[p]]
    OBVIOUS
  <2>2. QED
    BY <1>1, <1>2, <2>1 DEF BothDraw
<1>4. /\ Len(images) = m /\ \A k \in 1 .. m : images[k].origin = origins[k] /\ images[k].pixels = cpu[k]
  <2>1. \A k \in 1 .. m : images[k].origin = origins[k] /\ images[k].pixels = after[k].pixels
    OBVIOUS
  <2>2. \A k \in 1 .. m : after[k].pixels = cpu[k]
    BY <1>1, <1>2
  <2>3. Len(images) = m
    BY <1>1
  <2>4. QED
    BY <2>1, <2>2, <2>3
<1>5. what.origins = origins /\ what.rules = rules /\ what.clear = clear /\ what.call = "present"
  OBVIOUS
<1>6. v = [w EXCEPT !.shown = seen]
  OBVIOUS
<1> HIDE DEF images, v, w, what, seen
<1>7. /\ v = [config |-> v.config, view |-> v.view, size |-> v.size, origin |-> v.origin, views |-> v.views, shown |-> v.shown]
      /\ v.size = w.size /\ v.view = w.view /\ v.views = w.views /\ v.shown = seen
  <2> DEFINE config == w.config
             view == w.view
             size == w.size
             origin == w.origin
             views == w.views
             shown == w.shown
  <2>1. w = [config |-> config, view |-> view, size |-> size, origin |-> origin, views |-> views, shown |-> shown]
    BY <1>1 DEF IsWindow
  <2> HIDE DEF config, view, size, origin, views, shown
  <2>2. v = [config |-> config, view |-> view, size |-> size, origin |-> origin, views |-> views, shown |-> seen]
    BY <1>6, <2>1
  <2>3. QED
    BY <2>2 DEF view, size, views
<1>8. IsWindow(v)
  BY <1>1, <1>7 DEF IsWindow
<1>9. ShowsAll(v, cpu, what)
  <2>1. v.shown = BlitAll(w, images, what.rules, what.clear)
    BY <1>5, <1>7 DEF seen
  <2>2. Len(images) = m /\ m \in Nat /\ DOMAIN what.origins = 1 .. m /\ v.size = w.size
        /\ Len(what.rules) = n /\ DOMAIN what.rules = 1 .. n
    BY <1>1, <1>4, <1>5, <1>7
  <2>3. \A k \in 1 .. m : images[k].origin = what.origins[k] /\ images[k].pixels = cpu[k]
    BY <1>4, <1>5
  <2>4. QED
    BY <2>1, <2>2, <2>3, BlitShows
<1>10. 1 \in 1 .. m /\ 1 \in SurfacePanes
  BY DEF SurfacePanes
<1>11. after[1].ops = <<>> /\ after[1].coverage = <<>> /\ after[1].reads = gpu[1].reads
  BY <1>2, <1>10
<1>12. ReadsTrue' /\ LogRetired'
  BY <1>5, <1>11 DEF ReadsTrue, LogRetired, what
<1>13. (window # NoWindow => IsWindow(window))'
  BY <1>8, SMTT(30) DEF v, IsWindow
<1>14. (did.call = "present" /\ window # NoWindow => ShowsAll(window, cpu, did))'
  <2>1. ShowsAll(window', cpu', did')
    BY <1>9 DEF v, what
  <2>2. QED
    BY <2>1 DEF ShowsAll, Shown
<1>15. QED
  BY <1>3, <1>11, <1>12, <1>13, <1>14 DEF SurfaceInv

\* One pane, or both.
LEMMA AcquiredKeeps ==
  ASSUME SurfaceInv, window # NoWindow, NEW m \in 1 .. 2, NEW origins, NEW rules, NEW clear, NEW n \in Nat,
         DOMAIN origins = 1 .. m, Len(rules) = n, DOMAIN rules = 1 .. n,
         Acquired(1 .. m, origins, rules, clear)
  PROVE  /\ SurfaceInv' /\ gpu'[1].reads = gpu[1].reads
         /\ did'.call = "lost" => gpu' = gpu
<1>1. Cardinality(1 .. m) = m
  <2>1. m \in Nat /\ m \in Int
    OBVIOUS
  <2>2. Cardinality(1 .. m) = IF 1 > m THEN 0 ELSE m - 1 + 1
    BY <2>1, FS_Interval
  <2>3. QED
    BY <2>2
<1>2. \/ /\ gpu' = [p \in SurfacePanes |-> IF p \in 1 .. m THEN Flush(gpu[p]) ELSE gpu[p]]
         /\ window' = [window EXCEPT !.shown = BlitAll(window,
              [k \in 1 .. Cardinality(1 .. m) |-> [pixels |-> gpu'[k].pixels, origin |-> origins[k]]], rules, clear)]
         /\ did' = [call |-> "present", origins |-> origins, rules |-> rules, clear |-> clear]
         /\ cpu' = cpu
      \/ window' = Configured(window) /\ did' = [call |-> "lost"] /\ UNCHANGED <<gpu, cpu>>
      \/ did' = [call |-> "timeout"] /\ UNCHANGED <<gpu, cpu, window>>
  BY DEF Acquired, Called
<1>3. CASE did'.call \notin {"lost", "timeout"}
  <2>1. /\ gpu' = [p \in SurfacePanes |-> IF p \in 1 .. m THEN Flush(gpu[p]) ELSE gpu[p]]
        /\ window' = [window EXCEPT !.shown = BlitAll(window,
             [k \in 1 .. m |-> [pixels |-> gpu'[k].pixels, origin |-> origins[k]]], rules, clear)]
        /\ did' = [call |-> "present", origins |-> origins, rules |-> rules, clear |-> clear]
        /\ cpu' = cpu
    BY <1>1, <1>2, <1>3
  <2>2. SurfaceInv' /\ gpu'[1].reads = gpu[1].reads
    BY <2>1, FrameShown
  <2>3. QED
    BY <1>3, <2>2
<1>4. CASE did'.call = "lost"
  <2>1. window' = Configured(window) /\ did'.call = "lost" /\ UNCHANGED <<gpu, cpu>>
    BY <1>2, <1>4
  <2>2. QED
    BY <2>1, NoFrame
<1>5. CASE did'.call = "timeout"
  <2>1. window' = window /\ did'.call = "timeout" /\ UNCHANGED <<gpu, cpu>>
    BY <1>2, <1>5
  <2>2. QED
    BY <2>1, NoFrame
<1>6. QED
  BY <1>3, <1>4, <1>5

LEMMA PresentKeeps ==
  ASSUME SurfaceInv, Present \/ PresentAll
  PROVE  SurfaceInv' /\ gpu'[1].reads = gpu[1].reads /\ (did'.call = "lost" => gpu' = gpu)
<1>1. CASE Present
  <2>1. PICK clear \in Clears : Acquired({1}, <<window.origin>>, <<>>, clear)
    BY <1>1 DEF Present
  <2> DEFINE origins == <<window.origin>>
             rules == <<>>
             m == 1
             n == 0
  <2>2. /\ {1} = 1 .. m /\ m \in 1 .. 2 /\ n \in Nat /\ DOMAIN origins = 1 .. m
        /\ Len(rules) = n /\ DOMAIN rules = 1 .. n
    OBVIOUS
  <2> HIDE DEF origins, rules, m, n
  <2>3. Acquired(1 .. m, origins, rules, clear)
    BY <2>1, <2>2 DEF origins, rules
  <2>4. window # NoWindow
    BY <1>1 DEF Present
  <2>5. QED
    BY <2>2, <2>3, <2>4, AcquiredKeeps
<1>2. CASE PresentAll
  <2>1. PICK clear \in Clears, l \in Layouts : Acquired(SurfacePanes, l.origins, l.rules, clear)
    BY <1>2 DEF PresentAll
  <2> DEFINE origins == l.origins
             rules == l.rules
             m == 2
             n == Len(rules)
  <2>2. Cardinality(SurfacePanes) = 2
    <3>1. m \in Int /\ 1 \in Int /\ SurfacePanes = 1 .. m
      BY DEF SurfacePanes
    <3> HIDE DEF m
    <3>2. Cardinality(1 .. m) = IF 1 > m THEN 0 ELSE m - 1 + 1
      BY <3>1, FS_Interval
    <3>3. QED
      BY <3>1, <3>2 DEF m
  <2>3. /\ origins \in Seq(Int \X Int) /\ Len(origins) = 2
        /\ rules \in Seq([x : Int, y : Int, w : Nat, h : Nat, colour : Seq(0 .. 255)])
    BY <2>2, SurfaceAssumption
  <2> HIDE DEF origins, rules
  <2>4. /\ SurfacePanes = 1 .. m /\ m \in 1 .. 2 /\ n \in Nat /\ DOMAIN origins = 1 .. m
        /\ Len(rules) = n /\ DOMAIN rules = 1 .. n
    BY <2>3 DEF SurfacePanes
  <2> HIDE DEF m, n
  <2>5. Acquired(1 .. m, origins, rules, clear)
    BY <2>1, <2>4 DEF origins, rules
  <2>6. window # NoWindow
    BY <1>2 DEF PresentAll
  <2>7. QED
    BY <2>4, <2>5, <2>6, AcquiredKeeps
<1>3. QED
  BY <1>1, <1>2

LEMMA SurfaceStep ==
  ASSUME SurfaceInv, [SurfaceNext]_gvars
  PROVE  /\ SurfaceInv'
         /\ gpu'[1].reads # gpu[1].reads => did'.call \in {"read", "poll"}
         /\ window' # window /\ did'.call = "lost" => gpu' = gpu
<1>1. CASE DrawOnBoth
  BY <1>1, DrawKeeps
<1>2. CASE ReadPixels
  BY <1>2, ReadKeeps
<1>3. CASE AttachWindow \/ DetachWindow \/ ResizeWindow \/ SetOrigin
  BY <1>3, AttachKeeps
<1>4. CASE Present \/ PresentAll
  BY <1>4, PresentKeeps
<1>5. CASE UNCHANGED gvars
  <2>1. UNCHANGED <<gpu, cpu, window, did>>
    BY <1>5 DEF gvars
  <2>2. BothDraw' /\ (window # NoWindow => IsWindow(window))' /\ ReadsTrue' /\ LogRetired'
    BY <2>1, SMTT(30) DEF SurfaceInv, BothDraw, IsWindow, ReadsTrue, LogRetired
  <2>3. (did.call = "present" /\ window # NoWindow => ShowsAll(window, cpu, did))'
    <3>1. did.call = "present" /\ window # NoWindow => ShowsAll(window, cpu, did)
      BY DEF SurfaceInv
    <3>2. did'.call = "present" /\ window' # NoWindow => ShowsAll(window', cpu', did')
      BY <2>1, <3>1
    <3>3. QED
      BY <3>2 DEF ShowsAll, Shown
  <2>4. QED
    BY <2>1, <2>2, <2>3 DEF SurfaceInv
<1>6. QED
  BY <1>1, <1>2, <1>3, <1>4, <1>5 DEF SurfaceNext

LEMMA SurfaceSees ==
  ASSUME SurfaceInv
  PROVE  SurfaceHolds
<1>1. BackendsAgree
  <2>1. ASSUME NEW p \in SurfacePanes PROVE Flush(gpu[p]).pixels = cpu[p]
    <3> DEFINE g == gpu[p]
    <3>1. IsSurface(g) /\ Picture(g) = cpu[p]
      BY DEF SurfaceInv, BothDraw
    <3> HIDE DEF g
    <3>2. Flush(g).pixels = Picture(g)
      BY <3>1, FlushKeeps
    <3>3. QED
      BY <3>1, <3>2 DEF g
  <2>2. QED
    BY <2>1 DEF BackendsAgree
<1>2. WindowTrue
  <2>1. SUFFICES ASSUME window # NoWindow
                 PROVE  /\ ~window.view[2] /\ window.view \in window.views /\ 0 \notin ToSet(window.size)
                        /\ did.call = "present" => ShowsAll(window, cpu, did)
    BY DEF WindowTrue
  <2>2. IsWindow(window)
    BY <2>1 DEF SurfaceInv
  <2> DEFINE size == window.size
  <2>3. size \in (Nat \ {0}) \X (Nat \ {0})
    BY <2>2 DEF IsWindow
  <2> HIDE DEF size
  <2>4. DOMAIN size = 1 .. 2 /\ size[1] # 0 /\ size[2] # 0
    BY <2>3
  <2>5. 0 \notin ToSet(size)
    BY <2>4 DEF ToSet
  <2>6. QED
    BY <2>1, <2>2, <2>5 DEF IsWindow, SurfaceInv, size
<1>3. QED
  BY <1>1, <1>2 DEF SurfaceHolds, SurfaceInv

\* For any surface, calls, windows and layouts: every pane's log, its bytes and the pixels kept stand
\* for what the CPU canvas has, a window is viewed without a curve, and what was last shown or read
\* is what was drawn (GpuSurface, CpuSurface, WindowSurface).
THEOREM SurfaceInvariant == DrawingSpec => []SurfaceInv
<1>1. DrawingInit => SurfaceInv
  BY SurfaceStarts DEF DrawingInit
<1>2. SurfaceInv /\ [DrawingNext]_<<vars, lvars, gvars, part>> => SurfaceInv'
  <2>1. [DrawingNext]_<<vars, lvars, gvars, part>> => [SurfaceNext]_gvars
    BY DEF DrawingNext
  <2>2. QED
    BY <2>1, SurfaceStep
<1>3. QED
  BY <1>1, <1>2, PTL DEF DrawingSpec

\* The two backends draw alike, a window shows every pane whole and the rules over them, a read or a
\* present leaves no log behind, no present copies a pixel back, and a swapchain that gave no frame
\* loses nothing (gpu.rs, canvas.rs, present.rs).
THEOREM PixelsAlwaysHold == DrawingSpec => PixelsHold
<1>1. SurfaceInv => (part = "surface" => SurfaceHolds)
  BY SurfaceSees
<1>2. SurfaceInv /\ [DrawingNext]_<<vars, lvars, gvars, part>>
        => /\ [gpu'[1].reads # gpu[1].reads => did'.call \in {"read", "poll"}]_gvars
           /\ [window' # window /\ did'.call = "lost" => gpu' = gpu]_gvars
  <2>1. [DrawingNext]_<<vars, lvars, gvars, part>> => [SurfaceNext]_gvars
    BY DEF DrawingNext
  <2>2. QED
    BY <2>1, SurfaceStep
<1>3. QED
  BY <1>1, <1>2, SurfaceInvariant, PTL DEF DrawingSpec, PixelsHold, NoCopyBack, NothingLost
=============================================================================
