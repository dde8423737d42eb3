------------------------------- MODULE Screen -------------------------------
(***************************************************************************)
(* One screen buffer of the terminal core: its rows, its scrollback, its   *)
(* cursor, its scroll region and margins, and what a print, a control      *)
(* sequence and a resize do to all of them together                        *)
(* (crates/core/src/screen.rs, grid.rs, resize.rs and the printing and     *)
(* cursor path of terminal.rs, routed by dispatch.rs).                     *)
(*                                                                         *)
(* The operations are functions from screen to screen, as in the code; one *)
(* action applies one control sequence.  A printed character is the number *)
(* of its print, so that a lost, copied or displaced one can be told.      *)
(***************************************************************************)
EXTENDS Reflow, FiniteSets

CONSTANTS Sizes,       \* the geometries <<columns, rows>> the screen can take
          MaxHistory,  \* scrollback budget in rows
          Counts,      \* the counts a control sequence can carry
          Budgets      \* bound: how many prints, edits and resizes a run makes

ASSUME ScreenAssumption ==
  /\ Sizes \subseteq (Nat \ {0}) \X (Nat \ {0})
  /\ MaxHistory \in Nat
  /\ Counts \subseteq Nat \ {0}
  /\ Budgets \subseteq [prints : Nat, edits : Nat, resizes : Nat]

VARIABLES
  screen,   \* the buffer; screen.marked: the rows its last operation damaged
  modes,    \* DECAWM, IRM and DECOM
  left,     \* what is left of the budget
  printed,  \* characters printed so far
  run       \* the characters printed since anything but a resize came between

vars == <<screen, modes, left, printed, run>>

Cols(s)     == s.cols
Height(s)   == Len(s.grid)
Lowest(m, n)  == IF m < n THEN m ELSE n
Highest(m, n) == IF m > n THEN m ELSE n

EmptyRow(cols) == [BlankRow EXCEPT !.cells = [x \in 1 .. cols |-> Blank]]

NewScreen(cols, rows) ==
  [cols |-> cols, grid |-> [y \in 1 .. rows |-> EmptyRow(cols)], history |-> <<>>,
   x |-> 1, y |-> 1, pending |-> FALSE, top |-> 1, bottom |-> rows,
   left |-> 1, right |-> cols, saved |-> NoPlace, savedPending |-> FALSE, marked |-> {}]

Init ==
  /\ \E size \in Sizes : screen = NewScreen(size[1], size[2])
  /\ modes   = [autowrap |-> TRUE, insert |-> FALSE, origin |-> FALSE]
  /\ left \in Budgets
  /\ printed = 0
  /\ run     = <<>>

-----------------------------------------------------------------------------
(* Grid: cells and rows, each marking what it touches.                      *)

\* Grid::write, by flat index: past the row it reaches the next one.
Put(s, x, y, c) ==
  LET over == x > Cols(s)
      row  == IF over THEN y + 1 ELSE y
  IN  IF row > Height(s) THEN s
      ELSE [s EXCEPT !.grid[row].cells[IF over THEN x - Cols(s) ELSE x] = c,
                     !.marked = @ \union {row}]

ClearSpan(s, y, from, to) ==
  IF from > to THEN s
  ELSE [s EXCEPT !.grid[y].cells = [x \in DOMAIN @ |-> IF x \in from .. to THEN Blank ELSE @[x]],
                 !.marked = @ \union {y}]

\* The rows' cells alone: whether a row wraps stays as it was.
ClearRows(s, ys) ==
  [s EXCEPT !.grid = [y \in DOMAIN @ |->
                        IF y \in ys THEN [@[y] EXCEPT !.cells = EmptyRow(Cols(s)).cells] ELSE @[y]],
            !.marked = @ \union ys]

\* Grid::blank_row on every row: the wrap flags go too.
BlankGrid(s) ==
  [s EXCEPT !.grid = [y \in DOMAIN @ |-> EmptyRow(Cols(s))], !.marked = DOMAIN s.grid]

\* shift_right_to (n > 0) and shift_left_to (n < 0) between from and to.
ShiftCells(s, y, from, to, n) ==
  IF from > to THEN s
  ELSE [s EXCEPT !.grid[y].cells =
          [x \in DOMAIN @ |-> IF x \notin from .. to THEN @[x]
                              ELSE IF x - n \in from .. to THEN @[x - n] ELSE Blank],
                 !.marked = @ \union {y}]

\* Only the rows the scroll uncovers are marked.
ShiftRowsMarksBlank(s, top, bottom, n) ==
  [s EXCEPT !.grid = [y \in DOMAIN @ |->
                        IF y \notin top .. bottom THEN @[y]
                        ELSE IF y + n \in top .. bottom THEN @[y + n] ELSE EmptyRow(Cols(s))],
            !.marked = @ \union {y \in top .. bottom : y + n \notin top .. bottom}]

\* A scroll of part of the width that moves whole rows all the same.
ShiftRowsWhole(s, top, bottom, n) ==
  [s EXCEPT !.grid = [y \in DOMAIN @ |->
                        IF y \notin top .. bottom THEN @[y]
                        ELSE IF y + n \in top .. bottom THEN @[y + n] ELSE EmptyRow(Cols(s))],
            !.marked = @ \union (top .. bottom)]

HasMargins(s) == s.left > 1 \/ s.right < Cols(s)

\* scroll_up_in (n > 0) and scroll_down_in (n < 0): whole rows with their flags,
\* or the cells between the margins alone.
ShiftRows(s, top, bottom, n) ==
  LET from(y)    == IF y + n \in top .. bottom THEN s.grid[y + n] ELSE EmptyRow(Cols(s))
      banded(y)  == [s.grid[y] EXCEPT !.cells =
                       [x \in DOMAIN @ |-> IF x \in s.left .. s.right THEN from(y).cells[x] ELSE @[x]]]
  IN  [s EXCEPT !.grid = [y \in DOMAIN @ |->
                            IF y \notin top .. bottom THEN @[y]
                            ELSE IF HasMargins(s) THEN banded(y) ELSE from(y)],
                !.marked = @ \union (top .. bottom)]

\* History::push and prune.
Remember(s, count) ==
  LET longer == s.history \o SubSeq(s.grid, 1, count)
  IN  [s EXCEPT !.history = SubSeq(longer, Highest(1, Len(longer) - MaxHistory + 1), Len(longer))]

-----------------------------------------------------------------------------
(* Screen: the cursor and the region.                                       *)

\* The cursor arrives and the row it left is not marked.
SetRowHalf(s, y) == [s EXCEPT !.y = y, !.marked = IF y = s.y THEN @ ELSE @ \union {y}]

SetRow(s, y) == [s EXCEPT !.y = y, !.marked = IF y = s.y THEN @ ELSE @ \union {s.y, y}]

MoveTo(s, x, y) ==
  [SetRow(s, Lowest(y, Height(s))) EXCEPT !.x = Lowest(x, Cols(s)), !.pending = FALSE]

\* State::cursor_position: DECOM counts rows from the region and stays in it.
CursorPosition(s, x, y) ==
  IF modes.origin THEN MoveTo(s, x, Lowest(s.top + y - 1, s.bottom)) ELSE MoveTo(s, x, y)

\* The rows scrolled off are remembered after the scroll has moved them.
ScrollRegionUpLate(s, n) ==
  LET moved == ShiftRows(s, s.top, s.bottom, n)
  IN  IF s.top = 1 /\ ~HasMargins(s) THEN Remember(moved, Lowest(n, Height(s))) ELSE moved

\* Rows are remembered only when they leave by the top of the whole screen.
ScrollRegionUp(s, n) ==
  ShiftRows(IF s.top = 1 /\ ~HasMargins(s) THEN Remember(s, Lowest(n, Height(s))) ELSE s,
            s.top, s.bottom, n)

\* Below the region the last row does not stop the cursor.
LineFeedUnbounded(s) ==
  [(IF s.y = s.bottom THEN ScrollRegionUp(s, 1) ELSE SetRow(s, s.y + 1)) EXCEPT !.pending = FALSE]

LineFeed(s) ==
  [(IF s.y = s.bottom THEN ScrollRegionUp(s, 1)
    ELSE IF s.y < Height(s) THEN SetRow(s, s.y + 1) ELSE s) EXCEPT !.pending = FALSE]

ReverseIndex(s) ==
  [(IF s.y = s.top THEN ShiftRows(s, s.top, s.bottom, -1)
    ELSE IF s.y > 1 THEN SetRow(s, s.y - 1) ELSE s) EXCEPT !.pending = FALSE]

\* The row above is told it wraps, the row below not that it continues.
WrapLineUnmarked(s) == [LineFeed(s) EXCEPT !.x = s.left, !.pending = FALSE]

\* The wrap returns to the first column whatever the margins are.
WrapLineFirstColumn(s) ==
  LET atEdge  == s.x = Cols(s)
      wrapped == LineFeed(IF atEdge THEN [s EXCEPT !.grid[s.y].wrap = TRUE] ELSE s)
      moved   == [wrapped EXCEPT !.x = 1, !.pending = FALSE]
  IN  IF atEdge THEN [moved EXCEPT !.grid[moved.y].cont = TRUE] ELSE moved

\* Only a wrap at the true end of a row makes two rows one line.
WrapLine(s) ==
  LET atEdge  == s.x = Cols(s)
      wrapped == LineFeed(IF atEdge THEN [s EXCEPT !.grid[s.y].wrap = TRUE] ELSE s)
      moved   == [wrapped EXCEPT !.x = s.left, !.pending = FALSE]
  IN  IF atEdge THEN [moved EXCEPT !.grid[moved.y].cont = TRUE] ELSE moved

(* print_char, in four steps.                                               *)

RightLimit(s) == IF s.x > s.right THEN Cols(s) ELSE s.right

\* A deferred wrap belongs to the character that comes now.
Unwrapped(s) ==
  IF ~s.pending THEN s
  ELSE IF modes.autowrap THEN WrapLine(s) ELSE [s EXCEPT !.pending = FALSE]

Overhangs(s, w) == w = 2 /\ s.x + 1 > RightLimit(s)

\* A wide character that does not fit leaves a spacer head and wraps.
Headed(s, w) == IF Overhangs(s, w) THEN Put(s, s.x, s.y, Spacer("head")) ELSE s

Inserted(s, w, limit) ==
  IF modes.insert /\ s.x + w <= limit
  THEN [ShiftCells(s, s.y, s.x, limit, w) EXCEPT !.pending = FALSE] ELSE s

Written(s, t, w) ==
  IF w = 1 THEN Put(s, s.x, s.y, [t |-> t, k |-> "narrow"])
  ELSE Put(Put(s, s.x, s.y, [t |-> t, k |-> "wide"]), s.x + 1, s.y, Spacer("tail"))

\* At the limit the cursor stays and the wrap is deferred.
Advanced(s, w, limit) ==
  IF s.x + w > limit THEN [s EXCEPT !.x = limit, !.pending = TRUE] ELSE [s EXCEPT !.x = @ + w]

-----------------------------------------------------------------------------
(* Erasing, inserting and deleting.                                         *)

Settle(s) == [s EXCEPT !.pending = FALSE]

EraseInLine(s, mode) ==
  Settle(ClearSpan(s, s.y, IF mode = 0 THEN s.x ELSE 1, IF mode = 1 THEN s.x ELSE Cols(s)))

\* Screen::scroll_clear, for ED 2 at a prompt: rows down to the last with text
\* go to history, whatever the region is.
ScrollClear(s) ==
  LET count == Max({0} \union {y \in DOMAIN s.grid : \E x \in 1 .. Cols(s) : s.grid[y].cells[x].t # 0})
      band  == [Remember(s, count) EXCEPT !.left = 1, !.right = Cols(s)]
      moved == [ShiftRows(band, 1, Height(s), count) EXCEPT !.left = s.left, !.right = s.right]
  IN  IF count = 0 THEN s
      ELSE IF s.y > count THEN SetRow(moved, s.y - count)
      ELSE SetRow([moved EXCEPT !.x = 1], 1)

MarkAll(s) == [s EXCEPT !.marked = DOMAIN s.grid]

\* ED as the child sends it: the erase that spares protected cells goes cell by
\* cell (selective_span), whether a cell is protected or not.
EraseInDisplay(s, mode) ==
  CASE mode = 0 -> Settle(ClearRows(ClearSpan(s, s.y, s.x, Cols(s)), s.y + 1 .. Height(s)))
    [] mode = 1 -> Settle(ClearSpan(ClearRows(s, 1 .. s.y - 1), s.y, 1, s.x))
    [] mode = 2 -> Settle(ClearRows(s, DOMAIN s.grid))
    [] mode = 3 -> [s EXCEPT !.history = <<>>]

InRegion(s) == s.y \in s.top .. s.bottom /\ s.x \in s.left .. s.right

\* IL (n < 0) and DL (n > 0): from the cursor's row to the bottom margin.
ShiftLines(s, n) ==
  IF ~InRegion(s) THEN s
  ELSE [ShiftRows(s, s.y, s.bottom, n) EXCEPT !.x = s.left, !.pending = FALSE]

\* The carriage return column (State::carriage_column).
CarriageColumn(s) == IF modes.origin \/ s.x >= s.left THEN s.left ELSE 1

\* CUU and CUD are bounded by the region only when the cursor is inside of it.
CursorUp(s, n)   == MoveTo(s, s.x, Highest(s.y - n, IF s.y >= s.top THEN s.top ELSE 1))
CursorDown(s, n) == MoveTo(s, s.x, Lowest(s.y + n, IF s.y <= s.bottom THEN s.bottom ELSE Height(s)))
CursorRight(s, n) == MoveTo(s, Lowest(s.x + n, IF s.x <= s.right THEN s.right ELSE Cols(s)), s.y)
CursorLeft(s, n)  == MoveTo(s, Highest(s.x - n, 1), s.y)

\* With nothing saved, DECRC goes home.
RestoreCursor(s) ==
  LET to == IF s.saved = NoPlace THEN [row |-> 1, x |-> 1] ELSE s.saved
  IN  [SetRow(s, Lowest(to.row, Height(s))) EXCEPT !.x = Lowest(to.x, Cols(s)),
                                                   !.pending = s.savedPending]

\* The places are taken for rows of the screen alone.
LaidOnScreen(s, cols, rejoin) ==
  ResizeRows(s.history \o s.grid, Cols(s), cols, [row |-> s.y, x |-> s.x], s.saved, rejoin)

\* resize::apply and State::resize.  History and screen are laid out as one;
\* what does not fit goes back to history.  A deferred wrap survives.
Laid(s, cols, rejoin) ==
  LET above    == Len(s.history)
      below(p) == [p EXCEPT !.row = @ + above]
  IN  ResizeRows(s.history \o s.grid, Cols(s), cols, below([row |-> s.y, x |-> s.x]),
                 IF s.saved = NoPlace THEN NoPlace ELSE below(s.saved), rejoin)

Overflow(laid, rows) == Highest(Len(laid.rows) - rows, 0)

Resized(s, laid, cols, rows) ==
  LET over  == Overflow(laid, rows)
      row(p) == Lowest(Highest(p.row - over, 1), rows)
      kept  == laid.saved # NoPlace /\ laid.saved.row > over
  IN  [NewScreen(cols, rows) EXCEPT
         !.grid    = [y \in DOMAIN @ |->
                        IF over + y \in DOMAIN laid.rows
                        THEN [laid.rows[over + y] EXCEPT !.cells = Pad(@, cols)] ELSE @[y]],
         !.history = SubSeq(laid.rows, Highest(1, over - MaxHistory + 1), over),
         !.x       = Lowest(laid.cursor.x, cols),
         !.y       = row(laid.cursor),
         !.pending = s.pending,
         !.saved   = IF s.saved = NoPlace THEN NoPlace
                     ELSE IF kept THEN [row |-> row(laid.saved), x |-> Lowest(laid.saved.x, cols)]
                     ELSE [row |-> 1, x |-> 1],
         !.savedPending = kept /\ s.savedPending,
         !.marked  = 1 .. rows]

-----------------------------------------------------------------------------
(* Half characters, lines and text, as a reader sees them.                  *)

Rows(s) == s.history \o s.grid

\* Every wide character has its tail and every tail its character.
WholeWides(s) ==
  \A y \in DOMAIN Rows(s) : LET cells == Rows(s)[y].cells IN
    \A x \in DOMAIN cells :
      /\ cells[x].k = "wide" => x + 1 \in DOMAIN cells /\ cells[x + 1].k = "tail"
      /\ cells[x].k = "tail" => x > 1 /\ cells[x - 1].k = "wide"

\* What the logical lines show, without the spacers of wide characters.
TextLines(s) ==
  LET spans == LineSpans(Rows(s), TRUE)
      cells(span) == FlattenSeq([j \in 1 .. span[2] - span[1] + 1 |-> Rows(s)[span[1] + j - 1].cells])
      shown(span) == SelectSeq(cells(span), LAMBDA c : c.k \notin {"tail", "head"})
  IN  [i \in DOMAIN spans |-> [x \in DOMAIN shown(spans[i]) |-> shown(spans[i])[x].t]]

Text(s)    == SelectSeq(FlattenSeq([y \in DOMAIN Rows(s) |-> Rows(s)[y].cells]), LAMBDA c : c.t # 0)
Copies(text, t) == Cardinality({p \in DOMAIN text : text[p].t = t})

-----------------------------------------------------------------------------
(* The operations: each damages rows from a clean slate.                    *)

Fresh == [screen EXCEPT !.marked = {}]

\* Plain printing on the whole screen goes on with the run; after a reflow moved
\* a deferred wrap off the edge, the wrap is a line break.
RunsOn == modes.autowrap /\ ~modes.insert /\ ~HasMargins(screen)
          /\ screen.top = 1 /\ screen.bottom = Height(screen)

PrintChar(w) ==
  /\ left.prints > 0
  /\ left'    = [left EXCEPT !.prints = @ - 1]
  /\ printed' = printed + 1
  /\ \E s1 \in {Unwrapped(Fresh)} : \E s2 \in {Headed(s1, w)} :
       IF Overhangs(s1, w) /\ ~modes.autowrap THEN screen' = s1
       ELSE \E s3 \in {IF Overhangs(s1, w) THEN WrapLine(s2) ELSE s2} :
              \E s4 \in {Inserted(s3, w, RightLimit(s1))} :
                screen' = Advanced(Written(s4, printed', w), w, RightLimit(s1))
  /\ run'     = IF ~RunsOn \/ ~WholeWides(screen') THEN <<>>
                ELSE IF screen.pending /\ screen.x # Cols(screen) THEN <<printed'>>
                ELSE Append(run, printed')
  /\ UNCHANGED modes

Rejoins(cols) == modes.autowrap /\ cols # Cols(screen)

\* The run ends where the cursor could not follow its row.
Resize(cols, rows) ==
  /\ left.resizes > 0
  /\ left'   = [left EXCEPT !.resizes = @ - 1]
  /\ \E laid \in {Laid(screen, cols, Rejoins(cols))} :
       /\ screen' = Resized(screen, laid, cols, rows)
       /\ run'    = IF modes.autowrap /\ laid.cursor.row > Overflow(laid, rows) THEN run ELSE <<>>
  /\ UNCHANGED <<modes, printed>>

Edit(s) ==
  /\ left'   = [left EXCEPT !.edits = @ - 1]
  /\ screen' = s
  /\ run'    = <<>>
  /\ UNCHANGED printed

\* The two ends of the scroll region: scrolls the control sequence names.
Scroll(n)  == Edit(ScrollRegionUp(Fresh, n)) /\ UNCHANGED modes
ScrollDown(n) == Edit(ShiftRows(Fresh, screen.top, screen.bottom, -n)) /\ UNCHANGED modes

Feed ==
  /\ \E s \in {LineFeed(Fresh), ReverseIndex(Fresh)} : Edit(s)
  /\ UNCHANGED modes

NextLine ==
  /\ Edit([LineFeed(Fresh) EXCEPT !.x = CarriageColumn(screen)])
  /\ UNCHANGED modes

CarriageReturn ==
  /\ Edit(Settle([Fresh EXCEPT !.x = CarriageColumn(screen)]))
  /\ UNCHANGED modes

Lines(n) ==
  /\ \E d \in {n, -n} : Edit(ShiftLines(Fresh, d))
  /\ UNCHANGED modes

\* ICH and DCH stop at the right margin, ECH does not.
Chars(n) ==
  /\ \E d \in {n, -n} : Edit(Settle(ShiftCells(Fresh, screen.y, screen.x, screen.right, d)))
  /\ UNCHANGED modes

EraseChars(n) ==
  /\ Edit(Settle(ClearSpan(Fresh, screen.y, screen.x, Lowest(screen.x + n - 1, Cols(screen)))))
  /\ UNCHANGED modes

EraseLine ==
  /\ \E mode \in 0 .. 2 : Edit(EraseInLine(Fresh, mode))
  /\ UNCHANGED modes

EraseScreen ==
  /\ \E mode \in {0, 1, 3} : Edit(EraseInDisplay(Fresh, mode))
  /\ UNCHANGED modes

\* ED 2 is a whole-frame event.  Whether the last row is at a prompt depends on
\* the shell's marks, which are not modelled.
EraseComplete ==
  /\ \E s \in {Fresh, ScrollClear(Fresh)} : Edit(MarkAll(EraseInDisplay(s, 2)))
  /\ UNCHANGED modes

\* DECCOLM: a resize the child asks for, and an erase that is not selective.
ChangeColumns(cols) ==
  /\ \E laid \in {Laid(screen, cols, Rejoins(cols))} :
       \E wide \in {Resized(screen, laid, cols, Height(screen))} :
         \E s \in {wide, ScrollClear(wide)} : Edit(CursorPosition(Settle(BlankGrid(s)), 1, 1))
  /\ UNCHANGED modes

\* CUP, and CHA, which knows no origin.
Goto(x, y) ==
  /\ \E s \in {CursorPosition(Fresh, x, y), MoveTo(Fresh, x, screen.y)} : Edit(s)
  /\ UNCHANGED modes

Move(n) ==
  /\ \E s \in {CursorUp(Fresh, n), CursorDown(Fresh, n), CursorLeft(Fresh, n), CursorRight(Fresh, n)} :
       Edit(s)
  /\ UNCHANGED modes

SaveCursor ==
  /\ Edit([Fresh EXCEPT !.saved = [row |-> screen.y, x |-> screen.x],
                        !.savedPending = screen.pending])
  /\ UNCHANGED modes

Restore == Edit(RestoreCursor(Fresh)) /\ UNCHANGED modes

\* DECSTBM; an empty region is refused.
SetScrollRegion(top, bottom) ==
  /\ top < bottom /\ bottom <= Height(screen)
  /\ Edit(CursorPosition([Fresh EXCEPT !.top = top, !.bottom = bottom], 1, 1))
  /\ UNCHANGED modes

\* DECSLRM under mode 69, and the reset when the mode goes.
SetMargins(l, r) ==
  /\ l < r /\ r <= Cols(screen)
  /\ Edit(CursorPosition([Fresh EXCEPT !.left = l, !.right = r], 1, 1))
  /\ UNCHANGED modes

ResetMargins ==
  /\ HasMargins(screen)
  /\ Edit([Fresh EXCEPT !.left = 1, !.right = Cols(screen)])
  /\ UNCHANGED modes

SetAutowrap(on) == Edit(Fresh) /\ modes' = [modes EXCEPT !.autowrap = on]
SetInsert(on)   == Edit(Fresh) /\ modes' = [modes EXCEPT !.insert = on]

\* DECOM homes the cursor, to the region when it is switched on.
SetOrigin(on) ==
  /\ Edit(MoveTo(Fresh, 1, IF on THEN screen.top ELSE 1))
  /\ modes' = [modes EXCEPT !.origin = on]

Edits ==
  \/ \E size \in Sizes : size[2] = Height(screen) /\ ChangeColumns(size[1])
  \/ \E n \in Counts : Scroll(n) \/ ScrollDown(n) \/ Lines(n) \/ Chars(n) \/ EraseChars(n) \/ Move(n)
  \/ Feed \/ NextLine \/ CarriageReturn \/ EraseLine \/ EraseScreen \/ EraseComplete
  \/ \E x \in 1 .. Cols(screen), y \in 1 .. Height(screen) : Goto(x, y)
  \/ SaveCursor \/ Restore
  \/ \E t, b \in 1 .. Height(screen) : SetScrollRegion(t, b)
  \/ \E l, r \in 1 .. Cols(screen) : SetMargins(l, r)
  \/ ResetMargins
  \/ \E on \in BOOLEAN : SetAutowrap(on) \/ SetInsert(on) \/ SetOrigin(on)

Next ==
  \/ \E w \in {1, 2} : PrintChar(w)
  \/ \E size \in Sizes : Resize(size[1], size[2])
  \/ left.edits > 0 /\ Edits

Spec == Init /\ [][Next]_vars

-----------------------------------------------------------------------------
Cell == [t : 0 .. printed, k : {"narrow", "wide", "tail", "head"}]

RowOK(row) ==
  /\ row.cells \in Seq(Cell) /\ row.wrap \in BOOLEAN /\ row.cont \in BOOLEAN

\* The rows have the screen's width, cursor, saved cursor, region and margins lie
\* on it, and the scrollback keeps its budget.
TypeOK ==
  /\ <<Cols(screen), Height(screen)>> \in Sizes
  /\ \A y \in DOMAIN screen.grid : RowOK(screen.grid[y]) /\ Len(screen.grid[y].cells) = Cols(screen)
  /\ Len(screen.history) <= MaxHistory /\ \A y \in DOMAIN screen.history : RowOK(screen.history[y])
  /\ screen.x \in 1 .. Cols(screen) /\ screen.y \in 1 .. Height(screen)
  /\ 1 <= screen.top /\ screen.bottom <= Height(screen)
  /\ screen.top < screen.bottom \/ Height(screen) = 1
  /\ 1 <= screen.left /\ screen.left <= screen.right /\ screen.right <= Cols(screen)
  /\ screen.saved = NoPlace \/ screen.saved \in [row : 1 .. Height(screen), x : 1 .. Cols(screen)]
  /\ screen.pending \in BOOLEAN /\ screen.savedPending \in BOOLEAN
  /\ screen.marked \subseteq DOMAIN screen.grid
  /\ modes \in [autowrap : BOOLEAN, insert : BOOLEAN, origin : BOOLEAN]

StandsIn(ts, line) ==
  \E x \in 0 .. Len(line) - Len(ts) : SubSeq(line, x + 1, x + Len(ts)) = ts

\* Printed without anything but resizes in between, characters stay together:
\* what the scrollback still has of the run is its end, and stands in order and
\* uninterrupted, blanks aside, in one line, through wraps, scrolls, padding of
\* wide characters and every reflow.
RunReadsAsOneLine ==
  LET shown == {Text(screen)[p].t : p \in DOMAIN Text(screen)}
      kept  == SelectSeq(run, LAMBDA t : t \in shown)
  IN  kept # <<>> =>
        /\ IsSuffix(kept, run)
        /\ \E i \in DOMAIN TextLines(screen) :
             StandsIn(kept, SelectSeq(TextLines(screen)[i], LAMBDA t : t # 0))

\* After ED 2 nothing is left of the lines that were on the screen: "A blanked row
\* is not a continuation of anything, so leaving the flags behind would corrupt
\* reflow" (grid.rs), which would join lines printed one by one afterwards.
ErasedRowsStandAlone ==
  [][EraseComplete => \A y \in DOMAIN screen'.grid :
                        ~screen'.grid[y].wrap /\ ~screen'.grid[y].cont]_vars

\* SU by more rows than the region has pushes rows that stay on the screen.
ScrollsPast == \E n \in Counts : n > screen.bottom - screen.top + 1 /\ Scroll(n)

\* No other operation shows a printed character twice, the scrollback included.
NothingCopied ==
  [][LET was == Text(screen)
         now == Text(screen')
     IN  \/ \A t \in 1 .. printed' :
              Copies(now, t) <= Highest(Copies(was, t), IF t > printed THEN 1 ELSE 0)
         \/ ScrollsPast]_vars

\* Whatever an operation changes of a row, and wherever it takes the cursor, the
\* rows are marked: what the frame's damage is built on.
DamageCoversChange ==
  [][DOMAIN screen'.grid = DOMAIN screen.grid =>
       /\ \A y \in DOMAIN screen.grid :
            screen'.grid[y].cells # screen.grid[y].cells => y \in screen'.marked
       /\ screen'.y # screen.y => {screen.y, screen'.y} \subseteq screen'.marked]_vars

\* A resize loses nothing but the oldest rows and changes no order, whether rows
\* are joined or merely dropped and added.
ResizeKeepsText ==
  [][left'.resizes # left.resizes /\ (modes.autowrap \/ Cols(screen') = Cols(screen))
       /\ WholeWides(screen)
     => LET now == [p \in DOMAIN Text(screen') |-> Text(screen')[p].t]
            was == [p \in DOMAIN Text(screen) |-> Text(screen)[p].t]
        IN  IF Len(screen'.history) < MaxHistory THEN now = was ELSE IsSuffix(now, was)]_vars

ShownAt(s, p) == IF p = NoPlace THEN 0 ELSE s.grid[p.row].cells[p.x].t
OnScreen(s, t) == \E y \in DOMAIN s.grid : \E x \in 1 .. Cols(s) : s.grid[y].cells[x].t = t

\* The cursor and the saved cursor stay on the character they stand on, if a
\* resize leaves it on the screen.
AnchorsRide ==
  [][left'.resizes # left.resizes /\ WholeWides(screen) =>
       \A p \in {<<[row |-> screen.y, x |-> screen.x], [row |-> screen'.y, x |-> screen'.x]>>,
                 <<screen.saved, screen'.saved>>} :
         LET t == ShownAt(screen, p[1])
         IN  t # 0 /\ OnScreen(screen', t) => ShownAt(screen', p[2]) = t]_vars

\* With the cursor inside region and margins, printing, feeding, inserting and
\* deleting lines and characters change no cell outside of them.
BandFence ==
  [][left'.resizes = left.resizes /\ InRegion(screen)
       /\ (\/ left'.prints # left.prints
           \/ Feed \/ NextLine
           \/ \E n \in Counts : Lines(n) \/ Chars(n) \/ Scroll(n) \/ ScrollDown(n))
     => \A y \in DOMAIN screen.grid, x \in 1 .. Cols(screen) :
          \/ (y \in screen.top .. screen.bottom /\ x \in screen.left .. screen.right)
          \/ screen'.grid[y].cells[x] = screen.grid[y].cells[x]]_vars

\* A resize keeps the text and what stands on it: no character is lost but the
\* oldest rows', none moves past another, and the cursors ride on theirs.
ResizeKeeps == ResizeKeepsText /\ AnchorsRide

\* Scrolls and edits move text, they do not make or reach other text: no
\* character is shown twice, and none outside region and margins changes.
EditsKeepTo == NothingCopied /\ BandFence
=============================================================================
