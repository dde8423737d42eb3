------------------------------- MODULE Reflow -------------------------------
(***************************************************************************)
(* Laying rows out anew at another width: crates/core/src/reflow.rs (which *)
(* rows form a line, what the line holds) and split.rs (where it breaks).  *)
(*                                                                         *)
(* A cell is what it shows (t, 0 for nothing) and its part in a character: *)
(* "narrow", "wide" with its "tail", or the "head", the padding where a    *)
(* wide character did not fit.  A row is its cells and whether it wraps    *)
(* into the next one or continues the one above.  Styles, links, marks and *)
(* image anchors are left out; columns and rows count from 1.              *)
(***************************************************************************)
EXTENDS Integers, SequencesExt

Blank     == [t |-> 0, k |-> "narrow"]
Spacer(k) == [t |-> 0, k |-> k]
BlankRow  == [cells |-> <<>>, wrap |-> FALSE, cont |-> FALSE]

IsHead(c) == c.k = "head"

\* The second half of a wide character counts as a blank.
IsBlankTails(c) == c.t = 0

\* A tail is never trimmed on its own.
IsBlank(c) == c.t = 0 /\ c.k # "tail"

Pad(cells, width) == [x \in 1 .. width |-> IF x \in DOMAIN cells THEN cells[x] ELSE Blank]

TrimRight(cells, Drop(_)) ==
  SubSeq(cells, 1, Max({0} \union {i \in DOMAIN cells : ~Drop(cells[i])}))

\* Trailing blanks are content in a row that wraps and nothing in one that ends
\* its line; a wide character cut in half is blanked.
RowCells(row, width, ends) ==
  LET body == TrimRight(Pad(row.cells, width), IsHead)
      kept == IF ends THEN TrimRight(body, IsBlank) ELSE body
  IN  IF kept # <<>> /\ Last(kept).k = "wide" THEN Append(Front(kept), Blank) ELSE kept

\* Spans <<first row, last row>> of the logical lines, in order.
LineSpans(rows, rejoin) ==
  LET ends == SetToSortSeq({y \in DOMAIN rows :
                              ~rejoin \/ y = Len(rows) \/ ~rows[y].wrap}, <)
  IN  [i \in DOMAIN ends |-> <<IF i = 1 THEN 1 ELSE ends[i - 1] + 1, ends[i]>>]

-----------------------------------------------------------------------------
(* split.rs: one line's content, cut into rows of `width`.  at[i] is where  *)
(* content[i] went, or NoPlace for padding that is dropped.                 *)

NoPlace == [row |-> 0, x |-> 0]

\* The cell after a wide character is consumed as its tail, whatever it is.
Place(width, a, c) ==
  IF a.tail # NoPlace
  THEN [a EXCEPT !.at = Append(@, a.tail), !.tail = NoPlace]
  ELSE IF IsHead(c)
  THEN [a EXCEPT !.at = Append(@, NoPlace)]
  ELSE
    LET needed == IF c.k = "wide" THEN 2 ELSE 1
        fits   == Len(a.line) + needed <= width
        padded == IF needed = 2 /\ Len(a.line) < width
                  THEN Append(a.line, Spacer("head")) ELSE a.line
        rows   == IF fits THEN a.rows ELSE Append(a.rows, padded)
        line   == IF fits THEN a.line ELSE <<>>
        here   == [row |-> Len(rows) + 1, x |-> Len(line) + 1]
    IN  [rows |-> rows,
         line |-> line \o (IF needed = 2 THEN <<c, Spacer("tail")>> ELSE <<c>>),
         at   |-> Append(a.at, here),
         tail |-> IF needed = 2 THEN [here EXCEPT !.x = @ + 1] ELSE NoPlace]

Split(content, width) ==
  LET done == FoldLeft(LAMBDA a, c : Place(width, a, c),
                       [rows |-> <<>>, line |-> <<>>, at |-> <<>>, tail |-> NoPlace], content)
  IN  [rows |-> IF done.line # <<>> \/ done.rows = <<>>
                THEN Append(done.rows, done.line) ELSE done.rows,
       at   |-> done.at]

-----------------------------------------------------------------------------
(* resize_rows.  The cursor and the saved cursor are places among the rows; *)
(* NoPlace where nothing is saved.                                          *)

\* The content of one line and the offsets of the two places in it (0: not in
\* it).  Past its row's content the cursor extends the line, the saved cursor is
\* clamped; either way the cell under it has to exist.
LineContent(rows, span, old, new, rejoin, cursor, saved) ==
  LET width == IF rejoin \/ old < new THEN old ELSE new
      parts == [i \in 1 .. span[2] - span[1] + 1 |->
                  LET y == span[1] + i - 1 IN RowCells(rows[y], width, y = span[2])]
      begin(y)   == Len(FlattenSeq(SubSeq(parts, 1, y - span[1])))
      within(p)  == p.row \in span[1] .. span[2]
      reach(x)   == IF rejoin THEN x ELSE Min({x, new})
      clamped(p) == IF p.x <= Len(parts[p.row - span[1] + 1])
                    THEN p.x ELSE Min({p.x, new - (begin(p.row) % new)})
      atCursor == IF within(cursor) THEN begin(cursor.row) + reach(cursor.x) ELSE 0
      atSaved  == IF within(saved) THEN begin(saved.row) + clamped(saved) ELSE 0
      content  == FlattenSeq(parts)
  IN  [first   |-> span[1], last |-> span[2],
       content |-> Pad(content, Max({Len(content), atCursor, atSaved})),
       cursor  |-> atCursor, saved |-> atSaved]

\* Blank lines wait until something follows them; a blank continuation is dropped.
Lay(rows, line, cut, acc) ==
  LET above == Len(acc.rows) + acc.blanks
      laid  == [i \in DOMAIN cut.rows |->
                  [cells |-> cut.rows[i],
                   wrap  |-> i < Len(cut.rows) \/ rows[line.last].wrap,
                   cont  |-> i > 1 \/ rows[line.first].cont]]
      landed(offset, else) ==
        IF offset = 0 \/ cut.at[offset] = NoPlace THEN else
        ELSE [cut.at[offset] EXCEPT !.row = @ + above]
  IN  IF line.content = <<>>
      THEN [acc EXCEPT !.blanks = @ + (IF rows[line.first].cont THEN 0 ELSE 1)]
      ELSE [rows   |-> acc.rows \o [i \in 1 .. acc.blanks |-> BlankRow] \o laid,
            blanks |-> 0,
            cursor |-> landed(line.cursor, acc.cursor),
            saved  |-> landed(line.saved, acc.saved)]

\* The rows at the new width, and where both places ended up; the cursor's
\* default is the very first cell.
ResizeRows(rows, old, new, cursor, saved, rejoin) ==
  LET spans == LineSpans(rows, rejoin)
  IN  FoldLeft(LAMBDA acc, line : Lay(rows, line, Split(line.content, new), acc),
               [rows |-> <<>>, blanks |-> 0, cursor |-> [row |-> 1, x |-> 1], saved |-> NoPlace],
               [i \in DOMAIN spans |->
                  LineContent(rows, spans[i], old, new, rejoin, cursor, saved)])
=============================================================================
