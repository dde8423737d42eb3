-------------------------------- MODULE Text --------------------------------
(***************************************************************************)
(* Text as a user takes it off the screen: words, lines and the clipboard  *)
(* text of a selection (crates/core/src/selection.rs), rectangles filled,  *)
(* erased and copied (rect.rs), and the shell's marks on rows              *)
(* (semantic.rs).                                                          *)
(*                                                                         *)
(* A cell is a character or "" where none was written; "#" is a wide one's *)
(* second half.  Columns and rows count from 1.                            *)
(***************************************************************************)
EXTENDS Integers, Sequences, SequencesExt, FiniteSetsExt

CONSTANTS Cols, Rows,
          Boundaries, \* the characters that bound a word, a blank among them
          Pages       \* [chars, ops, max]: what is typed and done

ASSUME TextAssumption == Cols \in Nat \ {0} /\ Rows \in Nat \ {0}

VARIABLES page, \* [cells, wrap, mark, protected, x, y, pending, content, toEol, origin, top, bottom]
          book, strokes

xvars == <<page, book, strokes>>

Cell == (1..Cols) \X (1..Rows)
NewPage ==
  [cells |-> [c \in Cell |-> ""], wrap |-> [y \in 1..Rows |-> FALSE], mark |-> [y \in 1..Rows |-> "none"],
   guarded |-> {}, x |-> 1, y |-> 1, pending |-> FALSE, content |-> "output", toEol |-> FALSE,
   origin |-> FALSE, top |-> 1, bottom |-> Rows, events |-> 0]

-----------------------------------------------------------------------------
(* Selections: a start and an end, <<x, y>> each; <<>> for none.           *)

HasText(p, c)    == p.cells[c] \notin {"", "#"}
IsBoundary(p, c) == p.cells[c] \in Boundaries
IsBlank(p, c)    == ~HasText(p, c) \/ p.cells[c] = " "

\* The cells in reading order.
At(c)     == (c[2] - 1) * Cols + c[1]
CellAt(n)  == <<((n - 1) % Cols) + 1, ((n - 1) \div Cols) + 1>>
LastCell  == Cols * Rows
EndsRow(p, c) == c[1] = Cols /\ ~p.wrap[c[2]]
SameKind(p, c, d) == HasText(p, d) /\ (IsBoundary(p, d) <=> IsBoundary(p, c))

\* The furthest cell reached by scans that step while Goes(from, to) holds.
Furthest(from, step, Goes(_, _)) ==
  LET reach[n \in 0..LastCell] ==
        LET here == At(from) + step * n IN
        IF n = LastCell \/ here + step \notin 1..LastCell \/ ~Goes(CellAt(here), CellAt(here + step))
        THEN here ELSE reach[n + 1]
  IN CellAt(reach[0])

\* A word is of one kind of cell.  Forward, the end of a row that does not wrap
\* is taken and ends it, but for the cell the scan begins in.
SelectWordThroughBreaks(p, c) ==
  IF ~HasText(p, c) THEN <<>>
  ELSE <<Furthest(c, -1, LAMBDA a, b : SameKind(p, c, b)), Furthest(c, 1, LAMBDA a, b : SameKind(p, c, b))>>
SelectWord(p, c) ==
  IF ~HasText(p, c) THEN <<>>
  ELSE <<Furthest(c, -1, LAMBDA a, b : ~EndsRow(p, b) /\ SameKind(p, c, b)),
         Furthest(c, 1, LAMBDA a, b : (a = c \/ ~EndsRow(p, a)) /\ SameKind(p, c, b))>>

\* A logical line, its blanks at both ends left out.
SelectLine(p, c) ==
  LET top    == CHOOSE y \in 1..c[2] : /\ \A z \in y..c[2]-1 : p.wrap[z]
                                       /\ y = 1 \/ ~p.wrap[y - 1]
      bottom == CHOOSE y \in c[2]..Rows : /\ \A z \in c[2]..y-1 : p.wrap[z]
                                          /\ y = Rows \/ ~p.wrap[y]
      inked  == {n \in At(<<1, top>>)..At(<<Cols, bottom>>) : ~IsBlank(p, CellAt(n))}
  IN IF inked = {} THEN <<>> ELSE <<CellAt(Min(inked)), CellAt(Max(inked))>>

SelectAll(p) ==
  LET inked == {n \in 1..LastCell : ~IsBlank(p, CellAt(n))} IN
  IF inked = {} THEN <<>> ELSE <<CellAt(Min(inked)), CellAt(Max(inked))>>

Trimmed(line) ==
  LET kept == {k \in DOMAIN line : line[k] # " "} IN
  IF kept = {} THEN <<>> ELSE SubSeq(line, 1, Max(kept))

\* Row by row, each row's end trimmed; a row that wraps runs on.
Format(p, s) ==
  LET from == IF At(s[2]) < At(s[1]) THEN s[2] ELSE s[1]
      to   == IF At(s[2]) < At(s[1]) THEN s[1] ELSE s[2]
      Shown(y) == LET xs == SelectSeq([x \in 1..Cols |-> x], LAMBDA x :
                              /\ At(<<x, y>>) \in At(from)..At(to) /\ p.cells[<<x, y>>] # "#")
                  IN [k \in DOMAIN xs |-> IF p.cells[<<xs[k], y>>] = "" THEN " " ELSE p.cells[<<xs[k], y>>]]
      Add(text, y) == text \o Trimmed(Shown(y)) \o (IF y < to[2] /\ ~p.wrap[y] THEN <<"\n">> ELSE <<>>)
  IN FoldLeft(Add, <<>>, [k \in 1..to[2]-from[2]+1 |-> from[2] + k - 1])

-----------------------------------------------------------------------------
(* Typing, and the shell's marks.                                          *)

Scroll(p) ==
  [p EXCEPT !.cells = [c \in Cell |-> IF c[2] = Rows THEN "" ELSE p.cells[<<c[1], c[2] + 1>>]],
            !.wrap  = [y \in 1..Rows |-> y < Rows /\ p.wrap[y + 1]],
            !.mark  = [y \in 1..Rows |-> IF y = Rows THEN "none" ELSE p.mark[y + 1]],
            !.guarded = {<<c[1], c[2] - 1>> : c \in {d \in @ : d[2] > 1}}]
Feed(p) == IF p.y = Rows THEN Scroll(p) ELSE [p EXCEPT !.y = @ + 1]

\* A row entered: input up to the end of its line gives way to output, any
\* other that is not output makes the row one that goes on.
EnterRow(p) ==
  CASE p.content = "output" -> p
    [] p.content # "output" /\ p.toEol -> [p EXCEPT !.content = "output", !.toEol = FALSE]
    [] OTHER -> [p EXCEPT !.mark[p.y] = "continuation"]
Index(p) == EnterRow(Feed(p))

\* A wrap enters a row but ends nothing.
WrapOn(p) ==
  LET q == EnterRow([Feed([p EXCEPT !.wrap[p.y] = TRUE]) EXCEPT !.x = 1, !.pending = FALSE]) IN
  [q EXCEPT !.content = p.content, !.toEol = p.toEol,
            !.mark[q.y] = IF p.content = "prompt" THEN "continuation" ELSE @]
Type(p, ch) ==
  LET q == IF p.pending THEN WrapOn(p) ELSE p IN
  [q EXCEPT !.cells[<<q.x, q.y>>] = ch, !.x = IF @ < Cols THEN @ + 1 ELSE @, !.pending = (q.x = Cols)]
NewLine(p) == [Index(p) EXCEPT !.x = 1, !.pending = FALSE]

FreshLine(p) == IF p.x = 1 THEN p ELSE Index([p EXCEPT !.x = 1])
StartPrompt(p, mark) == [p EXCEPT !.content = "prompt", !.toEol = FALSE, !.mark[p.y] = mark]
StartOutput(p) == [p EXCEPT !.content = "output", !.toEol = FALSE]
EndInput(p) == LET q == StartOutput(p) IN IF q.x = 1 THEN [q EXCEPT !.mark[q.y] = "none"] ELSE q

\* OSC 133.
Shell(p, action, mark) ==
  CASE action \in {"A", "N"} -> StartPrompt(FreshLine(p), mark)
    [] action = "P" -> StartPrompt(p, mark)
    [] action = "B" -> [p EXCEPT !.content = "input", !.toEol = FALSE]
    [] action = "I" -> [p EXCEPT !.content = "input", !.toEol = TRUE]
    [] action = "C" -> [EndInput(p) EXCEPT !.events = 1]
    [] action = "D" -> StartOutput(p)
    [] action = "L" -> FreshLine(p)
    [] OTHER -> p

-----------------------------------------------------------------------------
(* Rectangles: <<top, left, bottom, right>>, 0 for the default.            *)

Or(n, default) == IF n = 0 THEN default ELSE n
Resolve(p, r) ==
  LET shift  == IF p.origin THEN p.top - 1 ELSE 0
      top    == Or(r[1], 1) + shift
      low    == Or(r[3], Rows) + shift
      bottom == Min({low, Rows} \union (IF p.origin THEN {p.bottom} ELSE {}))
  IN (Or(r[2], 1)..Min({Or(r[4], Cols), Cols})) \X (top..bottom)

WriteCells(p, written) == [p EXCEPT !.cells = [c \in Cell |-> IF c \in DOMAIN written THEN written[c] ELSE @[c]],
                               !.guarded = @ \ DOMAIN written]
FillRect(p, ch, r) == WriteCells(p, [c \in Resolve(p, r) |-> ch])
EraseRect(p, r)    == WriteCells(p, [c \in Resolve(p, r) |-> ""])
SelectiveEraseRect(p, r) == WriteCells(p, [c \in Resolve(p, r) \ p.guarded |-> ""])

\* The source is taken whole before any of it is written.
Offsets(p, to) == <<Or(to[2], 1), Or(to[1], 1) + (IF p.origin THEN p.top - 1 ELSE 0)>>
CopyRectInPlace(p, r, to) ==
  LET from == Resolve(p, r)
      at   == Offsets(p, to)
      corner == IF from = {} THEN <<1, 1>> ELSE <<Min({c[1] : c \in from}), Min({c[2] : c \in from})>>
      Step(q, n) == LET c == CellAt(n)
                        d == <<at[1] + c[1] - corner[1], at[2] + c[2] - corner[2]>>
                    IN IF c \in from /\ d \in Cell THEN [q EXCEPT !.cells[d] = q.cells[c]] ELSE q
  IN FoldLeft(Step, p, [n \in 1..LastCell |-> n])
CopyRect(p, r, to) ==
  LET from == Resolve(p, r)
      at   == Offsets(p, to)
      corner == <<Min({c[1] : c \in from}), Min({c[2] : c \in from})>>
      Source(d) == <<d[1] - at[1] + corner[1], d[2] - at[2] + corner[2]>>
      into == {d \in Cell : Source(d) \in from}
  IN IF from = {} \/ at \notin Cell THEN p
     ELSE [p EXCEPT !.cells = [c \in Cell |-> IF c \in into THEN p.cells[Source(c)] ELSE @[c]],
                    !.guarded = {c \in Cell : IF c \in into THEN Source(c) \in @ ELSE c \in @}]

-----------------------------------------------------------------------------
(* Behaviour.                                                              *)

TextInit == book \in Pages /\ strokes = 0 /\ page = NewPage

Edit(p, op) ==
  CASE op[1] = "type"  -> Type(p, op[2])
    [] op[1] = "guard" -> [Type(p, op[2]) EXCEPT !.guarded =
                             @ \union {IF p.pending THEN <<1, IF p.y = Rows THEN Rows ELSE p.y + 1>> ELSE <<p.x, p.y>>}]
    [] op[1] = "newline" -> NewLine(p)
    [] op[1] = "133"   -> Shell(p, op[2], op[3])
    [] op[1] = "fill"  -> FillRect(p, op[2], op[3])
    [] op[1] = "erase" -> EraseRect(p, op[2])
    [] op[1] = "sera"  -> SelectiveEraseRect(p, op[2])
    [] op[1] = "copy"  -> CopyRect(p, op[2], op[3])
    [] op[1] = "origin" -> [p EXCEPT !.origin = TRUE, !.top = op[2], !.bottom = op[3], !.x = 1, !.y = op[2], !.pending = FALSE]

Stroke ==
  /\ strokes < book.max
  /\ \E op \in book.ops : page' = Edit(page, op)
  /\ strokes' = strokes + 1
  /\ UNCHANGED book

-----------------------------------------------------------------------------
(* Properties.                                                             *)

\* A word is the same word wherever in it the user clicks (but for the last cell
\* of a row that does not wrap, which reaches on into the next), and so is a
\* line; a word stays inside its line (select_word, select_line: the wrap flag).
\* What is copied is every character once and in order, whichever end the gesture
\* began at, and a line is copied as one line (format, select_all).
SelectionsAgree ==
  /\ LET all == SelectAll(page)
         ink == SelectSeq([n \in 1..LastCell |-> CellAt(n)], LAMBDA c : ~IsBlank(page, c)) IN
     all # <<>> =>
       /\ SelectSeq(Format(page, all), LAMBDA ch : ch \notin {" ", "\n"}) = [k \in DOMAIN ink |-> page.cells[ink[k]]]
       /\ Format(page, <<all[2], all[1]>>) = Format(page, all)
  /\ \A c \in Cell :
       /\ LET w == SelectWord(page, c) IN
          w # <<>> /\ ~EndsRow(page, c) =>
            /\ \A n \in At(w[1])..At(w[2]) : ~EndsRow(page, CellAt(n)) => SelectWord(page, CellAt(n)) = w
            /\ \A y \in w[1][2]..w[2][2]-1 : page.wrap[y]
       /\ LET l == SelectLine(page, c) IN
          l # <<>> =>
            /\ \A n \in At(l[1])..At(l[2]) : SelectLine(page, CellAt(n)) = l
            /\ "\n" \notin Range(Format(page, l))

\* Copying a rectangle onto itself, in any direction, puts down what was there
\* before; no rectangle reaches outside itself, or past the margins when it is
\* told from them; protected text outlives a selective erase
\* (copy_rect's capture, resolve_rect).
RectanglesKeepTo ==
  [][\A op \in book.ops :
       /\ op[1] = "copy" /\ page' = Edit(page, op) =>
            \A d \in Cell : page'.cells[d] = page.cells[d]
              \/ \E c \in Resolve(page, op[2]) :
                   page'.cells[d] = page.cells[c] /\ d[1] - c[1] = Offsets(page, op[3])[1] - Or(op[2][2], 1)
                     /\ d[2] - c[2] = Offsets(page, op[3])[2] - Or(op[2][1], 1) - (IF page.origin THEN page.top - 1 ELSE 0)
       /\ op[1] = "fill" /\ page.origin /\ page' = Edit(page, op) =>
            \A d \in Cell : d[2] \notin page.top..page.bottom => page'.cells[d] = page.cells[d]]_xvars
=============================================================================
