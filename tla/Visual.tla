------------------------------- MODULE Visual -------------------------------
(***************************************************************************)
(* Where the cells of a row are drawn: reordering (crates/frame/src/       *)
(* bidi.rs), runs and the caret (frame.rs), the words a cell, a style and  *)
(* the modes cross the channel in (packed.rs, publish.rs), and the order a *)
(* row is painted in (crates/render/src/renderer.rs, color.rs).            *)
(*                                                                         *)
(* A character is the little the code asks of it: "a" and "<" are ASCII,   *)
(* "1" a digit, "j" and "k" Arabic letters of two fonts, "w" a wide letter,*)
(* "|" box drawing and "" no text.  A word is the set of its bits that are *)
(* on, so that all 64 keep their places.  Columns count from 0.            *)
(***************************************************************************)
EXTENDS Integers, Sequences, SequencesExt, FiniteSetsExt

CONSTANTS LineCols,   \* the columns of the row
          Looks,      \* the styles in the frame's table, from style 0
          Inks,       \* what a program prints: a character and a style
          LinkSlots   \* LINK_SLOTS

ASSUME VisualAssumption ==
  /\ LineCols \in Nat \ {0} /\ LinkSlots \in Nat
  /\ \A ink \in Inks : ink[2] \in 0..Len(Looks) - 1

VARIABLES line, \* the row's cells: character, style, and which part of a wide one
          base  \* Frame::base_direction

lvars == <<line, base>>

-----------------------------------------------------------------------------
(* Characters and cells.                                                   *)

Glyph(ch, style, wide) == [ch |-> ch, style |-> style, wide |-> wide]
BlankCell == Glyph("", 0, "narrow")

IsLayout(ch)  == ch = "|"
NeedsBidi(ch) == ch \in {"j", "k"}
Mirror(ch)    == IF ch = "<" THEN ">" ELSE ch
Class(ch)     == CASE ch \in {"a", "w"} -> "L" [] ch \in {"j", "k"} -> "R" [] ch = "1" -> "EN" [] OTHER -> "N"
Ascii         == {"a", "<", "1"}
FontOf(ch)    == IF ch = "k" THEN 2 ELSE 1

CellWidth(cell) == CASE cell.wide = "wide" -> 2 [] cell.wide = "tail" -> 0 [] OTHER -> 1
WidthOf(row, from, to) ==
  (to + 1 - from) + Cardinality({i \in from..to : row[i].wide = "wide"})
                  - Cardinality({i \in from..to : row[i].wide = "tail"})

-----------------------------------------------------------------------------
(* Reordering.  Stretches are <<first, last>>, in cells from 1.            *)

\* from..to, divided before each of `starts`.
Stretches(from, to, starts) ==
  LET firsts == SelectSeq([i \in 1..to + 1 - from |-> from + i - 1], LAMBDA i : i = from \/ i \in starts)
  IN [k \in 1..Len(firsts) |-> <<firsts[k], IF k = Len(firsts) THEN to ELSE firsts[k + 1] - 1>>]

\* Every layout character is a segment of its own.
Segments(row) ==
  Stretches(1, Len(row), {i \in 1..Len(row) : IsLayout(row[i].ch) \/ (i > 1 /\ IsLayout(row[i - 1].ch))})

Paragraph(classes, hint) ==
  LET strong == {i \in DOMAIN classes : classes[i] \in {"L", "R"}}
  IN CASE hint = "ltr" -> 0
       [] hint = "rtl" -> 1
       [] OTHER -> IF strong # {} /\ classes[Min(strong)] = "R" THEN 1 ELSE 0

\* The Unicode algorithm on these classes, which wezterm-bidi runs: the levels of the characters.
Weak(classes, p) == \* W7
  [i \in DOMAIN classes |->
    LET strong == {j \in 1..i : classes[j] \in {"L", "R"}}
        before == IF strong = {} THEN (IF p = 0 THEN "L" ELSE "R") ELSE classes[Max(strong)]
    IN IF classes[i] = "EN" /\ before = "L" THEN "L" ELSE classes[i]]
Side(types, places, last, p) == \* the direction a neutral sees on one side
  CASE places = {} -> (IF p = 0 THEN "L" ELSE "R")
    [] types[IF last THEN Max(places) ELSE Min(places)] = "L" -> "L"
    [] OTHER -> "R"
Neutral(types, p) == \* N1, N2
  [i \in DOMAIN types |->
    LET firm  == {j \in DOMAIN types : types[j] # "N"}
        left  == Side(types, {j \in firm : j < i}, TRUE, p)
        right == Side(types, {j \in firm : j > i}, FALSE, p)
    IN IF types[i] # "N" THEN types[i]
       ELSE IF left = right THEN left ELSE (IF p = 0 THEN "L" ELSE "R")]
Levels(chars, types, p) == \* I1, I2, and L1 for the padding at the end
  [i \in DOMAIN chars |->
    IF \A j \in i..Len(chars) : chars[j] = "" THEN p
    ELSE CASE types[i] = "L" -> (IF p = 0 THEN 0 ELSE 2)
           [] types[i] = "R" -> 1
           [] OTHER -> 2]
Flipped(runs, level) == \* L2: what stands at this level or above reads the other way
  [k \in 1..Len(runs) |->
    IF runs[k].level < level THEN runs[k]
    ELSE LET lo == Min({a \in 1..k : \A b \in a..k : runs[b].level >= level})
             hi == Max({a \in k..Len(runs) : \A b \in k..a : runs[b].level >= level})
         IN runs[lo + hi - k]]
LevelRuns(levels) ==
  LET pieces == Stretches(1, Len(levels), {i \in 2..Len(levels) : levels[i] # levels[i - 1]})
  IN [k \in 1..Len(pieces) |-> [from |-> pieces[k][1], to |-> pieces[k][2], level |-> levels[pieces[k][1]]]]
Reordered(chars, hint) ==
  LET classes == [i \in DOMAIN chars |-> Class(chars[i])]
      p       == Paragraph(classes, hint)
  IN Flipped(Flipped(LevelRuns(Levels(chars, Neutral(Weak(classes, p), p), p)), 2), 1)

\* Under a right-to-left base even neutrals reverse, so there nothing may be skipped.
SkipsAnyBase(chars, hint) == \A i \in DOMAIN chars : ~NeedsBidi(chars[i])
Skips(chars, hint) == hint # "rtl" /\ \A i \in DOMAIN chars : ~NeedsBidi(chars[i])

SegmentSpans(row, seg, hint, skip) ==
  LET chars == [i \in 1..seg[2] + 1 - seg[1] |-> row[seg[1] + i - 1].ch]
      runs  == IF skip /\ Skips(chars, hint) THEN <<[from |-> 1, to |-> Len(chars), level |-> 0]>>
               ELSE Reordered(chars, hint)
  IN [k \in 1..Len(runs) |-> [from |-> seg[1] + runs[k].from - 1, to |-> seg[1] + runs[k].to - 1,
                              rtl |-> runs[k].level % 2 = 1]]

VisualSpans(row, hint, skip) ==
  LET segs  == Segments(row)
      spans == FlattenSeq([k \in 1..Len(segs) |-> SegmentSpans(row, segs[k], hint, skip)])
  IN [k \in 1..Len(spans) |->
       [from |-> spans[k].from, to |-> spans[k].to, rtl |-> spans[k].rtl,
        column |-> MapThenSumSet(LAMBDA j : WidthOf(row, spans[j].from, spans[j].to), 1..k - 1)]]

-----------------------------------------------------------------------------
(* Runs: a span, broken where its style changes.  A spacer tail breaks     *)
(* nothing, whatever its style.                                            *)

Breaks(row, span) ==
  {i \in span.from + 1..span.to :
     /\ row[i].wide # "tail"
     /\ row[i].style # row[Max({span.from} \cup {j \in span.from..i - 1 : row[j].wide # "tail"})].style}
SpanRuns(row, span) ==
  LET pieces == Stretches(span.from, span.to, Breaks(row, span))
      Before(piece) == WidthOf(row, span.from, piece[1] - 1)
  IN [k \in 1..Len(pieces) |->
       [start |-> IF span.rtl
                    THEN span.column + WidthOf(row, span.from, span.to) - Before(pieces[k])
                           - WidthOf(row, pieces[k][1], pieces[k][2])
                    ELSE span.column + Before(pieces[k]),
        logical |-> pieces[k][1] - 1, rtl |-> span.rtl, style |-> row[pieces[k][1]].style,
        cells |-> SubSeq(row, pieces[k][1], pieces[k][2])]]
Runs(row, hint, skip) ==
  LET spans == VisualSpans(row, hint, skip)
  IN FlattenSeq([k \in 1..Len(spans) |-> SpanRuns(row, spans[k])])

\* Where the i-th cell of a run is drawn, i from 1.
ColumnLtr(run, i) == run.start + WidthOf(run.cells, 1, i - 1)
ColumnOf(run, i) ==
  IF run.rtl THEN run.start + WidthOf(run.cells, i + 1, Len(run.cells)) ELSE ColumnLtr(run, i)

\* Each cell's place: the run, and where in it.
Places(runs) == UNION {{<<k, i>> : i \in 1..Len(runs[k].cells)} : k \in 1..Len(runs)}

VisualColumn(runs, x) ==
  LET there == {at \in Places(runs) : runs[at[1]].logical + at[2] - 1 = x}
  IN IF there = {} THEN x ELSE LET at == CHOOSE at \in there : TRUE IN ColumnOf(runs[at[1]], at[2])

\* The cell drawn over a screen column; a spacer tail owns none.
Showing(runs, column) ==
  {at \in Places(runs) :
     column - ColumnOf(runs[at[1]], at[2]) \in 0..CellWidth(runs[at[1]].cells[at[2]]) - 1}
LogicalColumn(runs, column) == {runs[at[1]].logical + at[2] - 1 : at \in Showing(runs, column)}

\* The next other cell as the eye sees it, or x itself at the row's edge.
StepVisually(runs, x, motion, cols) ==
  LET here   == VisualColumn(runs, x)
      beyond == {c \in (IF motion = "left" THEN 0..here - 1 ELSE here + 1..cols - 1) :
                   LogicalColumn(runs, c) \notin {{}, {x}}}
  IN IF beyond = {} THEN x
     ELSE CHOOSE l \in LogicalColumn(runs, IF motion = "left" THEN Max(beyond) ELSE Min(beyond)) : TRUE

-----------------------------------------------------------------------------
(* What a cell is drawn with.  A colour is <<0>>, <<1, index>> or          *)
(* <<2, r, g, b>>, in four places.                                         *)

NoColour == <<0, 0, 0, 0>>
DefaultInk == <<2, 255, 255, 255>>
DefaultGround == <<2, 13, 13, 13>>
Resolve(colour, fallback) == IF colour = NoColour THEN fallback ELSE colour

\* Inverse after the defaults, and the underline after inverse.
Drawn(look) ==
  LET low    == "bold" \in look.flags /\ look.fg[1] = 1 /\ look.fg[2] \in 0..7
      ink    == IF low THEN <<1, look.fg[2] + 8, 0, 0>> ELSE Resolve(look.fg, DefaultInk)
      ground == Resolve(look.bg, DefaultGround)
      front  == IF "inverse" \in look.flags THEN ground ELSE ink
  IN [foreground |-> front, background |-> IF "inverse" \in look.flags THEN ink ELSE ground,
      ink |-> "invisible" \notin look.flags, underline |-> look.underline,
      underlineColour |-> Resolve(look.under, front)]
DrawnAs == [k \in 1..Len(Looks) |-> Drawn(Looks[k])]

\* The fills an underline is drawn with, in pixels of a cell `span` wide and `height` high.
Dashes(span, t, step, long) == {<<x, Min({long, span - x})>> : x \in {n * step : n \in 0..span} \cap 0..span - 1}
UnderlineTopBare(height, baseline) == baseline + 1
UnderlineTop(height, baseline) == Min({baseline + 1, height - 3 * Max({height \div 16, 1})})
Underlined(kind, span, height, baseline) ==
  LET t == Max({height \div 16, 1})
      y == UnderlineTop(height, baseline)
      Fills(dashes, dy) == {<<d[1], y + dy, d[2], t>> : d \in dashes}
  IN CASE kind = 0 -> {}
       [] kind = 1 -> {<<0, y, span, t>>}
       [] kind = 2 -> {<<0, y, span, t>>, <<0, y + 2 * t, span, t>>}
       [] kind = 3 -> {<<d[1], y + (IF (d[1] \div t) % 2 = 0 THEN 0 ELSE t), d[2], t>> : d \in Dashes(span, t, t, t)}
       [] kind = 4 -> Fills(Dashes(span, t, 2 * t, t), 0)
       [] kind = 5 -> Fills(Dashes(span, t, 5 * t, 3 * t), 0)

-----------------------------------------------------------------------------
(* Painting a row.                                                         *)

\* The images below the background: boxes of cells.
Covers(boxes, y, col, width) ==
  \E b \in boxes : y \in b.row..b.row + b.rows - 1 /\ col < b.col + b.cols /\ col + width > b.col
UnskippedSpans(cols, y, boxes) ==
  LET free == {c \in 0..cols - 1 : ~Covers(boxes, y, c, 1)}
      Span(ab) == ab[1] <= ab[2] /\ ab[1]..ab[2] \subseteq free /\ {ab[1] - 1, ab[2] + 1} \cap free = {}
  IN {<<ab[1], ab[2] + 1 - ab[1]>> : ab \in {ab \in free \X free : Span(ab)}}

\* Stretches of two cells and more that are shaped as one string: the maximal ones in `fit`
\* whose neighbours go together.
Plans(cells, fit, Together(_, _)) ==
  {ab \in fit \X fit :
     /\ ab[1] < ab[2] /\ ab[1]..ab[2] \subseteq fit
     /\ \A i \in ab[1]..ab[2] - 1 : Together(cells[i], cells[i + 1])
     /\ ab[1] - 1 \notin fit \/ ~Together(cells[ab[1] - 1], cells[ab[1]])
     /\ ab[2] + 1 \notin fit \/ ~Together(cells[ab[2]], cells[ab[2] + 1])}
\* The font draws "a<" as one glyph.
Formed(cells, ab) == \E i \in ab[1]..ab[2] - 1 : cells[i].ch = "a" /\ cells[i + 1].ch = "<"
LigaturePlan(run) ==
  IF run.rtl THEN {}
  ELSE {ab \in Plans(run.cells, {i \in 1..Len(run.cells) : CellWidth(run.cells[i]) = 1 /\ run.cells[i].ch \in Ascii},
                     LAMBDA c, d : TRUE) : Formed(run.cells, ab)}
JoiningPlan(run) ==
  Plans(run.cells, {i \in 1..Len(run.cells) : CellWidth(run.cells[i]) = 1 /\ run.cells[i].ch \in {"j", "k"}},
        LAMBDA c, d : FontOf(c.ch) = FontOf(d.ch))

Paint(op, col, width, ch, colour) == [op |-> op, col |-> col, width |-> width, ch |-> ch, colour |-> colour]
CellPaints(run, i, planned, y, boxes) ==
  LET drawn  == DrawnAs[run.style + 1]
      col    == ColumnOf(run, i)
      width  == CellWidth(run.cells[i])
      yields == drawn.background = DefaultGround /\ Covers(boxes, y, col, width)
      ch     == run.cells[i].ch
  IN IF width = 0 THEN <<>>
     ELSE (IF yields THEN <<>> ELSE <<Paint("fill", col, width, "", drawn.background)>>)
       \o (IF drawn.ink /\ i \notin planned /\ ch # ""
           THEN <<Paint("ink", col, width, IF run.rtl THEN Mirror(ch) ELSE ch, drawn.foreground)>> ELSE <<>>)
       \o (IF drawn.underline # 0 THEN <<Paint("line", col, width, "", drawn.underlineColour)>> ELSE <<>>)
\* A ligature is drawn from its first cell's column, a joined letter in its own.
PlanPaints(run, plans, joined) ==
  FlattenSeq([i \in 1..Len(run.cells) |->
    SetToSeq({Paint("ink", IF joined THEN ColumnOf(run, i) ELSE ColumnOf(run, ab[1]) + i - ab[1], 1,
                    run.cells[i].ch, DrawnAs[run.style + 1].foreground) :
              ab \in {p \in plans : i \in p[1]..p[2]}})])
RunPaints(run, y, boxes) ==
  LET shows == DrawnAs[run.style + 1].ink
      ligs  == IF shows THEN LigaturePlan(run) ELSE {}
      joins == IF shows THEN JoiningPlan(run) ELSE {}
      planned == UNION {ab[1]..ab[2] : ab \in ligs \cup joins}
  IN FlattenSeq([i \in 1..Len(run.cells) |-> CellPaints(run, i, planned, y, boxes)])
       \o PlanPaints(run, ligs, FALSE) \o PlanPaints(run, joins, TRUE)
DrawRow(runs, y, boxes, cols) ==
  LET clears == SetToSeq(UnskippedSpans(cols, y, boxes))
  IN [k \in 1..Len(clears) |-> Paint("fill", clears[k][1], clears[k][2], "", DefaultGround)]
       \o FlattenSeq([k \in 1..Len(runs) |-> RunPaints(runs[k], y, boxes)])

\* The caret covers one column of its cell, and draws the cell again in the background's colour.
DrawCursor(runs, row, x, cols) ==
  IF x >= cols THEN <<>>
  ELSE LET col == VisualColumn(runs, x)
           mirrored == \E k \in 1..Len(runs) :
                         runs[k].rtl /\ x \in runs[k].logical..runs[k].logical + Len(runs[k].cells) - 1
           ch == row[x + 1].ch
       IN <<Paint("caret", col, 1, "", DefaultInk)>>
            \o (IF ch = "" THEN <<>>
                ELSE <<Paint("ink", col, CellWidth(row[x + 1]), IF mirrored THEN Mirror(ch) ELSE ch, DefaultGround)>>)

\* The highlighted columns of row y, in the coordinates of this frame.
Ordered(sel) ==
  IF sel.to[2] < sel.from[2] \/ (sel.to[2] = sel.from[2] /\ sel.to[1] < sel.from[1])
    THEN [from |-> sel.to, to |-> sel.from] ELSE sel
SpanOnUnclamped(sel, y, cols) ==
  LET s == Ordered(sel)
  IN IF cols = 0 \/ y \notin s.from[2]..s.to[2] THEN {}
     ELSE (IF y = s.from[2] THEN s.from[1] ELSE 0)..(IF y = s.to[2] THEN s.to[1] ELSE cols - 1)

SpanOn(sel, y, cols) ==
  LET s    == Ordered(sel)
      from == IF y = s.from[2] THEN s.from[1] ELSE 0
      to   == Min({IF y = s.to[2] THEN s.to[1] ELSE cols - 1, cols - 1})
  IN IF cols = 0 \/ y \notin s.from[2]..s.to[2] \/ from > to THEN {} ELSE from..to
-----------------------------------------------------------------------------
(* The words of the channel.                                               *)

Bits(n)      == {b \in 0..15 : (n \div 2^b) % 2 = 1}
Value(bits)  == MapThenSumSet(LAMBDA b : 2^b, bits)
Up(bits, k)  == {b + k : b \in bits} \cap 0..63
Down(bits, k, width) == {b - k : b \in bits \cap k..k + width - 1}

Wides     == <<"narrow", "wide", "tail", "head">>
Semantics == <<"output", "input", "prompt">>
CodeOf(names, name) == (CHOOSE k \in 1..Len(names) : names[k] = name) - 1
NameOf(names, code) == IF code < Len(names) THEN names[code + 1] ELSE names[1]

\* A cluster is the lengths of its characters, in bytes; what fits ends where a character does.
ClusterBytes == 16
Upto(cluster, k) == MapThenSumSet(LAMBDA i : cluster[i], 1..k)
FloorPast(cluster, limit) == Min({Len(cluster)} \cup {k \in 0..Len(cluster) : Upto(cluster, k) >= limit})
FloorBoundary(cluster, limit) == Max({k \in 0..Len(cluster) : Upto(cluster, k) <= limit})
PackCell(c) ==
  LET kept == FloorBoundary(c.cluster, ClusterBytes)
  IN [text  |-> SubSeq(c.cluster, 1, kept),
      attrs |-> Bits(c.style) \cup Up(Bits(CodeOf(Wides, c.wide)), 16) \cup Up(Bits(CodeOf(Semantics, c.semantic)), 18)
                  \cup (IF kept < Len(c.cluster) THEN {24} ELSE {})]
WithLink(packed, link) == [packed EXCEPT !.attrs = (@ \ 32..39) \cup Up(Bits(link), 32)]
UnpackCell(packed) ==
  [cluster |-> packed.text, style |-> Value(Down(packed.attrs, 0, 16)),
   wide |-> NameOf(Wides, Value(Down(packed.attrs, 16, 2))),
   semantic |-> NameOf(Semantics, Value(Down(packed.attrs, 18, 2))),
   truncated |-> 24 \in packed.attrs, link |-> Value(Down(packed.attrs, 32, 8))]

PackColour(c) ==
  CASE c[1] = 0 -> {}
    [] c[1] = 1 -> {0} \cup Up(Bits(c[2]), 2)
    [] c[1] = 2 -> {1} \cup Up(Bits(c[2]), 2) \cup Up(Bits(c[3]), 10) \cup Up(Bits(c[4]), 18)
UnpackColour(bits) ==
  LET Byte(k) == Value(Down(bits, k, 8))
  IN CASE Down(bits, 0, 2) = {0} -> <<1, Byte(2), 0, 0>>
       [] Down(bits, 0, 2) = {1} -> <<2, Byte(2), Byte(10), Byte(18)>>
       [] OTHER -> NoColour
Flags == <<"bold", "italic", "faint", "blink", "inverse", "invisible", "strikethrough", "overline">>
ColourBits == 26
PackLook(look) ==
  <<PackColour(look.fg) \cup Up(PackColour(look.bg), ColourBits)
      \cup {2 * ColourBits + k - 1 : k \in {f \in 1..8 : Flags[f] \in look.flags}}
      \cup Up(Bits(look.underline), 2 * ColourBits + 8), PackColour(look.under)>>
UnpackLook(words) ==
  LET line6 == Value(Down(words[1], 2 * ColourBits + 8, 3))
  IN [fg |-> UnpackColour(Down(words[1], 0, ColourBits)), bg |-> UnpackColour(Down(words[1], ColourBits, ColourBits)),
      under |-> UnpackColour(Down(words[2], 0, ColourBits)),
      flags |-> {Flags[k] : k \in {f \in 1..8 : 2 * ColourBits + f - 1 \in words[1]}},
      underline |-> IF line6 > 5 THEN 0 ELSE line6]

ModeFlags == <<"bracketed", "synchronized", "", "", "", "", "", "", "alternate_scroll", "alternate_screen", "cursor_keys",
               "keypad_keys", "ignore_keypad", "alt_esc", "modify_other">>
KittyShift == 15
PackModes(m) ==
  {k - 1 : k \in {f \in 1..Len(ModeFlags) : ModeFlags[f] \in m.on}}
    \cup Up(Bits(m.event), 2) \cup Up(Bits(m.format), 5) \cup Up(Bits(m.kitty), KittyShift)
\* A bit pattern of a newer writer reads as no reports, and as the oldest format.
UnpackModes(word) ==
  LET event == Value(Down(word, 2, 3))  format == Value(Down(word, 5, 3))
  IN [on |-> {ModeFlags[k] : k \in {f \in 1..Len(ModeFlags) : ModeFlags[f] # "" /\ f - 1 \in word}},
      event |-> IF event > 4 THEN 0 ELSE event, format |-> IF format > 4 THEN 0 ELSE format,
      kitty |-> Value(Down(word, KittyShift, 5))]

-----------------------------------------------------------------------------
(* The tables of a frame.                                                  *)

\* The slot of a link among those already given out, or 0 when all are taken.
FrameLinkAlways(slots, id) ==
  IF Len(slots) >= LinkSlots THEN [slots |-> slots, slot |-> 0] ELSE [slots |-> Append(slots, id), slot |-> Len(slots) + 1]
FrameLink(slots, id) ==
  IF Contains(slots, id) THEN [slots |-> slots, slot |-> CHOOSE k \in 1..Len(slots) : slots[k] = id]
  ELSE IF Len(slots) >= LinkSlots THEN [slots |-> slots, slot |-> 0]
  ELSE [slots |-> Append(slots, id), slot |-> Len(slots) + 1]
\* The cells' link ids, 0 for none, in the order the publisher meets them.
PublishLinks(ids) ==
  FoldLeft(LAMBDA acc, id : IF id = 0 THEN [acc EXCEPT !.cells = Append(@, 0)]
                            ELSE LET r == FrameLink(acc.slots, id)
                                 IN [slots |-> r.slots, cells |-> Append(acc.cells, r.slot)],
           [slots |-> <<>>, cells |-> <<>>], ids)
LinkOf(frame, x) == IF frame.cells[x] = 0 THEN 0 ELSE frame.slots[frame.cells[x]]

\* A history row's style joins the grid's table, or is the default where that is full.
Intern(styles, cap, look) ==
  IF Contains(styles, look) THEN [styles |-> styles, id |-> (CHOOSE k \in 1..Len(styles) : styles[k] = look) - 1]
  ELSE IF Len(styles) >= cap THEN [styles |-> styles, id |-> 0]
  ELSE [styles |-> Append(styles, look), id |-> Len(styles)]
PublishHistory(styles, cap, looks) ==
  FoldLeft(LAMBDA acc, look : LET r == Intern(acc.styles, cap, look)
                              IN [styles |-> r.styles, ids |-> Append(acc.ids, r.id)],
           [styles |-> styles, ids |-> <<>>], looks)

-----------------------------------------------------------------------------
(* The row as it changes: the core keeps a half of a wide character that   *)
(* is printed over, so a row may hold a head or a tail alone.              *)

LineInit == line = [x \in 1..LineCols |-> BlankCell] /\ base \in {"ltr", "rtl", "auto"}

PrintNarrow ==
  \E x \in 1..LineCols, ink \in Inks :
    /\ ink[1] # "w"
    /\ line' = [line EXCEPT ![x] = Glyph(ink[1], ink[2], "narrow")]
    /\ UNCHANGED base
PrintWide ==
  \E x \in 1..LineCols - 1, ink \in Inks :
    /\ ink[1] = "w"
    /\ line' = [line EXCEPT ![x] = Glyph("w", ink[2], "wide"), ![x + 1] = Glyph("", ink[2], "tail")]
    /\ UNCHANGED base

LineNext == PrintNarrow \/ PrintWide

-----------------------------------------------------------------------------
(* Properties.                                                             *)

Whole(row) ==
  \A x \in 1..Len(row) :
    /\ row[x].wide = "wide" => x < Len(row) /\ row[x + 1].wide = "tail"
    /\ row[x].wide = "tail" => x > 1 /\ row[x - 1].wide = "wide"

\* Whatever the row holds, its runs take every cell once.
CellsOnce(runs) ==
  \A x \in 0..LineCols - 1 : Cardinality({at \in Places(runs) : runs[at[1]].logical + at[2] - 1 = x}) = 1

\* On a row of whole characters every column shows exactly one cell, the caret's column shows the
\* caret's cell, and box drawing stays where the program put it.
ColumnsAgree(runs) ==
  /\ \A c \in 0..LineCols - 1 : Cardinality(LogicalColumn(runs, c)) = 1
  /\ \A x \in 0..LineCols - 1 :
       line[x + 1].wide # "tail" => LogicalColumn(runs, VisualColumn(runs, x)) = {x}
  /\ \A x \in 0..LineCols - 1 : IsLayout(line[x + 1].ch) => VisualColumn(runs, x) = x

\* Letters side by side read in their own direction, text between two box characters stays between
\* them, and a row with nothing to reorder is where the program put it.
ReadsRight(runs) ==
  LET Col(x) == VisualColumn(runs, x) IN
  /\ \A x \in 0..LineCols - 2 :
       /\ {line[x + 1].ch, line[x + 2].ch} \subseteq {"j", "k"} => Col(x) = Col(x + 1) + 1
       /\ <<line[x + 1].ch, line[x + 2].ch>> \in {<<"a", "a">>, <<"a", "1">>, <<"1", "1">>}
            => Col(x + 1) = Col(x) + 1
  /\ \A x \in 0..LineCols - 1 : \A y \in 0..LineCols - 1 :
       IsLayout(line[y + 1].ch) /\ line[x + 1].wide # "tail" => ((x < y) <=> (Col(x) < Col(y)))
  /\ base # "rtl" /\ (\A x \in 1..LineCols : ~NeedsBidi(line[x].ch)) =>
       \A x \in 0..LineCols - 1 : line[x + 1].wide # "tail" => Col(x) = x

\* Stepping right from the leftmost cell visits every cell, and a step back returns.
StepsVisitAll(runs) ==
  LET cells == {x \in 0..LineCols - 1 : line[x + 1].wide # "tail"}
      Right(x) == StepVisually(runs, x, "right", LineCols)
  IN \A x \in cells :
       /\ Right(x) = x <=> VisualColumn(runs, x) + CellWidth(line[x + 1]) = LineCols
       /\ Right(x) # x => /\ Right(x) \in cells
                          /\ StepVisually(runs, Right(x), "left", LineCols) = x
                          /\ VisualColumn(runs, Right(x)) = VisualColumn(runs, x) + CellWidth(line[x + 1])

\* A row is painted without a hole: on every column the last fill is its cell's background (unless
\* an image below shows through), and every letter is drawn once, in its cell, after that fill.
PaintedOnce(runs, paints, boxes) ==
  \A at \in Places(runs) :
    LET cell  == runs[at[1]].cells[at[2]]
        drawn == DrawnAs[runs[at[1]].style + 1]
        col   == ColumnOf(runs[at[1]], at[2])
        Fills(c) == {n \in DOMAIN paints : paints[n].op = "fill" /\ c - paints[n].col \in 0..paints[n].width - 1}
        inks  == {n \in DOMAIN paints : paints[n].op = "ink" /\ paints[n].col = col}
    IN CellWidth(cell) > 0 =>
         /\ \A c \in col..col + CellWidth(cell) - 1 :
              IF Fills(c) = {} THEN drawn.background = DefaultGround /\ Covers(boxes, 0, col, CellWidth(cell))
              ELSE paints[Max(Fills(c))].colour = drawn.background
         /\ Cardinality(inks) = IF drawn.ink /\ cell.ch # "" THEN 1 ELSE 0
         /\ \A n \in inks : \A c \in col..col + CellWidth(cell) - 1 : \A f \in Fills(c) : f < n

\* The caret redraws the character its column showed.
CaretKeepsItsGlyph(runs, paints) ==
  \A x \in 0..LineCols - 1 :
    LET caret == DrawCursor(runs, line, x, LineCols) IN
    line[x + 1].wide # "tail" /\ Len(caret) = 2 =>
      \A n \in DOMAIN paints :
        paints[n].op = "ink" /\ paints[n].col = caret[1].col => paints[n].ch = caret[2].ch

SameColumns(runs, others) == \A x \in 0..LineCols - 1 : VisualColumn(runs, x) = VisualColumn(others, x)

OneImage == {[col |-> 1, row |-> -1, cols |-> 2, rows |-> 2]}

LineHolds ==
  LET Judge(runs) ==
        /\ CellsOnce(runs)
        /\ SameColumns(runs, Runs(line, base, FALSE))
        /\ Whole(line) =>
             /\ ColumnsAgree(runs) /\ ReadsRight(runs) /\ StepsVisitAll(runs)
             /\ \A boxes \in {{}, OneImage} : \A paints \in {DrawRow(runs, 0, boxes, LineCols)} :
                  PaintedOnce(runs, paints, boxes) /\ CaretKeepsItsGlyph(runs, paints)
  IN \A runs \in {Runs(line, base, TRUE)} : Judge(runs)

\* What a cell, a style and the modes are packed into unpacks to what they were: a cluster loses only
\* whole characters, and says so when it did.
SomeCells ==
  [cluster : {<<>>, <<1>>, <<2, 2, 2>>, <<4, 4, 4, 4>>, <<4, 4, 4, 3, 2>>, <<1, 3, 3, 3, 3, 3, 3>>},
   style : {0, 1, 65535}, wide : ToSet(Wides), semantic : ToSet(Semantics)]
SomeColours == {NoColour, <<1, 0, 0, 0>>, <<1, 255, 0, 0>>, <<2, 0, 0, 0>>, <<2, 255, 170, 1>>}
SomeLooks == [fg : SomeColours, bg : SomeColours, under : SomeColours, underline : 0..5,
              flags : {{}, ToSet(Flags)} \cup {{Flags[k]} : k \in 1..8}]
SomeModes == [on : {{}, ToSet(ModeFlags) \ {""}} \cup {{f} : f \in ToSet(ModeFlags) \ {""}},
              event : 0..4, format : 0..4, kitty : 0..31]
WordsComeBack ==
  /\ \A c \in SomeCells, link \in {0, 1, 64, 255} :
       LET back == UnpackCell(WithLink(PackCell(c), link)) IN
       /\ back.style = c.style /\ back.wide = c.wide /\ back.semantic = c.semantic /\ back.link = link
       /\ IsPrefix(back.cluster, c.cluster) /\ back.truncated = (back.cluster # c.cluster)
       /\ Upto(back.cluster, Len(back.cluster)) <= ClusterBytes
       /\ back.truncated => Upto(c.cluster, Len(back.cluster) + 1) > ClusterBytes
  /\ \A look \in SomeLooks : UnpackLook(PackLook(look)) = look
  /\ \A m \in SomeModes : UnpackModes(PackModes(m)) = m

\* A cell links where it did, or nowhere when the frame had no slot left; a history row keeps its
\* style, or takes the default when the table is full; and the grid's own entries never move.
TablesComeBack ==
  /\ \A ids \in TupleOf(0..LinkSlots + 1, 4) :
       LET frame == PublishLinks(ids) IN
       \A x \in 1..4 :
         \/ LinkOf(frame, x) = ids[x]
         \/ (LinkOf(frame, x) = 0 /\ Cardinality({ids[k] : k \in 1..x} \ {0}) > LinkSlots)
  /\ \A looks \in TupleOf(1..4, 4), own \in {<<1>>, <<1, 3>>} :
       LET frame == PublishHistory(own, 3, looks) IN
       /\ IsPrefix(own, frame.styles) /\ Len(frame.styles) <= 3
       /\ \A x \in 1..4 : \/ frame.styles[frame.ids[x] + 1] = looks[x]
                           \/ (frame.ids[x] = 0 /\ Cardinality(ToSet(own) \cup {looks[k] : k \in 1..x}) > 3)

\* A highlight is what lies between its ends in reading order, in either direction of the drag, and
\* never leaves a row that has become narrower than it was.
HighlightsHold ==
  \A from \in (0..4) \X (0..2), to \in (0..4) \X (0..2), y \in 0..3, cols \in 0..4 :
    LET sel == [from |-> from, to |-> to]
        At(p) == 5 * p[2] + p[1]
    IN SpanOn(sel, y, cols)
         = {x \in 0..cols - 1 : At(<<x, y>>) \in Min({At(from), At(to)})..Max({At(from), At(to)})}

\* An underline stays inside its row, so that repainting the row erases it.
UnderlinesHold ==
  \A kind \in 0..5, height \in 3..40, base1 \in {2, 10, 30, 39}, span \in {2, 9, 20} :
    base1 <= height =>
      \A f \in Underlined(kind, span, height, base1) :
        f[1] >= 0 /\ f[1] + f[3] <= span /\ f[2] >= 0 /\ f[2] + f[4] <= height

\* These say nothing of the row, so one row is enough to judge them on.
FirstRow  == base = "ltr" /\ line = [x \in 1..LineCols |-> BlankCell]
OnceHolds == FirstRow => WordsComeBack /\ TablesComeBack /\ HighlightsHold /\ UnderlinesHold
=============================================================================
