-------------------------------- MODULE Pen --------------------------------
(***************************************************************************)
(* Styles of the terminal core: what SGR does to the pen                   *)
(* (crates/core/src/sgr.rs), what a report says of it (replies.rs), and    *)
(* the table a grid's cells refer to their styles by (style.rs, grid.rs).  *)
(*                                                                         *)
(* A parameter is a sequence: its value, then its subparameters.  A cell   *)
(* is a style id; `meant` is the style it was written with.                *)
(***************************************************************************)
EXTENDS Integers, Sequences, SequencesExt

CONSTANTS MinTable,  \* the code's 256: a table is not compacted below it
          MaxIds,    \* u16: the ids there are
          NCells,    \* the cells of the grid
          Pens       \* the styles printed with

ASSUME PenAssumption == MinTable \in Nat /\ NCells \in Nat \ {0} /\ MaxIds \in Nat \ {0}

VARIABLES styles,  \* [table, cells]
          meant,   \* the style each cell was written with
          stale    \* a wide character wrapped with a blank the table had renumbered

svars == <<styles, meant, stale>>

-----------------------------------------------------------------------------
(* SGR.                                                                    *)

DefaultColor == <<"default">>
Palette(i)   == <<"palette", i>>
Plain        == [flags |-> {}, underline |-> "none", fg |-> DefaultColor, bg |-> DefaultColor,
                 line |-> DefaultColor]

Raises == [c \in 1..9 \ {4} |->
  CASE c = 1 -> "bold" [] c = 2 -> "faint" [] c = 3 -> "italic" [] c \in {5, 6} -> "blink"
    [] c = 7 -> "inverse" [] c = 8 -> "invisible" [] c = 9 -> "strike"]
Lowers == [c \in {22, 23, 25, 27, 28, 29} |->
  CASE c = 22 -> {"bold", "faint"} [] c = 23 -> {"italic"} [] c = 25 -> {"blink"}
    [] c = 27 -> {"inverse"} [] c = 28 -> {"invisible"} [] c = 29 -> {"strike"}]
Underlines == <<"single", "double", "curly", "dotted", "dashed">>

Channel(v) == IF v > 255 THEN 255 ELSE v

\* An unknown kind of underline is a single one.
UnderlineFrom(item) ==
  CASE Len(item) = 1 -> "single"
    [] Len(item) > 1 /\ item[2] = 0 -> "none"
    [] Len(item) > 1 /\ item[2] \in 1..5 -> Underlines[item[2]]
    [] OTHER -> "single"

\* A colour by subparameters, its channels taken from the end; <<>>: none.
ColorFromSub(sub) ==
  LET n == Len(sub) IN
  CASE sub[1] = 5 /\ n > 1 -> <<Palette(Channel(sub[2]))>>
    [] sub[1] = 2 /\ n >= 4 -> <<<<"rgb", Channel(sub[n-2]), Channel(sub[n-1]), Channel(sub[n])>>>>
    [] OTHER -> <<>>

\* A colour by itself or by the parameters that follow, and how many it takes.
ExtendedColor(items, i) ==
  LET None     == [color |-> <<>>, took |-> 0]
      Arg(k)   == items[i + k][1]
      Has(k)   == i + k <= Len(items)
  IN CASE Len(items[i]) > 1 -> [color |-> ColorFromSub(Tail(items[i])), took |-> 0]
       [] Len(items[i]) = 1 /\ Has(2) /\ Arg(1) = 5 ->
            [color |-> <<Palette(Channel(Arg(2)))>>, took |-> 2]
       [] Len(items[i]) = 1 /\ Has(4) /\ Arg(1) = 2 ->
            [color |-> <<<<"rgb", Channel(Arg(2)), Channel(Arg(3)), Channel(Arg(4))>>>>, took |-> 4]
       [] OTHER -> None

Paint(style, code, color) ==
  CASE code = 38 -> [style EXCEPT !.fg = color]
    [] code = 48 -> [style EXCEPT !.bg = color]
    [] code = 58 -> [style EXCEPT !.line = color]

\* One parameter that takes no other with it.
Simple(style, item) ==
  LET code == item[1] IN
  CASE code = 0 -> Plain
    [] code \in DOMAIN Raises -> [style EXCEPT !.flags = @ \union {Raises[code]}]
    [] code \in DOMAIN Lowers -> [style EXCEPT !.flags = @ \ Lowers[code]]
    [] code = 4  -> [style EXCEPT !.underline = UnderlineFrom(item)]
    [] code = 21 -> [style EXCEPT !.underline = "double"]
    [] code = 24 -> [style EXCEPT !.underline = "none"]
    [] code = 53 -> [style EXCEPT !.flags = @ \union {"overline"}]
    [] code = 55 -> [style EXCEPT !.flags = @ \ {"overline"}]
    [] code \in 30..37   -> [style EXCEPT !.fg = Palette(code - 30)]
    [] code \in 40..47   -> [style EXCEPT !.bg = Palette(code - 40)]
    [] code \in 90..97   -> [style EXCEPT !.fg = Palette(code - 82)]
    [] code \in 100..107 -> [style EXCEPT !.bg = Palette(code - 92)]
    [] code = 39 -> [style EXCEPT !.fg = DefaultColor]
    [] code = 49 -> [style EXCEPT !.bg = DefaultColor]
    [] code = 59 -> [style EXCEPT !.line = DefaultColor]
    [] OTHER -> style

\* sgr::apply.
Sgr(style, items) ==
  LET Step(acc, i) ==
        CASE acc.skip > 0 -> [acc EXCEPT !.skip = @ - 1]
          [] acc.skip = 0 /\ items[i][1] \notin {38, 48, 58} ->
               [acc EXCEPT !.style = Simple(@, items[i])]
          [] OTHER -> LET e == ExtendedColor(items, i) IN
               IF e.color = <<>> THEN acc
               ELSE [style |-> Paint(acc.style, items[i][1], e.color[1]), skip |-> e.took]
  IN FoldLeft(Step, [style |-> style, skip |-> 0], [i \in 1..Len(items) |-> i]).style

-----------------------------------------------------------------------------
(* The report of the pen.                                                  *)

\* base 30 or 40; the bright colours are 60 further.
ColorReport(color, base) ==
  CASE color[1] = "default" -> <<>>
    [] color[1] = "palette" /\ color[2] < 8 -> <<<<base + color[2]>>>>
    [] color[1] = "palette" /\ color[2] \in 8..15 -> <<<<base + 60 + color[2] - 8>>>>
    [] color[1] = "palette" /\ color[2] > 15 -> <<<<base + 8, 5, color[2]>>>>
    [] color[1] = "rgb" -> <<<<base + 8, 2, 0, color[2], color[3], color[4]>>>>

\* Every palette colour in the short form.
ColorReportShort(color, base) ==
  CASE color[1] = "default" -> <<>>
    [] color[1] = "palette" -> <<<<base + color[2]>>>>
    [] color[1] = "rgb" -> <<<<base + 8, 2, 0, color[2], color[3], color[4]>>>>

\* State::sgr_report: neither overline nor the underline's colour.
SgrReportShort(pen) == <<<<0>>>> \o ColorReportShort(pen.fg, 30) \o ColorReportShort(pen.bg, 40)
SgrReport(pen) ==
  LET Flag(c)   == IF Raises[c] \in pen.flags THEN <<<<c>>>> ELSE <<>>
      line      == CASE pen.underline = "none" -> <<>>
                     [] pen.underline = "single" -> <<<<4>>>>
                     [] OTHER -> <<<<4, CHOOSE k \in 2..5 : Underlines[k] = pen.underline>>>>
  IN <<<<0>>>> \o Flag(1) \o Flag(2) \o Flag(3) \o line \o Flag(5) \o Flag(7) \o Flag(8) \o Flag(9)
       \o ColorReport(pen.fg, 30) \o ColorReport(pen.bg, 40)

Reported(pen) == [pen EXCEPT !.flags = @ \ {"overline"}, !.line = DefaultColor]

-----------------------------------------------------------------------------
(* The table of styles.  Ids count from 0, the default style's.            *)

StyleOf(g, id) == IF id < Len(g.table) THEN g.table[id + 1] ELSE Plain
Id(table, style) == (CHOOSE k \in 1..Len(table) : table[k] = style) - 1

\* StyleTable::intern; [g, id].
Intern(g, style) ==
  CASE style = Plain -> [g |-> g, id |-> 0]
    [] style # Plain /\ style \in ToSet(g.table) -> [g |-> g, id |-> Id(g.table, style)]
    [] style # Plain /\ style \notin ToSet(g.table) /\ Len(g.table) = MaxIds -> [g |-> g, id |-> 0]
    [] OTHER -> [g |-> [g EXCEPT !.table = Append(@, style)], id |-> Len(g.table)]

\* StyleTable::compact: a fresh table of the styles in use, by their ids.
Relist(g, table, id) ==
  IF id \in ToSet(g.cells) THEN Intern([table |-> table], g.table[id + 1]).g.table ELSE table
Relisted(g) ==
  LET fresh[id \in 0..Len(g.table) - 1] ==
        IF id = 0 THEN <<Plain>> ELSE Relist(g, fresh[id - 1], id)
  IN fresh

\* Grid::compact_styles; an id the table does not know reads as the default.
Compact(g) ==
  LET table == Relisted(g)[Len(g.table) - 1]
  IN [table |-> table, cells |-> [i \in DOMAIN g.cells |-> Id(table, StyleOf(g, g.cells[i]))]]

Threshold == IF NCells > MinTable THEN NCells ELSE MinTable

\* Grid::intern_style: compacts before it hands out an id, never after.
InternStyleLate(g, style) ==
  LET got == Intern(g, style) IN
  IF Len(g.table) >= Threshold THEN [g |-> Compact(got.g), id |-> got.id] ELSE got
InternStyle(g, style) ==
  Intern(IF Len(g.table) >= Threshold THEN Compact(g) ELSE g, style)

\* State::blank: the pen's background and nothing else.
BlankStyle(pen) == [Plain EXCEPT !.bg = pen.bg]

WriteCell(g, i, id) == [g EXCEPT !.cells[i] = id]

\* The table holds a style for every cell and one more before ids run out; a
\* grid of 65535 cells has none to spare (StyleTable::intern).
TableHasRoom == MinTable <= MaxIds /\ NCells + 1 < MaxIds

-----------------------------------------------------------------------------
(* Writing cells.                                                          *)

StylesInit ==
  /\ styles = [table |-> <<Plain>>, cells |-> [i \in 1..NCells |-> 0]]
  /\ meant = [i \in 1..NCells |-> Plain] /\ stale = FALSE

\* print_char takes the blank first, then the pen: a cell.
PrintCell(i, pen) ==
  \E b \in {InternStyle(styles, BlankStyle(pen))} : \E p \in {InternStyle(b.g, pen)} :
    /\ styles' = WriteCell(p.g, i, p.id)
    /\ meant' = [meant EXCEPT ![i] = pen]
    /\ UNCHANGED stale

\* An erase, a scroll or an insert: the blank in a span of cells.
EraseCells(i, j, pen) ==
  \E b \in {InternStyle(styles, BlankStyle(pen))} :
    /\ styles' = [b.g EXCEPT !.cells = [k \in DOMAIN @ |-> IF k \in i..j THEN b.id ELSE @[k]]]
    /\ meant' = [k \in DOMAIN meant |-> IF k \in i..j THEN BlankStyle(pen) ELSE meant[k]]
    /\ UNCHANGED stale

\* A wide character at the edge: the spacer head takes the pen, and the wrap
\* that follows scrolls in a row of the blank taken before.
WrapWide(i, j, pen) ==
  \E b \in {InternStyle(styles, BlankStyle(pen))} : \E p \in {InternStyle(b.g, pen)} :
    /\ styles' = WriteCell(WriteCell(p.g, i, p.id), j, b.id)
    /\ meant' = [meant EXCEPT ![i] = pen, ![j] = BlankStyle(pen)]
    /\ stale' = (stale \/ StyleOf(p.g, b.id) # BlankStyle(pen))

StylesNext ==
  \E i, j \in 1..NCells, pen \in Pens :
    \/ i = j /\ PrintCell(i, pen)
    \/ EraseCells(i, j, pen)
    \/ i # j /\ WrapWide(i, j, pen)

-----------------------------------------------------------------------------
(* Properties.                                                             *)

\* A cell shows the style it was written with, however often the table has been
\* compacted and its ids reused since (Grid::intern_style, compact_styles).
CellsKeepTheirStyle == stale \/ \A i \in 1..NCells : StyleOf(styles, styles.cells[i]) = meant[i]
=============================================================================
