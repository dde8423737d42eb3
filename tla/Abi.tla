--------------------------------- MODULE Abi ---------------------------------
(***************************************************************************)
(* The drop-in C ABI of the terminal core (src/crates/abi/src/exports.rs;  *)
(* native.rs gives each entry point a second name), the reader that drives *)
(* it (src/crates/ghostty/src/terminal.rs, convert.rs), and the comparison *)
(* of what two readers saw (src/crates/snapshot/src/difference.rs).        *)
(*                                                                         *)
(* A terminal caches one snapshot of its core; every read is answered from *)
(* the cache and every write empties it.  A read holds the cache's lock    *)
(* for one call, so calls of two readers are steps in any order.  The core *)
(* is external here: a write leaves it at any of Contents.                 *)
(*                                                                         *)
(* A cell is [text, wide, semantic, style], its text the codepoints of the *)
(* cluster; a row [wrap, continued, prompt, cells]; a style is Pen's.      *)
(***************************************************************************)
EXTENDS Pen, FiniteSets

CONSTANTS CpSpan, StyleSpan, \* 2^21 and 2^16 in the code: what their fields hold
          Hash(_),           \* DefaultHasher over a style
          MaxIndex,          \* u16::MAX: the last row a reference can name
          Inline,            \* the clusters the reader's first buffer holds
          Contents           \* snapshots of the core: without damage or probes

VARIABLES held,  \* <<>>: no terminal; <<[core, dirty, full]>>
          cache, \* <<>> or <<view>>
          grefs, \* minted: [x, y, cell, row, live]; cell and row as they were
          kept   \* what a reader saw before, <<>> or <<snapshot>>
bvars == <<held, cache, grefs, kept>>

-----------------------------------------------------------------------------
(* A cell and a row packed in a word: a field is at a power of two and     *)
(* holds so many values.                                                   *)

Bit(b)              == IF b THEN 1 ELSE 0
Field(w, at, holds) == (w \div at) % holds
WideAt     == CpSpan
SemanticAt == WideAt * 4
StyleAt    == SemanticAt * 4
StyledAt   == StyleAt * StyleSpan
ClusterAt  == StyledAt * 2

\* Nonzero for every style but the default; equal styles, equal ids.
StyleIdPast(style) == IF style = Plain THEN 0 ELSE (Hash(style) % StyleSpan) + 1
StyleId(style)     == IF style = Plain THEN 0 ELSE (Hash(style) % (StyleSpan - 1)) + 1

PackCell(c) ==
  (IF c.text = <<>> THEN 0 ELSE c.text[1] % CpSpan)
    + c.wide * WideAt + c.semantic * SemanticAt + StyleId(c.style) * StyleAt
    + Bit(c.style # Plain) * StyledAt + Bit(Len(c.text) > 1) * ClusterAt

\* ghostty_cell_get.
CellGet(w, data) ==
  CASE data = "codepoint" -> Field(w, 1, CpSpan)
    [] data = "cluster"   -> Field(w, ClusterAt, 2)
    [] data = "wide"      -> Field(w, WideAt, 4)
    [] data = "semantic"  -> Field(w, SemanticAt, 4)
    [] data = "style id"  -> Field(w, StyleAt, StyleSpan)
    [] data = "has text"  -> Bit(Field(w, 1, CpSpan) # 0)
    [] data = "styled"    -> Field(w, StyledAt, 2)
    [] OTHER              -> 0

PackRow(r, dirty) ==
  Bit(r.wrap) + Bit(r.continued) * 2 + Bit(\E i \in DOMAIN r.cells : Len(r.cells[i].text) > 1) * 4
    + Bit(\E i \in DOMAIN r.cells : r.cells[i].style # Plain) * 8 + r.prompt * 16 + Bit(dirty) * 64

\* ghostty_row_get.
RowGet(w, data) ==
  CASE data = "wrap" -> Field(w, 1, 2) [] data = "continued" -> Field(w, 2, 2)
    [] data = "grapheme" -> Field(w, 4, 2) [] data = "styled" -> Field(w, 8, 2)
    [] data = "prompt" -> Field(w, 16, 4) [] data = "dirty" -> Field(w, 64, 2)
    [] OTHER -> 0

\* Styles cross as tagged colours, flags of their own and a numbered underline.
PackColor(c) == [tag |-> CASE c[1] = "default" -> 0 [] c[1] = "palette" -> 1 [] c[1] = "rgb" -> 2,
                 value |-> Tail(c)]
PackStyle(s) == [fg |-> PackColor(s.fg), bg |-> PackColor(s.bg), underline_color |-> PackColor(s.line),
  flags |-> s.flags,
  underline |-> IF s.underline = "none" THEN 0 ELSE CHOOSE k \in 1..5 : Underlines[k] = s.underline]
ConvertColor(r) == <<CASE r.tag = 0 -> "default" [] r.tag = 1 -> "palette" [] r.tag = 2 -> "rgb">> \o r.value
ConvertStyle(r) == [flags |-> r.flags, fg |-> ConvertColor(r.fg), bg |-> ConvertColor(r.bg),
  line |-> ConvertColor(r.underline_color),
  underline |-> IF r.underline = 0 THEN "none" ELSE Underlines[r.underline]]

-----------------------------------------------------------------------------
(* What a core shows. Its rows are all as wide as its grid, those of the   *)
(* scrollback too, and a cluster holds no NUL (Grid::to_rows, Page::row).  *)

Colors == {DefaultColor} \union ({"palette"} \X (0..255)) \union ({"rgb"} \X (0..255) \X (0..255) \X (0..255))
Styles == [flags : SUBSET STRING, underline : {"none"} \union {Underlines[k] : k \in 1..5},
           fg : Colors, bg : Colors, line : Colors]
Cells  == [text : Seq(1..(CpSpan - 1)), wide : 0..3, semantic : 0..2, style : Styles]
ShownRows == [wrap : BOOLEAN, continued : BOOLEAN, prompt : 0..2, cells : Seq(Cells)]
Shots  == [cols : Nat \ {0}, rows : Nat \ {0}, screen : {"primary", "alternate"},
           cursor : [x : Nat, y : Nat, pending_wrap : BOOLEAN, visible : BOOLEAN, style : Styles],
           modes : SUBSET ({"dec", "ansi"} \X Nat), grid : Seq(ShownRows), history : Seq(ShownRows),
           title : Seq(STRING), pwd : Seq(STRING),
           colors : [foreground : Seq(Nat), background : Seq(Nat), caret : Seq(Nat), palette : Seq(Nat)]]
AsWide(rows, cols) ==
  \A y \in DOMAIN rows : /\ Len(rows[y].cells) = cols
                         /\ \A x \in 1..cols : Hash(rows[y].cells[x].style) \in Nat

-----------------------------------------------------------------------------
(* The reads, of a view or of none.                                        *)

Invalid == <<"INVALID">>
Fine(v) == <<"SUCCESS", v>>

\* Snapshot with the damage riding along; the ABI never clears damage.
Fill(h) ==
  LET damage == [rows |-> h.dirty, global |-> IF h.full THEN "full"
                   ELSE IF \E y \in DOMAIN h.dirty : h.dirty[y] THEN "partial" ELSE "none"]
  IN [f \in DOMAIN h.core \union {"damage"} |-> IF f = "damage" THEN damage ELSE h.core[f]]
Filled(h, c) == IF c = <<>> THEN <<Fill(h)>> ELSE c

\* History first, then the active area; rows count from 0.
RowAt(v, y) ==
  CASE y < Len(v.history) -> <<v.history[y + 1]>>
    [] y >= Len(v.history) /\ y - Len(v.history) < Len(v.grid) -> <<v.grid[y - Len(v.history) + 1]>>
    [] OTHER -> <<>>

\* ghostty_terminal_grid_ref: there is no scroll position, so the viewport is
\* the active area.
GridRef(v, tag, x, y) ==
  LET at == IF tag \in {"active", "viewport"} THEN Len(v.history) + y ELSE y IN
  IF /\ tag \in {"active", "viewport", "screen", "history"}
     /\ at < Len(v.history) + v.rows /\ at <= MaxIndex /\ x < v.cols
  THEN Fine([x |-> x, y |-> at]) ELSE Invalid

\* ghostty_grid_ref_cell, _style, _graphemes and _row look where the reference
\* says in the view there is now.
RowThere(c, r)  == IF c = <<>> THEN <<>> ELSE RowAt(c[1], r.y)
Nth(row, x)     == IF row # <<>> /\ x < Len(row[1].cells) THEN <<row[1].cells[x + 1]>> ELSE <<>>
CellThere(c, r) == Nth(RowThere(c, r), r.x)
Told(found, Pack(_)) == IF found = <<>> THEN Invalid ELSE Fine(Pack(found[1]))

RefCell(c, r)  == Told(CellThere(c, r), PackCell)
RefStyle(c, r) == Told(CellThere(c, r), LAMBDA cell : PackStyle(cell.style))
Cluster(cell, room) ==
  CASE cell = <<>> -> Invalid
    [] cell # <<>> /\ room < Len(cell[1].text) -> <<"OUT_OF_SPACE", Len(cell[1].text)>>
    [] OTHER -> Fine(cell[1].text)
RefGraphemes(c, r, room) == Cluster(CellThere(c, r), room)

\* Damage is the active area's; a row of the history is settled.
DirtyAt(v, at)  == at \in 0..(Len(v.damage.rows) - 1) /\ v.damage.rows[at + 1]
RefRow(c, r)    == Told(RowThere(c, r), LAMBDA row : PackRow(row, DirtyAt(c[1], r.y - Len(c[1].history))))

\* ghostty_terminal_get.
TerminalGet(v, data) ==
  CASE data = "cols" -> Fine(v.cols) [] data = "rows" -> Fine(v.rows)
    [] data = "cursor" -> Fine([v.cursor EXCEPT !.style = PackStyle(@)])
    [] data = "screen" -> Fine(v.screen)
    [] data = "total" -> Fine(Len(v.history) + v.rows) [] data = "scrollback" -> Fine(Len(v.history))
    [] data = "title" -> Fine(v.title) [] data = "pwd" -> Fine(v.pwd)
    [] data \in {"foreground", "background", "caret"} ->
         IF v.colors[data] = <<>> THEN <<"NO_VALUE">> ELSE Fine(v.colors[data])
    [] data \in {"default foreground", "default background", "default caret"} -> <<"NO_VALUE">>
    [] data = "palette" -> Fine(v.colors.palette)
    [] OTHER -> Invalid

\* ghostty_terminal_mode_get: the modes tracked, and no guess about another.
DecAnswered  == {1, 3, 4, 5, 9, 40, 66, 67, 69, 1000, 1002, 1003, 1005, 1006, 1007, 1015, 1016, 1035, 1036,
                 2004, 2026}
AnsiAnswered == {2, 4, 12, 20}
Answered     == ({"dec"} \X DecAnswered) \union ({"ansi"} \X AnsiAnswered)
ModeGet(v, mode) ==
  IF mode[2] \in (IF mode[1] = "ansi" THEN AnsiAnswered ELSE DecAnswered)
  THEN Fine(mode \in v.modes) ELSE Invalid

-----------------------------------------------------------------------------
(* The reader: a snapshot put together from answers, or the first error.   *)

Failed(answers) == \E i \in DOMAIN answers : answers[i] = Invalid
Values(answers) == [i \in DOMAIN answers |-> answers[i][2]]

\* Graphemes: a small buffer first, then one of the size asked for.
Retry(c, r, first) == IF first[1] = "OUT_OF_SPACE" THEN RefGraphemes(c, r, first[2]) ELSE first
NoZero(text) ==
  LET some[n \in 0..Len(text)] ==
        IF n = 0 THEN <<>> ELSE IF text[n] = 0 THEN some[n - 1] ELSE Append(some[n - 1], text[n])
  IN some[Len(text)]
ReadText(c, r)     == NoZero(Retry(c, r, RefGraphemes(c, r, Inline))[2])

ReadCellAt(c, at) ==
  IF at = Invalid THEN Invalid ELSE
  LET w == RefCell(c, at[2])[2] IN
  Fine([text |-> ReadText(c, at[2]), wide |-> CellGet(w, "wide"), semantic |-> CellGet(w, "semantic"),
        style |-> ConvertStyle(RefStyle(c, at[2])[2])])

RowFrom(w, cells) ==
  IF w = Invalid \/ Failed(cells) THEN Invalid ELSE
  Fine([wrap |-> RowGet(w[2], "wrap") = 1, continued |-> RowGet(w[2], "continued") = 1,
        prompt |-> RowGet(w[2], "prompt"), cells |-> Values(cells)])
ReadRow(c, tag, y) ==
  LET at == GridRef(c[1], tag, 0, y) IN
  RowFrom(IF at = Invalid THEN Invalid ELSE RefRow(c, at[2]),
          [x \in 1..c[1].cols |-> ReadCellAt(c, GridRef(c[1], tag, x - 1, y))])

\* dynamic_color: no value is an answer of its own.
Colour(answer) == IF answer = <<"NO_VALUE">> THEN <<>> ELSE answer[2]
Caret(cursor)  == [cursor EXCEPT !.style = ConvertStyle(@)]

\* Terminal::snapshot.
SnapshotFrom(v, grid, history) ==
  LET Get(data) == TerminalGet(v, data)[2] IN
  IF Failed(grid) \/ Failed(history) THEN Invalid ELSE
  Fine([cols |-> Get("cols"), rows |-> Get("rows"), screen |-> Get("screen"), cursor |-> Caret(Get("cursor")),
        modes |-> {m \in Answered : ModeGet(v, m) = Fine(TRUE)},
        grid |-> Values(grid), history |-> Values(history), title |-> Get("title"), pwd |-> Get("pwd"),
        colors |-> [f \in {"foreground", "background", "caret", "palette"} |-> Colour(TerminalGet(v, f))]])
ReadSnapshot(c) ==
  SnapshotFrom(c[1], [y \in 1..c[1].rows |-> ReadRow(c, "active", y - 1)],
               [y \in 1..Len(c[1].history) |-> ReadRow(c, "history", y - 1)])

-----------------------------------------------------------------------------
(* The comparison: the paths at which two snapshots differ.                *)

Shorter(s, t) == 1..(IF Len(s) < Len(t) THEN Len(s) ELSE Len(t))
Uneven(path, s, t) == IF Len(s) # Len(t) THEN {path} ELSE {}
Apart(path, a, b) == {Append(path, f) : f \in {g \in DOMAIN a : a[g] # b[g]}}

DiffRow(path, a, b) ==
  {path \o <<f>> : f \in {g \in {"wrap", "continued", "prompt"} : a[g] # b[g]}}
    \union (UNION {Apart(path \o <<i>>, a.cells[i], b.cells[i]) : i \in Shorter(a.cells, b.cells)})
    \union Uneven(path \o <<"cells.len">>, a.cells, b.cells)

DiffColorsNamed(a, b) ==
  {<<"colors", f>> : f \in {g \in {"foreground", "background", "caret"} : a[g] # b[g]}}
DiffColors(a, b) ==
  {<<"colors", f>> : f \in {g \in {"foreground", "background", "caret"} : a[g] # b[g]}}
    \union IF Len(a.palette) # Len(b.palette) THEN {<<"colors", "palette.len">>}
           ELSE {<<"colors", "palette", i>> : i \in {k \in DOMAIN a.palette : a.palette[k] # b.palette[k]}}

\* Sizes first and alone: nothing lines up once they differ.  The rows of two
\* histories are compared only when there are as many.
Diff(a, b) ==
  LET sizes == {<<"dims", f>> : f \in {g \in {"cols", "rows"} : a[g] # b[g]}} IN
  IF sizes # {} THEN sizes ELSE
    {<<f>> : f \in {g \in {"screen", "title", "pwd"} : a[g] # b[g]}}
      \union DiffColors(a.colors, b.colors)
      \union {<<"modes", m>> : m \in (a.modes \ b.modes) \union (b.modes \ a.modes)}
      \union Apart(<<"cursor">>, a.cursor, b.cursor)
      \union (IF Len(a.history) # Len(b.history) THEN {<<"history.len">>}
              ELSE UNION {DiffRow(<<"history", y>>, a.history[y], b.history[y]) : y \in DOMAIN a.history})
      \union (UNION {DiffRow(<<"row", y>>, a.grid[y], b.grid[y]) : y \in Shorter(a.grid, b.grid)})
      \union Uneven(<<"grid.len">>, a.grid, b.grid)

-----------------------------------------------------------------------------
(* The calls.                                                              *)

ASSUME AbiAssumption ==
  /\ CpSpan \in Nat \ {0} /\ StyleSpan \in Nat \ {0, 1} /\ MaxIndex \in Nat /\ Inline \in Nat
  /\ \A c \in Contents : /\ c \in Shots /\ c.modes \subseteq Answered /\ Len(c.grid) = c.rows
                        /\ AsWide(c.grid, c.cols) /\ AsWide(c.history, c.cols)

AbiInit == held = <<>> /\ cache = <<>> /\ grefs = {} /\ kept = <<>>

\* ghostty_terminal_new; a size of 0 makes none and clears the caller's handle.
TerminalNew ==
  /\ held = <<>>
  /\ \E c \in Contents :
       /\ c.history = <<>> /\ c.title = <<>>
       /\ held' = <<[core |-> c, dirty |-> [y \in 1..c.rows |-> FALSE], full |-> FALSE]>>
  /\ cache' = <<>> /\ UNCHANGED <<grefs, kept>>

\* References must not outlive their terminal: the caller's side of the contract.
TerminalFree == held # <<>> /\ held' = <<>> /\ cache' = <<>> /\ grefs' = {} /\ UNCHANGED kept

Killed == {[r EXCEPT !.live = FALSE] : r \in grefs}

\* The core takes the bytes and marks the rows it changes.
Written(h, c) ==
  [core |-> c, full |-> h.full \/ c.screen # h.core.screen,
   dirty |-> [y \in 1..c.rows |-> (y \in DOMAIN h.dirty /\ h.dirty[y]) \/ c.rows # h.core.rows
                                    \/ c.grid[y] # h.core.grid[y]]]

\* ghostty_terminal_vt_write: no bytes, no write.
VtWrite(bytes) ==
  /\ held # <<>>
  /\ IF bytes = <<>> THEN UNCHANGED bvars
     ELSE /\ bytes[1].cols = held[1].core.cols /\ bytes[1].rows = held[1].core.rows
          /\ held' = <<Written(held[1], bytes[1])>> /\ cache' = <<>>
          /\ grefs' = Killed /\ UNCHANGED kept

\* ghostty_terminal_resize: 0 is refused, and the size there is is not.
TerminalResizeLazy(c) ==
  /\ held # <<>> /\ c \in Contents
  /\ held' = <<Written(held[1], c)>>
  /\ cache' = (IF <<c.cols, c.rows>> = <<held[1].core.cols, held[1].core.rows>> THEN cache ELSE <<>>)
  /\ grefs' = Killed /\ UNCHANGED kept
TerminalResize(c) ==
  /\ held # <<>> /\ c \in Contents
  /\ held' = <<Written(held[1], c)>> /\ cache' = <<>>
  /\ grefs' = Killed /\ UNCHANGED kept

\* Any question of the terminal itself fills the cache.
Asks == held # <<>> /\ cache' = Filled(held[1], cache) /\ UNCHANGED <<held, grefs, kept>>

\* Minting fills it too; what is minted is remembered to be checked.
Mints(tag, x, y) ==
  /\ held # <<>>
  /\ LET v  == Filled(held[1], cache)
         at == GridRef(v[1], tag, x, y)
     IN /\ cache' = v
        /\ grefs' = IF at = Invalid THEN grefs
                    ELSE {[x |-> at[2].x, y |-> at[2].y, cell |-> RowAt(v[1], at[2].y)[1].cells[at[2].x + 1],
                           row |-> RowAt(v[1], at[2].y)[1], live |-> TRUE]}
  /\ UNCHANGED <<held, kept>>

Keeping(answer) == IF answer = Invalid THEN kept ELSE <<answer[2]>>

\* A reader takes a whole snapshot and keeps it.
Reads ==
  /\ held # <<>>
  /\ LET v == Filled(held[1], cache) IN
     /\ cache' = v
     /\ kept' = Keeping(ReadSnapshot(v))
  /\ UNCHANGED <<held, grefs>>

AbiNext ==
  \/ TerminalNew \/ TerminalFree
  \/ \E bytes \in {<<>>} \union {<<c>> : c \in Contents} : VtWrite(bytes)
  \/ \E c \in Contents : TerminalResize(c)
  \/ Asks
  \/ \E tag \in {"active", "screen", "none"}, x \in 0..2, y \in 0..2 : Mints(tag, x, y)
  \/ Reads

-----------------------------------------------------------------------------
(* Properties.                                                             *)

\* A packed cell reads back as the cell, and its id tells styled from default.
PackingHolds(c) ==
  LET w == PackCell(c) IN
  /\ CellGet(w, "wide") = c.wide /\ CellGet(w, "semantic") = c.semantic
  /\ (CellGet(w, "style id") = 0) = (c.style = Plain) /\ (CellGet(w, "styled") = 1) = (c.style # Plain)
  /\ (CellGet(w, "cluster") = 1) = (Len(c.text) > 1) /\ (CellGet(w, "has text") = 1) = (c.text # <<>>)

\* No answer is from before a write; a reference answers for the cell it was
\* minted at until the next write, and nothing until the cache is filled again
\* (view_filled, view_current, invalidate).
ReferencesHold ==
  /\ cache # <<>> => cache[1] = Fill(held[1])
  /\ \A r \in grefs :
       /\ r.live => /\ RefCell(cache, r) = Fine(PackCell(r.cell)) /\ PackingHolds(r.cell)
                    /\ RefStyle(cache, r) = Fine(PackStyle(r.cell.style))
                    /\ RefRow(cache, r)[1] = "SUCCESS"
                    /\ (RowGet(RefRow(cache, r)[2], "styled") = 1) = (\E i \in DOMAIN r.row.cells : r.row.cells[i].style # Plain)
       /\ ~r.live /\ cache = <<>> => RefCell(cache, r) = Invalid /\ RefRow(cache, r) = Invalid

\* What a reader puts together from the answers is the core's own snapshot,
\* while a reference can name every row; and the comparison of an earlier one
\* with it is empty only when nothing a reader can see has changed
\* (Terminal::snapshot of both sides, diff).
SnapshotsHold ==
  held # <<>> =>
    /\ ReadSnapshot(Filled(held[1], cache)) =
         IF Len(held[1].core.history) + held[1].core.rows <= MaxIndex + 1 THEN Fine(held[1].core) ELSE Invalid
    /\ kept # <<>> => (Diff(kept[1], held[1].core) = {}) = (kept[1] = held[1].core)
=============================================================================
