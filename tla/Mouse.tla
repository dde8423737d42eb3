-------------------------------- MODULE Mouse --------------------------------
(***************************************************************************)
(* The pointer: mouse reports and the wheel.  crates/host/src/pointer.rs   *)
(* keeps the buttons down and the last cell reported, pty/src/mouse.rs     *)
(* encodes; the C calls mind2t_host_mouse, mind2t_host_wheel and           *)
(* mind2t_host_mouse_geometry and their Session twins pass on what they    *)
(* are given.                                                              *)
(*                                                                         *)
(* Positions are whole pixels <<x, y>>.  A report is [code, at, up]: the   *)
(* wire's button number, the position it gives, and whether it can be told *)
(* from a press.  The child keeps the buttons it takes for held and the    *)
(* last cell it was told.                                                  *)
(***************************************************************************)
EXTENDS Integers, Sequences, FiniteSets, FiniteSetsExt

CONSTANTS MouseModes,   \* the frame's modes the child goes through
          Geometries,   \* [width, height, cell, padding], <<x, y>> each
          Positions,    \* where the pointer may be
          Codes,        \* the host's button numbers
          MaxX10,       \* the last cell the X10 format can name (222)
          MaxBit        \* buttons from this one on share a bit (15)

ASSUME MouseAssumption ==
  /\ MaxBit \in Nat \ {0} /\ MaxX10 \in Nat /\ Codes \subseteq Nat \ {0}
  /\ \A m \in MouseModes : m.event \in {"None", "X10", "Normal", "Button", "Any"}
  /\ \A g \in Geometries : g.cell[1] > 0 /\ g.cell[2] > 0

VARIABLES modes,      \* the modes of the last frame read
          geometry,   \* {} until set_geometry
          pressed,    \* the buttons fingers are on
          pointer,    \* [held, last]
          moved,      \* where a motion the modes report has just gone, if one has
          silent,     \* the cell recorded last was not told: no name for it
          told        \* the child's: [held, at, lost]

mvars == <<modes, geometry, pressed, pointer, moved, silent, told>>

-----------------------------------------------------------------------------
(* mouse.rs.                                                               *)

Sgr(format) == format \in {"Sgr", "SgrPixels"}
NoCell == <<>>

\* Size::grid and pos_to_cell: padding off, clamped onto the edge cells.
Grid(g, i) == Max({1, Max({0, g.width[i] - 2 * g.padding[i]}) \div g.cell[i]})
CellOf(pos, g) == [i \in 1..2 |-> Min({Grid(g, i) - 1, Max({0, pos[i] - g.padding[i]}) \div g.cell[i]})]
OutOfViewport(pos, g) == \E i \in 1..2 : pos[i] < 0 \/ pos[i] > g.width[i]

ShouldReport(e, mode) ==
  CASE mode = "None"   -> FALSE
    [] mode = "X10"    -> e.action = "press" /\ e.code \in 1..3
    [] mode = "Normal" -> e.action # "motion"
    [] mode = "Button" -> e.code # 0
    [] mode = "Any"    -> TRUE

\* button_code, without the modifiers' bits; none for a button without a number.
Wire == [b \in 1..9 |-> CASE b \in 1..3 -> b - 1 [] b \in 4..7 -> 60 + b [] OTHER -> 120 + b]
ButtonCode(e, format) ==
  LET base == IF e.code = 0 \/ (e.action = "release" /\ ~Sgr(format)) THEN {3}
              ELSE {Wire[b] : b \in {e.code} \intersect DOMAIN Wire}
  IN {IF e.action = "motion" THEN b + 32 ELSE b : b \in base}

DropsOutside(e, g, any) ==
  OutOfViewport(e.pos, g) /\ (modes.event \notin {"Button", "Any"} \/ ~any)
\* Outside the view, a release is always told, anything else only while dragging.
Drops(e, g, any) ==
  /\ e.action # "release" /\ OutOfViewport(e.pos, g)
  /\ modes.event \notin {"Button", "Any"} \/ ~any

RepeatsColumn(e, cell, last) ==
  e.action = "motion" /\ modes.format # "SgrPixels" /\ last # NoCell /\ last[1] = cell[1]
Repeats(e, cell, last) == e.action = "motion" /\ modes.format # "SgrPixels" /\ last = cell

\* encode: the reports it makes of an event (one or none) and the last cell,
\* recorded before the button is looked up and the X10 format refuses.
Encoded(e, g, any, last) ==
  LET cell    == CellOf(e.pos, g)
      refused == modes.format = "X10" /\ \E i \in 1..2 : cell[i] > MaxX10
      at      == IF modes.format = "SgrPixels" THEN [i \in 1..2 |-> e.pos[i] - g.padding[i]] ELSE cell
      Report(code) == [code |-> code, cell |-> cell, at |-> at, up |-> e.action = "release"]
  IN IF ~ShouldReport(e, modes.event) \/ Drops(e, g, any) \/ Repeats(e, cell, last)
     THEN [last |-> last, reports |-> {}, tried |-> FALSE]
     ELSE [last |-> cell, tried |-> TRUE,
           reports |-> IF refused THEN {} ELSE {Report(c) : c \in ButtonCode(e, modes.format)}]

-----------------------------------------------------------------------------
(* The child.                                                              *)

\* A press of one of the three buttons is held until a release names it, or, in
\* the formats that cannot name it, until any release.
Hears(child, report) ==
  [child EXCEPT !.at = report.cell,
     !.held = IF report.up THEN (IF Sgr(modes.format) THEN @ \ {report.code + 1} ELSE {})
              ELSE IF report.code \in 0..2 /\ modes.event # "X10" THEN @ \union {report.code + 1}
              ELSE @]

\* A release of a button that has a number, in a cell that has none.
Loses(child, e) == [child EXCEPT !.lost = @ \union ({e.code} \intersect child.held)]

Tell(e, result) ==
  /\ told' = IF result.reports # {} THEN Hears(told, CHOOSE r \in result.reports : TRUE)
             ELSE IF result.tried /\ e.action = "release" THEN Loses(told, e)
             ELSE told
  /\ silent' = (result.reports = {} /\ (result.tried \/ silent))
  /\ moved' = IF e.action = "motion" /\ ShouldReport(e, modes.event) THEN e.pos ELSE NoCell

-----------------------------------------------------------------------------
(* pointer.rs.                                                             *)

\* Pointer::button: the bookkeeping comes first and whatever is reported.
Bit(code) == Min({code, MaxBit})
Held(e) == CASE e.action = "press"   -> pointer.held \union {Bit(e.code)}
             [] e.action = "release" -> pointer.held \ {Bit(e.code)}
             [] OTHER -> pointer.held
Button(e) ==
  /\ \E result \in {IF geometry = {} THEN [last |-> pointer.last, reports |-> {}, tried |-> FALSE]
                    ELSE Encoded(e, CHOOSE g \in geometry : TRUE, Held(e) # {}, pointer.last)} :
       /\ Tell(e, result)
       /\ pointer' = [pointer EXCEPT !.held = Held(e), !.last = result.last]
  /\ UNCHANGED <<modes, geometry>>

Press == \E code \in Codes \ pressed, pos \in Positions :
           /\ pressed' = pressed \union {code}
           /\ Button([action |-> "press", code |-> code, pos |-> pos])
Release == \E code \in pressed, pos \in Positions :
           /\ pressed' = pressed \ {code}
           /\ Button([action |-> "release", code |-> code, pos |-> pos])
Motion == \E code \in IF pressed = {} THEN {0} ELSE pressed, pos \in Positions :
           /\ Button([action |-> "motion", code |-> code, pos |-> pos])
           /\ UNCHANGED pressed

\* Pointer::wheel: with shift, or for a child that wants nothing, the viewport's;
\* arrow keys on the alternate screen with alternate scroll; else reports, one a
\* tick and 64 at most, all of the same cell: one of them stands for all.
Wheel == \E ticks \in -1..1, shift \in BOOLEAN, pos \in Positions :
  LET e == [action |-> "press", code |-> IF ticks > 0 THEN 4 ELSE 5, pos |-> pos]
      reported == ticks # 0 /\ ~shift /\ ~modes.alternate_scroll /\ modes.event # "None" /\ geometry # {}
  IN /\ \E result \in {IF ~reported THEN [last |-> pointer.last, reports |-> {}, tried |-> FALSE]
                       ELSE Encoded(e, CHOOSE g \in geometry : TRUE, pointer.held # {}, pointer.last)} :
          /\ Tell(e, result)
          /\ pointer' = [pointer EXCEPT !.last = result.last]
     /\ UNCHANGED <<modes, geometry, pressed>>

SetGeometry == \E g \in Geometries :
  /\ geometry # {g}
  /\ geometry' = {g} /\ moved' = NoCell
  /\ UNCHANGED <<modes, pressed, pointer, silent, told>>

\* The child sets other modes.  Without reports, or in mode X10, which tells no
\* releases, it takes no button for held.
SetModes == \E m \in MouseModes :
  /\ modes # m
  /\ modes' = m /\ moved' = NoCell
  /\ told' = [told EXCEPT !.held = IF m.event \in {"None", "X10"} THEN {} ELSE @]
  /\ UNCHANGED <<geometry, pressed, pointer, silent>>

MouseInit ==
  /\ modes \in MouseModes
  /\ geometry = {} /\ pressed = {} /\ moved = NoCell /\ silent = FALSE
  /\ pointer = [held |-> {}, last |-> NoCell]
  /\ told = [held |-> {}, at |-> NoCell, lost |-> {}]
MouseNext == Press \/ Release \/ Motion \/ Wheel \/ SetGeometry \/ SetModes

-----------------------------------------------------------------------------
(* Properties.                                                             *)

\* No button stays down for the child that is up: a press that was told has its
\* release told, wherever the pointer has gone and whatever modes, geometries
\* and motion came between (Pointer::button, encode), but for a release in a
\* cell the X10 format cannot name.
NoButtonStuck == told.held \subseteq pressed \union told.lost

\* The child knows where the pointer is: what deduplication swallows is a cell
\* it has been told (last_cell), unless that cell had no name when it was
\* recorded; and a motion the mode reports leaves it told of the cell.
MotionIsTold ==
  /\ pointer.last = told.at \/ silent
  /\ \A g \in geometry : moved # NoCell /\ ~OutOfViewport(moved, g) /\ ~silent =>
       told.at = CellOf(moved, g)

MouseTypeOK ==
  /\ modes \in MouseModes /\ Cardinality(geometry) <= 1 /\ geometry \subseteq Geometries
  /\ pointer.held \subseteq 1..MaxBit /\ pointer.held \subseteq {Bit(c) : c \in pressed}
  /\ silent \in BOOLEAN /\ told.held \subseteq 1..3
=============================================================================
