------------------------------- MODULE Rebuild -------------------------------
(***************************************************************************)
(* Rebuilding the renderer, in the two surfaces that own one: the Rust     *)
(* Session (crates/host/src/session.rs) and the C ABI's Mind2tHost         *)
(* (crates/host/src/lib.rs).  A resize or a font size tells the pty, then  *)
(* builds a fresh renderer, which starts on the defaults, and gives it the *)
(* operator's settings back.  The pty may refuse and the build may fail.   *)
(*                                                                         *)
(* A grid is its column count and a font size the columns' width.          *)
(***************************************************************************)
EXTENDS Naturals

CONSTANTS Grids,     \* grids a caller may ask for; 0 is refused or ignored
          Sizes,     \* font sizes a caller may ask for
          Widths,    \* pixel widths of the pane
          MinSize, MaxSize,  \* MIN_FONT_SIZE, MAX_FONT_SIZE
          Capacity,  \* Options.capacity of the frame channel
          Palettes, Xterm    \* themes, and the one a renderer starts on

ASSUME RebuildAssumption ==
  /\ Grids \subseteq Nat /\ Sizes \subseteq Nat \ {0} /\ Widths \subseteq Nat
  /\ MinSize \in Nat \ {0} /\ MaxSize \in Nat /\ MinSize <= MaxSize
  /\ Capacity \in Nat \ {0} /\ Xterm \in Palettes

VARIABLES
  surface,   \* which of the two owns the renderer: "session" or "abi"
  pty,       \* the grid the child was told
  grid,      \* Session.geometry; the C ABI keeps none of its own
  fontSize, palette, ligatures,  \* what the owner believes is in force
  renderer,  \* what is: the grid, font, palette and ligatures it draws with
  answer     \* the last call: what was asked and what came back

settings == <<palette, ligatures>>
rvars     == <<surface, pty, grid, fontSize, palette, ligatures, renderer, answer>>

Clamped(size)    == IF size < MinSize THEN MinSize ELSE IF size > MaxSize THEN MaxSize ELSE size

\* The columns that fit, without and with the floor of one.
FittedBare(w, size) == w \div size
Fitted(w, size)     == IF w \div size = 0 THEN 1 ELSE w \div size

\* from_surface's defaults.
FreshRenderer(g, size) == [grid |-> g, font |-> size, palette |-> Xterm, ligatures |-> TRUE]
NoAnswer         == [call |-> "setting", asked |-> 0, result |-> "ok"]
Answer(call, asked, result) == answer' = [call |-> call, asked |-> asked, result |-> result]

\* Host::resize: past the channel's capacity the pty is not told.
Told(g) == g <= Capacity

-----------------------------------------------------------------------------
(* Session.                                                                *)

SessionInit ==
  /\ surface = "session"
  /\ \E g \in Grids \ {0}, size \in Sizes :
       /\ g <= Capacity
       /\ pty = g /\ grid = g /\ fontSize = size /\ renderer = FreshRenderer(g, size)
  /\ palette = Xterm /\ ligatures = TRUE
  /\ answer = NoAnswer

SetPalette(p) ==
  /\ palette'  = p
  /\ renderer' = [renderer EXCEPT !.palette = p]
  /\ answer'   = NoAnswer
  /\ UNCHANGED <<pty, grid, fontSize, ligatures>>

SetLigatures(on) ==
  /\ ligatures' = on
  /\ renderer'  = [renderer EXCEPT !.ligatures = on]
  /\ answer'    = NoAnswer
  /\ UNCHANGED <<pty, grid, fontSize, palette>>

ResizeForgetsPalette(g) ==
  /\ g # grid /\ g # 0 /\ Told(g)
  /\ pty' = g /\ grid' = g
  /\ renderer' = FreshRenderer(g, fontSize)
  /\ Answer("resize", g, "ok")
  /\ UNCHANGED <<fontSize, settings>>

\* Session::resize: nothing to do, refused by the pty, failed in the build, done.
Resize(g) ==
  /\ UNCHANGED <<fontSize, settings>>
  /\ \/ /\ g = grid \/ g = 0
        /\ Answer("resize", g, "same")
        /\ UNCHANGED <<pty, grid, renderer>>
     \/ /\ g # grid /\ g # 0
        /\ ~Told(g)
        /\ Answer("resize", g, "refused")
        /\ UNCHANGED <<pty, grid, renderer>>
     \/ /\ g # grid /\ g # 0 /\ Told(g)
        /\ pty' = g
        /\ \/ /\ Answer("resize", g, "failed")
              /\ UNCHANGED <<grid, renderer>>
           \/ /\ renderer' = [FreshRenderer(g, fontSize) EXCEPT !.palette = palette]
              /\ grid'     = g
              /\ Answer("resize", g, "ok")

SetFontSizeKeepsGrid(asked, width) ==
  LET size == Clamped(asked)
      g    == Fitted(width, size)
  IN  /\ size # fontSize
      /\ Told(g)
      /\ pty' = g /\ fontSize' = size
      /\ renderer' = [FreshRenderer(g, size) EXCEPT !.palette = palette, !.ligatures = ligatures]
      /\ Answer("font", asked, "ok")
      /\ UNCHANGED <<grid, settings>>

\* Session::set_font_size: the same, or no font, or refused, or half done, done.
SetFontSize(asked, width) ==
  LET size == Clamped(asked)
      g    == Fitted(width, size)
  IN
  /\ UNCHANGED settings
  /\ \/ /\ size = fontSize
        /\ Answer("font", asked, "same")
        /\ UNCHANGED <<pty, grid, fontSize, renderer>>
     \/ /\ size # fontSize
        /\ \/ Answer("font", asked, "failed")
           \/ ~Told(g) /\ Answer("font", asked, "refused")
        /\ UNCHANGED <<pty, grid, fontSize, renderer>>
     \/ /\ size # fontSize /\ Told(g)
        /\ pty' = g
        /\ fontSize' = size
        /\ \/ /\ Answer("font", asked, "failed")
              /\ UNCHANGED <<grid, renderer>>
           \/ /\ renderer' = [FreshRenderer(g, size) EXCEPT !.palette = palette,
                                                    !.ligatures = ligatures]
              /\ grid' = g
              /\ Answer("font", asked, "ok")

SessionNext ==
  \/ \E p \in Palettes : SetPalette(p)
  \/ \E on \in BOOLEAN : SetLigatures(on)
  \/ \E g \in Grids : Resize(g)
  \/ \E size \in Sizes, width \in Widths : SetFontSize(size, width)

-----------------------------------------------------------------------------
(* Mind2tHost: the settings come from the configuration at spawn.          *)

AbiInit ==
  /\ surface = "abi"
  /\ \E g \in Grids \ {0}, size \in Sizes, p \in Palettes, on \in BOOLEAN :
       /\ g <= Capacity
       /\ pty = g /\ grid = g /\ fontSize = size
       /\ palette = p /\ ligatures = on
       /\ renderer = [FreshRenderer(g, size) EXCEPT !.palette = p, !.ligatures = on]
  /\ answer = NoAnswer

\* build_renderer, and the theme after it.
Rebuilt(g, size) ==
  [FreshRenderer(g, size) EXCEPT !.palette = palette, !.ligatures = ligatures]

\* A resize to the size already worn is taken for done, as in Session.
AbiResizeSkipsSame(g) ==
  /\ g # 0 /\ Told(g)
  /\ UNCHANGED <<fontSize, settings>>
  /\ \/ /\ g = grid
        /\ Answer("resize", g, "ok")
        /\ UNCHANGED <<pty, grid, renderer>>
     \/ /\ g # grid
        /\ pty' = g
        /\ \/ /\ Answer("resize", g, "failed")
              /\ UNCHANGED <<grid, renderer>>
           \/ /\ renderer' = Rebuilt(g, fontSize) /\ grid' = g
              /\ Answer("resize", g, "ok")

\* mind2t_host_resize.
AbiResize(g) ==
  /\ UNCHANGED <<fontSize, settings>>
  /\ \/ /\ g = 0 \/ ~Told(g)
        /\ Answer("resize", g, "refused")
        /\ UNCHANGED <<pty, grid, renderer>>
     \/ /\ g # 0 /\ Told(g)
        /\ pty' = g
        /\ \/ /\ Answer("resize", g, "failed")
              /\ UNCHANGED <<grid, renderer>>
           \/ /\ renderer' = Rebuilt(g, fontSize) /\ grid' = g
              /\ Answer("resize", g, "ok")

\* mind2t_host_set_font_size: the caller fits the grid.
AbiSetFontSize(size, g) ==
  /\ UNCHANGED settings
  /\ \/ /\ g = 0 \/ ~Told(g)
        /\ Answer("font", size, "refused")
        /\ UNCHANGED <<pty, grid, fontSize, renderer>>
     \/ /\ g # 0 /\ Told(g)
        /\ pty' = g
        /\ \/ /\ Answer("font", size, "failed")
              /\ UNCHANGED <<grid, fontSize, renderer>>
           \/ /\ renderer' = Rebuilt(g, size) /\ grid' = g
              /\ fontSize' = size
              /\ Answer("font", size, "ok")

AbiNext ==
  \/ \E g \in Grids : AbiResize(g)
  \/ \E size \in Sizes, g \in Grids : AbiSetFontSize(size, g)

RebuildInit == SessionInit \/ AbiInit

\* One of the initial states, for a behaviour that is not about a rebuild.
Untouched ==
  surface = "session" /\ \E g \in Grids \ {0} : (\A h \in Grids \ {0} : g <= h) /\ grid = g
  /\ \E size \in Sizes : (\A other \in Sizes : size <= other) /\ fontSize = size

RebuildNext ==
  /\ UNCHANGED surface
  /\ \/ surface = "session" /\ SessionNext
     \/ surface = "abi" /\ AbiNext

RebuildSpec == RebuildInit /\ [][RebuildNext]_rvars

-----------------------------------------------------------------------------
RebuildTypeOK ==
  /\ surface \in {"session", "abi"}
  /\ pty \in 1 .. Capacity /\ grid \in 1 .. Capacity
  /\ fontSize \in Nat /\ palette \in Palettes /\ ligatures \in BOOLEAN
  /\ renderer \in [grid : 1 .. Capacity, font : Nat, palette : Palettes, ligatures : BOOLEAN]

\* The theme outlives every rebuild, a failed one included ("keeps it across
\* every later renderer rebuild").
PaletteHolds == renderer.palette = palette

\* So should the ligature switch ("Without the field the operator's setting would
\* last exactly until the first zoom chord").
LigaturesHold == renderer.ligatures = ligatures

\* After a rebuild that succeeded the child, the owner and the renderer agree
\* on the grid, and the owner and the renderer on the font, whatever failed
\* half way before it.
CommittedTogether ==
  answer.call # "setting" /\ answer.result = "ok" =>
    pty = grid /\ renderer.grid = grid /\ renderer.font = fontSize

\* Through the C ABI an answer can be believed: a resize that reports success
\* leaves the child on the grid asked for, a font size that does is the one the
\* renderer draws with, and neither costs the configured ligature switch, also
\* right after a rebuild that failed half way.
AbiAnswersHold ==
  surface = "abi" =>
    /\ answer.call = "resize" /\ answer.result = "ok" => pty = answer.asked
    /\ answer.call = "font" /\ answer.result = "ok" => renderer.font = answer.asked
    /\ LigaturesHold
=============================================================================
