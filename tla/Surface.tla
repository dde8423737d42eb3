------------------------------ MODULE Surface ------------------------------
(***************************************************************************)
(* Where the renderer's pixels end up (crates/render/src): the two         *)
(* backends behind the Surface trait, the CPU canvas that draws at once    *)
(* (canvas.rs) and the GPU surface that records its calls in a log and     *)
(* runs them when somebody looks (gpu.rs), the window the GPU pixels are   *)
(* presented in (present.rs, with the calls of session.rs and host/lib.rs  *)
(* that own one), and the cells the renderer draws itself (mosaic.rs).     *)
(*                                                                         *)
(* Both backends are given the same calls: that they never differ is the   *)
(* refinement this module is about.                                        *)
(***************************************************************************)
EXTENDS Integers, Sequences, SequencesExt, FiniteSets

CONSTANTS SurfaceW, SurfaceH,  \* the pixels of a surface
          PaintCalls,          \* calls of the Surface trait, each for one pane
          Clears,              \* colours a window is cleared to
          Corners,             \* where a pane may be placed
          WindowSizes,
          Layouts,             \* the panes' origins, in order, and the rules over them
          Offers,              \* texture formats a window may support, in its order
          MaxPaints, MaxWindowCalls

VARIABLES gpu, cpu, window, did, calls
gvars == <<gpu, cpu, window, did, calls>>

SurfacePanes == 1..2

\* A mask has a byte for each of its pixels and an image four; a canvas of panes has an
\* origin for each (canvas.rs, renderer.rs).
IsCall(c) ==
  /\ DOMAIN c = {"pane", "kind", "x", "y", "w", "h", "bytes", "colour", "at"}
  /\ c.pane \in SurfacePanes /\ c.kind \in {"fill", "blend", "image"}
  /\ c.x \in Int /\ c.y \in Int /\ c.w \in Nat /\ c.h \in Nat
  /\ c.bytes \in Seq(0..255)
  /\ c.kind = "blend" => Len(c.bytes) = c.w * c.h
  /\ c.kind = "image" => Len(c.bytes) = 4 * (c.w * c.h)
ASSUME SurfaceAssumption ==
  /\ SurfaceW \in Nat \ {0} /\ SurfaceH \in Nat \ {0}
  /\ \A c \in PaintCalls : IsCall(c)
  /\ Corners \subseteq Int \X Int /\ WindowSizes \subseteq Nat \X Nat
  /\ \A l \in Layouts :
       /\ l.origins \in Seq(Int \X Int) /\ Len(l.origins) = Cardinality(SurfacePanes)
       /\ l.rules \in Seq([x : Int, y : Int, w : Nat, h : Nat, colour : Seq(0..255)])

Pixels == 0..SurfaceW * SurfaceH - 1
Clear  == <<0, 0, 0, 0>>

\* A rectangle's cell that a pixel is, row by row; -1 outside.
CellOf(r, x, y) ==
  IF x - r.x \in 0..r.w - 1 /\ y - r.y \in 0..r.h - 1 THEN (y - r.y) * r.w + x - r.x ELSE -1
Hit(r, i) == CellOf(r, i % SurfaceW, i \div SurfaceW)

-----------------------------------------------------------------------------
(* The blend, rounded by the canvas and by the shader; and truncated, as   *)
(* the backend does that is there to be caught.                            *)

Mixed(s, d, a)     == (s * a + d * (255 - a) + 127) \div 255
ShaderMix(s, d, a) == (s * a + d * (255 - a) + 127) \div 255

Blend(Mix(_, _, _), under, colour, alpha) ==
  IF alpha = 0 THEN under
  ELSE IF alpha = 255 THEN colour
  ELSE [k \in 1..4 |-> IF k = 4 THEN 255 ELSE Mix(colour[k], under[k], alpha)]

\* The CPU canvas: the call's own bytes, pixel by pixel.
DrawFill(pixels, c) == [i \in Pixels |-> IF Hit(c, i) >= 0 THEN c.colour ELSE pixels[i]]
DrawMask(pixels, c) ==
  [i \in Pixels |-> IF Hit(c, i) >= 0 THEN Blend(Mixed, pixels[i], c.colour, c.bytes[Hit(c, i) + 1]) ELSE pixels[i]]
DrawImage(pixels, c) ==
  LET Texel(k) == SubSeq(c.bytes, 4 * k + 1, 4 * k + 4) IN
  [i \in Pixels |-> IF Hit(c, i) >= 0 THEN Blend(Mixed, pixels[i], Texel(Hit(c, i)), Texel(Hit(c, i))[4]) ELSE pixels[i]]
Drew(pixels, c) ==
  CASE c.kind = "fill"  -> DrawFill(pixels, c)
    [] c.kind = "blend" -> DrawMask(pixels, c)
    [] c.kind = "image" -> DrawImage(pixels, c)

-----------------------------------------------------------------------------
(* The GPU surface: a log of operations and one buffer of their bytes.     *)

FreshSurface == [pixels |-> [i \in Pixels |-> Clear], ops |-> <<>>, coverage |-> <<>>, reads |-> 0]

Padded(bytes)  == bytes \o [k \in 1..((4 - (Len(bytes) % 4)) % 4) |-> 0]
WordsOf(bytes) == Padded(IF bytes = <<>> THEN <<0>> ELSE bytes)
Logged(g, c, coverage, at) ==
  [g EXCEPT !.coverage = coverage, !.ops = Append(@, [c EXCEPT !.bytes = <<>>, !.at = at])]

RecordImageWhereItFalls(g, c) == Logged(g, c, g.coverage \o c.bytes, Len(g.coverage))

\* Nothing of an empty size; a mask anywhere in the buffer; an image from a whole word on.
RecordFill(g, c)  == Logged(g, c, g.coverage, 0)
RecordMask(g, c)  == Logged(g, c, g.coverage \o c.bytes, Len(g.coverage))
RecordImage(g, c) == LET padded == Padded(g.coverage) IN Logged(g, c, padded \o c.bytes, Len(padded))
Record(g, c) ==
  IF c.w = 0 \/ c.h = 0 THEN g
  ELSE CASE c.kind = "fill"  -> RecordFill(g, c)
         [] c.kind = "blend" -> RecordMask(g, c)
         [] c.kind = "image" -> RecordImage(g, c)

\* The shaders: a byte of a word, a whole word, of the buffer the log was uploaded with.
WordAt(words, k) == SubSeq(words, 4 * k + 1, 4 * k + 4)
FillShader(pixels, op, words) == [i \in Pixels |-> IF Hit(op, i) >= 0 THEN op.colour ELSE pixels[i]]
BlendShader(pixels, op, words) ==
  LET Alpha(k) == WordAt(words, (op.at + k) \div 4)[((op.at + k) % 4) + 1] IN
  [i \in Pixels |-> IF Hit(op, i) >= 0 THEN Blend(ShaderMix, pixels[i], op.colour, Alpha(Hit(op, i))) ELSE pixels[i]]
ImageShader(pixels, op, words) ==
  LET Texel(k) == WordAt(words, op.at \div 4 + k) IN
  [i \in Pixels |-> IF Hit(op, i) >= 0 THEN Blend(ShaderMix, pixels[i], Texel(Hit(op, i)), Texel(Hit(op, i))[4]) ELSE pixels[i]]
Dispatch(pixels, op, words) ==
  CASE op.kind = "fill"  -> FillShader(pixels, op, words)
    [] op.kind = "blend" -> BlendShader(pixels, op, words)
    [] op.kind = "image" -> ImageShader(pixels, op, words)

\* GpuSurface::flush: the log in its order on the pixels kept so far, and the log is retired.
Replayed(pixels, ops, words) ==
  LET after[k \in 0..Len(ops)] == IF k = 0 THEN pixels ELSE Dispatch(after[k - 1], ops[k], words)
  IN after
FlushKeepingLog(g) == [g EXCEPT !.pixels = Replayed(@, g.ops, WordsOf(g.coverage))[Len(g.ops)]]
Flush(g) == [FlushKeepingLog(g) EXCEPT !.ops = <<>>, !.coverage = <<>>]

\* execute: what read_pixels hands back, and the surface after it.
Execute(g) == [Flush(g) EXCEPT !.reads = @ + 1]

-----------------------------------------------------------------------------
(* The window.  A format is <<layout, is it sRGB>>.                        *)

NoWindow == [size |-> <<0, 0>>]
Linear(format) == <<format[1], FALSE>>
Shown(w)  == (0..w.size[1] - 1) \X (0..w.size[2] - 1)
AtLeast1(n) == IF n = 0 THEN 1 ELSE n

\* configure: what the swapchain may be viewed as; a new one shows nothing yet.
ViewFormats(w)  == {w.config} \cup (IF w.config = w.view THEN {} ELSE {w.view})
Configured(w)   == [w EXCEPT !.views = ViewFormats(w), !.shown = <<>>]

\* from_surface: refused, or a window that holds linear bytes or is viewed as if it did.
FromSurface(supported, offered, size) ==
  IF ~supported \/ offered = <<>> THEN NoWindow
  ELSE LET linear == Linear(offered[1]) IN
       Configured([config |-> IF linear \in ToSet(offered) THEN linear ELSE offered[1], view |-> linear,
                   size |-> <<AtLeast1(size[1]), AtLeast1(size[2])>>, origin |-> <<0, 0>>,
                   views |-> {}, shown |-> <<>>])

\* blit_all: clear once, the panes in order, the rules last; a fragment outside is discarded.
PaneCell(origin, p) == CellOf([x |-> origin[1], y |-> origin[2], w |-> SurfaceW, h |-> SurfaceH], p[1], p[2])
BlitPane(w, target, image) ==
  [p \in Shown(w) |-> IF PaneCell(image.origin, p) >= 0 THEN image.pixels[PaneCell(image.origin, p)] ELSE target[p]]
BlitRule(w, target, rule) ==
  [p \in Shown(w) |-> IF CellOf(rule, p[1], p[2]) >= 0 THEN rule.colour ELSE target[p]]
Cleared(w, clear) == [p \in Shown(w) |-> clear]

PanesOver(w, target, images) ==
  LET after[k \in 0..Len(images)] ==
        IF k = 0 THEN target ELSE BlitPane(w, after[k - 1], images[k])
  IN after
RulesOver(w, target, rules) ==
  LET after[k \in 0..Len(rules)] == IF k = 0 THEN target ELSE BlitRule(w, after[k - 1], rules[k])
  IN after

BlitLast(w, images, rules, clear) ==
  RulesOver(w, BlitPane(w, Cleared(w, clear), images[Len(images)]), rules)[Len(rules)]
BlitAll(w, images, rules, clear) ==
  RulesOver(w, PanesOver(w, Cleared(w, clear), images)[Len(images)], rules)[Len(rules)]

-----------------------------------------------------------------------------
SurfaceInit ==
  /\ gpu = [p \in SurfacePanes |-> FreshSurface]
  /\ cpu = [p \in SurfacePanes |-> FreshSurface.pixels]
  /\ window = NoWindow
  /\ did = [call |-> "none"]
  /\ calls = <<0, 0>>

\* The renderer draws, on either backend.
DrawOnBoth ==
  /\ calls[1] < MaxPaints
  /\ \E c \in PaintCalls :
       /\ gpu' = [gpu EXCEPT ![c.pane] = Record(@, c)]
       /\ cpu' = [cpu EXCEPT ![c.pane] = Drew(@, c)]
       /\ did' = [call |-> "draw"]
  /\ calls' = [calls EXCEPT ![1] = @ + 1]
  /\ UNCHANGED window

Called(what) ==
  /\ calls[2] < MaxWindowCalls
  /\ calls' = [calls EXCEPT ![2] = @ + 1]
  /\ did' = what

\* Session::pixels, and the C poll of a host without a window.
ReadPixels ==
  /\ \/ Called([call |-> "read", pixels |-> Execute(gpu[1]).pixels])
     \/ /\ window = NoWindow
        /\ Called([call |-> "poll", pixels |-> Execute(gpu[1]).pixels])
  /\ gpu' = [gpu EXCEPT ![1] = Execute(@)]
  /\ UNCHANGED <<cpu, window>>

\* attach_layer keeps the window it had when the new one is refused; attach is given a built one.
AttachWindow ==
  /\ \E supported \in BOOLEAN, offered \in Offers, size \in WindowSizes :
       LET built == FromSurface(supported, offered, size) IN
       /\ window' = IF built = NoWindow THEN window ELSE built
       /\ Called([call |-> "attach"])
  /\ UNCHANGED <<gpu, cpu>>

DetachWindow ==
  /\ window # NoWindow
  /\ window' = NoWindow
  /\ Called([call |-> "detach"])
  /\ UNCHANGED <<gpu, cpu>>

ResizedKeepingViews(w, size) == [w EXCEPT !.size = size, !.views = {w.config}, !.shown = <<>>]
Resized(w, size) == IF size = w.size THEN w ELSE Configured([w EXCEPT !.size = size])
ResizeWindow ==
  /\ window # NoWindow
  /\ \E size \in WindowSizes :
       window' = Resized(window, <<AtLeast1(size[1]), AtLeast1(size[2])>>)
  /\ Called([call |-> "resize"])
  /\ UNCHANGED <<gpu, cpu>>

SetOrigin ==
  /\ window # NoWindow
  /\ \E corner \in Corners : window' = [window EXCEPT !.origin = corner]
  /\ Called([call |-> "origin"])
  /\ UNCHANGED <<gpu, cpu>>

\* The swapchain gives a frame; or is lost, and configured anew; or refuses.
Acquired(panes, origins, rules, clear) ==
  \/ /\ gpu' = [p \in SurfacePanes |-> IF p \in panes THEN Flush(gpu[p]) ELSE gpu[p]]
     /\ window' = [window EXCEPT !.shown = BlitAll(window,
           [k \in 1..Cardinality(panes) |-> [pixels |-> gpu'[k].pixels, origin |-> origins[k]]], rules, clear)]
     /\ Called([call |-> "present", origins |-> origins, rules |-> rules, clear |-> clear])
     /\ UNCHANGED cpu
  \/ /\ window' = Configured(window)
     /\ Called([call |-> "lost"])
     /\ UNCHANGED <<gpu, cpu>>
  \/ /\ Called([call |-> "timeout"])
     /\ UNCHANGED <<gpu, cpu, window>>

\* One session at the window's own origin; a canvas of them at their rectangles'.
Present    == window # NoWindow /\ \E clear \in Clears : Acquired({1}, <<window.origin>>, <<>>, clear)
PresentAll ==
  /\ window # NoWindow
  /\ \E clear \in Clears, l \in Layouts : Acquired(SurfacePanes, l.origins, l.rules, clear)

SurfaceNext ==
  \/ DrawOnBoth \/ ReadPixels \/ AttachWindow \/ DetachWindow \/ ResizeWindow \/ SetOrigin
  \/ Present \/ PresentAll

-----------------------------------------------------------------------------
(* What the renderer draws without a font (mosaic.rs).  A mosaic is a set  *)
(* of rectangles in 24ths of the cell.                                     *)

Edge24(n, side) == (2 * n * side + 24) \div 48
RectFrac(x0, y0, x1, y1, w, h) ==
  (Edge24(x0, w)..Edge24(x1, w) - 1) \X (Edge24(y0, h)..Edge24(y1, h) - 1)

Lower(eighths, w, h) == RectFrac(0, 24 - 3 * eighths, 24, 24, w, h)
Left(eighths, w, h)  == RectFrac(0, 0, 3 * eighths, 24, w, h)
UpperHalf(w, h)      == RectFrac(0, 0, 24, 12, w, h)
RightHalf(w, h)      == RectFrac(12, 0, 24, 24, w, h)
UpperEighth(w, h)    == RectFrac(0, 0, 24, 3, w, h)
RightEighth(w, h)    == RectFrac(21, 0, 24, 24, w, h)

\* The quarters of a quadrant, and the sixths of a sextant, a row at a time.
Quadrants == <<{2}, {3}, {0}, {0, 2, 3}, {0, 3}, {0, 1, 2}, {0, 1, 3}, {1}, {1, 2}, {1, 2, 3}>>
QuadrantMask(quarters, w, h) ==
  UNION {RectFrac(12 * (q % 2), 12 * (q \div 2), 12 * (q % 2) + 12, 12 * (q \div 2) + 12, w, h) : q \in quarters}

SextantBare(n)  == n + 1
SextantId(n)    == LET id == IF n + 1 >= 21 THEN n + 2 ELSE n + 1 IN IF id >= 42 THEN id + 1 ELSE id
SextantMask(id, w, h) ==
  UNION {RectFrac(12 * (c % 2), 8 * (c \div 2), 12 * (c % 2) + 12, 8 * (c \div 2) + 8, w, h) :
           c \in {c \in 0..5 : (id \div 2^c) % 2 = 1}}

-----------------------------------------------------------------------------
\* Reading the GPU now would give what the CPU has: the log, its bytes and the pixels kept stand for
\* the same picture whatever was read or shown between.
BackendsAgree == \A p \in SurfacePanes : Flush(gpu[p]).pixels = cpu[p]

\* A present shows every pane whole at its origin, the later over the earlier, the rules over all,
\* and the clear colour where nothing is; a target is never viewed as sRGB, and always viewable.
ShowsAll(w, pixels, what) ==
  \A p \in Shown(w) :
    LET Cell(k) == CellOf([x |-> what.origins[k][1], y |-> what.origins[k][2], w |-> SurfaceW, h |-> SurfaceH], p[1], p[2])
        rules == {k \in DOMAIN what.rules : CellOf(what.rules[k], p[1], p[2]) >= 0}
        under == {k \in DOMAIN what.origins : Cell(k) >= 0}
        Top(s) == CHOOSE k \in s : \A j \in s : j <= k
    IN w.shown[p] = IF rules # {} THEN what.rules[Top(rules)].colour
                    ELSE IF under # {} THEN pixels[Top(under)][Cell(Top(under))]
                    ELSE what.clear
WindowTrue ==
  window # NoWindow =>
    /\ ~window.view[2] /\ window.view \in window.views /\ 0 \notin ToSet(window.size)
    /\ did.call = "present" => ShowsAll(window, cpu, did)

\* What is read is what was drawn; a present copies nothing back and leaves no log behind it; and a
\* swapchain that gave no frame costs no drawing: the next one shows it all.
ReadsTrue   == did.call \in {"read", "poll"} => did.pixels = cpu[1]
LogRetired  ==
  did.call \in {"present", "read", "poll"} => gpu[1].ops = <<>> /\ gpu[1].coverage = <<>>
NoCopyBack  == [][gpu'[1].reads # gpu[1].reads => did'.call \in {"read", "poll"}]_gvars
NothingLost == [][window' # window /\ did'.call = "lost" => gpu' = gpu]_gvars

\* Halves, eighths and quarters meet with no seam and no overlap at any size, and every sextant is a
\* picture of its own, none of which is a half block.
MosaicsMeet ==
  \A w \in 1..5, h \in 1..7 :
    LET whole == (0..w - 1) \X (0..h - 1)
        Meet(a, b) == a \cup b = whole /\ a \cap b = {}
        sixths == {SextantId(n) : n \in 0..59}
    IN /\ Meet(Left(4, w, h), RightHalf(w, h)) /\ Meet(Left(7, w, h), RightEighth(w, h))
       /\ Meet(Lower(4, w, h), UpperHalf(w, h)) /\ Meet(Lower(7, w, h), UpperEighth(w, h))
       /\ \A q \in DOMAIN Quadrants : Meet(QuadrantMask(Quadrants[q], w, h), QuadrantMask(0..3 \ Quadrants[q], w, h))
       /\ \A id \in sixths : 63 - id \in sixths /\ Meet(SextantMask(id, w, h), SextantMask(63 - id, w, h))
       /\ w > 1 /\ h > 2 =>
            Cardinality({SextantMask(id, w, h) : id \in sixths} \cup {Left(4, w, h), RightHalf(w, h), whole, {}}) = 64

\* Drawing with the GPU is drawing with the CPU, and what is drawn is what is shown.
SurfaceHolds == BackendsAgree /\ WindowTrue /\ ReadsTrue /\ LogRetired
=============================================================================
