------------------------------ MODULE Drawing ------------------------------
(***************************************************************************)
(* How a session's text becomes pixels: which rows a poll paints           *)
(* (FrameRepaint), where the cells of a row are drawn and where a caret    *)
(* goes (Visual), and how what is drawn reaches a window (Surface).        *)
(*                                                                         *)
(* They meet in calls that return before the next one and share no state:  *)
(* a behaviour stays with one of them.                                     *)
(***************************************************************************)
EXTENDS FrameRepaint, Visual, Surface

VARIABLE part

DrawingInit ==
  /\ part \in {"rows", "line", "surface"}
  /\ Init /\ (part # "rows" => \A s \in Setups : setup.publishes <= s.publishes)
  /\ LineInit /\ (part # "line" => base = "ltr")
  /\ SurfaceInit

DrawingNext ==
  /\ UNCHANGED part
  /\ \/ /\ part = "rows" /\ Next
        /\ UNCHANGED <<lvars, gvars>>
     \/ /\ part = "line" /\ LineNext
        /\ UNCHANGED <<vars, gvars>>
     \/ /\ part = "surface" /\ SurfaceNext
        /\ UNCHANGED <<vars, lvars>>

DrawingSpec == DrawingInit /\ [][DrawingNext]_<<vars, lvars, gvars, part>>

-----------------------------------------------------------------------------
\* A line of text: where a caret is drawn is where its cell is, whatever the writing direction, and
\* what is packed for the reader unpacks to what it was, and block mosaics meet.
CaretsHold == part = "line" => LineHolds /\ OnceHolds /\ (FirstRow => MosaicsMeet)

\* The two backends draw alike and a window shows what was drawn; a present copies no pixel back,
\* and a swapchain that gave no frame costs no drawing.
PixelsHold == [](part = "surface" => SurfaceHolds) /\ NoCopyBack /\ NothingLost
=============================================================================
