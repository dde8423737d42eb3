--------------------------- MODULE MCFrameChannel ---------------------------
(* A small channel for TLC: two payload words are enough to tear a frame,   *)
(* and three publishes to be overtaken twice.                               *)
EXTENDS FrameChannel

CONSTANTS w1, w2, r1

MCWords      == {w1, w2}
MCOneReader  == {r1}
=============================================================================
