------------------------------ MODULE MCScreen ------------------------------
(* Wide characters that do and do not fit, regions and margins smaller than *)
(* the screen.  Long runs of text under resizes, and short texts under up   *)
(* to three edits.                                                          *)
EXTENDS Screen
MCSizes   == {<<2, 2>>, <<3, 2>>, <<2, 3>>, <<3, 3>>}
MCBudgets == {[prints |-> 6, edits |-> 0, resizes |-> 3],
              [prints |-> 3, edits |-> 1, resizes |-> 2],
              [prints |-> 2, edits |-> 2, resizes |-> 1],
              [prints |-> 1, edits |-> 3, resizes |-> 0]}
MCErase   == {[prints |-> 3, edits |-> 1, resizes |-> 0]}
=============================================================================
