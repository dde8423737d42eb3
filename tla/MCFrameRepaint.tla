--------------------------- MODULE MCFrameRepaint ---------------------------
(* Two texts tell a stale row from a fresh one; one row can be selected.    *)
(* A channel of one row refuses frames and meets selections; one of two     *)
(* grows and shrinks, or takes three publishes at one height, which one     *)
(* with a history also does; the cursor moves and hides in the last.        *)
EXTENDS FrameRepaint, TLC
CONSTANTS a, b
MCContent  == {a, b}
MCNarrow   == [capacity |-> 1, heights |-> {1, 2}, cols |-> 1, publishes |-> 2, history |-> 1,
               highlights |-> {{}, {1}}, carets |-> {TRUE}]
MCWide     == [capacity |-> 2, heights |-> {2}, cols |-> 1, publishes |-> 3, history |-> 0,
               highlights |-> {{}}, carets |-> {TRUE}]
MCTall     == [MCWide EXCEPT !.heights = {1, 2}, !.publishes = 2, !.history = 1]
MCDeep     == [MCWide EXCEPT !.capacity = 1, !.heights = {1}, !.history = 1]
MCCaret    == [capacity |-> 1, heights |-> {1, 2}, cols |-> 2, publishes |-> 2, history |-> 0,
               highlights |-> {{}}, carets |-> BOOLEAN]
MCSetups   == {MCNarrow, MCWide, MCTall, MCDeep, [MCCaret EXCEPT !.publishes = 1, !.history = 1]}
MCOneSetup == {MCCaret}
MCSymmetry == Permutations(MCContent)
=============================================================================
