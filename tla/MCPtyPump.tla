----------------------------- MODULE MCPtyPump -----------------------------
(* What one read holds in each run, and the deltas of the wheel.            *)
EXTENDS PtyPump

\* Lines, screen switches and clears, alone and in one read with others.
MCViewChunks ==
  {<<"line">>, <<"line", "line">>, <<"alt">>, <<"primary", "line">>,
   <<"line", "alt", "primary", "line">>, <<"ed3", "line">>, <<"ris", "line">>}

\* Batches that open and close in reads of their own, lines inside and out.
MCExitChunks == {<<"line">>, <<"bsu">>, <<"bsu", "line">>, <<"line", "esu">>}

\* The same, more events in a read than a queue holds, and another width.
MCSyncChunks ==
  MCExitChunks \union {<<"bell">>, <<"bell", "bell", "bell">>, <<"bell", "ris">>,
                       <<"line", "deccolm">>}

MCSessions ==
  {[chunks |-> MCViewChunks, heights |-> {1, 2}, reads |-> 4, calls |-> 2],
   [chunks |-> MCSyncChunks, heights |-> {}, reads |-> 4, calls |-> 0],
   [chunks |-> MCExitChunks, heights |-> {}, reads |-> 3, calls |-> 1]}
MCExit  == {[chunks |-> MCExitChunks, heights |-> {}, reads |-> 3, calls |-> 0]}
MCNone  == {}
MCWheel == {1, -4}  \* a tick up, and scroll_to_bottom
=============================================================================
