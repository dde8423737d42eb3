------------------------------ MODULE MCDrawing ------------------------------
(* Drawing on small instances: MCFrameRepaint's rows and frames, a line of  *)
(* four cells, a surface of three pixels.                                   *)
EXTENDS Drawing, MCFrameRepaint

\* Left-to-right and right-to-left letters, a digit, a mirrored and a layout character.
Tint(kind, red, green, blue) == <<kind, red, green, blue>>
MCLooks == <<[fg |-> NoColour, bg |-> NoColour, under |-> NoColour, flags |-> {}, underline |-> 0],
             [fg |-> Tint(1, 1, 0, 0), bg |-> NoColour, under |-> NoColour, flags |-> {"inverse", "bold"}, underline |-> 3]>>
MCInks == {<<"a", 0>>, <<"<", 0>>, <<"1", 0>>, <<"j", 0>>, <<"k", 0>>, <<"|", 0>>, <<"", 0>>, <<"j", 1>>, <<"w", 0>>}

\* Every kind of call, off both edges, with the bytes of a mask before an image's words.
Red == <<200, 9, 0, 255>>
Blue == <<0, 30, 255, 255>>
Call(pane, kind, x, w, bytes, colour) ==
  [pane |-> pane, kind |-> kind, x |-> x, y |-> 0, w |-> w, h |-> 1, bytes |-> bytes, colour |-> colour, at |-> 0]
MCPaintCalls ==
  {Call(1, "fill", 0, 3, <<>>, Blue), Call(1, "fill", 2, 2, <<>>, Red), Call(1, "fill", 0, 0, <<>>, Red),
   Call(1, "blend", -1, 3, <<255, 128, 0>>, Red), Call(1, "blend", 1, 1, <<77>>, Blue),
   Call(1, "image", 1, 2, Red \o <<0, 60, 9, 128>>, <<>>), Call(1, "image", 0, 1, <<7, 7, 7, 0>>, <<>>),
   Call(2, "fill", 0, 3, <<>>, Red)}
MCClears == {<<13, 13, 13, 255>>}
MCCorners == {<<0, 0>>, <<1, 1>>}
MCWindowSizes == {<<0, 2>>, <<4, 2>>}
Rule(x, w) == [x |-> x, y |-> 0, w |-> w, h |-> 2, colour |-> Blue]
MCLayouts == {[origins |-> <<<<0, 0>>, <<0, 1>>>>, rules |-> <<Rule(3, 1)>>],
              [origins |-> <<<<0, 0>>, <<2, 0>>>>, rules |-> <<>>]}
MCOffers == {<<>>, <<<<"bgra", TRUE>>>>, <<<<"bgra", TRUE>>, <<"bgra", FALSE>>>>}
=============================================================================
