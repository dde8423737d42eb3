-------------------------------- MODULE Wire --------------------------------
(***************************************************************************)
(* The two directions of the wire between the program in the terminal and  *)
(* the person: the parser of what the program writes, and the keys, mouse  *)
(* reports and pastes (crates/pty/src/paste.rs) that are written to it.    *)
(* The directions share no state, so in a behaviour one of the three parts *)
(* runs; `part` says which.                                                *)
(***************************************************************************)
EXTENDS Parser, Keyboard, Mouse

\* A parameter may be any u16, so what the fences of a paste say is read.
ASSUME WireAssumption == MaxParam > 200

VARIABLE part

wvars == <<vars, kvars, mvars, part>>

WireInit ==
  /\ Init /\ KeyInit /\ MouseInit
  /\ part \in {"parser", "keyboard", "mouse"}
  /\ part = "parser"   \/ setup = (CHOOSE u \in Setups : TRUE)
  /\ part = "keyboard" \/ desk = (CHOOSE d \in Desks : TRUE)
  /\ part = "mouse"    \/ modes = (CHOOSE m \in MouseModes : TRUE)
WireNext ==
  /\ UNCHANGED part
  /\ \/ part = "parser"   /\ Next      /\ UNCHANGED <<kvars, mvars>>
     \/ part = "keyboard" /\ KeyNext   /\ UNCHANGED <<vars, mvars>>
     \/ part = "mouse"    /\ MouseNext /\ UNCHANGED <<vars, kvars>>
WireSpec == WireInit /\ [][WireNext]_wvars

-----------------------------------------------------------------------------
(* Pastes.                                                                 *)

StripWithoutEscape == {0, 8, 5, 4, 127, 3, 28, 21, 26, 17, 19, 23, 22, 18, 15}
Strip == {0, 8, 5, 4, 27, 127, 3, 28, 21, 26, 17, 19, 23, 22, 18, 15}

PasteEncode(data, bracketed) ==
  LET clean == [i \in 1..Len(data) |-> CASE data[i] \in Strip -> 32
                                         [] data[i] = 10 /\ ~bracketed -> 13
                                         [] OTHER -> data[i]]
      Fence(n) == <<ESC, 91, 50, 48, 48 + n, 126>>
  IN IF bracketed THEN Fence(0) \o clean \o Fence(1) ELSE clean

-----------------------------------------------------------------------------
(* Properties.                                                             *)

WireTypeOK == TypeOK /\ KeyTypeOK /\ MouseTypeOK

\* Where a read of the pty ends does not show, and an ESC starts afresh whatever
\* was going on (Parser::advance, advance_partial_utf8, reset_params).
BytesReadOnce == ReadsAgree /\ EscapeResynchronises

\* A program told the kitty flags in force reads back the key that was struck,
\* and learns of the release of each key it was told of (key::encode); one that
\* listens to buttons learns of each release, and one that listens to motion of
\* each cell the pointer comes to (mouse::encode, last_cell).
InputTold == KeysReadBack /\ NoKeyStuck /\ NoButtonStuck /\ MotionIsTold

\* Whatever bytes are pasted, what a parser reads between the fences is text and
\* single controls, and the only end of the paste is the last thing in it; and
\* without fences no escape and no line feed goes out (paste::encode).
PasteStaysInside ==
  part = "parser" /\ parser.rest = <<>> =>
    LET data == fed
        out  == Whole(PasteEncode(data, TRUE)).out
        n    == Len(out)
        Fence(param) == <<"csi", <<<<param>>>>, <<>>, FALSE, 126>>
    IN /\ n > 1 /\ out[1] = Fence(200) /\ out[n] = Fence(201)
       /\ \A i \in 2..n-1 : out[i][1] \in {"print", "execute"}
       /\ \A i \in 1..Len(data) : PasteEncode(data, FALSE)[i] \notin {10, 27}
=============================================================================
