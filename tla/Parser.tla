------------------------------- MODULE Parser -------------------------------
(***************************************************************************)
(* The escape-sequence parser (crates/vte/src/lib.rs and params.rs, the    *)
(* fork the core uses, built with "std" and without "ansi").               *)
(*                                                                         *)
(* A parser is a record; `out` is what it has told its Perform, `rest` the *)
(* bytes of the current read it has not looked at.  A pass through the     *)
(* loop of Parser::advance is a step.  In the ground state the code takes  *)
(* all text up to the next ESC at once and hands it over character by      *)
(* character; here a pass takes one character of it.                       *)
(*                                                                         *)
(* An OSC's buffer is the fields the separators have closed and the bytes  *)
(* since.  Parameters are groups of a parameter and its subparameters.     *)
(***************************************************************************)
EXTENDS Naturals, Sequences, SequencesExt

CONSTANTS MaxIntermediates, MaxParams, MaxOscParams,  \* the code's 2, 32, 16
          MaxParam,                                   \* u16::MAX
          Setups   \* [bytes, first, max, read]: an alphabet, what the first
                   \* read brings (<<>>: anything), bounds on all and on a read

ASSUME ParserAssumption ==
  /\ MaxIntermediates \in Nat \ {0} /\ MaxParams \in Nat \ {0}
  /\ MaxOscParams \in Nat \ {0} /\ MaxParam \in Nat
  /\ \A u \in Setups : /\ u.bytes \subseteq 0..255 /\ u.first \in Seq(u.bytes)
                      /\ u.max \in Nat /\ u.read \in Nat

VARIABLES parser, setup, fed, tangled

vars == <<parser, setup, fed, tangled>>

-----------------------------------------------------------------------------
(* Bytes.                                                                  *)

ESC == 27
BEL == 7
Cancels  == {24, 26}
C0       == (0..23) \union {25} \union (28..31)
Collects == 32..47
Digits   == 48..57
Colon    == 58
Semi     == 59
Markers  == 60..63
Finals   == 64..126
ST8      == 156

\* core::str::from_utf8 at the head of a text: a character of `len` bytes, an
\* error that takes `len` of them, or a character the text cuts off.
Follows(lead) == CASE lead \in 194..223 -> 1 [] lead \in 224..239 -> 2
                   [] lead \in 240..244 -> 3 [] lead \in 0..127 -> 0
Continues(lead, i, byte) ==
  IF i > 1 THEN byte \in 128..191
  ELSE byte \in CASE lead = 224 -> 160..191 [] lead = 237 -> 128..159
                  [] lead = 240 -> 144..191 [] lead = 244 -> 128..143
                  [] OTHER -> 128..191
Utf8(text) ==
  IF Head(text) \in 128..193 \union 245..255 THEN [kind |-> "bad", len |-> 1]
  ELSE LET lead  == Head(text)
           need  == Follows(lead)
           wrong == {i \in 1..need : i < Len(text) /\ ~Continues(lead, i, text[i + 1])}
       IN IF wrong # {} THEN [kind |-> "bad", len |-> Min(wrong)]
          ELSE IF Len(text) > need THEN [kind |-> "char", len |-> need + 1]
          ELSE [kind |-> "cut", len |-> Len(text)]

-----------------------------------------------------------------------------
(* The parser's actions.                                                   *)

States == {"Entry", "Ignore", "Intermediate", "Param"} \X {"Csi", "Dcs"}
          \union {<<"DcsPassthrough">>, <<"Escape">>, <<"EscapeIntermediate">>, <<"OscString">>,
                  <<"SosPmApcString">>, <<"ApcString">>, <<"Ground">>}
Ground == <<"Ground">>
Escape == <<"Escape">>

New == [state |-> Ground, inter |-> <<>>, groups |-> <<>>, open |-> FALSE, len |-> 0, param |-> 0,
        ignoring |-> FALSE, fields |-> <<>>, raw |-> <<>>, partial |-> <<>>,
        rest |-> <<>>, out |-> <<>>]

To(p, state) == [p EXCEPT !.state = state]
Perform(p, event) == [p EXCEPT !.out = Append(@, event)]
Execute(p, byte) == Perform(p, <<"execute", byte>>)

ResetButIgnoring(p) ==
  [p EXCEPT !.inter = <<>>, !.param = 0, !.groups = <<>>, !.open = FALSE, !.len = 0]
ResetParams(p) ==
  [p EXCEPT !.inter = <<>>, !.param = 0, !.groups = <<>>, !.open = FALSE, !.len = 0,
            !.ignoring = FALSE]

\* Params::len counts parameters and subparameters.
Full(p) == p.len = MaxParams

\* Params::push and extend: an open group goes on, and extend leaves it open.
Put(p, open) ==
  LET groups == IF p.open THEN [p.groups EXCEPT ![Len(p.groups)] = Append(@, p.param)]
                ELSE Append(p.groups, <<p.param>>)
  IN [p EXCEPT !.groups = groups, !.open = open, !.len = @ + 1]
Ignoring(p) == [p EXCEPT !.ignoring = TRUE]

ActionParam(p)    == IF Full(p) THEN Ignoring(p) ELSE [Put(p, FALSE) EXCEPT !.param = 0]
ActionSubparam(p) == IF Full(p) THEN Ignoring(p) ELSE [Put(p, TRUE) EXCEPT !.param = 0]

\* saturating_mul and saturating_add.
ActionParamNext(p, byte) ==
  IF Full(p) THEN Ignoring(p)
  ELSE [p EXCEPT !.param = Min({MaxParam, Min({MaxParam, @ * 10}) + (byte - 48)})]

CollectPastEnd(p, byte) == [p EXCEPT !.inter = Append(@, byte)]
ActionCollect(p, byte) ==
  IF Len(p.inter) = MaxIntermediates THEN Ignoring(p)
  ELSE [p EXCEPT !.inter = Append(@, byte)]

LastParam(p) == IF Full(p) THEN Ignoring(p) ELSE Put(p, FALSE)
Dispatch(p, kind, byte) == Perform(p, <<kind, p.groups, p.inter, p.ignoring, byte>>)
CsiDispatch(p, byte) == To(Dispatch(LastParam(p), "csi", byte), Ground)
Hook(p, byte) == To(Dispatch(LastParam(p), "hook", byte), <<"DcsPassthrough">>)
EscDispatch(p, byte) == To(Perform(p, <<"esc", p.inter, p.ignoring, byte>>), Ground)

\* The bytes after the last separator that counts are kept and never told.
OscField(p) == IF Len(p.fields) = MaxOscParams THEN p
               ELSE [p EXCEPT !.fields = Append(@, p.raw), !.raw = <<>>]
OscPut(p, byte) == [p EXCEPT !.raw = Append(@, byte)]
OscStart(p) == [p EXCEPT !.fields = <<>>, !.raw = <<>>]
OscEnd(p, byte) == OscStart(Perform(OscField(p), <<"osc", OscField(p).fields, byte = BEL>>))

-----------------------------------------------------------------------------
(* Parser::change_state, a state at a time.                                *)

Anywhere(p, byte) ==
  CASE byte \in Cancels -> To(Execute(p, byte), Ground)
    [] byte = ESC -> To(ResetParams(p), Escape)
    [] OTHER -> p

\* A control function inside a CSI is executed, inside a DCS header dropped.
Control(p, kind, byte) == IF kind = "Csi" THEN Execute(p, byte) ELSE p
Finish(p, kind, byte)  == IF kind = "Csi" THEN CsiDispatch(p, byte) ELSE Hook(p, byte)

AdvanceEntry(p, kind, byte) ==
  CASE byte \in C0 -> Control(p, kind, byte)
    [] byte \in Collects -> To(ActionCollect(p, byte), <<"Intermediate", kind>>)
    [] byte \in Digits -> To(ActionParamNext(p, byte), <<"Param", kind>>)
    [] byte = Colon -> To(ActionSubparam(p), <<"Param", kind>>)
    [] byte = Semi -> To(ActionParam(p), <<"Param", kind>>)
    [] byte \in Markers -> To(ActionCollect(p, byte), <<"Param", kind>>)
    [] byte \in Finals -> Finish(p, kind, byte)
    [] OTHER -> Anywhere(p, byte)

AdvanceParam(p, kind, byte) ==
  CASE byte \in C0 -> Control(p, kind, byte)
    [] byte \in Collects -> To(ActionCollect(p, byte), <<"Intermediate", kind>>)
    [] byte \in Digits -> ActionParamNext(p, byte)
    [] byte = Colon -> ActionSubparam(p)
    [] byte = Semi -> ActionParam(p)
    [] byte \in Markers -> To(p, <<"Ignore", kind>>)
    [] byte \in Finals -> Finish(p, kind, byte)
    [] OTHER -> Anywhere(p, byte)

AdvanceIntermediate(p, kind, byte) ==
  CASE byte \in C0 -> Control(p, kind, byte)
    [] byte \in Collects -> ActionCollect(p, byte)
    [] byte \in 48..63 -> To(p, <<"Ignore", kind>>)
    [] byte \in Finals -> Finish(p, kind, byte)
    [] OTHER -> Anywhere(p, byte)

\* An ignored DCS runs to the next CAN, SUB or ESC, an ignored CSI to its final.
AdvanceIgnore(p, kind, byte) ==
  CASE kind = "Csi" /\ byte \in C0 -> Execute(p, byte)
    [] kind = "Csi" /\ byte \in Finals -> To(p, Ground)
    [] OTHER -> Anywhere(p, byte)

Unhook(p) == Perform(p, <<"unhook">>)
AdvanceDcsPassthrough(p, byte) ==
  CASE byte \in C0 \union 32..126 -> Perform(p, <<"put", byte>>)
    [] byte \in Cancels \union {ESC} -> Anywhere(Unhook(p), byte)
    [] byte = ST8 -> To(Unhook(p), Ground)
    [] OTHER -> p

AdvanceEsc(p, byte) ==
  CASE byte \in C0 -> Execute(p, byte)
    [] byte \in Collects -> To(ActionCollect(p, byte), <<"EscapeIntermediate">>)
    [] byte = 80 -> To(ResetParams(p), <<"Entry", "Dcs">>)
    [] byte = 91 -> To(ResetParams(p), <<"Entry", "Csi">>)
    [] byte = 93 -> To(OscStart(p), <<"OscString">>)
    [] byte = 95 -> To(Perform(p, <<"apc_start">>), <<"ApcString">>)
    [] byte \in {88, 94} -> To(p, <<"SosPmApcString">>)
    [] byte \in (48..126) \ {80, 88, 91, 93, 94, 95} -> EscDispatch(p, byte)
    [] byte \in Cancels -> To(Execute(p, byte), Ground)
    [] OTHER -> p

AdvanceEscIntermediate(p, byte) ==
  CASE byte \in C0 -> Execute(p, byte)
    [] byte \in Collects -> ActionCollect(p, byte)
    [] byte \in 48..126 -> EscDispatch(p, byte)
    [] OTHER -> Anywhere(p, byte)

AdvanceOscString(p, byte) ==
  CASE byte = BEL -> To(OscEnd(p, byte), Ground)
    [] byte \in C0 \ {BEL} -> p
    [] byte \in Cancels \union {ESC} -> Anywhere(OscEnd(p, byte), byte)
    [] byte = Semi -> OscField(p)
    [] OTHER -> OscPut(p, byte)

AdvanceApcString(p, byte) ==
  IF byte \in Cancels \union {ESC} THEN Anywhere(Perform(p, <<"apc_end">>), byte)
  ELSE Perform(p, <<"apc_put", byte>>)

ChangeState(p, byte) ==
  LET name == p.state[1] IN
  CASE name = "Entry" -> AdvanceEntry(p, p.state[2], byte)
    [] name = "Param" -> AdvanceParam(p, p.state[2], byte)
    [] name = "Intermediate" -> AdvanceIntermediate(p, p.state[2], byte)
    [] name = "Ignore" -> AdvanceIgnore(p, p.state[2], byte)
    [] name = "DcsPassthrough" -> AdvanceDcsPassthrough(p, byte)
    [] name = "Escape" -> AdvanceEsc(p, byte)
    [] name = "EscapeIntermediate" -> AdvanceEscIntermediate(p, byte)
    [] name = "OscString" -> AdvanceOscString(p, byte)
    [] name = "SosPmApcString" -> Anywhere(p, byte)
    [] name = "ApcString" -> AdvanceApcString(p, byte)

-----------------------------------------------------------------------------
(* Text.                                                                   *)

Replacement == <<"print", <<239, 191, 189>>>>
C1Char(char) == Len(char) = 2 /\ char[1] = 194 /\ char[2] < 160
Taken(p, n) == [p EXCEPT !.rest = SubSeq(@, n + 1, Len(@))]

\* ground_dispatch: C0 and C1 controls are executed, everything else printed.
GroundDispatch(p, char) ==
  IF C1Char(char) \/ (Len(char) = 1 /\ char[1] < 32)
  THEN Execute(p, char[Len(char)])
  ELSE Perform(p, <<"print", char>>)

Plain(rest) == LET escapes == {i \in 1..Len(rest) : rest[i] = ESC}
               IN IF escapes = {} THEN rest ELSE SubSeq(rest, 1, Min(escapes) - 1)

\* advance_ground.  A character cut off by an ESC is lost, one cut off by the
\* end of the read is kept; a lone byte in the C1 range is a control.
AdvanceGround(p) ==
  LET text == Plain(p.rest) IN
  IF text = <<>> THEN Taken(To(ResetParams(p), Escape), 1)
  ELSE LET head == Utf8(text) IN
       CASE head.kind = "char" -> Taken(GroundDispatch(p, SubSeq(text, 1, head.len)), head.len)
         [] head.kind = "bad" ->
              Taken(IF head.len = 1 /\ text[1] < 160 THEN Execute(p, text[1])
                    ELSE Perform(p, Replacement), head.len)
         [] head.kind = "cut" /\ Len(text) < Len(p.rest) -> Taken(Perform(p, Replacement), Len(text))
         [] OTHER -> [p EXCEPT !.partial = text, !.rest = <<>>]

\* The characters from_utf8 finds valid at the head of a text of four bytes or
\* fewer: valid_up_to.
ValidUpTo(text) ==
  LET valid[i \in 0..Len(text)] ==
        IF i = 0 THEN 0
        ELSE LET head == Utf8(SubSeq(text, i, Len(text)))
             IN IF valid[i - 1] = i - 1 /\ head.kind = "char" THEN i - 1 + head.len ELSE valid[i - 1]
  IN valid[Len(text)]

\* advance_partial_utf8: the kept bytes and up to four in all of the new read.
\* What the buffer holds beyond its first character is read again, unless the
\* buffer ends in something invalid: then the valid part of it is passed over.
Buffered(p) == p.partial \o SubSeq(p.rest, 1, Min({Len(p.rest), 4 - Len(p.partial)}))
ResumeTakingAll(p) ==
  LET buffer == Buffered(p) IN
  [Taken(Perform(p, <<"print", buffer>>), Min({Len(p.rest), 4 - Len(p.partial)}))
    EXCEPT !.partial = <<>>]
Resume(p) ==
  LET buffer == Buffered(p)
      head   == Utf8(buffer)
      valid  == ValidUpTo(buffer)
      used   == IF valid = Len(buffer) \/ valid = 0 THEN head.len ELSE valid
      told   == IF valid = 0 THEN Replacement ELSE <<"print", SubSeq(buffer, 1, head.len)>>
  IN CASE p.partial = <<>> -> p
       [] p.partial # <<>> /\ valid = 0 /\ head.kind = "cut" ->
            [p EXCEPT !.partial = buffer, !.rest = <<>>]
       [] OTHER -> [Taken(Perform(p, told), used - Len(p.partial)) EXCEPT !.partial = <<>>]

-----------------------------------------------------------------------------
(* Parser::advance.                                                        *)

Begin(p, bytes) == Resume([p EXCEPT !.rest = bytes])
Loop(p) == IF p.state = Ground THEN AdvanceGround(p)
           ELSE ChangeState(Taken(p, 1), Head(p.rest))

Init == /\ parser = New /\ fed = <<>> /\ tangled = FALSE
        /\ setup \in Setups

\* A resumed character is tangled with what follows when the buffer holds more
\* than it and is not valid to its end, or when it is a C1 control.
Tangles(p) ==
  /\ p.partial # <<>>
  /\ LET buffer == Buffered(p)
         first  == SubSeq(buffer, 1, Utf8(buffer).len)
     IN C1Char(first) \/ ValidUpTo(buffer) \in (Len(first) + 1)..(Len(buffer) - 1)

\* The pump reads some bytes and advances.
Read ==
  /\ parser.rest = <<>>
  /\ \E bytes \in IF fed = <<>> /\ setup.first # <<>> THEN {setup.first}
                  ELSE UNION {[1..n -> setup.bytes] :
                                n \in 1..Min({setup.read, setup.max - Len(fed)})} :
       /\ fed' = fed \o bytes
       /\ tangled' = (tangled \/ Tangles([parser EXCEPT !.rest = bytes]))
       /\ parser' = Begin(parser, bytes)
  /\ UNCHANGED setup

Advance ==
  /\ parser.rest # <<>>
  /\ parser' = Loop(parser)
  /\ UNCHANGED <<setup, fed, tangled>>

Next == Read \/ Advance
Spec == Init /\ [][Next]_vars

-----------------------------------------------------------------------------
(* Properties.                                                             *)

\* The buffers stay within their bounds, the count of parameters is right, and
\* what is kept of a cut character is one that more bytes could complete.
Bounded ==
  /\ Len(parser.inter) <= MaxIntermediates
  /\ parser.len <= MaxParams
  /\ parser.param <= MaxParam
  /\ Len(parser.fields) <= MaxOscParams
TypeOK ==
  /\ Bounded
  /\ parser.state \in States
  /\ parser.inter \in Seq(0..255) /\ parser.ignoring \in BOOLEAN
  /\ parser.len = Len(FlattenSeq(parser.groups))
  /\ parser.open => parser.groups # <<>>
  /\ parser.partial # <<>> => /\ Utf8(parser.partial).kind = "cut"
                             /\ parser.state = Ground /\ parser.rest = <<>>

\* What one read of everything would have left: each pass through the loop takes
\* a byte or more.
Pass(p) == IF p.rest = <<>> THEN p ELSE Loop(p)
Passes(p) ==
  LET after[n \in 0..Len(p.rest)] == IF n = 0 THEN p ELSE Pass(after[n - 1])
  IN after
Whole(bytes) == Passes([New EXCEPT !.rest = bytes])[Len(bytes)]

\* Where the reads of the pty end does not show: what was performed and the
\* state left are those of a single read, whatever sequence or character a read
\* cuts (Parser::advance, advance_partial_utf8), unless a character's end was
\* tangled with what follows it.
ReadsAgree == parser.rest = <<>> /\ ~tangled => parser = Whole(fed)

\* An ESC ends whatever was going on: what is performed after it, and the state
\* left, depend on nothing before it (reset_params and the string states).
EscapeResynchronises ==
  LET escapes == {i \in 1..Len(fed) : fed[i] = ESC}
      after   == Whole(SubSeq(fed, Max(escapes), Len(fed)))
  IN parser.rest = <<>> /\ ~tangled /\ escapes # {} =>
       /\ IsSuffix(after.out, parser.out)
       /\ [after EXCEPT !.out = parser.out] = parser
=============================================================================
