------------------------------ MODULE Keyboard ------------------------------
(***************************************************************************)
(* The key encoder (crates/pty/src/key.rs) behind mind2t_host_key and      *)
(* Session::key_options, and what a child that speaks the kitty protocol   *)
(* makes of it.                                                            *)
(*                                                                         *)
(* A person presses, repeats and releases keys; the host turns each into a *)
(* key event with the text its layout gives; the child keeps the keys it   *)
(* has been told of and not yet told the release of.                       *)
(*                                                                         *)
(* Bytes are kept as what they spell: <<"raw", codes>>, or a sequence      *)
(* <<introducer, parameters, final>> whose parameters are sequences of     *)
(* subparameters and Absent where nothing stands between separators.       *)
(***************************************************************************)
EXTENDS Integers, Sequences, FiniteSets, FiniteSetsExt, Functions

CONSTANT Desks   \* [keys, most, options, layout]: the keys within reach, how
                 \* many may be down, KeyOptions, "us" or "foreign"

ASSUME KeyboardAssumption == \A d \in Desks : d.most \in Nat

VARIABLES desk,     \* chosen at the start
          down,     \* the keys a finger is on
          locked,   \* whether caps lock is on
          event,    \* the last key event
          sent,     \* what it became
          held      \* the child's: <<code, final>> pressed and not released

kvars == <<desk, down, locked, event, sent, held>>

-----------------------------------------------------------------------------
(* Keys and what the host makes of them.                                   *)

Letters == {"A", "B", "C", "D", "E", "F", "G", "H", "I", "J", "K", "L", "M", "N", "O", "P",
            "Q", "R", "S", "T", "U", "V", "W", "X", "Y", "Z"}
Codepoint ==
  [A |-> 97, B |-> 98, C |-> 99, D |-> 100, E |-> 101, F |-> 102, G |-> 103, H |-> 104,
   I |-> 105, J |-> 106, K |-> 107, L |-> 108, M |-> 109, N |-> 110, O |-> 111, P |-> 112,
   Q |-> 113, R |-> 114, S |-> 115, T |-> 116, U |-> 117, V |-> 118, W |-> 119, X |-> 120,
   Y |-> 121, Z |-> 122, Digit0 |-> 48, Digit1 |-> 49, Digit2 |-> 50, Digit3 |-> 51,
   Digit4 |-> 52, Digit5 |-> 53, Digit6 |-> 54, Digit7 |-> 55, Digit8 |-> 56, Digit9 |-> 57,
   Semicolon |-> 59, Space |-> 32, Quote |-> 39, Comma |-> 44, Backquote |-> 96,
   Period |-> 46, Slash |-> 47, Minus |-> 45, Equal |-> 61, BracketLeft |-> 91,
   BracketRight |-> 93, Backslash |-> 92, Tab |-> 9, Numpad0 |-> 48, Numpad1 |-> 49,
   Numpad2 |-> 50, Numpad3 |-> 51, Numpad4 |-> 52, Numpad5 |-> 53, Numpad6 |-> 54,
   Numpad7 |-> 55, Numpad8 |-> 56, Numpad9 |-> 57, NumpadDecimal |-> 46,
   NumpadDivide |-> 47, NumpadMultiply |-> 42, NumpadSubtract |-> 45, NumpadAdd |-> 43,
   NumpadEqual |-> 61]

CursorKeys == [ArrowUp |-> "A", NumpadUp |-> "A", ArrowDown |-> "B", NumpadDown |-> "B",
               ArrowRight |-> "C", NumpadRight |-> "C", ArrowLeft |-> "D", NumpadLeft |-> "D",
               NumpadBegin |-> "E", Home |-> "H", NumpadHome |-> "H", End |-> "F",
               NumpadEnd |-> "F"]
LetterKeys == [F1 |-> "P", F2 |-> "Q", F4 |-> "S"]
TildeKeys  == [Insert |-> 2, NumpadInsert |-> 2, Delete |-> 3, NumpadDelete |-> 3, PageUp |-> 5,
               NumpadPageUp |-> 5, PageDown |-> 6, NumpadPageDown |-> 6, F3 |-> 13, F5 |-> 15,
               F6 |-> 17, F7 |-> 18, F8 |-> 19, F9 |-> 20, F10 |-> 21, F11 |-> 23, F12 |-> 24]
KeypadKeys == [Numpad0 |-> "p", Numpad1 |-> "q", Numpad2 |-> "r", Numpad3 |-> "s",
               Numpad4 |-> "t", Numpad5 |-> "u", Numpad6 |-> "v", Numpad7 |-> "w",
               Numpad8 |-> "x", Numpad9 |-> "y", NumpadDecimal |-> "n", NumpadDivide |-> "o",
               NumpadMultiply |-> "j", NumpadSubtract |-> "m", NumpadAdd |-> "k",
               NumpadEnter |-> "M"]

U(code) == <<code, "u">>
KittyTable ==
  [Escape |-> U(27), Enter |-> U(13), Tab |-> U(9), Backspace |-> U(127), Insert |-> <<2, "~">>,
   Delete |-> <<3, "~">>, ArrowLeft |-> <<1, "D">>, ArrowRight |-> <<1, "C">>,
   ArrowUp |-> <<1, "A">>, ArrowDown |-> <<1, "B">>, PageUp |-> <<5, "~">>,
   PageDown |-> <<6, "~">>, Home |-> <<1, "H">>, End |-> <<1, "F">>, CapsLock |-> U(57358),
   ScrollLock |-> U(57359), NumLock |-> U(57360), PrintScreen |-> U(57361), Pause |-> U(57362),
   F1 |-> <<1, "P">>, F2 |-> <<1, "Q">>, F3 |-> <<13, "~">>, F4 |-> <<1, "S">>,
   F5 |-> <<15, "~">>, F6 |-> <<17, "~">>, F7 |-> <<18, "~">>, F8 |-> <<19, "~">>,
   F9 |-> <<20, "~">>, F10 |-> <<21, "~">>, F11 |-> <<23, "~">>, F12 |-> <<24, "~">>,
   F13 |-> U(57376), F14 |-> U(57377), F15 |-> U(57378), F16 |-> U(57379), F17 |-> U(57380),
   F18 |-> U(57381), F19 |-> U(57382), F20 |-> U(57383), F21 |-> U(57384), F22 |-> U(57385),
   F23 |-> U(57386), F24 |-> U(57387), F25 |-> U(57388), Numpad0 |-> U(57399),
   Numpad1 |-> U(57400), Numpad2 |-> U(57401), Numpad3 |-> U(57402), Numpad4 |-> U(57403),
   Numpad5 |-> U(57404), Numpad6 |-> U(57405), Numpad7 |-> U(57406), Numpad8 |-> U(57407),
   Numpad9 |-> U(57408), NumpadDecimal |-> U(57409), NumpadDivide |-> U(57410),
   NumpadMultiply |-> U(57411), NumpadSubtract |-> U(57412), NumpadAdd |-> U(57413),
   NumpadEnter |-> U(57414), NumpadEqual |-> U(57415), NumpadSeparator |-> U(57416),
   NumpadLeft |-> U(57417), NumpadRight |-> U(57418), NumpadUp |-> U(57419),
   NumpadDown |-> U(57420), NumpadPageUp |-> U(57421), NumpadPageDown |-> U(57422),
   NumpadHome |-> U(57423), NumpadEnd |-> U(57424), NumpadInsert |-> U(57425),
   NumpadDelete |-> U(57426), NumpadBegin |-> U(57427), ShiftLeft |-> U(57441),
   ShiftRight |-> U(57447), ControlLeft |-> U(57442), ControlRight |-> U(57448),
   MetaLeft |-> U(57444), MetaRight |-> U(57450), AltLeft |-> U(57443), AltRight |-> U(57449)]
ModifierOf == [ShiftLeft |-> "shift", ShiftRight |-> "shift", ControlLeft |-> "ctrl",
               ControlRight |-> "ctrl", AltLeft |-> "alt", AltRight |-> "alt",
               MetaLeft |-> "super", MetaRight |-> "super", CapsLock |-> "caps",
               NumLock |-> "num"]
Binding == {"shift", "ctrl", "alt", "super"}
IsControl(code) == code < 32 \/ code = 127
OneByte(text)     == Len(text) = 1 /\ text[1] < 128
ControlText(text) == OneByte(text) /\ IsControl(text[1])
EffectiveMods(e)  == (IF e.text = <<>> THEN e.mods ELSE e.mods \ e.consumed) \intersect Binding

-----------------------------------------------------------------------------
(* Legacy.                                                                 *)

Absent == -1
None == <<>>
Raw(codes) == <<"raw", codes>>
Csi(params, final) == <<"csi", params, final>>
Ss3(params, final) == <<"ss3", params, final>>

Weigh(mods, weights) ==
  LET Of(m) == IF m \in mods \intersect DOMAIN weights THEN weights[m] ELSE 0
  IN Of("shift") + Of("alt") + Of("ctrl") + Of("super") + Of("caps") + Of("num")
XtermModCode(mods) == 1 + Weigh(mods, [shift |-> 1, alt |-> 2, ctrl |-> 4, super |-> 8])
Other(mods, code) == Csi(<<<<27>>, <<XtermModCode(mods)>>, <<code>>>>, "~")

\* The tables of backspace, tab, enter and escape: the first row whose mods are
\* those, or its last row.
SpecialKey(key, mods, opts) ==
  LET other == opts.modify_other_keys
      prefix == IF "alt" \in mods THEN <<27>> ELSE <<>>
      swap == IF opts.backarrow THEN [x \in {8, 127} |-> 135 - x] ELSE [x \in {8, 127} |-> x]
  IN IF key = "Backspace" /\ mods \in {{}, {"ctrl"}} THEN Raw(<<swap[IF mods = {} THEN 127 ELSE 8]>>)
     ELSE IF key = "Backspace" /\ mods = {"alt", "shift", "ctrl"} /\ ~other THEN Raw(<<swap[127]>>)
     ELSE IF key = "Backspace" /\ ~other THEN Raw(prefix \o <<IF "ctrl" \in mods THEN 8 ELSE 127>>)
     ELSE IF key = "Tab" /\ mods = {"shift"} /\ ~other THEN Csi(<<>>, "Z")
     ELSE IF key \in {"Tab", "Enter"} /\ mods = {"alt"} /\ other THEN Other(mods, KittyTable[key][1])
     ELSE IF mods \in {{}, {"alt"}} /\ key # "Backspace" THEN Raw(prefix \o <<KittyTable[key][1]>>)
     ELSE Other(mods, KittyTable[key][1])

PcStyleFunctionKey(key, mods, opts) ==
  LET code   == <<XtermModCode(mods)>>
      keypad == opts.keypad /\ ~opts.ignore_keypad
  IN CASE key \in DOMAIN CursorKeys ->
            IF mods # {} THEN Csi(<<<<1>>, code>>, CursorKeys[key])
            ELSE IF opts.cursor THEN Ss3(<<>>, CursorKeys[key])
            ELSE Csi(<<>>, CursorKeys[key])
       [] key \in DOMAIN TildeKeys ->
            IF mods # {} THEN Csi(<<<<TildeKeys[key]>>, code>>, "~")
            ELSE IF key = "F3" THEN Ss3(<<>>, "R")
            ELSE Csi(<<<<TildeKeys[key]>>>>, "~")
       [] key \in DOMAIN LetterKeys ->
            IF mods # {} THEN Csi(<<<<1>>, code>>, LetterKeys[key]) ELSE Ss3(<<>>, LetterKeys[key])
       [] key \in DOMAIN KeypadKeys /\ keypad ->
            Ss3(IF mods # {} THEN <<code>> ELSE <<>>, KeypadKeys[key])
       [] key = "NumpadEnter" /\ ~keypad -> Raw(<<13>>)
       [] key \in {"Backspace", "Tab", "Enter", "Escape"} -> SpecialKey(key, mods, opts)
       [] OTHER -> None

CtrlC0(ch) == CASE ch \in (97..122) \ {105, 109} -> {ch - 96}
                [] ch \in {48, 49, 57}  -> {ch}
                [] ch \in {32, 50, 64}  -> {0}
                [] ch = 51              -> {27}
                [] ch \in {52, 92}      -> {28}
                [] ch \in {53, 93}      -> {29}
                [] ch \in {54, 94, 126} -> {30}
                [] ch \in {47, 55, 95}  -> {31}
                [] ch \in {56, 63}      -> {127}
                [] OTHER -> {}

\* ctrl_seq: the byte, if there is one.  Shift is spent on what is no letter,
\* a physical key stands in for foreign text under ctrl alone.
Upper(ch) == ch \in 65..90
CtrlSeq(e) ==
  LET unset == (e.mods \intersect Binding) \ {"alt"}
      chars == IF OneByte(e.text) THEN {e.text[1]}
               ELSE IF e.key \in DOMAIN Codepoint /\ unset = {"ctrl"} THEN {Codepoint[e.key]}
               ELSE {}
      Spent(ch) == IF Upper(ch) \/ ch = 64 THEN unset ELSE unset \ {"shift"}
      Plain(ch) == IF Upper(ch) /\ e.unshifted \in 1..255 THEN e.unshifted ELSE ch
  IN UNION {CtrlC0(Plain(ch)) : ch \in {c \in chars : Spent(c) = {"ctrl"}}}

AltIsAlt(e, opts) == CASE opts.option_as_alt = "false" -> FALSE
                       [] opts.option_as_alt = "true"  -> TRUE
                       [] opts.option_as_alt = "left"  -> "alt_side" \notin e.mods
                       [] opts.option_as_alt = "right" -> "alt_side" \in e.mods

LegacyAltPrefix(e, opts) ==
  IF "alt" \notin EffectiveMods(e) \/ ~opts.alt_esc_prefix \/ ~AltIsAlt(e, opts) THEN None
  ELSE IF OneByte(e.text) THEN Raw(<<27>> \o e.text)
  ELSE IF e.unshifted \in 1..255 THEN Raw(<<27, e.unshifted>>)
  ELSE None

ModifyOtherKeys(e, opts) ==
  LET mods == (e.mods \intersect Binding) \ (IF AltIsAlt(e, opts) THEN {} ELSE {"alt"})
  IN IF /\ opts.modify_other_keys /\ Len(e.text) = 1 /\ mods # {}
        /\ e.text[1] \in 64..127 \/ mods # {"shift"} \/ e.text[1] = 32
     THEN Other(mods, e.text[1]) ELSE None

CsiU(e) ==
  IF "ctrl" \notin e.mods \/ Len(e.text) # 1 THEN None
  ELSE LET ch == e.text[1]
           lower == IF Upper(ch) /\ "shift" \in e.mods THEN ch + 32 ELSE ch
           shift == IF e.unshifted = lower THEN {"shift"} ELSE {}
       IN Csi(<<<<lower>>, <<XtermModCode((e.mods \intersect {"alt", "ctrl"})
                                            \union (e.mods \intersect shift))>>>>, "u")

\* The first of the forms that has anything to say; committed text beats the
\* function key's own form for the keys an input method takes.
Committed(e) == e.key \in {"Backspace", "Enter", "Escape"} /\ e.text # <<>> /\ ~ControlText(e.text)
Legacy(e, opts) ==
  LET pc   == PcStyleFunctionKey(e.key, e.mods \intersect Binding, opts)
      c0   == IF "ctrl" \in e.mods THEN CtrlSeq(e) ELSE {}
      alt  == LegacyAltPrefix(e, opts)
      mok  == ModifyOtherKeys(e, opts)
      csiu == CsiU(e)
  IN IF e.action = "release" \/ e.composing THEN None
     ELSE IF pc # None /\ ~Committed(e) THEN pc
     ELSE IF Committed(e) /\ e.key = "Backspace" THEN None
     ELSE IF c0 # {} THEN Raw((IF "alt" \in EffectiveMods(e) THEN <<27>> ELSE <<>>)
                                \o <<CHOOSE byte \in c0 : TRUE>>)
     ELSE IF e.text = <<>> THEN alt
     ELSE IF mok # None THEN mok
     ELSE IF csiu # None THEN csiu
     ELSE IF alt # None THEN alt
     ELSE IF "super" \in e.mods THEN None
     ELSE Raw(e.text)

-----------------------------------------------------------------------------
(* Kitty.                                                                  *)

\* The key's row of the table, or its unshifted codepoint.
KittyEntry(e) == IF e.key \in DOMAIN KittyTable THEN KittyTable[e.key]
                 ELSE IF e.unshifted > 0 THEN U(e.unshifted) ELSE None
KittyWeights == [shift |-> 1, alt |-> 2, ctrl |-> 4, super |-> 8, caps |-> 64, num |-> 128]
KittyMods(mods) == Weigh(mods, KittyWeights)
EventNumber == [press |-> 1, repeat |-> 2, release |-> 3]

\* The shifted codepoint, then the base layout's.
Alternates(e, code, flags) ==
  LET base == IF e.key \in DOMAIN Codepoint THEN Codepoint[e.key] ELSE code
      first == IF e.text = <<>> THEN Absent ELSE e.text[1]
      shifted == IF first \notin {Absent, code} /\ "shift" \in e.mods THEN first ELSE Absent
      other == IF base # code /\ first # base /\ Len(e.text) < 2 THEN base ELSE Absent
  IN IF "alternates" \notin flags \/ IsControl(code) THEN <<>>
     ELSE IF other # Absent THEN <<shifted, other>>
     ELSE IF shifted # Absent THEN <<shifted>> ELSE <<>>

AssociatedText(e, opts) ==
  IF \/ "associated" \notin opts.kitty
     \/ "events" \in opts.kitty /\ e.action = "release"
     \/ e.mods \intersect {"ctrl", "super"} # {}
     \/ "alt" \in e.mods /\ AltIsAlt(e, opts)
  THEN <<>> ELSE SelectSeq(e.text, LAMBDA code : ~IsControl(code))

KittySeqLetters(e, opts) ==
  LET mods == KittyMods(e.mods) + 1
  IN Csi(IF mods > 1 THEN <<<<KittyEntry(e)[1]>>, <<mods>>>> ELSE <<<<KittyEntry(e)[1]>>>>,
         KittyEntry(e)[2])
\* encode_kitty_seq: the letter finals take the short form, which tells a press.
KittySeq(e, opts) ==
  LET entry  == KittyEntry(e)
      mods   == KittyMods(e.mods) + 1
      number == IF "events" \in opts.kitty THEN EventNumber[e.action] ELSE 0
      text   == AssociatedText(e, opts)
      long   == entry[2] \in {"u", "~"}
      state  == IF number > (IF long THEN 1 ELSE 0) THEN <<<<mods, number>>>>
                ELSE IF mods > 1 THEN <<<<mods>>>> ELSE <<>>
  IN IF ~long THEN Csi(IF state = <<>> THEN <<>> ELSE <<<<1>>>> \o state, entry[2])
     ELSE Csi(<<<<entry[1]>> \o Alternates(e, entry[1], opts.kitty)>>
                \o (IF text = <<>> THEN state
                    ELSE (IF state = <<>> THEN <<<<Absent>>>> ELSE state) \o <<text>>), entry[2])

KittyReleasesAll(e, flags) ==
  "events" \in flags /\ ("all" \in flags \/ EffectiveMods(e) = {})
KittyReleases(e, flags) ==
  "events" \in flags /\ ("all" \in flags \/ e.key \notin {"Enter", "Backspace", "Tab"})

Kitty(e, opts) ==
  LET all   == "all" \in opts.kitty
      bare  == EffectiveMods(e) = {}
      modifier == e.key \in DOMAIN ModifierOf
      typed == ~e.composing /\ e.text # <<>>
  IN IF e.action = "release" /\ ~KittyReleases(e, opts.kitty) THEN None
     ELSE IF e.composing /\ ~modifier THEN None
     ELSE IF typed /\ e.key = "Enter" /\ ~ControlText(e.text) THEN Raw(e.text)
     ELSE IF typed /\ e.key = "Backspace" /\ ~ControlText(e.text) THEN None
     ELSE IF ~e.composing /\ ~all /\ bare /\ e.key \in {"Enter", "Tab", "Backspace"}
            THEN Raw(<<KittyTable[e.key][1]>>)
     ELSE IF /\ typed /\ ~all /\ bare /\ e.action # "release"
             /\ \A i \in DOMAIN e.text : ~IsControl(e.text[i]) THEN Raw(e.text)
     ELSE IF KittyEntry(e) = None THEN (IF e.text = <<>> THEN None ELSE Raw(e.text))
     ELSE IF modifier /\ ~all THEN None
     ELSE KittySeq(e, opts)

Encode(e, opts) == IF opts.kitty # {} THEN Kitty(e, opts) ELSE Legacy(e, opts)

-----------------------------------------------------------------------------
(* The person, the host's window and the child.                            *)

Mods(keys, lock) == {ModifierOf[k] : k \in keys \intersect (DOMAIN ModifierOf \ {"CapsLock", "NumLock"})}
                    \union (IF lock THEN {"caps"} ELSE {})
                    \union (IF "AltRight" \in keys THEN {"alt_side"} ELSE {})

\* The window's text for a key: control is left out, option translates, the keys
\* below have the control characters of their names, a release has none.
Unshifted(key, layout) ==
  CASE key \in DOMAIN Codepoint ->
         Codepoint[key] + (IF key \in Letters /\ layout = "foreign" THEN 975 ELSE 0)
    [] key \in {"Enter", "Escape", "Backspace"} -> KittyTable[key][1]
    [] OTHER -> 0
Text(key, mods, layout) ==
  LET code == Unshifted(key, layout) IN
  IF code = 0 THEN <<>>
  ELSE IF "alt" \in mods /\ key \in Letters THEN <<code + 128>>
  ELSE IF mods \intersect {"shift", "caps"} # {} /\ key \in Letters THEN <<code - 32>>
  ELSE <<code>>
KeyEventOf(action, key, mods) ==
  [action |-> action, key |-> key, mods |-> mods, composing |-> FALSE,
   consumed |-> mods \ {"ctrl", "super"}, unshifted |-> Unshifted(key, desk.layout),
   text |-> IF action = "release" THEN <<>> ELSE Text(key, mods, desk.layout)]

\* A child's reading of a sequence: which key, which modifiers, which event.
Sub(params, i, j, default) ==
  IF i \in DOMAIN params /\ j \in DOMAIN params[i] THEN params[i][j] ELSE default
Decoded(bytes) == [key   |-> <<Sub(bytes[2], 1, 1, 1), bytes[3]>>,
                   mods  |-> IF Sub(bytes[2], 2, 1, 1) = Absent THEN 0 ELSE Sub(bytes[2], 2, 1, 1) - 1,
                   event |-> Sub(bytes[2], 2, 2, 1)]

IsCsi(bytes) == bytes # None /\ bytes[1] = "csi"
Told(action, key, mods) ==
  \E e \in {KeyEventOf(action, key, mods)} : \E bytes \in {Encode(e, desk.options)} :
    /\ event' = e
    /\ sent' = bytes
    /\ held' = IF ~IsCsi(bytes) \/ "events" \notin desk.options.kitty THEN held
               ELSE IF Decoded(bytes).event = 3 THEN held \ {Decoded(bytes).key}
               ELSE held \union {Decoded(bytes).key}

KeyPress(key) ==
  /\ key \notin down /\ Cardinality(down) < desk.most
  /\ down' = down \union {key}
  /\ locked' = (locked # (key = "CapsLock"))
  /\ Told("press", key, Mods(down', locked'))
  /\ UNCHANGED desk
KeyRepeat(key) ==
  /\ key \in down \ DOMAIN ModifierOf
  /\ Told("repeat", key, Mods(down, locked))
  /\ UNCHANGED <<desk, down, locked>>
KeyRelease(key) ==
  /\ key \in down
  /\ down' = down \ {key}
  /\ Told("release", key, Mods(down', locked))
  /\ UNCHANGED <<desk, locked>>

KeyInit ==
  /\ desk \in Desks
  /\ down = {} /\ locked = FALSE /\ sent = None /\ held = {}
  /\ event = [action |-> "release", key |-> "Space", mods |-> {}, composing |-> FALSE,
              consumed |-> {}, unshifted |-> 32, text |-> <<>>]
KeyNext == \E key \in desk.keys : KeyPress(key) \/ KeyRepeat(key) \/ KeyRelease(key)

-----------------------------------------------------------------------------
(* Properties.                                                             *)

\* A child that reads the kitty protocol reads every key as what it was: the key
\* and no other, the modifiers that were down, and whether it went down, stayed
\* or came up (KITTY_TABLE, kitty_mods, encode_kitty_seq); and in the legacy
\* encoding ctrl and a letter is never taken for Tab, Enter or Escape (ctrl_c0).
KeysReadBack ==
  /\ IsCsi(sent) /\ desk.options.kitty # {} =>
       LET read == Decoded(sent) IN
       /\ read.key = KittyEntry(event)
       /\ read.mods = KittyMods(event.mods)
       /\ read.event = IF "events" \in desk.options.kitty THEN EventNumber[event.action] ELSE 1
       /\ \A key \in DOMAIN KittyTable \ {event.key} : KittyTable[key] # read.key
  /\ event.key \in Letters /\ "ctrl" \in event.mods /\ desk.options.kitty = {} =>
       sent \notin {Raw(<<9>>), Raw(<<13>>), Raw(<<27>>)}

\* No key stays down for the child that is up for the person: what is reported
\* down is reported up, whatever was pressed or let go in between (kitty), but
\* for Enter, Backspace and Tab, whose releases only report-all tells.
NoKeyStuck ==
  \A k \in held :
    \/ \E key \in down : KittyEntry(KeyEventOf("release", key, {})) = k
    \/ "all" \notin desk.options.kitty /\ k \in {U(13), U(127), U(9)}

KeyTypeOK ==
  /\ desk \in Desks /\ down \subseteq desk.keys /\ Cardinality(down) <= desk.most
  /\ locked \in BOOLEAN
  /\ event.mods \subseteq DOMAIN KittyWeights \union {"alt_side"}
  /\ sent # None => sent[1] \in {"raw", "csi", "ss3"}
=============================================================================
