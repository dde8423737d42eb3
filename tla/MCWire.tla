------------------------------- MODULE MCWire -------------------------------
EXTENDS Wire

\* Text in reads of any length; then a CSI, an OSC, an APC and a DCS.
MCText == {[bytes |-> {194, 155, 169, 226, 120, 27}, first |-> <<>>, max |-> 5, read |-> 4]}
MCSetups == MCText \union
  {[bytes |-> {27, 91, 49, 59, 58, 63, 32, 109}, first |-> <<27, 91>>, max |-> 7, read |-> 1],
   [bytes |-> {27, 93, 59, 97, 7, 24}, first |-> <<27, 93>>, max |-> 7, read |-> 1],
   [bytes |-> {27, 95, 80, 113, 120, 24, 156, 88}, first |-> <<27>>, max |-> 6, read |-> 1]}

\* KeyOptions: the defaults, with each set of kitty flags, and everything else set.
AllFlags == {"disambiguate", "events", "alternates", "all", "associated"}
Options(flags) ==
  [cursor |-> FALSE, keypad |-> FALSE, ignore_keypad |-> TRUE, alt_esc_prefix |-> TRUE,
   modify_other_keys |-> FALSE, kitty |-> flags, option_as_alt |-> "false", backarrow |-> FALSE]
Set(other, alt) == [Options({}) EXCEPT !.cursor = TRUE, !.keypad = TRUE, !.ignore_keypad = FALSE,
                      !.modify_other_keys = other, !.option_as_alt = alt, !.backarrow = TRUE]

\* Every key with every modifier; then three keys at a time.
Modifiers == {"ShiftLeft", "ControlLeft", "AltRight", "CapsLock"}
Functional == DOMAIN CursorKeys \union DOMAIN TildeKeys
Groups == {Letters, DOMAIN Codepoint \ Letters, Functional,
           DOMAIN KittyTable \ (Functional \union DOMAIN Codepoint)}
Few == {"A", "Digit3", "Enter", "Tab", "ArrowUp", "ShiftLeft", "ControlLeft", "AltRight"}
Set3 == {"A", "Numpad1", "Backspace", "Tab", "ArrowUp", "ShiftLeft", "ControlLeft", "AltRight"}
MCDesks ==
  {[keys |-> g \union Modifiers, most |-> 2, options |-> Options(f), layout |-> "us"] :
     g \in Groups, f \in {{}, AllFlags}} \union
  {[keys |-> Few, most |-> 3, options |-> Options(f), layout |-> "foreign"] :
     f \in SUBSET (AllFlags \ {"disambiguate"})} \union
  {[keys |-> Set3, most |-> 3, options |-> Set(other, alt), layout |-> "us"] :
     other \in BOOLEAN, alt \in {"true", "left"}}

\* A view of four or two columns and two rows, and a place outside it.
MCModes ==
  {[event |-> m[1], format |-> m[2], alternate_scroll |-> FALSE] :
     m \in {<<"Normal", "X10">>, <<"Button", "Sgr">>, <<"Any", "X10">>, <<"Any", "Sgr">>,
            <<"None", "X10">>, <<"X10", "Sgr">>}} \union
  {[event |-> "Any", format |-> "SgrPixels", alternate_scroll |-> TRUE]}
MCGeometries == {[width |-> <<10, 10>>, cell |-> <<w, 4>>, padding |-> <<1, 1>>] : w \in {2, 4}}
MCPositions  == {<<-1, 1>>, <<4, 3>>, <<4, 7>>, <<9, 3>>}
=============================================================================
