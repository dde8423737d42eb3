------------------------------ MODULE MCOwner ------------------------------
(* Owner on small instances of its parts.                                  *)
EXTENDS Owner

\* A window one row high, one of five rows, and a wide one of three.
MCAreas == {Rect(1, 1, 5, 1), Rect(1, 0, 8, 5), Rect(0, 1, 13, 3)}

\* Two agents share a binary, as antigravity and gemini once did.
MCRegistry == [a |-> [candidates |-> <<"agy", "gem">>, grace |-> 3], b |-> [candidates |-> <<"gem">>, grace |-> 2]]
MCPath     == <<"d1", "d2">>
MCSpots    == {<<"d1", "gem">>, <<"d2", "agy">>}
MCArgvs    == {<<>>, <<"-a", "never">>, <<"never", "-a">>}
MCWords    == {<<"--yolo">>, <<"-a", "never">>}

MCTyped == {<<>>, <<"a">>, <<"a", "b">>, <<" ", "a", "TAB", "b", " ">>, <<"a", "NL", "b">>}
MCDirs  == {<<>>, <<"d">>, <<"d", " ">>}
MCTemplates == {<<"x", "{{", "x", "}}", "-", "{{", "y", "}}", "{{", "x", "}}">>,
                <<"{{", "{{", "x", "}}", "}}">>, <<"{{", "-", "}}">>}
MCGiven == {<<>>, <<<<"x", <<"v">>>>>>, <<<<"x", <<"v">>>>, <<"y", <<"w", "w">>>>>>,
            <<<<"x", <<>>>>, <<"y", <<"w">>>>>>, <<<<"x", <<"{{", "y", "}}">>>>, <<"y", <<"w">>>>>>,
            <<<<"x", <<"v">>>>, <<"x", <<"w">>>>, <<"y", <<"w">>>>, <<"z", <<"v">>>>>>}
MCDeltas == -3..3
=============================================================================
