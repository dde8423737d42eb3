----------------------------- MODULE WireProofs -----------------------------
(***************************************************************************)
(* The wire for any bytes in any reads, any keys and layouts, any buttons, *)
(* modes and geometries. The parser is proved by two parsers side by side: *)
(* two that are alike and have bytes to read do the same and stay alike,   *)
(* whatever one of them did before.                                        *)
(***************************************************************************)
EXTENDS Wire, Climbing, SequenceTheorems, FiniteSetTheorems

-----------------------------------------------------------------------------
(* The pointer.                                                            *)

\* The smaller of two numbers.
LEMMA LesserOf ==
  ASSUME NEW a \in Nat, NEW b \in Nat
  PROVE  Min({a, b}) = IF a <= b THEN a ELSE b
<1> DEFINE m == IF a <= b THEN a ELSE b
<1>1. m \in {a, b} /\ \A x \in {a, b} : m <= x
  OBVIOUS
<1>2. \A n \in {a, b} : (\A x \in {a, b} : n <= x) => n = m
  OBVIOUS
<1> HIDE DEF m
<1>3. Min({a, b}) = m
  BY <1>1, <1>2 DEF Min
<1>4. QED
  BY <1>3 DEF m

LEMMA BitInRange ==
  ASSUME NEW code \in Codes
  PROVE  Bit(code) \in 1 .. MaxBit
<1>1. code \in Nat \ {0} /\ MaxBit \in Nat \ {0}
  BY MouseAssumption
<1>2. QED
  BY <1>1, LesserOf DEF Bit

\* What a report says of the event it is made of, and what is recorded.
Reports(e, result, cell) ==
  \A r \in result.reports :
    /\ r.cell = cell /\ (r.up <=> e.action = "release")
    /\ r.code \in ButtonCode(e, modes.format)

LEMMA EncodedSays ==
  ASSUME NEW e, NEW g, NEW any, NEW last,
         NEW result, result = Encoded(e, g, any, last)
  PROVE  /\ result.tried <=> /\ ShouldReport(e, modes.event)
                             /\ ~Drops(e, g, any) /\ ~Repeats(e, CellOf(e.pos, g), last)
         /\ result.tried \in BOOLEAN
         /\ ~result.tried => result.last = last /\ result.reports = {}
         /\ result.tried => result.last = CellOf(e.pos, g)
         /\ Reports(e, result, CellOf(e.pos, g))
<1> DEFINE cell == CellOf(e.pos, g)
           goes == ShouldReport(e, modes.event) /\ ~Drops(e, g, any) /\ ~Repeats(e, cell, last)
           at   == IF modes.format = "SgrPixels" THEN [i \in 1..2 |-> e.pos[i] - g.padding[i]] ELSE cell
           Report(code) == [code |-> code, cell |-> cell, at |-> at, up |-> e.action = "release"]
           off  == modes.format = "X10" /\ \E i \in 1..2 : cell[i] > MaxX10
           some == IF off THEN {} ELSE {Report(c) : c \in ButtonCode(e, modes.format)}
<1>1. result = IF ~goes THEN [last |-> last, reports |-> {}, tried |-> FALSE]
               ELSE [last |-> cell, tried |-> TRUE, reports |-> some]
  BY DEF Encoded
<1>2. \A r \in some : r.cell = cell /\ (r.up <=> e.action = "release") /\ r.code \in ButtonCode(e, modes.format)
  <2>1. TAKE r \in some
  <2>2. PICK c \in ButtonCode(e, modes.format) : r = Report(c)
    BY <2>1
  <2> HIDE DEF cell, at, some
  <2>3. r.cell = cell /\ r.code = c
    BY <2>2
  <2>4. r.up = (e.action = "release")
    BY <2>2
  <2>5. QED
    BY <2>3, <2>4
<1> HIDE DEF some, goes, cell
<1>3. CASE goes
  <2>1. result = [last |-> cell, tried |-> TRUE, reports |-> some]
    BY <1>1, <1>3
  <2>2. QED
    BY <1>2, <1>3, <2>1 DEF Reports, cell, goes
<1>4. CASE ~goes
  <2>1. result = [last |-> last, reports |-> {}, tried |-> FALSE]
    BY <1>1, <1>4
  <2>2. QED
    BY <1>4, <2>1 DEF Reports, cell, goes
<1>5. QED
  BY <1>3, <1>4

\* The press and the release of one of the three buttons are told as that
\* button; what is told of the others is never taken for it.
LEMMA CodesTold ==
  ASSUME NEW e, e.code \in Nat, NEW code \in ButtonCode(e, modes.format)
  PROVE  /\ code \in Int
         /\ e.action = "press" /\ code \in 0 .. 2 => e.code = code + 1
         /\ e.action = "release" /\ Sgr(modes.format) /\ e.code \in 1 .. 3 => code = e.code - 1
         /\ e.action = "motion" => code \notin 0 .. 2
<1> DEFINE none == e.code = 0 \/ (e.action = "release" /\ ~Sgr(modes.format))
           w    == IF e.code < 4 THEN e.code - 1 ELSE IF e.code < 8 THEN 60 + e.code ELSE 120 + e.code
<1>1. DOMAIN Wire = 1 .. 9
  BY DEF Wire
<1>2. \A b \in 1 .. 9 : Wire[b] = IF b < 4 THEN b - 1 ELSE IF b < 8 THEN 60 + b ELSE 120 + b
  <2>1. TAKE b \in 1 .. 9
  <2>2. Wire[b] = CASE b \in 1 .. 3 -> b - 1 [] b \in 4 .. 7 -> 60 + b [] OTHER -> 120 + b
    BY DEF Wire
  <2>3. CASE b \in 1 .. 3
    <3>1. b < 4 /\ ~(b \in 4 .. 7)
      BY <2>3
    <3>2. QED
      BY <2>2, <2>3, <3>1
  <2>4. CASE b \in 4 .. 7
    <3>1. ~(b < 4) /\ b < 8 /\ ~(b \in 1 .. 3)
      BY <2>4
    <3>2. QED
      BY <2>2, <2>4, <3>1
  <2>5. CASE b \in 8 .. 9
    <3>1. ~(b < 8) /\ ~(b \in 1 .. 3) /\ ~(b \in 4 .. 7)
      BY <2>5
    <3>2. QED
      BY <2>2, <2>5, <3>1
  <2>6. QED
    BY <2>3, <2>4, <2>5
<1>3. none \/ (e.code \in 1 .. 9 /\ code = IF e.action = "motion" THEN w + 32 ELSE w)
  BY <1>1, <1>2 DEF ButtonCode
<1>4. none => code = IF e.action = "motion" THEN 35 ELSE 3
  BY DEF ButtonCode
<1>5. QED
  BY <1>3, <1>4

\* The types of the pointer, and what makes NoButtonStuck and MotionIsTold last:
\* without a geometry, without reports and in mode X10 nothing is held.
MouseInv ==
  /\ modes \in MouseModes /\ geometry \subseteq Geometries
  /\ geometry = {} \/ \E g \in Geometries : geometry = {g}
  /\ pressed \subseteq Codes
  /\ DOMAIN pointer = {"held", "last"} /\ DOMAIN told = {"held", "at", "lost"}
  /\ pointer.held \subseteq {Bit(c) : c \in pressed}
  /\ silent \in BOOLEAN /\ told.held \subseteq 1 .. 3
  /\ geometry = {} \/ modes.event \in {"None", "X10"} => told.held = {}
  /\ NoButtonStuck /\ MotionIsTold

Kept(last) == [last |-> last, reports |-> {}, tried |-> FALSE]

\* What an encoder made of an event (or nothing was asked of it).
Made(e, any, result) ==
  \/ result = Kept(pointer.last) /\ (geometry = {} \/ (e.action = "press"))
  \/ \E g \in geometry : result = Encoded(e, g, any, pointer.last)

\* A release of a button the child holds is tried whatever the mode and place.
LEMMA ReleaseTried ==
  ASSUME NEW e, e.action = "release", e.code \in Nat \ {0},
         modes \in MouseModes, modes.event \notin {"None", "X10"},
         NEW g, NEW any, NEW last
  PROVE  Encoded(e, g, any, last).tried
<1>1. modes.event \in {"Normal", "Button", "Any"}
  BY MouseAssumption
<1>2. ShouldReport(e, modes.event)
  BY <1>1 DEF ShouldReport
<1>3. ~Drops(e, g, any) /\ ~Repeats(e, CellOf(e.pos, g), last)
  BY DEF Drops, Repeats
<1>4. QED
  BY <1>2, <1>3, EncodedSays

\* What the child takes for held after a report, or after none.
LEMMA TellHeld ==
  ASSUME MouseInv, NEW e, e.code \in Nat, e.action \in {"press", "release", "motion"},
         NEW any, NEW result, Made(e, any, result), Tell(e, result)
  PROVE  /\ DOMAIN told' = {"held", "at", "lost"}
         /\ told.lost \subseteq told'.lost
         /\ told'.held \subseteq 1 .. 3
         /\ told'.held \subseteq told.held \union (IF e.action = "press" THEN {e.code} ELSE {})
         /\ geometry = {} \/ modes.event \in {"None", "X10"} => told'.held \subseteq told.held
         /\ e.action = "release" /\ e.code # 0 => e.code \notin told'.held \/ e.code \in told'.lost
<1>1. CASE result = Kept(pointer.last) /\ (geometry = {} \/ (e.action = "press"))
  <2>1. result.reports = {} /\ ~result.tried
    BY <1>1 DEF Kept
  <2>2. told' = told
    BY <2>1 DEF Tell
  <2>3. e.action = "release" => told.held = {}
    BY <1>1 DEF MouseInv
  <2>4. QED
    BY <2>2, <2>3 DEF MouseInv
<1>2. CASE \E g \in geometry : result = Encoded(e, g, any, pointer.last)
  <2>1. PICK g \in geometry : result = Encoded(e, g, any, pointer.last)
    BY <1>2
  <2>2. /\ result.tried <=> /\ ShouldReport(e, modes.event)
                            /\ ~Drops(e, g, any) /\ ~Repeats(e, CellOf(e.pos, g), pointer.last)
        /\ ~result.tried => result.reports = {}
        /\ Reports(e, result, CellOf(e.pos, g))
    BY <2>1, EncodedSays
  <2>3. DOMAIN told = {"held", "at", "lost"} /\ told.held \subseteq 1 .. 3
    BY DEF MouseInv
  <2>4. CASE result.reports # {}
    <3> DEFINE r == CHOOSE r \in result.reports : TRUE
    <3>1. r \in result.reports
      BY <2>4
    <3>2. told' = Hears(told, r)
      BY <2>4 DEF Tell
    <3> HIDE DEF r
    <3>3. (r.up <=> e.action = "release") /\ r.code \in ButtonCode(e, modes.format)
      BY <2>2, <3>1 DEF Reports
    <3>4. /\ r.code \in Int
          /\ e.action = "press" /\ r.code \in 0 .. 2 => e.code = r.code + 1
          /\ e.action = "release" /\ Sgr(modes.format) /\ e.code \in 1 .. 3 => r.code = e.code - 1
          /\ e.action = "motion" => r.code \notin 0 .. 2
      BY <3>3, CodesTold
    <3>5. /\ DOMAIN told' = {"held", "at", "lost"} /\ told'.lost = told.lost
          /\ told'.held = IF r.up THEN (IF Sgr(modes.format) THEN told.held \ {r.code + 1} ELSE {})
                          ELSE IF r.code \in 0 .. 2 /\ modes.event # "X10" THEN told.held \union {r.code + 1}
                          ELSE told.held
      BY <2>3, <3>2 DEF Hears
    <3>6. modes.event # "None"
      BY <2>2, <2>4 DEF ShouldReport
    <3>7. geometry # {}
      OBVIOUS
    <3>8. CASE e.action = "release"
      <4>1. told'.held = IF Sgr(modes.format) THEN told.held \ {r.code + 1} ELSE {}
        BY <3>3, <3>5, <3>8
      <4>2. e.code \in told.held => e.code \in 1 .. 3
        BY <2>3
      <4>3. e.code \notin told'.held
        BY <4>1, <4>2, <3>4, <3>8
      <4>4. QED
        BY <4>1, <4>3, <3>5, <2>3
    <3>9. CASE e.action = "press"
      <4>1. told'.held = IF r.code \in 0 .. 2 /\ modes.event # "X10" THEN told.held \union {e.code} ELSE told.held
        BY <3>3, <3>4, <3>5, <3>9
      <4>2. r.code \in 0 .. 2 => e.code \in 1 .. 3
        BY <3>4, <3>9
      <4>3. QED
        BY <4>1, <4>2, <3>5, <3>6, <3>7, <3>9, <2>3
    <3>10. CASE e.action = "motion"
      <4>1. told'.held = told.held
        BY <3>3, <3>4, <3>5, <3>10
      <4>2. QED
        BY <4>1, <3>5, <3>10, <2>3
    <3>11. QED
      BY <3>8, <3>9, <3>10
  <2>5. CASE result.reports = {}
    <3>1. CASE result.tried /\ e.action = "release"
      <4>1. told' = Loses(told, e)
        BY <2>5, <3>1 DEF Tell
      <4>2. /\ DOMAIN told' = {"held", "at", "lost"} /\ told'.held = told.held
            /\ told'.lost = told.lost \union ({e.code} \intersect told.held)
        BY <4>1, <2>3 DEF Loses
      <4>3. QED
        BY <4>2, <2>3
    <3>2. CASE ~(result.tried /\ e.action = "release")
      <4>1. told' = told
        BY <2>5, <3>2 DEF Tell
      <4>2. e.action = "release" /\ e.code # 0 => e.code \notin told.held
        <5>1. SUFFICES ASSUME e.action = "release", e.code # 0, e.code \in told.held PROVE FALSE
          OBVIOUS
        <5>2. modes \in MouseModes /\ modes.event \notin {"None", "X10"}
          BY <5>1 DEF MouseInv
        <5>3. result.tried
          BY <5>1, <5>2, <2>1, ReleaseTried
        <5>4. QED
          BY <5>1, <5>3, <3>2
      <4>3. QED
        BY <4>1, <4>2, <2>3
    <3>3. QED
      BY <3>1, <3>2
  <2>6. QED
    BY <2>4, <2>5
<1>3. QED
  BY <1>1, <1>2 DEF Made

\* Where the child takes the pointer to be after a report, or after none.
LEMMA TellPlace ==
  ASSUME MouseInv, NEW e, e.action \in {"press", "release", "motion"},
         NEW any, NEW result, Made(e, any, result), Tell(e, result)
  PROVE  /\ silent' \in BOOLEAN /\ (result.last = told'.at \/ silent')
         /\ \A g \in geometry : moved' # NoCell /\ ~OutOfViewport(moved', g) /\ ~silent' =>
              told'.at = CellOf(moved', g)
<1>1. DOMAIN told = {"held", "at", "lost"} /\ (pointer.last = told.at \/ silent) /\ silent \in BOOLEAN
  BY DEF MouseInv, MotionIsTold
<1>2. silent' \in BOOLEAN /\ (silent' <=> result.reports = {} /\ (result.tried \/ silent))
  BY DEF Tell
<1>3. moved' = IF e.action = "motion" /\ ShouldReport(e, modes.event) THEN e.pos ELSE NoCell
  BY DEF Tell
<1>4. ASSUME ~result.tried, result.reports = {}, result.last = pointer.last
      PROVE  told' = told /\ (result.last = told'.at \/ silent')
  BY <1>1, <1>2, <1>4 DEF Tell
<1>5. CASE result = Kept(pointer.last) /\ (geometry = {} \/ (e.action = "press"))
  <2>1. ~result.tried /\ result.reports = {} /\ result.last = pointer.last
    BY <1>5 DEF Kept
  <2>2. moved' = NoCell \/ geometry = {}
    BY <1>3, <1>5
  <2>3. QED
    BY <1>2, <1>4, <2>1, <2>2
<1>6. CASE \E g \in geometry : result = Encoded(e, g, any, pointer.last)
  <2>1. PICK g \in geometry : result = Encoded(e, g, any, pointer.last)
    BY <1>6
  <2>2. geometry = {g}
    BY <2>1 DEF MouseInv
  <2> DEFINE cell == CellOf(e.pos, g)
  <2>3. /\ result.tried <=> /\ ShouldReport(e, modes.event)
                            /\ ~Drops(e, g, any) /\ ~Repeats(e, cell, pointer.last)
        /\ ~result.tried => result.last = pointer.last /\ result.reports = {}
        /\ result.tried => result.last = cell
        /\ Reports(e, result, cell)
    BY <2>1, EncodedSays
  <2> HIDE DEF cell
  <2>4. CASE result.reports # {}
    <3> DEFINE r == CHOOSE r \in result.reports : TRUE
    <3>1. r \in result.reports
      BY <2>4
    <3>2. told' = Hears(told, r)
      BY <2>4 DEF Tell
    <3> HIDE DEF r
    <3>3. r.cell = cell
      BY <2>3, <3>1 DEF Reports
    <3>4. told'.at = cell
      BY <1>1, <3>2, <3>3 DEF Hears
    <3>5. result.last = cell
      BY <2>3, <2>4
    <3>6. moved' # NoCell => CellOf(moved', g) = cell
      BY <1>3 DEF cell
    <3>7. QED
      BY <1>2, <2>2, <3>4, <3>5, <3>6
  <2>5. CASE result.reports = {} /\ result.tried
    BY <1>2, <2>5
  <2>6. CASE result.reports = {} /\ ~result.tried
    <3>1. told' = told /\ (result.last = told'.at \/ silent')
      BY <1>4, <2>3, <2>6
    <3>2. ASSUME moved' # NoCell, ~OutOfViewport(moved', g), ~silent'
          PROVE  told'.at = CellOf(moved', g)
      <4>1. e.action = "motion" /\ ShouldReport(e, modes.event) /\ moved' = e.pos
        BY <1>3, <3>2
      <4>2. ~Drops(e, g, any)
        BY <3>2, <4>1 DEF Drops
      <4>3. Repeats(e, cell, pointer.last)
        BY <2>3, <2>6, <4>1, <4>2
      <4>4. pointer.last = cell
        BY <4>3 DEF Repeats
      <4>5. result.last = cell
        BY <2>3, <2>6, <4>4
      <4>6. QED
        BY <3>1, <3>2, <4>1, <4>5 DEF cell
    <3>3. QED
      BY <1>2, <2>2, <3>1, <3>2
  <2>7. QED
    BY <2>4, <2>5, <2>6
<1>7. QED
  BY <1>5, <1>6 DEF Made

\* What any event does, given what the fingers do with it.
LEMMA EventKeeps ==
  ASSUME MouseInv, NEW e, e.code \in Nat, e.action \in {"press", "release", "motion"},
         NEW any, NEW result, Made(e, any, result), Tell(e, result),
         modes' = modes, geometry' = geometry, pressed' \subseteq Codes,
         DOMAIN pointer' = {"held", "last"}, pointer'.last = result.last,
         pointer'.held \subseteq {Bit(c) : c \in pressed'},
         e.action = "press" => pressed \subseteq pressed' /\ (e.code \in 1 .. 3 => e.code \in pressed'),
         e.action = "release" => e.code # 0 /\ pressed \ {e.code} \subseteq pressed',
         e.action = "motion" => pressed \subseteq pressed'
  PROVE  MouseInv'
<1>1. /\ DOMAIN told' = {"held", "at", "lost"}
      /\ told.lost \subseteq told'.lost
      /\ told'.held \subseteq 1 .. 3
      /\ told'.held \subseteq told.held \union (IF e.action = "press" THEN {e.code} ELSE {})
      /\ geometry = {} \/ modes.event \in {"None", "X10"} => told'.held \subseteq told.held
      /\ e.action = "release" /\ e.code # 0 => e.code \notin told'.held \/ e.code \in told'.lost
  BY TellHeld
<1>2. /\ silent' \in BOOLEAN /\ (result.last = told'.at \/ silent')
      /\ \A g \in geometry : moved' # NoCell /\ ~OutOfViewport(moved', g) /\ ~silent' =>
           told'.at = CellOf(moved', g)
  BY TellPlace
<1>3. NoButtonStuck'
  <2>1. told.held \subseteq pressed \union told.lost
    BY DEF MouseInv, NoButtonStuck
  <2>2. SUFFICES ASSUME NEW b \in told'.held, b \notin told'.lost PROVE b \in pressed'
    BY DEF NoButtonStuck
  <2>3. b \in 1 .. 3
    BY <1>1
  <2>4. b \in told.held \/ (e.action = "press" /\ b = e.code)
    BY <1>1
  <2>5. b \in told.held => b \in pressed
    BY <1>1, <2>1, <2>2
  <2>6. QED
    BY <1>1, <2>2, <2>3, <2>4, <2>5
<1>4. MotionIsTold'
  BY <1>2 DEF MotionIsTold
<1>5. geometry' = {} \/ modes'.event \in {"None", "X10"} => told'.held = {}
  BY <1>1 DEF MouseInv
<1>6. QED
  BY <1>1, <1>2, <1>3, <1>4, <1>5 DEF MouseInv

LEMMA ButtonMade ==
  ASSUME MouseInv, NEW e, e.action \in {"press", "release", "motion"}, Button(e)
  PROVE  \E any, result :
           /\ Made(e, any, result) /\ Tell(e, result)
           /\ modes' = modes /\ geometry' = geometry
           /\ DOMAIN pointer' = {"held", "last"} /\ pointer'.last = result.last
           /\ pointer'.held = Held(e)
<1> DEFINE any == Held(e) # {}
<1>1. PICK result \in {IF geometry = {} THEN [last |-> pointer.last, reports |-> {}, tried |-> FALSE]
                       ELSE Encoded(e, CHOOSE g \in geometry : TRUE, any, pointer.last)} :
             /\ Tell(e, result)
             /\ pointer' = [pointer EXCEPT !.held = Held(e), !.last = result.last]
  BY DEF Button
<1> HIDE DEF any
<1>2. Made(e, any, result)
  <2>1. CASE geometry = {}
    BY <1>1, <2>1 DEF Made, Kept
  <2>2. CASE geometry # {}
    <3>1. (CHOOSE g \in geometry : TRUE) \in geometry
      BY <2>2
    <3>2. QED
      BY <1>1, <2>2, <3>1 DEF Made
  <2>3. QED
    BY <2>1, <2>2
<1>3. DOMAIN pointer' = {"held", "last"} /\ pointer'.last = result.last /\ pointer'.held = Held(e)
  BY <1>1 DEF MouseInv
<1>4. QED
  BY <1>1, <1>2, <1>3 DEF Button

LEMMA CodesAreNumbers == \A c \in Codes : c \in Nat /\ c # 0
  BY MouseAssumption

LEMMA PressKeeps ==
  ASSUME MouseInv, Press
  PROVE  MouseInv'
<1>1. PICK code \in Codes \ pressed, pos \in Positions :
         /\ pressed' = pressed \union {code}
         /\ Button([action |-> "press", code |-> code, pos |-> pos])
  BY DEF Press
<1> DEFINE e == [action |-> "press", code |-> code, pos |-> pos]
<1>2. e.action = "press" /\ e.code = code /\ e.code \in Nat /\ Button(e)
  BY <1>1, CodesAreNumbers
<1> HIDE DEF e
<1>3. PICK any, result :
           /\ Made(e, any, result) /\ Tell(e, result)
           /\ modes' = modes /\ geometry' = geometry
           /\ DOMAIN pointer' = {"held", "last"} /\ pointer'.last = result.last
           /\ pointer'.held = Held(e)
  BY <1>2, ButtonMade
<1>4. pressed' \subseteq Codes /\ pressed \subseteq pressed' /\ e.code \in pressed'
  BY <1>1, <1>2 DEF MouseInv
<1>5. pointer'.held \subseteq {Bit(c) : c \in pressed'}
  <2>1. Held(e) = pointer.held \union {Bit(e.code)}
    BY <1>2 DEF Held
  <2>2. pointer.held \subseteq {Bit(c) : c \in pressed}
    BY DEF MouseInv
  <2>3. QED
    BY <1>3, <1>4, <2>1, <2>2
<1>6. QED
  BY <1>2, <1>3, <1>4, <1>5, EventKeeps

LEMMA ReleaseKeeps ==
  ASSUME MouseInv, Release
  PROVE  MouseInv'
<1>1. PICK code \in pressed, pos \in Positions :
         /\ pressed' = pressed \ {code}
         /\ Button([action |-> "release", code |-> code, pos |-> pos])
  BY DEF Release
<1> DEFINE e == [action |-> "release", code |-> code, pos |-> pos]
<1>2. pressed \subseteq Codes
  BY DEF MouseInv
<1>3. e.action = "release" /\ e.code = code /\ e.code \in Nat /\ e.code # 0 /\ Button(e)
  BY <1>1, <1>2, CodesAreNumbers
<1> HIDE DEF e
<1>4. PICK any, result :
           /\ Made(e, any, result) /\ Tell(e, result)
           /\ modes' = modes /\ geometry' = geometry
           /\ DOMAIN pointer' = {"held", "last"} /\ pointer'.last = result.last
           /\ pointer'.held = Held(e)
  BY <1>3, ButtonMade
<1>5. pressed' \subseteq Codes /\ pressed \ {e.code} \subseteq pressed'
  BY <1>1, <1>2, <1>3
<1>6. pointer'.held \subseteq {Bit(c) : c \in pressed'}
  <2>1. Held(e) = pointer.held \ {Bit(e.code)}
    BY <1>3 DEF Held
  <2>2. pointer.held \subseteq {Bit(c) : c \in pressed}
    BY DEF MouseInv
  <2>3. QED
    BY <1>4, <1>5, <2>1, <2>2
<1>7. QED
  BY <1>3, <1>4, <1>5, <1>6, EventKeeps

LEMMA MotionKeeps ==
  ASSUME MouseInv, Motion
  PROVE  MouseInv'
<1>1. PICK code \in IF pressed = {} THEN {0} ELSE pressed, pos \in Positions :
         /\ Button([action |-> "motion", code |-> code, pos |-> pos])
         /\ UNCHANGED pressed
  BY DEF Motion
<1> DEFINE e == [action |-> "motion", code |-> code, pos |-> pos]
<1>2. pressed \subseteq Codes
  BY DEF MouseInv
<1>3. e.action = "motion" /\ e.code \in Nat /\ Button(e)
  BY <1>1, <1>2, CodesAreNumbers
<1> HIDE DEF e
<1>4. PICK any, result :
           /\ Made(e, any, result) /\ Tell(e, result)
           /\ modes' = modes /\ geometry' = geometry
           /\ DOMAIN pointer' = {"held", "last"} /\ pointer'.last = result.last
           /\ pointer'.held = Held(e)
  BY <1>3, ButtonMade
<1>5. Held(e) = pointer.held
  BY <1>3 DEF Held
<1>6. pointer'.held \subseteq {Bit(c) : c \in pressed'}
  BY <1>1, <1>4, <1>5 DEF MouseInv
<1>7. QED
  BY <1>1, <1>2, <1>3, <1>4, <1>6, EventKeeps

LEMMA WheelKeeps ==
  ASSUME MouseInv, Wheel
  PROVE  MouseInv'
<1>1. PICK ticks \in -1 .. 1, shift \in BOOLEAN, pos \in Positions :
         LET e == [action |-> "press", code |-> IF ticks > 0 THEN 4 ELSE 5, pos |-> pos]
             reported == ticks # 0 /\ ~shift /\ ~modes.alternate_scroll /\ modes.event # "None" /\ geometry # {}
         IN /\ \E result \in {IF ~reported THEN [last |-> pointer.last, reports |-> {}, tried |-> FALSE]
                       ELSE Encoded(e, CHOOSE g \in geometry : TRUE, pointer.held # {}, pointer.last)} :
                 /\ Tell(e, result)
                 /\ pointer' = [pointer EXCEPT !.last = result.last]
            /\ UNCHANGED <<modes, geometry, pressed>>
  BY DEF Wheel
<1> DEFINE e == [action |-> "press", code |-> IF ticks > 0 THEN 4 ELSE 5, pos |-> pos]
           reported == ticks # 0 /\ ~shift /\ ~modes.alternate_scroll /\ modes.event # "None" /\ geometry # {}
           any == pointer.held # {}
<1>2. PICK result \in {IF ~reported THEN [last |-> pointer.last, reports |-> {}, tried |-> FALSE]
                       ELSE Encoded(e, CHOOSE g \in geometry : TRUE, any, pointer.last)} :
                 /\ Tell(e, result)
                 /\ pointer' = [pointer EXCEPT !.last = result.last]
  BY <1>1
<1>3. e.action = "press" /\ e.code \in Nat /\ e.code \notin 1 .. 3
  OBVIOUS
<1>4. reported => geometry # {}
  OBVIOUS
<1> HIDE DEF e, reported, any
<1>5. Made(e, any, result)
  <2>1. CASE ~reported
    BY <1>2, <1>3, <2>1 DEF Made, Kept
  <2>2. CASE reported
    <3>1. (CHOOSE g \in geometry : TRUE) \in geometry
      BY <1>4, <2>2
    <3>2. QED
      BY <1>2, <2>2, <3>1 DEF Made
  <2>3. QED
    BY <2>1, <2>2
<1>6. modes' = modes /\ geometry' = geometry /\ pressed' = pressed
  BY <1>1
<1>7. DOMAIN pointer' = {"held", "last"} /\ pointer'.last = result.last /\ pointer'.held = pointer.held
  BY <1>2 DEF MouseInv
<1>8. pressed' \subseteq Codes /\ pointer'.held \subseteq {Bit(c) : c \in pressed'}
  BY <1>6, <1>7 DEF MouseInv
<1>9. QED
  BY <1>2, <1>3, <1>5, <1>6, <1>7, <1>8, EventKeeps

LEMMA SettingKeeps ==
  ASSUME MouseInv, SetGeometry \/ SetModes
  PROVE  MouseInv'
<1>1. CASE SetGeometry
  <2>1. PICK g \in Geometries : /\ geometry' = {g} /\ moved' = NoCell
                                /\ UNCHANGED <<modes, pressed, pointer, silent, told>>
    BY <1>1 DEF SetGeometry
  <2>2. NoButtonStuck' /\ MotionIsTold'
    BY <2>1 DEF MouseInv, NoButtonStuck, MotionIsTold
  <2>3. QED
    BY <2>1, <2>2 DEF MouseInv
<1>2. CASE SetModes
  <2>1. PICK m \in MouseModes :
           /\ modes' = m /\ moved' = NoCell
           /\ told' = [told EXCEPT !.held = IF m.event \in {"None", "X10"} THEN {} ELSE @]
           /\ UNCHANGED <<geometry, pressed, pointer, silent>>
    BY <1>2 DEF SetModes
  <2>2. /\ DOMAIN told' = {"held", "at", "lost"} /\ told'.at = told.at /\ told'.lost = told.lost
        /\ told'.held = IF m.event \in {"None", "X10"} THEN {} ELSE told.held
    BY <2>1 DEF MouseInv
  <2>3. NoButtonStuck' /\ MotionIsTold'
    BY <2>1, <2>2 DEF MouseInv, NoButtonStuck, MotionIsTold
  <2>4. QED
    BY <2>1, <2>2, <2>3 DEF MouseInv
<1>3. QED
  BY <1>1, <1>2

LEMMA MouseStarts ==
  ASSUME MouseInit
  PROVE  MouseInv
BY DEF MouseInit, MouseInv, NoButtonStuck, MotionIsTold

LEMMA MouseKeeps ==
  ASSUME MouseInv, MouseNext \/ UNCHANGED mvars
  PROVE  MouseInv'
<1>1. CASE UNCHANGED mvars
  BY <1>1 DEF MouseInv, mvars, NoButtonStuck, MotionIsTold
<1>2. QED
  BY <1>1, PressKeeps, ReleaseKeeps, MotionKeeps, WheelKeeps, SettingKeeps DEF MouseNext

LEMMA MouseTypes ==
  ASSUME MouseInv
  PROVE  MouseTypeOK
<1>1. Cardinality(geometry) <= 1
  <2>1. CASE geometry = {}
    BY <2>1, FS_EmptySet
  <2>2. CASE \E g \in Geometries : geometry = {g}
    <3>1. PICK g \in Geometries : geometry = {g}
      BY <2>2
    <3>2. Cardinality({g}) = 1
      BY FS_Singleton
    <3>3. QED
      BY <3>1, <3>2
  <2>3. QED
    BY <2>1, <2>2 DEF MouseInv
<1>2. pointer.held \subseteq 1 .. MaxBit
  <2>1. SUFFICES ASSUME NEW b \in pointer.held PROVE b \in 1 .. MaxBit
    OBVIOUS
  <2>2. PICK c \in pressed : b = Bit(c)
    BY DEF MouseInv
  <2>3. c \in Codes
    BY DEF MouseInv
  <2>4. QED
    BY <2>2, <2>3, BitInRange
<1>3. QED
  BY <1>1, <1>2 DEF MouseInv, MouseTypeOK

-----------------------------------------------------------------------------
(* The keys.                                                               *)

\* The rows of the table: a code and a final, and code 1 before a letter.
LEMMA TableShape ==
  \A key \in DOMAIN KittyTable :
    /\ KittyTable[key] = <<KittyTable[key][1], KittyTable[key][2]>>
    /\ KittyTable[key][1] \in Nat \ {0}
    /\ KittyTable[key][2] \in {"u", "~"} \/ KittyTable[key][1] = 1
    /\ KittyTable[key][2] = "u" => KittyTable[key][1] \in {27, 13, 9, 127} \union 57358 .. 57450
BY SMTT(200) DEF KittyTable, U

\* No two keys share a row.
LEMMA TableIsOneToOne ==
  \A key, other \in DOMAIN KittyTable : KittyTable[key] = KittyTable[other] => key = other
BY SMTT(400) DEF KittyTable, U

LEMMA CodepointRange ==
  \A key \in DOMAIN Codepoint :
    /\ Codepoint[key] \in 9 .. 122
    /\ key # "Tab" => Codepoint[key] \in 32 .. 122
    /\ key \in Letters => Codepoint[key] \in 97 .. 122
BY SMTT(200) DEF Codepoint, Letters

LEMMA LettersApart ==
  \A key \in Letters :
    /\ key \in DOMAIN Codepoint
    /\ key \notin DOMAIN CursorKeys /\ key \notin DOMAIN TildeKeys
    /\ key \notin DOMAIN LetterKeys /\ key \notin DOMAIN KeypadKeys
    /\ key \notin {"Backspace", "Tab", "Enter", "Escape", "NumpadEnter"}
BY SMTT(200) DEF Codepoint, Letters, CursorKeys, TildeKeys, LetterKeys, KeypadKeys

LEMMA NamedKeys ==
  /\ {"Enter", "Escape", "Backspace", "Tab"} \subseteq DOMAIN KittyTable
  /\ KittyTable["Enter"] = U(13) /\ KittyTable["Escape"] = U(27)
  /\ KittyTable["Backspace"] = U(127) /\ KittyTable["Tab"] = U(9)
  /\ "Enter" \notin DOMAIN Codepoint /\ "Escape" \notin DOMAIN Codepoint
  /\ "Backspace" \notin DOMAIN Codepoint
  /\ \A key \in DOMAIN ModifierOf : key \notin {"Enter", "Backspace", "Tab"}
BY SMTT(200) DEF KittyTable, Codepoint, ModifierOf

\* What a key is called: by its row, or by its codepoint without shift.
Entry(key) == IF key \in DOMAIN KittyTable THEN KittyTable[key]
              ELSE IF Unshifted(key, desk.layout) > 0 THEN U(Unshifted(key, desk.layout)) ELSE None

LEMMA UnshiftedRange ==
  ASSUME NEW key, NEW layout
  PROVE  /\ Unshifted(key, layout) \in Nat
         /\ key \in DOMAIN Codepoint =>
              Unshifted(key, layout) = Codepoint[key] + (IF key \in Letters /\ layout = "foreign" THEN 975 ELSE 0)
         /\ key \notin DOMAIN KittyTable => Unshifted(key, layout) \in {0} \union 32 .. 122 \union 1072 .. 1097
<1>1. CASE key \in DOMAIN Codepoint
  <2>1. key \notin {"Enter", "Escape", "Backspace"}
    BY <1>1, NamedKeys
  <2>2. Unshifted(key, layout) = Codepoint[key] + (IF key \in Letters /\ layout = "foreign" THEN 975 ELSE 0)
    BY <1>1, <2>1 DEF Unshifted
  <2>3. /\ Codepoint[key] \in 9 .. 122 /\ (key # "Tab" => Codepoint[key] \in 32 .. 122)
        /\ key \in Letters => Codepoint[key] \in 97 .. 122
    BY <1>1, CodepointRange
  <2>4. key \notin DOMAIN KittyTable => key # "Tab"
    BY NamedKeys
  <2>5. QED
    BY <1>1, <2>2, <2>3, <2>4
<1>2. CASE key \notin DOMAIN Codepoint /\ key \in {"Enter", "Escape", "Backspace"}
  <2>1. Unshifted(key, layout) = KittyTable[key][1] /\ key \in DOMAIN KittyTable
    BY <1>2, NamedKeys DEF Unshifted
  <2>2. QED
    BY <1>2, <2>1, TableShape
<1>3. CASE key \notin DOMAIN Codepoint /\ key \notin {"Enter", "Escape", "Backspace"}
  <2>1. Unshifted(key, layout) = 0
    BY <1>3 DEF Unshifted
  <2>2. QED
    BY <1>3, <2>1
<1>4. QED
  BY <1>1, <1>2, <1>3

\* An entry is a code and a final, the code is 1 before a letter, and no other
\* key's row is it.
LEMMA EntryShape ==
  ASSUME NEW key, Entry(key) # None
  PROVE  /\ Entry(key) = <<Entry(key)[1], Entry(key)[2]>> /\ Entry(key)[1] \in Nat
         /\ Entry(key)[2] \in {"u", "~"} \/ Entry(key)[1] = 1
         /\ \A other \in DOMAIN KittyTable \ {key} : KittyTable[other] # Entry(key)
<1>1. CASE key \in DOMAIN KittyTable
  <2>1. Entry(key) = KittyTable[key]
    BY <1>1 DEF Entry
  <2>2. QED
    BY <1>1, <2>1, TableShape, TableIsOneToOne
<1>2. CASE key \notin DOMAIN KittyTable
  <2> DEFINE u == Unshifted(key, desk.layout)
  <2>1. u \in Nat /\ u \in {0} \union 32 .. 122 \union 1072 .. 1097
    BY <1>2, UnshiftedRange
  <2>2. Entry(key) = IF u > 0 THEN U(u) ELSE None
    BY <1>2 DEF Entry
  <2> HIDE DEF u
  <2>3. Entry(key) = <<u, "u">> /\ u \in 32 .. 122 \union 1072 .. 1097
    BY <2>1, <2>2 DEF U
  <2>4. ASSUME NEW other \in DOMAIN KittyTable, KittyTable[other] = <<u, "u">> PROVE u \in {27, 13, 9, 127} \union 57358 .. 57450
    BY <2>4, TableShape
  <2>5. QED
    BY <2>3, <2>4
<1>3. QED
  BY <1>1, <1>2

LEMMA KittyModsNat ==
  ASSUME NEW mods
  PROVE  KittyMods(mods) \in Nat
<1> DEFINE Of(m) == IF m \in mods \intersect DOMAIN KittyWeights THEN KittyWeights[m] ELSE 0
<1>1. Of("shift") \in Nat /\ Of("alt") \in Nat /\ Of("ctrl") \in Nat
  BY DEF KittyWeights
<1>2. Of("super") \in Nat /\ Of("caps") \in Nat /\ Of("num") \in Nat
  BY DEF KittyWeights
<1>3. KittyMods(mods) = Of("shift") + Of("alt") + Of("ctrl") + Of("super") + Of("caps") + Of("num")
  BY DEF KittyMods, Weigh
<1> HIDE DEF Of
<1>4. QED
  BY <1>1, <1>2, <1>3

\* The first and second of a sequence that is put together of what may stand there.
LEMMA Heads ==
  ASSUME NEW T, NEW s \in Seq(T), NEW t \in Seq(T), Len(s) = 1
  PROVE  /\ s \o t \in Seq(T) /\ Len(s \o t) = 1 + Len(t)
         /\ (s \o t)[1] = s[1] /\ (Len(t) > 0 => (s \o t)[2] = t[1])
         /\ DOMAIN (s \o t) = 1 .. 1 + Len(t)
<1>1. Len(s) \in Nat /\ Len(t) \in Nat
  OBVIOUS
<1>2. s \o t \in Seq(T) /\ Len(s \o t) = Len(s) + Len(t)
  BY ConcatProperties
<1>3. \A i \in 1 .. Len(s) + Len(t) : (s \o t)[i] = IF i <= Len(s) THEN s[i] ELSE t[i - Len(s)]
  BY ConcatProperties
<1>4. QED
  BY <1>1, <1>2, <1>3

LEMMA Shorts ==
  ASSUME NEW T, NEW x, NEW y, x \in T, y \in T
  PROVE  << >> \in Seq(T) /\ <<x>> \in Seq(T) /\ <<x, y>> \in Seq(T)
<1>1. << >> \in Seq(T)
  OBVIOUS
<1>2. <<x>> \in Seq(T)
  OBVIOUS
<1>3. <<x, y>> \in Seq(T)
  OBVIOUS
<1>4. QED
  BY <1>1, <1>2, <1>3

LEMMA Pairs ==
  ASSUME NEW x, NEW y
  PROVE  <<x>> \o <<y>> = <<x, y>>
<1> DEFINE T == {x, y}
           s == <<x>> \o <<y>>
<1>1. <<x>> \in Seq(T) /\ <<y>> \in Seq(T) /\ <<x, y>> \in Seq(T)
  BY Shorts
<1>2. Len(<<x>>) = 1 /\ Len(<<y>>) = 1 /\ <<x>>[1] = x /\ <<y>>[1] = y
  OBVIOUS
<1>3. Len(<<x, y>>) = 2 /\ <<x, y>>[1] = x /\ <<x, y>>[2] = y
  OBVIOUS
<1> HIDE DEF T
<1>4. s \in Seq(T) /\ Len(s) = 2 /\ s[1] = x /\ s[2] = y
  BY <1>1, <1>2, ConcatProperties
<1> HIDE DEF s
<1>5. \A i \in 1 .. Len(s) : s[i] = <<x, y>>[i]
  BY <1>3, <1>4
<1>6. s = <<x, y>>
  BY <1>1, <1>3, <1>4, <1>5, SeqEqual
<1>7. QED
  BY <1>6 DEF s

\* What a child reads in the sequence of a key.
LEMMA SequenceReads ==
  ASSUME NEW e, NEW opts, e.action \in {"press", "repeat", "release"},
         NEW c \in Nat, NEW f, KittyEntry(e) = <<c, f>>, f \in {"u", "~"} \/ c = 1
  PROVE  /\ IsCsi(KittySeq(e, opts))
         /\ Decoded(KittySeq(e, opts)).key = <<c, f>>
         /\ Decoded(KittySeq(e, opts)).mods = KittyMods(e.mods)
         /\ Decoded(KittySeq(e, opts)).event = IF "events" \in opts.kitty THEN EventNumber[e.action] ELSE 1
<1> DEFINE mods   == KittyMods(e.mods) + 1
           number == IF "events" \in opts.kitty THEN EventNumber[e.action] ELSE 0
           text   == AssociatedText(e, opts)
           long   == f \in {"u", "~"}
           state  == IF number > (IF long THEN 1 ELSE 0) THEN << <<mods, number>> >>
                     ELSE IF mods > 1 THEN << <<mods>> >> ELSE <<>>
           alts   == Alternates(e, c, opts.kitty)
           first  == <<c>> \o alts
           stand  == IF state = <<>> THEN << <<Absent>> >> ELSE state
           tail   == IF text = <<>> THEN state ELSE stand \o <<text>>
           params == IF ~long THEN (IF state = <<>> THEN <<>> ELSE << <<1>> >> \o state)
                     ELSE <<first>> \o tail
<1>1. KittySeq(e, opts) = Csi(params, f)
  BY DEF KittySeq
<1>2. mods \in Nat /\ mods >= 1 /\ mods - 1 = KittyMods(e.mods)
  BY KittyModsNat
<1>3. number \in Nat /\ (number # 0 <=> "events" \in opts.kitty) /\ ("events" \in opts.kitty => number = EventNumber[e.action])
  BY DEF EventNumber
<1>4. first[1] = c /\ 1 \in DOMAIN first
  <2>1. PICK x, y : alts \in {<<>>, <<x>>, <<x, y>>}
    BY DEF Alternates
  <2>2. alts \in Seq({c, x, y}) /\ <<c>> \in Seq({c, x, y}) /\ Len(<<c>>) = 1
    BY <2>1, Shorts
  <2> HIDE DEF alts
  <2>3. (<<c>> \o alts)[1] = <<c>>[1] /\ DOMAIN (<<c>> \o alts) = 1 .. 1 + Len(alts) /\ Len(alts) \in Nat
    BY <2>2, Heads
  <2>4. QED
    BY <2>3
<1> HIDE DEF mods, number, text, first
<1>5. state \in {<< <<mods, number>> >>, << <<mods>> >>, <<>>}
  OBVIOUS
\* What stands second, and what a child takes from it.
<1> DEFINE Reads(p) ==
             /\ (IF Sub(p, 2, 1, 1) = Absent THEN 0 ELSE Sub(p, 2, 1, 1) - 1) = mods - 1
             /\ Sub(p, 2, 2, 1) = IF number = 0 THEN 1 ELSE number
<1>6. ASSUME NEW p, DOMAIN p = {} \/ DOMAIN p = {1}, state = <<>> PROVE Reads(p)
  <2>1. 2 \notin DOMAIN p
    BY <1>6
  <2>2. mods = 1 /\ number \in 0 .. 1
    BY <1>2, <1>3, <1>6
  <2>3. QED
    BY <2>1, <2>2 DEF Sub, Absent
<1>7. ASSUME NEW p, 2 \in DOMAIN p, p[2] = <<Absent>>, state = <<>> PROVE Reads(p)
  <2>1. mods = 1 /\ number \in 0 .. 1
    BY <1>2, <1>3, <1>7
  <2>2. Sub(p, 2, 1, 1) = Absent /\ Sub(p, 2, 2, 1) = 1
    BY <1>7 DEF Sub
  <2>3. QED
    BY <2>1, <2>2
<1>8. ASSUME NEW p, 2 \in DOMAIN p, state # <<>>, p[2] = state[1] PROVE Reads(p)
  <2>1. CASE state = << <<mods, number>> >> /\ number > 0
    <3>1. Sub(p, 2, 1, 1) = mods /\ Sub(p, 2, 2, 1) = number
      BY <1>8, <2>1 DEF Sub
    <3>2. QED
      BY <3>1, <2>1, <1>2, <1>3 DEF Absent
  <2>2. CASE state = << <<mods>> >> /\ number \in 0 .. 1
    <3>1. Sub(p, 2, 1, 1) = mods /\ Sub(p, 2, 2, 1) = 1
      BY <1>8, <2>2 DEF Sub
    <3>2. QED
      BY <3>1, <2>2, <1>2, <1>3 DEF Absent
  <2>3. QED
    <3>1. CASE number > (IF long THEN 1 ELSE 0)
      BY <3>1, <2>1, <1>3
    <3>2. CASE ~(number > (IF long THEN 1 ELSE 0))
      <4>1. state = << <<mods>> >>
        BY <1>8, <3>2
      <4>2. number \in 0 .. 1
        BY <1>3, <3>2
      <4>3. QED
        BY <4>1, <4>2, <2>2
    <3>3. QED
      BY <3>1, <3>2
<1> HIDE DEF Reads
<1>9. Reads(params) /\ <<Sub(params, 1, 1, 1), f>> = <<c, f>>
  <2>1. CASE ~long /\ state = <<>>
    <3>1. params = <<>> /\ c = 1
      BY <2>1
    <3>2. DOMAIN params = {}
      BY <3>1
    <3>3. Sub(params, 1, 1, 1) = 1
      BY <3>2 DEF Sub
    <3>4. QED
      BY <3>1, <3>2, <3>3, <1>6, <2>1
  <2>2. CASE ~long /\ state # <<>>
    <3>1. PICK s : state = <<s>>
      BY <1>5, <2>2
    <3>2. params = << <<1>>, s>> /\ c = 1
      <4>1. << <<1>> >> \o <<s>> = << <<1>>, s>>
        BY Pairs
      <4>2. QED
        BY <2>2, <3>1, <4>1
    <3> HIDE DEF params, state
    <3>3. DOMAIN params = {1, 2} /\ params[1] = <<1>> /\ params[2] = s /\ state[1] = s
      BY <3>1, <3>2
    <3>5. Sub(params, 1, 1, 1) = 1
      BY <3>3 DEF Sub
    <3>4. QED
      BY <3>2, <3>3, <3>5, <1>8, <2>2
  <2>3. CASE long
    <3>1. params = <<first>> \o tail
      BY <2>3
    <3>2. PICK s : state \in {<<>>, <<s>>} /\ (state = <<s>> => s = state[1])
      BY <1>5
    <3> DEFINE T == {first, s, text, <<Absent>>}
    <3>3. tail \in Seq(T) /\ <<first>> \in Seq(T) /\ Len(<<first>>) = 1
      <4>1. state \in Seq(T)
        BY <3>2, Shorts
      <4>2. stand \in Seq(T) /\ <<text>> \in Seq(T)
        BY <4>1
      <4>3. stand \o <<text>> \in Seq(T)
        BY <4>2, ConcatProperties
      <4>4. QED
        BY <4>1, <4>3
    <3>4. /\ DOMAIN params = 1 .. 1 + Len(tail) /\ Len(tail) \in Nat
          /\ params[1] = first /\ (Len(tail) > 0 => params[2] = tail[1])
      BY <3>1, <3>3, Heads
    <3>5. Sub(params, 1, 1, 1) = c
      BY <3>4, <1>4 DEF Sub
    <3>6. CASE text = <<>> /\ state = <<>>
      <4>1. tail = <<>> /\ DOMAIN params = {1}
        BY <3>4, <3>6
      <4>2. QED
        BY <4>1, <3>5, <3>6, <1>6
    <3>7. CASE text = <<>> /\ state # <<>>
      <4>1. tail = state /\ Len(tail) = 1
        BY <3>2, <3>7
      <4>2. 2 \in DOMAIN params /\ params[2] = state[1]
        BY <3>4, <4>1
      <4>3. QED
        BY <4>2, <3>5, <3>7, <1>8
    <3>8. CASE text # <<>>
      <4>1. PICK t : stand = <<t>>
        BY <3>2
      <4>2. tail = <<t, text>>
        <5>1. <<t>> \o <<text>> = <<t, text>>
          BY Pairs
        <5>2. QED
          BY <3>8, <4>1, <5>1
      <4>3. 2 \in DOMAIN params /\ params[2] = t
        <5> HIDE DEF tail, params
        <5>1. Len(tail) = 2 /\ tail[1] = t
          BY <4>2
        <5>2. QED
          BY <3>4, <5>1
      <4>4. CASE state = <<>>
        <5>1. t = <<Absent>>
          BY <4>1, <4>4
        <5>2. QED
          BY <5>1, <4>3, <4>4, <3>5, <1>7
      <4>5. CASE state # <<>>
        <5>1. t = state[1]
          BY <4>1, <4>5
        <5>2. QED
          BY <5>1, <4>3, <4>5, <3>5, <1>8
      <4>6. QED
        BY <4>4, <4>5
    <3>9. QED
      BY <3>6, <3>7, <3>8
  <2>4. QED
    BY <2>1, <2>2, <2>3
<1> HIDE DEF params
<1>10. Csi(params, f)[1] = "csi" /\ Csi(params, f)[2] = params /\ Csi(params, f)[3] = f /\ Csi(params, f) # None
  BY DEF Csi, None
<1>11. /\ IsCsi(KittySeq(e, opts))
       /\ Decoded(KittySeq(e, opts)).key = <<Sub(params, 1, 1, 1), f>>
       /\ Decoded(KittySeq(e, opts)).mods = IF Sub(params, 2, 1, 1) = Absent THEN 0 ELSE Sub(params, 2, 1, 1) - 1
       /\ Decoded(KittySeq(e, opts)).event = Sub(params, 2, 2, 1)
  BY <1>1, <1>10 DEF IsCsi, Decoded
<1>12. QED
  BY <1>2, <1>3, <1>9, <1>11 DEF Reads

\* An event as the window makes it.
IsEvent(e) ==
  /\ e.action \in {"press", "repeat", "release"} /\ e.composing = FALSE
  /\ e.unshifted = Unshifted(e.key, desk.layout)
  /\ e.text = IF e.action = "release" THEN <<>> ELSE Text(e.key, e.mods, desk.layout)

LEMMA EventMade ==
  ASSUME NEW action \in {"press", "repeat", "release"}, NEW key, NEW mods
  PROVE  /\ IsEvent(KeyEventOf(action, key, mods))
         /\ KeyEventOf(action, key, mods).action = action
         /\ KeyEventOf(action, key, mods).key = key
         /\ KeyEventOf(action, key, mods).mods = mods
BY DEF IsEvent, KeyEventOf

LEMMA EntryOf ==
  ASSUME NEW e, IsEvent(e)
  PROVE  KittyEntry(e) = Entry(e.key)
BY DEF IsEvent, KittyEntry, Entry

\* A key whose release is told: it has an entry, it is no modifier unless
\* modifiers are told too, and no key that keeps its legacy form.
Releasable(key) ==
  /\ Entry(key) # None
  /\ "all" \in desk.options.kitty \/ key \notin DOMAIN ModifierOf
  /\ "all" \in desk.options.kitty \/ key \notin {"Enter", "Backspace", "Tab"}

\* What the kitty encoder makes of an event.
LEMMA KittySays ==
  ASSUME NEW e, IsEvent(e), NEW bytes, bytes = Kitty(e, desk.options)
  PROVE  /\ bytes # None => bytes[1] \in {"raw", "csi"}
         /\ IsCsi(bytes) => /\ Entry(e.key) # None
                            /\ "all" \in desk.options.kitty \/ e.key \notin DOMAIN ModifierOf
                            /\ Decoded(bytes).key = Entry(e.key)
                            /\ Decoded(bytes).mods = KittyMods(e.mods)
                            /\ Decoded(bytes).event =
                                 IF "events" \in desk.options.kitty THEN EventNumber[e.action] ELSE 1
         /\ e.action = "release" /\ "events" \in desk.options.kitty /\ Releasable(e.key) => IsCsi(bytes)
<1> DEFINE opts == desk.options
           all  == "all" \in opts.kitty
           Asked == KittyEntry(e) # None /\ ~(e.key \in DOMAIN ModifierOf /\ ~all)
<1>1. \/ bytes = None \/ (\E codes : bytes = Raw(codes)) \/ (Asked /\ bytes = KittySeq(e, opts))
  <2>1. bytes = Kitty(e, opts)
    OBVIOUS
  <2> HIDE DEF opts
  <2>2. QED
    BY <2>1 DEF Kitty
<1>2. ASSUME NEW codes PROVE Raw(codes)[1] = "raw" /\ Raw(codes) # None /\ ~IsCsi(Raw(codes))
  BY DEF Raw, None, IsCsi
<1>3. ~IsCsi(None)
  BY DEF IsCsi
<1>4. KittyEntry(e) = Entry(e.key)
  BY EntryOf
<1>5. ASSUME Asked, bytes = KittySeq(e, opts)
      PROVE  /\ IsCsi(bytes)
             /\ Decoded(bytes).key = Entry(e.key)
             /\ Decoded(bytes).mods = KittyMods(e.mods)
             /\ Decoded(bytes).event = IF "events" \in opts.kitty THEN EventNumber[e.action] ELSE 1
  <2> DEFINE c == Entry(e.key)[1]
             f == Entry(e.key)[2]
  <2>1. Entry(e.key) = <<c, f>> /\ c \in Nat /\ (f \in {"u", "~"} \/ c = 1)
    BY <1>4, <1>5, EntryShape
  <2> HIDE DEF c, f, opts
  <2>2. e.action \in {"press", "repeat", "release"}
    BY DEF IsEvent
  <2>3. QED
    BY <2>1, <2>2, <1>4, <1>5, SequenceReads
<1>6. bytes # None => bytes[1] \in {"raw", "csi"}
  BY <1>1, <1>2, <1>5 DEF IsCsi
<1>7. ASSUME e.action = "release", "events" \in opts.kitty, Releasable(e.key) PROVE IsCsi(bytes)
  <2>1. KittyReleases(e, opts.kitty)
    BY <1>7 DEF KittyReleases, Releasable
  <2>2. e.text = <<>> /\ e.composing = FALSE
    BY <1>7 DEF IsEvent
  <2>3. all \/ (e.key \notin DOMAIN ModifierOf /\ e.key \notin {"Enter", "Backspace", "Tab"})
    BY <1>7 DEF Releasable
  <2>4. KittyEntry(e) # None
    BY <1>4, <1>7 DEF Releasable
  <2>5. bytes = KittySeq(e, opts)
    <3> HIDE DEF opts
    <3>1. bytes = Kitty(e, opts)
      BY DEF opts
    <3>2. QED
      BY <3>1, <2>1, <2>2, <2>3, <2>4, <1>7 DEF Kitty
  <2>6. QED
    BY <2>3, <2>4, <2>5, <1>5
<1>8. QED
  BY <1>1, <1>2, <1>3, <1>4, <1>5, <1>6, <1>7

\* What any of the encoders' results is.
Spelled(bytes) == bytes # None => bytes[1] \in {"raw", "csi", "ss3"}

LEMMA SpelledForms ==
  /\ Spelled(None)
  /\ \A codes : Spelled(Raw(codes))
  /\ \A params, final : Spelled(Csi(params, final)) /\ Spelled(Ss3(params, final))
BY DEF Spelled, None, Raw, Csi, Ss3

LEMMA OtherSpelled == \A mods, code : Spelled(Other(mods, code))
BY SpelledForms DEF Other

LEMMA SpecialSpelled ==
  ASSUME NEW key, NEW mods, NEW opts
  PROVE  Spelled(SpecialKey(key, mods, opts))
<1> HIDE DEF Spelled
<1>1. \/ \E codes : SpecialKey(key, mods, opts) = Raw(codes)
      \/ \E params, final : SpecialKey(key, mods, opts) = Csi(params, final)
      \/ \E m, code : SpecialKey(key, mods, opts) = Other(m, code)
  BY DEF SpecialKey
<1>2. QED
  BY <1>1, SpelledForms, OtherSpelled

LEMMA KeysApart ==
  /\ \A key \in DOMAIN CursorKeys : key \notin DOMAIN TildeKeys /\ key \notin DOMAIN LetterKeys /\ key \notin DOMAIN KeypadKeys
  /\ \A key \in DOMAIN TildeKeys : key \notin DOMAIN LetterKeys /\ key \notin DOMAIN KeypadKeys
  /\ \A key \in DOMAIN LetterKeys : key \notin DOMAIN KeypadKeys
  /\ \A key \in {"NumpadEnter", "Backspace", "Tab", "Enter", "Escape"} :
       key \notin DOMAIN CursorKeys /\ key \notin DOMAIN TildeKeys /\ key \notin DOMAIN LetterKeys
  /\ \A key \in {"Backspace", "Tab", "Enter", "Escape"} : key \notin DOMAIN KeypadKeys
BY SMTT(60) DEF CursorKeys, TildeKeys, LetterKeys, KeypadKeys

LEMMA FunctionSpelled ==
  ASSUME NEW key, NEW mods, NEW opts
  PROVE  Spelled(PcStyleFunctionKey(key, mods, opts))
<1> HIDE DEF Spelled
<1> DEFINE b == PcStyleFunctionKey(key, mods, opts)
           keypad == opts.keypad /\ ~opts.ignore_keypad
<1>1. CASE key \in DOMAIN CursorKeys
  <2>1. \E params, final : b = Csi(params, final) \/ b = Ss3(params, final)
    BY <1>1, KeysApart DEF PcStyleFunctionKey
  <2>2. QED
    BY <2>1, SpelledForms
<1>2. CASE key \in DOMAIN TildeKeys
  <2>1. \E params, final : b = Csi(params, final) \/ b = Ss3(params, final)
    BY <1>2, KeysApart DEF PcStyleFunctionKey
  <2>2. QED
    BY <2>1, SpelledForms
<1>3. CASE key \in DOMAIN LetterKeys
  <2>1. \E params, final : b = Csi(params, final) \/ b = Ss3(params, final)
    BY <1>3, KeysApart DEF PcStyleFunctionKey
  <2>2. QED
    BY <2>1, SpelledForms
<1>4. CASE key \in DOMAIN KeypadKeys /\ keypad
  <2>1. \E params, final : b = Ss3(params, final)
    BY <1>4, KeysApart DEF PcStyleFunctionKey
  <2>2. QED
    BY <2>1, SpelledForms
<1>5. CASE key = "NumpadEnter" /\ ~keypad
  <2>1. b = Raw(<< 13 >>)
    BY <1>5, KeysApart DEF PcStyleFunctionKey
  <2>2. QED
    BY <2>1, SpelledForms
<1>6. CASE key \in {"Backspace", "Tab", "Enter", "Escape"}
  <2>1. b = SpecialKey(key, mods, opts)
    BY <1>6, KeysApart DEF PcStyleFunctionKey
  <2>2. QED
    BY <2>1, SpecialSpelled
<1>7. CASE /\ key \notin DOMAIN CursorKeys /\ key \notin DOMAIN TildeKeys /\ key \notin DOMAIN LetterKeys
           /\ ~(key \in DOMAIN KeypadKeys /\ keypad) /\ ~(key = "NumpadEnter" /\ ~keypad)
           /\ key \notin {"Backspace", "Tab", "Enter", "Escape"}
  <2>1. b = None
    BY <1>7 DEF PcStyleFunctionKey
  <2>2. QED
    BY <2>1, SpelledForms
<1>8. QED
  BY <1>1, <1>2, <1>3, <1>4, <1>5, <1>6, <1>7

LEMMA ShortFormsSpelled ==
  ASSUME NEW e, NEW opts
  PROVE  /\ Spelled(LegacyAltPrefix(e, opts)) /\ Spelled(ModifyOtherKeys(e, opts)) /\ Spelled(CsiU(e))
         /\ LegacyAltPrefix(e, opts) # None =>
              \/ LegacyAltPrefix(e, opts) = Raw(<< 27 >> \o e.text) /\ OneByte(e.text)
              \/ LegacyAltPrefix(e, opts) = Raw(<<27, e.unshifted>>)
         /\ ModifyOtherKeys(e, opts) # None => \E mods, code : ModifyOtherKeys(e, opts) = Other(mods, code)
         /\ CsiU(e) # None => \E params, final : CsiU(e) = Csi(params, final)
<1> HIDE DEF Spelled
<1>1. \/ LegacyAltPrefix(e, opts) = None
      \/ LegacyAltPrefix(e, opts) = Raw(<< 27 >> \o e.text) /\ OneByte(e.text)
      \/ LegacyAltPrefix(e, opts) = Raw(<<27, e.unshifted>>)
  BY DEF LegacyAltPrefix
<1>2. ModifyOtherKeys(e, opts) = None \/ \E mods, code : ModifyOtherKeys(e, opts) = Other(mods, code)
  BY DEF ModifyOtherKeys
<1>3. CsiU(e) = None \/ \E params, final : CsiU(e) = Csi(params, final)
  BY DEF CsiU
<1>4. QED
  BY <1>1, <1>2, <1>3, SpelledForms, OtherSpelled

LEMMA LegacySpelled ==
  ASSUME NEW e, NEW opts
  PROVE  Spelled(Legacy(e, opts))
<1> HIDE DEF Spelled
<1>1. \/ Legacy(e, opts) \in {None, PcStyleFunctionKey(e.key, e.mods \intersect Binding, opts),
                              LegacyAltPrefix(e, opts), ModifyOtherKeys(e, opts), CsiU(e)}
      \/ \E codes : Legacy(e, opts) = Raw(codes)
  BY DEF Legacy
<1>2. QED
  BY <1>1, FunctionSpelled, ShortFormsSpelled, SpelledForms

\* The text of a letter.
LEMMA LetterText ==
  ASSUME NEW key \in Letters, NEW mods, NEW layout
  PROVE  \E t \in Nat :
           /\ Text(key, mods, layout) = <<t>>
           /\ t \in 65 .. 90 \union 97 .. 122 \/ t > 127
           /\ t \in 65 .. 90 => Unshifted(key, layout) \in 97 .. 122
<1> DEFINE code == Unshifted(key, layout)
<1>1. key \in DOMAIN Codepoint /\ Codepoint[key] \in 97 .. 122
  BY LettersApart, CodepointRange
<1>2. code \in 97 .. 122 \/ code \in 1072 .. 1097
  BY <1>1, UnshiftedRange
<1>3. Text(key, mods, layout) \in {<<code + 128>>, <<code - 32>>, <<code>>}
  BY <1>2 DEF Text
<1>4. CASE Text(key, mods, layout) = <<code + 128>>
  BY <1>2, <1>4
<1>5. CASE Text(key, mods, layout) = <<code - 32>>
  BY <1>2, <1>5
<1>6. CASE Text(key, mods, layout) = <<code>>
  BY <1>2, <1>6
<1>7. QED
  BY <1>3, <1>4, <1>5, <1>6

LEMMA CtrlOfLetter ==
  ASSUME NEW ch \in 65 .. 90 \union 97 .. 122
  PROVE  CtrlC0(ch) \intersect {9, 13, 27} = {}
<1>1. CASE ch \in (97 .. 122) \ {105, 109}
  <2>1. CtrlC0(ch) = {ch - 96}
    BY <1>1 DEF CtrlC0
  <2>2. QED
    BY <1>1, <2>1
<1>2. CASE ch \in 65 .. 90 \union {105, 109}
  <2>1. CtrlC0(ch) = {}
    BY <1>2 DEF CtrlC0
  <2>2. QED
    BY <2>1
<1>3. QED
  BY <1>1, <1>2

LEMMA RawApart ==
  /\ \A s, t : s # t => Raw(s) # Raw(t)
  /\ \A s, params, final : Csi(params, final) # Raw(s)
BY DEF Raw, Csi

\* Ctrl and a letter: not one of the three controls that other keys have.
LEMMA LettersStayApart ==
  ASSUME NEW e, IsEvent(e), e.key \in Letters, NEW opts
  PROVE  Legacy(e, opts) \notin {Raw(<< 9 >>), Raw(<< 13 >>), Raw(<< 27 >>)}
<1> DEFINE bad == {Raw(<< 9 >>), Raw(<< 13 >>), Raw(<< 27 >>)}
           pc   == PcStyleFunctionKey(e.key, e.mods \intersect Binding, opts)
           c0   == IF "ctrl" \in e.mods THEN CtrlSeq(e) ELSE {}
           alt  == LegacyAltPrefix(e, opts)
           mok  == ModifyOtherKeys(e, opts)
           csiu == CsiU(e)
           pre  == IF "alt" \in EffectiveMods(e) THEN << 27 >> ELSE <<>>
<1>1. CASE e.action = "release"
  BY <1>1 DEF Legacy, None, Raw
<1>2. CASE e.action # "release"
  <2>1. e.text = Text(e.key, e.mods, desk.layout) /\ e.unshifted = Unshifted(e.key, desk.layout) /\ e.composing = FALSE
    BY <1>2 DEF IsEvent
  <2>2. PICK t \in Nat : /\ e.text = <<t>>
                         /\ t \in 65 .. 90 \union 97 .. 122 \/ t > 127
                         /\ t \in 65 .. 90 => e.unshifted \in 97 .. 122
    BY <2>1, LetterText
  <2>3. pc = None
    BY LettersApart DEF PcStyleFunctionKey
  <2>4. ~Committed(e)
    BY LettersApart DEF Committed
  <2>5. \A byte \in c0 : byte \notin {9, 13, 27}
    <3>1. SUFFICES ASSUME NEW byte \in CtrlSeq(e) PROVE byte \notin {9, 13, 27}
      OBVIOUS
    <3> DEFINE unset == (e.mods \intersect Binding) \ {"alt"}
               chars == IF OneByte(e.text) THEN {e.text[1]}
                        ELSE IF e.key \in DOMAIN Codepoint /\ unset = {"ctrl"} THEN {Codepoint[e.key]}
                        ELSE {}
               Spent(ch) == IF Upper(ch) \/ ch = 64 THEN unset ELSE unset \ {"shift"}
               Bare(ch) == IF Upper(ch) /\ e.unshifted \in 1..255 THEN e.unshifted ELSE ch
    <3>2. PICK ch \in chars : byte \in CtrlC0(Bare(ch))
      <4>1. CtrlSeq(e) = UNION {CtrlC0(Bare(ch)) : ch \in {c \in chars : Spent(c) = {"ctrl"}}}
        BY DEF CtrlSeq
      <4>2. QED
        BY <4>1
    <3>3. ch \in 65 .. 90 \union 97 .. 122 /\ (ch \in 65 .. 90 => e.unshifted \in 97 .. 122)
      <4>1. CASE OneByte(e.text)
        <5>1. ch = t /\ t < 128
          BY <2>2, <4>1 DEF OneByte
        <5>2. QED
          BY <2>2, <5>1
      <4>2. CASE ~OneByte(e.text)
        <5>1. ch = Codepoint[e.key]
          BY <4>2
        <5>2. QED
          BY <5>1, LettersApart, CodepointRange
      <4>3. QED
        BY <4>1, <4>2
    <3>4. Bare(ch) \in 65 .. 90 \union 97 .. 122
      BY <3>3 DEF Upper
    <3> HIDE DEF Bare
    <3>5. QED
      BY <3>2, <3>4, CtrlOfLetter
  <2>6. ASSUME c0 # {} PROVE Raw(pre \o <<CHOOSE byte \in c0 : TRUE>>) \notin bad
    <3> DEFINE b == CHOOSE byte \in c0 : TRUE
    <3>1. b \in c0
      BY <2>6
    <3>2. b \notin {9, 13, 27}
      BY <2>5, <3>1
    <3> HIDE DEF b, c0
    <3>3. CASE pre = <<>>
      <4>1. pre \o <<b>> = <<b>>
        <5>1. <<b>> \in Seq({b})
          OBVIOUS
        <5>2. <<>> \o <<b>> = <<b>>
          BY <5>1, ConcatEmptySeq
        <5>3. QED
          BY <3>3, <5>2
      <4>2. <<b>> # << 9 >> /\ <<b>> # << 13 >> /\ <<b>> # << 27 >>
        BY <3>2
      <4>3. Raw(<<b>>) \notin bad
        BY <4>2, RawApart
      <4>4. QED
        BY <4>1, <4>3 DEF b
    <3>4. CASE pre = << 27 >>
      <4>1. pre \o <<b>> = <<27, b>>
        BY <3>4, Pairs
      <4>2. <<27, b>> # << 9 >> /\ <<27, b>> # << 13 >> /\ <<27, b>> # << 27 >>
        OBVIOUS
      <4>3. Raw(<<27, b>>) \notin bad
        BY <4>2, RawApart
      <4>4. QED
        BY <4>1, <4>3 DEF b
    <3>5. QED
      BY <3>3, <3>4
  <2>7. alt \notin bad
    <3>1. CASE alt = None
      BY <3>1 DEF None, Raw
    <3>2. CASE alt = Raw(<< 27 >> \o e.text)
      <4>1. << 27 >> \o e.text = <<27, t>>
        BY <2>2, Pairs
      <4>2. \A x \in {9, 13, 27} : <<27, t>> # <<x>>
        OBVIOUS
      <4>3. QED
        BY <3>2, <4>1, <4>2 DEF Raw
    <3>3. CASE alt = Raw(<<27, e.unshifted>>)
      <4>1. \A x \in {9, 13, 27} : <<27, e.unshifted>> # <<x>>
        OBVIOUS
      <4>2. QED
        BY <3>3, <4>1 DEF Raw
    <3>4. QED
      BY <3>1, <3>2, <3>3, ShortFormsSpelled
  <2>8. (mok # None => mok \notin bad) /\ (csiu # None => csiu \notin bad)
    <3>1. \A m, code : Other(m, code) \notin bad
      BY RawApart DEF Other
    <3>2. \A params, final : Csi(params, final) \notin bad
      BY RawApart
    <3> HIDE DEF bad
    <3>3. QED
      BY <3>1, <3>2, ShortFormsSpelled
  <2>9. Raw(e.text) \notin bad /\ None \notin bad
    <3>1. \A x \in {9, 13, 27} : <<t>> # <<x>>
      BY <2>2
    <3>2. QED
      BY <2>2, <3>1 DEF Raw, None
  <2>10. e.text # <<>>
    BY <2>2
  <2>11. Legacy(e, opts) = IF c0 # {} THEN Raw(pre \o <<CHOOSE byte \in c0 : TRUE>>)
                           ELSE IF mok # None THEN mok ELSE IF csiu # None THEN csiu
                           ELSE IF alt # None THEN alt ELSE IF "super" \in e.mods THEN None ELSE Raw(e.text)
    BY <1>2, <2>1, <2>3, <2>4, <2>10 DEF Legacy
  <2> HIDE DEF bad, c0, alt, mok, csiu, pre
  <2>12. Legacy(e, opts) \notin bad
    BY <2>6, <2>7, <2>8, <2>9, <2>11
  <2>13. QED
    BY <2>12 DEF bad
<1>3. QED
  BY <1>1, <1>2

-----------------------------------------------------------------------------
(* What the child of a keyboard holds.                                     *)

\* Each key the child takes for held is down and one whose release will be told,
\* but for the three whose releases only report-all tells.
HeldOK ==
  /\ "events" \notin desk.options.kitty => held = {}
  /\ \A k \in held :
       \/ \E key \in down : Releasable(key) /\ Entry(key) = k
       \/ "all" \notin desk.options.kitty /\ k \in {U(13), U(127), U(9)}

KeyInv ==
  /\ desk \in Desks /\ down \subseteq desk.keys
  /\ IsFiniteSet(down) /\ Cardinality(down) <= desk.most
  /\ locked \in BOOLEAN
  /\ event.mods \subseteq DOMAIN KittyWeights \union {"alt_side"}
  /\ Spelled(sent) /\ KeysReadBack /\ HeldOK

\* A key that is told of is one whose release will be, or one of the three.
LEMMA ToldKeys ==
  ASSUME NEW key, Entry(key) # None, "all" \in desk.options.kitty \/ key \notin DOMAIN ModifierOf
  PROVE  Releasable(key) \/ ("all" \notin desk.options.kitty /\ Entry(key) \in {U(13), U(127), U(9)})
<1>1. CASE "all" \notin desk.options.kitty /\ key \in {"Enter", "Backspace", "Tab"}
  <2>1. Entry(key) = KittyTable[key] /\ KittyTable[key] \in {U(13), U(127), U(9)}
    BY <1>1, NamedKeys DEF Entry
  <2>2. QED
    BY <1>1, <2>1
<1>2. QED
  BY <1>1 DEF Releasable

LEMMA ToldSays ==
  ASSUME NEW action \in {"press", "repeat", "release"}, NEW key, NEW mods,
         Told(action, key, mods), desk' = desk
  PROVE  /\ event'.mods = mods
         /\ Spelled(sent') /\ KeysReadBack'
<1> DEFINE e == KeyEventOf(action, key, mods)
<1>1. IsEvent(e) /\ e.action = action /\ e.key = key /\ e.mods = mods
  BY EventMade
<1>2. event' = e /\ sent' = Encode(e, desk.options)
  BY DEF Told
<1> HIDE DEF e
<1>3. CASE desk.options.kitty # {}
  <2>1. sent' = Kitty(e, desk.options)
    BY <1>2, <1>3 DEF Encode
  <2>2. /\ sent' # None => sent'[1] \in {"raw", "csi"}
        /\ IsCsi(sent') => /\ Entry(e.key) # None
                           /\ Decoded(sent').key = Entry(e.key)
                           /\ Decoded(sent').mods = KittyMods(e.mods)
                           /\ Decoded(sent').event =
                                IF "events" \in desk.options.kitty THEN EventNumber[e.action] ELSE 1
    BY <1>1, <2>1, KittySays
  <2>3. KittyEntry(e) = Entry(e.key)
    BY <1>1, EntryOf
  <2>4. Entry(e.key) # None => \A other \in DOMAIN KittyTable \ {e.key} : KittyTable[other] # Entry(e.key)
    BY EntryShape
  <2>5. KeysReadBack'
    BY <1>2, <1>3, <2>2, <2>3, <2>4 DEF KeysReadBack
  <2>6. QED
    BY <1>1, <1>2, <2>2, <2>5 DEF Spelled
<1>4. CASE desk.options.kitty = {}
  <2>1. sent' = Legacy(e, desk.options)
    BY <1>2, <1>4 DEF Encode
  <2>2. Spelled(sent')
    BY <2>1, LegacySpelled
  <2>3. e.key \in Letters => sent' \notin {Raw(<< 9 >>), Raw(<< 13 >>), Raw(<< 27 >>)}
    BY <1>1, <2>1, LettersStayApart
  <2>4. KeysReadBack'
    BY <1>2, <1>4, <2>3 DEF KeysReadBack
  <2>5. QED
    BY <1>1, <1>2, <2>2, <2>4
<1>5. QED
  BY <1>3, <1>4

LEMMA ToldHeld ==
  ASSUME NEW action \in {"press", "repeat", "release"}, NEW key, NEW mods,
         Told(action, key, mods), desk' = desk, HeldOK,
         down \ {key} \subseteq down', action # "release" => key \in down'
  PROVE  HeldOK'
<1> DEFINE e == KeyEventOf(action, key, mods)
           flags == desk.options.kitty
           Free(k) == "all" \notin flags /\ k \in {U(13), U(127), U(9)}
<1>1. IsEvent(e) /\ e.action = action /\ e.key = key
  BY EventMade
<1>2. /\ sent' = Encode(e, desk.options)
      /\ held' = IF ~IsCsi(sent') \/ "events" \notin flags THEN held
                 ELSE IF Decoded(sent').event = 3 THEN held \ {Decoded(sent').key}
                 ELSE held \union {Decoded(sent').key}
  BY DEF Told
<1>3. "events" \notin flags => held' = {}
  BY <1>2 DEF HeldOK
<1> HIDE DEF e
<1>4. ASSUME "events" \in flags, NEW k \in held'
      PROVE  (\E other \in down' : Releasable(other) /\ Entry(other) = k) \/ Free(k)
  <2>1. sent' = Kitty(e, desk.options)
    BY <1>2, <1>4 DEF Encode
  <2>2. /\ IsCsi(sent') => /\ Entry(key) # None
                           /\ "all" \in flags \/ key \notin DOMAIN ModifierOf
                           /\ Decoded(sent').key = Entry(key)
                           /\ Decoded(sent').event = EventNumber[action]
        /\ action = "release" /\ Releasable(key) => IsCsi(sent')
    BY <1>1, <1>4, <2>1, KittySays
  <2>3. CASE k \in held /\ ~(\E other \in down : Releasable(other) /\ Entry(other) = k)
    BY <2>3 DEF HeldOK
  <2>4. CASE k \in held /\ \E other \in down : Releasable(other) /\ Entry(other) = k
    <3>1. PICK other \in down : Releasable(other) /\ Entry(other) = k
      BY <2>4
    <3>2. CASE other = key /\ action = "release"
      <4>1. IsCsi(sent') /\ Decoded(sent').key = k /\ Decoded(sent').event = 3
        BY <2>2, <3>1, <3>2 DEF EventNumber
      <4>2. held' = held \ {k}
        BY <1>2, <1>4, <4>1
      <4>3. QED
        BY <1>4, <4>2
    <3>3. CASE ~(other = key /\ action = "release")
      BY <3>1, <3>3
    <3>4. QED
      BY <3>2, <3>3
  <2>5. CASE k \notin held
    <3>1. IsCsi(sent') /\ Decoded(sent').event # 3 /\ k = Entry(key)
      BY <1>2, <1>4, <2>2, <2>5
    <3>2. action # "release"
      BY <2>2, <3>1 DEF EventNumber
    <3>3. Releasable(key) \/ Free(k)
      BY <2>2, <3>1, ToldKeys
    <3>4. QED
      BY <3>1, <3>2, <3>3
  <2>6. QED
    BY <2>3, <2>4, <2>5
<1>5. QED
  <2>1. \A other : Releasable(other)' = Releasable(other) /\ Entry(other)' = Entry(other)
    BY DEF Releasable, Entry
  <2>2. held' # {} => "events" \in flags
    BY <1>3
  <2>3. "events" \notin desk'.options.kitty => held' = {}
    BY <1>3
  <2>4. \A k \in held' :
       \/ \E other \in down' : Releasable(other)' /\ Entry(other)' = k
       \/ "all" \notin desk'.options.kitty /\ k \in {U(13), U(127), U(9)}
    BY <1>4, <2>1, <2>2
  <2>5. QED
    BY <2>3, <2>4 DEF HeldOK

LEMMA ModsKnown ==
  ASSUME NEW keys, NEW lock
  PROVE  Mods(keys, lock) \subseteq DOMAIN KittyWeights \union {"alt_side"}
<1>1. \A k \in DOMAIN ModifierOf \ {"CapsLock", "NumLock"} : ModifierOf[k] \in DOMAIN KittyWeights
  BY DEF ModifierOf, KittyWeights
<1>2. {ModifierOf[k] : k \in keys \intersect (DOMAIN ModifierOf \ {"CapsLock", "NumLock"})} \subseteq DOMAIN KittyWeights
  BY <1>1
<1>3. "caps" \in DOMAIN KittyWeights
  BY DEF KittyWeights
<1>4. QED
  BY <1>2, <1>3 DEF Mods

\* What any event leaves, given what the fingers did.
LEMMA StrikeKeeps ==
  ASSUME KeyInv, NEW action \in {"press", "repeat", "release"}, NEW key, NEW keys, NEW lock,
         Told(action, key, Mods(keys, lock)), desk' = desk,
         down' \subseteq desk.keys, IsFiniteSet(down'), Cardinality(down') <= desk.most,
         locked' \in BOOLEAN,
         down \ {key} \subseteq down', action # "release" => key \in down'
  PROVE  KeyInv'
<1>1. event'.mods = Mods(keys, lock) /\ Spelled(sent') /\ KeysReadBack'
  BY ToldSays
<1>2. HeldOK'
  BY ToldHeld DEF KeyInv
<1>3. Mods(keys, lock) \subseteq DOMAIN KittyWeights \union {"alt_side"}
  BY ModsKnown
<1>4. Spelled(sent)'
  BY <1>1 DEF Spelled
<1>5. QED
  BY <1>1, <1>2, <1>3, <1>4 DEF KeyInv

LEMMA KeyStarts ==
  ASSUME KeyInit
  PROVE  KeyInv
<1>1. desk \in Desks /\ down = {} /\ locked = FALSE /\ sent = None /\ held = {} /\ event.mods = {}
  BY DEF KeyInit
<1>2. IsFiniteSet(down) /\ Cardinality(down) <= desk.most
  <2>1. desk.most \in Nat
    BY <1>1, KeyboardAssumption
  <2>2. IsFiniteSet({}) /\ Cardinality({}) = 0
    BY FS_EmptySet
  <2>3. QED
    BY <1>1, <2>1, <2>2
<1>3. Spelled(sent) /\ KeysReadBack
  BY <1>1, SpelledForms DEF KeysReadBack, IsCsi
<1>4. HeldOK
  BY <1>1 DEF HeldOK
<1>5. QED
  BY <1>1, <1>2, <1>3, <1>4 DEF KeyInv

LEMMA KeyKeeps ==
  ASSUME KeyInv, KeyNext \/ UNCHANGED kvars
  PROVE  KeyInv'
<1>1. CASE UNCHANGED kvars
  <2>1. desk' = desk /\ down' = down /\ locked' = locked /\ event' = event /\ sent' = sent /\ held' = held
    BY <1>1 DEF kvars
  <2>2. HeldOK'
    BY <2>1 DEF KeyInv, HeldOK, Releasable, Entry
  <2>3. QED
    BY <2>1, <2>2 DEF KeyInv, Spelled, KeysReadBack
<1>2. ASSUME NEW key \in desk.keys, KeyPress(key) PROVE KeyInv'
  <2>1. /\ key \notin down /\ Cardinality(down) < desk.most /\ down' = down \union {key}
        /\ locked' = (locked # (key = "CapsLock")) /\ Told("press", key, Mods(down', locked')) /\ desk' = desk
    BY <1>2 DEF KeyPress
  <2>2. IsFiniteSet(down') /\ Cardinality(down') = Cardinality(down) + 1
    BY <2>1, FS_AddElement DEF KeyInv
  <2>3. Cardinality(down') <= desk.most
    <3>1. desk.most \in Nat /\ Cardinality(down) \in Nat
      BY KeyboardAssumption, FS_CardinalityType DEF KeyInv
    <3>2. QED
      BY <2>1, <2>2, <3>1
  <2>4. down' \subseteq desk.keys /\ locked' \in BOOLEAN
    BY <2>1 DEF KeyInv
  <2>5. down \ {key} \subseteq down' /\ key \in down'
    BY <2>1
  <2>6. QED
    BY <2>1, <2>2, <2>3, <2>4, <2>5, StrikeKeeps
<1>3. ASSUME NEW key \in desk.keys, KeyRepeat(key) PROVE KeyInv'
  <2>1. /\ key \in down /\ Told("repeat", key, Mods(down, locked))
        /\ desk' = desk /\ down' = down /\ locked' = locked
    BY <1>3 DEF KeyRepeat
  <2>2. down' \subseteq desk.keys /\ IsFiniteSet(down') /\ Cardinality(down') <= desk.most /\ locked' \in BOOLEAN
    BY <2>1 DEF KeyInv
  <2>3. QED
    BY <2>1, <2>2, StrikeKeeps
<1>4. ASSUME NEW key \in desk.keys, KeyRelease(key) PROVE KeyInv'
  <2>1. /\ key \in down /\ down' = down \ {key} /\ Told("release", key, Mods(down', locked))
        /\ desk' = desk /\ locked' = locked
    BY <1>4 DEF KeyRelease
  <2>2. IsFiniteSet(down') /\ Cardinality(down') = Cardinality(down) - 1
    BY <2>1, FS_RemoveElement DEF KeyInv
  <2>3. Cardinality(down') <= desk.most
    <3>1. desk.most \in Nat /\ Cardinality(down) \in Nat /\ Cardinality(down) <= desk.most
      BY KeyboardAssumption, FS_CardinalityType DEF KeyInv
    <3>2. QED
      BY <2>2, <3>1
  <2>4. down' \subseteq desk.keys /\ locked' \in BOOLEAN
    BY <2>1 DEF KeyInv
  <2>5. QED
    BY <2>1, <2>2, <2>3, <2>4, StrikeKeeps
<1>5. QED
  BY <1>1, <1>2, <1>3, <1>4 DEF KeyNext

LEMMA KeyTold ==
  ASSUME KeyInv
  PROVE  KeyTypeOK /\ KeysReadBack /\ NoKeyStuck
<1>1. KeyTypeOK
  BY DEF KeyInv, KeyTypeOK, Spelled
<1>2. \A key : KittyEntry(KeyEventOf("release", key, {})) = Entry(key)
  <2>1. TAKE key
  <2>2. IsEvent(KeyEventOf("release", key, {})) /\ KeyEventOf("release", key, {}).key = key
    BY EventMade
  <2>3. QED
    BY <2>2, EntryOf
<1>3. NoKeyStuck
  BY <1>2 DEF KeyInv, HeldOK, NoKeyStuck
<1>4. QED
  BY <1>1, <1>3 DEF KeyInv

-----------------------------------------------------------------------------
(* The parser: its state and what may stand in it.                         *)

Octets == 0 .. 255

\* A sequence, of whatever.
ASeq(s) == \E T : s \in Seq(T)

\* The parameters kept are so many: the lengths of the groups add up.
Counts(groups, n) ==
  \E l \in [0 .. Len(groups) -> Nat] :
    /\ l[0] = 0 /\ l[Len(groups)] = n
    /\ \A i \in 1 .. Len(groups) : l[i] = l[i - 1] + Len(groups[i])

Fields == {"state", "inter", "groups", "open", "len", "param", "ignoring", "fields", "raw",
           "partial", "rest", "out"}

\* What every operation keeps of a parser.
WellShaped(p) ==
  /\ DOMAIN p = Fields /\ p = [x \in Fields |-> p[x]]
  /\ p.state \in States
  /\ p.inter \in Seq(Octets) /\ Len(p.inter) <= MaxIntermediates
  /\ p.groups \in Seq(Seq(Nat)) /\ Counts(p.groups, p.len)
  /\ p.open \in BOOLEAN /\ (p.open => p.groups # <<>>)
  /\ p.len \in 0 .. MaxParams /\ p.param \in 0 .. MaxParam /\ p.ignoring \in BOOLEAN
  /\ p.fields \in Seq(Seq(Octets)) /\ Len(p.fields) <= MaxOscParams
  /\ p.raw \in Seq(Octets) /\ p.partial \in Seq(Octets)
  /\ p.rest \in Seq(Octets) /\ ASeq(p.out)

\* Two parsers that will do the same with the same bytes and keep no
\* part of a character: one has r left to read
\* and the other s, and performed what pre says before.
Twins(p, q, pre, r, s) ==
  /\ WellShaped(p) /\ DOMAIN q = Fields /\ q = [x \in Fields |-> q[x]]
  /\ q.state = p.state /\ q.inter = p.inter /\ q.groups = p.groups /\ q.open = p.open
  /\ q.len = p.len /\ q.param = p.param /\ q.ignoring = p.ignoring
  /\ q.fields = p.fields /\ q.raw = p.raw /\ p.partial = <<>> /\ q.partial = <<>>
  /\ p.rest = r /\ q.rest = s /\ s \in Seq(Octets)
  /\ ASeq(pre) /\ q.out = pre \o p.out

\* Nothing of a sequence has been read, and nothing of an OSC.
Fresh(p) == /\ p.inter = <<>> /\ p.groups = <<>> /\ p.open = FALSE
            /\ p.len = 0 /\ p.param = 0 /\ p.ignoring = FALSE
Dry(p) == p.fields = <<>> /\ p.raw = <<>>

\* What an operation that is not a change of state leaves as it was.
Still(p, f) == f.state = p.state /\ (Dry(p) => Dry(f))

LEMMA SeqAppends ==
  ASSUME NEW s, ASeq(s), NEW e
  PROVE  /\ ASeq(Append(s, e)) /\ Len(s) \in Nat
         /\ Len(Append(s, e)) = Len(s) + 1 /\ Append(s, e)[Len(s) + 1] = e
         /\ \A i \in 1 .. Len(s) : Append(s, e)[i] = s[i]
<1>1. PICK T : s \in Seq(T)
  BY DEF ASeq
<1> DEFINE U1 == T \union {e}
<1>2. s \in Seq(U1)
  BY <1>1, SeqMonotonic
<1>3. e \in U1
  OBVIOUS
<1> HIDE DEF U1
<1>4. Append(s, e) \in Seq(U1)
  BY <1>2, <1>3
<1>5. /\ Len(s) \in Nat /\ Len(Append(s, e)) = Len(s) + 1 /\ Append(s, e)[Len(s) + 1] = e
      /\ \A i \in 1 .. Len(s) : Append(s, e)[i] = s[i]
  BY <1>2, <1>3
<1>6. QED
  BY <1>4, <1>5 DEF ASeq

LEMMA SeqJoins ==
  ASSUME NEW s, ASeq(s), NEW t, ASeq(t)
  PROVE  /\ ASeq(s \o t) /\ Len(s) \in Nat /\ Len(t) \in Nat /\ Len(s \o t) = Len(s) + Len(t)
         /\ \A i \in 1 .. Len(s) : (s \o t)[i] = s[i]
         /\ \A i \in 1 .. Len(t) : (s \o t)[Len(s) + i] = t[i]
         /\ <<>> \o t = t
<1>1. PICK T1 : s \in Seq(T1)
  BY DEF ASeq
<1>2. PICK T2 : t \in Seq(T2)
  BY DEF ASeq
<1> DEFINE T == T1 \union T2
<1>3. s \in Seq(T) /\ t \in Seq(T)
  BY <1>1, <1>2, SeqMonotonic
<1> HIDE DEF T
<1>4. /\ s \o t \in Seq(T) /\ Len(s \o t) = Len(s) + Len(t)
      /\ \A i \in 1 .. Len(s) + Len(t) : (s \o t)[i] = IF i <= Len(s) THEN s[i] ELSE t[i - Len(s)]
  BY <1>3, ConcatProperties
<1>5. Len(s) \in Nat /\ Len(t) \in Nat
  BY <1>3
<1>6. \A i \in 1 .. Len(t) : (s \o t)[Len(s) + i] = t[i]
  <2>1. TAKE i \in 1 .. Len(t)
  <2>2. Len(s) + i \in 1 .. Len(s) + Len(t) /\ ~(Len(s) + i <= Len(s)) /\ (Len(s) + i) - Len(s) = i
    BY <1>5
  <2>3. QED
    BY <1>4, <2>2
<1>7. \A i \in 1 .. Len(s) : (s \o t)[i] = s[i]
  BY <1>4, <1>5
<1>8. <<>> \o t = t
  BY <1>3, ConcatEmptySeq
<1>9. QED
  BY <1>4, <1>5, <1>6, <1>7, <1>8 DEF ASeq

\* Equal sequences.
LEMMA SeqsEqual ==
  ASSUME NEW s, ASeq(s), NEW t, ASeq(t), Len(s) = Len(t), \A i \in 1 .. Len(s) : s[i] = t[i]
  PROVE  s = t
<1>1. PICK T1 : s \in Seq(T1)
  BY DEF ASeq
<1>2. PICK T2 : t \in Seq(T2)
  BY DEF ASeq
<1>3. s \in Seq(T1 \union T2) /\ t \in Seq(T1 \union T2)
  BY <1>1, <1>2, SeqMonotonic
<1>4. QED
  BY <1>3, SeqEqual

LEMMA JoinAppend ==
  ASSUME NEW s, ASeq(s), NEW t, ASeq(t), NEW e
  PROVE  s \o Append(t, e) = Append(s \o t, e)
<1> DEFINE u == Append(t, e)
           v == s \o t
           l == s \o u
           r == Append(v, e)
           m == Len(s)
           n == Len(t)
<1>1. /\ ASeq(u) /\ n \in Nat /\ Len(u) = n + 1 /\ u[n + 1] = e
      /\ \A i \in 1 .. n : u[i] = t[i]
  BY SeqAppends
<1>2. /\ ASeq(v) /\ m \in Nat /\ Len(v) = m + n
      /\ \A i \in 1 .. m : v[i] = s[i]
      /\ \A i \in 1 .. n : v[m + i] = t[i]
  BY SeqJoins
<1> HIDE DEF u, v, n
<1>3. /\ ASeq(l) /\ Len(l) = m + Len(u)
      /\ \A i \in 1 .. m : l[i] = s[i]
      /\ \A i \in 1 .. Len(u) : l[m + i] = u[i]
  <2>1. ASeq(u)
    BY <1>1
  <2>2. QED
    BY <2>1, SeqJoins
<1>4. /\ ASeq(r) /\ Len(r) = Len(v) + 1 /\ r[Len(v) + 1] = e
      /\ \A i \in 1 .. Len(v) : r[i] = v[i]
  BY <1>2, SeqAppends
<1> HIDE DEF l, r, m
<1>5. Len(l) = m + (n + 1) /\ Len(r) = (m + n) + 1
  BY <1>1, <1>2, <1>3, <1>4
<1>6. ASSUME NEW i \in 1 .. Len(l) PROVE l[i] = r[i]
  <2>1. CASE i \in 1 .. m
    <3>1. i \in 1 .. Len(v)
      BY <1>1, <1>2, <2>1
    <3>2. QED
      BY <1>2, <1>3, <1>4, <2>1, <3>1
  <2>2. CASE i \in m + 1 .. m + n
    <3>1. i - m \in 1 .. n /\ m + (i - m) = i /\ i - m \in 1 .. Len(u) /\ i \in 1 .. Len(v)
      BY <1>1, <1>2, <2>2
    <3>2. l[i] = u[i - m] /\ u[i - m] = t[i - m]
      BY <1>1, <1>3, <3>1
    <3>3. r[i] = v[i] /\ v[i] = t[i - m]
      BY <1>2, <1>4, <3>1
    <3>4. QED
      BY <3>2, <3>3
  <2>3. CASE i = (m + n) + 1
    <3>1. m + (n + 1) = i /\ n + 1 \in 1 .. Len(u)
      BY <1>1, <1>2, <2>3
    <3>2. l[i] = u[n + 1]
      BY <1>3, <3>1
    <3>3. QED
      BY <1>1, <1>2, <1>4, <2>3, <3>2
  <2>4. QED
    BY <1>1, <1>2, <1>5, <2>1, <2>2, <2>3
<1>7. l = r
  BY <1>1, <1>2, <1>3, <1>4, <1>5, <1>6, SeqsEqual
<1>8. QED
  BY <1>7 DEF l, r, u, v

-----------------------------------------------------------------------------
(* The count of parameters (Params::len).                                  *)

LEMMA CountsNone == Counts(<<>>, 0)
<1> DEFINE l == [i \in 0 .. 0 |-> 0]
<1>1. Len(<<>>) = 0
  OBVIOUS
<1>2. l \in [0 .. 0 -> Nat] /\ l[0] = 0
  OBVIOUS
<1> HIDE DEF l
<1>3. \E k \in [0 .. 0 -> Nat] : k[0] = 0 /\ k[0] = 0 /\ \A i \in 1 .. 0 : k[i] = k[i - 1] + Len(<<>>[i])
  <2>1. \A i \in 1 .. 0 : FALSE
    OBVIOUS
  <2>2. QED
    BY <1>2, <2>1
<1>4. QED
  BY <1>1, <1>3 DEF Counts

LEMMA CountsAppend ==
  ASSUME NEW g \in Seq(Seq(Nat)), NEW n \in Nat, Counts(g, n), NEW x \in Nat
  PROVE  Counts(Append(g, <<x>>), n + 1) /\ Append(g, <<x>>) \in Seq(Seq(Nat)) /\ Append(g, <<x>>) # <<>>
<1> DEFINE h == Append(g, <<x>>)
           m == Len(g)
<1>1. m \in Nat /\ <<x>> \in Seq(Nat) /\ Len(<<x>>) = 1
  OBVIOUS
<1>2. h \in Seq(Seq(Nat)) /\ Len(h) = m + 1 /\ h[m + 1] = <<x>> /\ \A i \in 1 .. m : h[i] = g[i]
  BY <1>1
<1>3. PICK l \in [0 .. m -> Nat] : l[0] = 0 /\ l[m] = n /\ \A i \in 1 .. m : l[i] = l[i - 1] + Len(g[i])
  BY DEF Counts
<1> HIDE DEF h, m
<1> DEFINE k == [i \in 0 .. m + 1 |-> IF i = m + 1 THEN n + 1 ELSE l[i]]
<1>4. k \in [0 .. m + 1 -> Nat] /\ k[0] = 0 /\ k[m + 1] = n + 1 /\ \A i \in 0 .. m : k[i] = l[i]
  BY <1>1, <1>3
<1> HIDE DEF k
<1>5. \A i \in 1 .. m + 1 : k[i] = k[i - 1] + Len(h[i])
  <2>1. TAKE i \in 1 .. m + 1
  <2>2. CASE i = m + 1
    <3>1. k[i - 1] = n
      <4>1. i - 1 = m /\ m \in 0 .. m
        BY <1>1, <2>2
      <4>2. QED
        BY <1>3, <1>4, <4>1
    <3>3. Len(h[i]) = 1
      BY <1>1, <1>2, <2>2
    <3>2. QED
      BY <1>4, <2>2, <3>1, <3>3
  <2>3. CASE i \in 1 .. m
    <3>1. i \in 0 .. m /\ i - 1 \in 0 .. m
      BY <1>1, <2>3
    <3>2. QED
      BY <1>2, <1>3, <1>4, <2>3, <3>1
  <2>4. QED
    BY <1>1, <2>2, <2>3
<1>6. Counts(h, n + 1)
  BY <1>2, <1>4, <1>5 DEF Counts
<1>7. h # <<>>
  BY <1>1, <1>2
<1>8. QED
  BY <1>2, <1>6, <1>7 DEF h

LEMMA CountsExtend ==
  ASSUME NEW g \in Seq(Seq(Nat)), g # <<>>, NEW n \in Nat, Counts(g, n), NEW x \in Nat
  PROVE  /\ Counts([g EXCEPT ![Len(g)] = Append(@, x)], n + 1)
         /\ [g EXCEPT ![Len(g)] = Append(@, x)] \in Seq(Seq(Nat))
         /\ [g EXCEPT ![Len(g)] = Append(@, x)] # <<>>
<1> DEFINE m == Len(g)
           last == Append(g[m], x)
           h == [g EXCEPT ![m] = last]
<1>1. m \in Nat /\ m > 0 /\ g[m] \in Seq(Nat)
  BY EmptySeq
<1>2. last \in Seq(Nat) /\ Len(last) = Len(g[m]) + 1 /\ Len(g[m]) \in Nat
  BY <1>1
<1> HIDE DEF last
<1>3. h \in Seq(Seq(Nat)) /\ Len(h) = m /\ h[m] = last /\ \A i \in 1 .. m - 1 : h[i] = g[i]
  <2>1. m \in 1 .. Len(g)
    BY <1>1
  <2>2. /\ h \in Seq(Seq(Nat)) /\ Len(h) = Len(g)
        /\ \A j \in 1 .. Len(g) : h[j] = IF j = m THEN last ELSE g[j]
    BY <1>2, <2>1, ExceptSeq
  <2>3. m = Len(g)
    OBVIOUS
  <2> HIDE DEF h, m
  <2>4. QED
    BY <1>1, <2>2, <2>3
<1>4. PICK l \in [0 .. m -> Nat] : l[0] = 0 /\ l[m] = n /\ \A i \in 1 .. m : l[i] = l[i - 1] + Len(g[i])
  BY DEF Counts
<1> HIDE DEF h, m
<1> DEFINE k == [i \in 0 .. m |-> IF i = m THEN n + 1 ELSE l[i]]
<1>5. k \in [0 .. m -> Nat] /\ k[0] = 0 /\ k[m] = n + 1 /\ \A i \in 0 .. m - 1 : k[i] = l[i]
  BY <1>1, <1>4
<1> HIDE DEF k
<1>6. \A i \in 1 .. m : k[i] = k[i - 1] + Len(h[i])
  <2>1. TAKE i \in 1 .. m
  <2>2. CASE i = m
    <3>1. k[i - 1] = l[m - 1] /\ l[m - 1] \in Nat /\ n = l[m - 1] + Len(g[m])
      BY <1>1, <1>4, <1>5, <2>2
    <3>2. Len(h[i]) = Len(g[m]) + 1
      BY <1>2, <1>3, <2>2
    <3>3. k[i] = n + 1 /\ Len(g[m]) \in Nat
      BY <1>2, <1>5, <2>2
    <3>4. QED
      BY <3>1, <3>2, <3>3, SMTT(30)
  <2>3. CASE i \in 1 .. m - 1
    <3>1. i \in 0 .. m - 1 /\ i - 1 \in 0 .. m - 1
      BY <1>1, <2>3
    <3>2. QED
      BY <1>3, <1>4, <1>5, <2>3, <3>1
  <2>4. QED
    BY <1>1, <2>2, <2>3
<1>7. Counts(h, n + 1)
  BY <1>3, <1>5, <1>6 DEF Counts
<1>8. h # <<>>
  BY <1>1, <1>3
<1>9. [g EXCEPT ![Len(g)] = Append(@, x)] = h
  BY DEF h, m, last
<1>10. QED
  BY <1>3, <1>7, <1>8, <1>9

\* The count is that of the parameters and subparameters laid end to end.
LEMMA CountsAll ==
  ASSUME NEW g \in Seq(Seq(Nat)), NEW n \in Nat, Counts(g, n)
  PROVE  n = Len(FlattenSeq(g))
<1> DEFINE m == Len(g)
<1>1. m \in Nat /\ m = Len(g) /\ \A i \in 1 .. m : g[i] \in Seq(Nat)
  BY ElementOfSeq
<1>2. PICK l \in [0 .. m -> Nat] : l[0] = 0 /\ l[m] = n /\ \A i \in 1 .. m : l[i] = l[i - 1] + Len(g[i])
  BY DEF Counts
<1>6. FlattenSeq(g) = IF m = 0 THEN g
                       ELSE LET flatten[i \in 1 .. m] == IF i = 1 THEN g[i] ELSE flatten[i - 1] \o g[i] IN flatten[m]
  BY DEF FlattenSeq
<1> HIDE DEF m
<1>3. CASE m = 0
  <2>1. g = <<>> /\ FlattenSeq(g) = g
    BY <1>1, <1>3, <1>6, EmptySeq
  <2>2. QED
    BY <1>2, <1>3, <2>1
<1>4. CASE m > 0
  <2> DEFINE Built(f, k) ==
               f = [i \in 1 .. k |-> IF i = 1 THEN g[i] ELSE f[i - 1] \o g[i]]
             Reached == {k \in 0 .. m : \E f : Built(f, k)}
             flat == CHOOSE f : Built(f, m)
  <2>1. 0 \in Reached
    <3> DEFINE e == [i \in 1 .. 0 |-> <<>>]
    <3>1. Built(e, 0)
      OBVIOUS
    <3>2. \E f : Built(f, 0)
      <4> HIDE DEF Built, e
      <4>1. QED
        BY <3>1
    <3>3. QED
      BY <1>1, <3>2
  <2>2. ASSUME NEW k \in 1 .. m, k - 1 \in Reached PROVE k \in Reached
    <3>1. PICK f : Built(f, k - 1)
      BY <2>2
    <3> DEFINE a == [i \in 1 .. k |-> IF i = k THEN (IF k = 1 THEN g[1] ELSE f[k - 1] \o g[k]) ELSE f[i]]
               b == [i \in 1 .. k |-> IF i = 1 THEN g[i] ELSE a[i - 1] \o g[i]]
    <3>2. \A i \in 1 .. k - 1 : f[i] = IF i = 1 THEN g[i] ELSE f[i - 1] \o g[i]
      <4> HIDE DEF a, b
      <4>1. QED
        BY <3>1, Zenon
    <3>3. /\ \A i \in 1 .. k - 1 : a[i] = f[i]
          /\ a[k] = IF k = 1 THEN g[1] ELSE f[k - 1] \o g[k]
      <4>1. \A i \in 1 .. k - 1 : i \in 1 .. k /\ i # k
        BY <1>1
      <4>2. k \in 1 .. k
        BY <1>1
      <4>3. QED
        BY <4>1, <4>2
    <3>4. ASSUME NEW i \in 1 .. k PROVE a[i] = b[i]
      <4>1. b[i] = IF i = 1 THEN g[i] ELSE a[i - 1] \o g[i]
        OBVIOUS
      <4> HIDE DEF a, b
      <4>2. CASE i = k /\ k = 1
        BY <3>3, <4>1, <4>2
      <4>3. CASE i = k /\ k # 1
        <5>1. k - 1 \in 1 .. k - 1
          BY <4>3
        <5>2. a[k - 1] = f[k - 1]
          BY <3>3, <5>1
        <5>3. QED
          BY <3>3, <4>1, <4>3, <5>2
      <4>4. CASE i \in 1 .. k - 1 /\ i = 1
        BY <3>2, <3>3, <4>1, <4>4
      <4>5. CASE i \in 1 .. k - 1 /\ i # 1
        <5>1. i - 1 \in 1 .. k - 1
          BY <4>5
        <5>2. a[i - 1] = f[i - 1] /\ a[i] = f[i]
          BY <3>3, <4>5, <5>1
        <5>3. QED
          BY <3>2, <4>1, <4>5, <5>2
      <4>6. QED
        BY <4>2, <4>3, <4>4, <4>5
    <3>5. a = b
      <4>1. a = [i \in 1 .. k |-> a[i]] /\ b = [i \in 1 .. k |-> b[i]]
        OBVIOUS
      <4>2. QED
        BY <3>4, <4>1
    <3>6. Built(a, k)
      BY <3>5
    <3>7. \E f2 : Built(f2, k)
      <4> HIDE DEF Built, a
      <4>1. QED
        BY <3>6
    <3> HIDE DEF Built
    <3>8. QED
      BY <3>7, <1>1
  <2>3. m \in Reached
    <3> HIDE DEF Reached
    <3>1. m \in Nat
      BY <1>1
    <3>2. \A k \in 0 .. m : k \in Reached
      BY <3>1, <2>1, <2>2, Climbs
    <3>3. QED
      BY <3>1, <3>2
  <2>4. Built(flat, m)
    <3>1. \E f : Built(f, m)
      BY <2>3
    <3> HIDE DEF Built
    <3>2. QED
      BY <3>1
  <2>5. FlattenSeq(g) = flat[m]
    BY <1>4, <1>6
  <2> HIDE DEF flat
  <2>6. flat[1] = g[1] /\ \A i \in 2 .. m : flat[i] = flat[i - 1] \o g[i]
    <3>1. \A i \in 1 .. m : flat[i] = IF i = 1 THEN g[i] ELSE flat[i - 1] \o g[i]
      BY <2>4, Zenon
    <3>2. \A i \in 2 .. m : i \in 1 .. m /\ i # 1
      OBVIOUS
    <3>3. 1 \in 1 .. m
      BY <1>1, <1>4
    <3>4. QED
      BY <3>1, <3>2, <3>3
  <2> DEFINE S == {i \in 0 .. m : i > 0 => flat[i] \in Seq(Nat) /\ Len(flat[i]) = l[i]}
  <2>7. 0 \in S
    BY <1>1
  <2>8. ASSUME NEW i \in 1 .. m, i - 1 \in S PROVE i \in S
    <3>1. g[i] \in Seq(Nat) /\ l[i] = l[i - 1] + Len(g[i]) /\ l[i - 1] \in Nat
      <4>1. i - 1 \in 0 .. m
        BY <1>1
      <4>2. QED
        BY <1>1, <1>2, <4>1
    <3>2. CASE i = 1
      <4>1. flat[i] = g[i] /\ l[i] = Len(g[i])
        BY <1>2, <2>6, <3>1, <3>2
      <4>2. QED
        BY <3>1, <4>1
    <3>3. CASE i \in 2 .. m
      <4>1. flat[i - 1] \in Seq(Nat) /\ Len(flat[i - 1]) = l[i - 1]
        BY <2>8, <3>3
      <4>2. flat[i] = flat[i - 1] \o g[i]
        BY <2>6, <3>3
      <4>3. flat[i] \in Seq(Nat) /\ Len(flat[i]) = Len(flat[i - 1]) + Len(g[i])
        <5> DEFINE a == flat[i - 1]
                   b == g[i]
        <5>1. a \in Seq(Nat) /\ b \in Seq(Nat)
          BY <3>1, <4>1
        <5> HIDE DEF a, b
        <5>2. a \o b \in Seq(Nat) /\ Len(a \o b) = Len(a) + Len(b)
          BY <5>1, ConcatProperties
        <5>3. QED
          BY <4>2, <5>2 DEF a, b
      <4>4. QED
        BY <3>1, <4>1, <4>3
    <3>4. QED
      BY <3>2, <3>3
  <2>9. m \in S
    <3> HIDE DEF S
    <3>1. \A i \in 0 .. m : i \in S
      BY <1>1, <2>7, <2>8, Climbs
    <3>2. QED
      BY <1>1, <3>1
  <2>10. QED
    BY <1>2, <1>4, <2>5, <2>9
<1>5. QED
  BY <1>1, <1>3, <1>4

-----------------------------------------------------------------------------
(* What each operation does to two parsers that are alike.                 *)

LEMMA ParserConstants ==
  /\ MaxIntermediates \in Nat \ {0} /\ MaxParams \in Nat \ {0}
  /\ MaxOscParams \in Nat \ {0} /\ MaxParam \in Nat /\ MaxParam > 200
BY ParserAssumption, WireAssumption

LEMMA ToPair ==
  ASSUME NEW p, NEW q, NEW pre, NEW r, NEW s, Twins(p, q, pre, r, s), NEW st \in States
  PROVE  /\ Twins(To(p, st), To(q, st), pre, r, s)
         /\ To(p, st).state = st /\ (Dry(p) => Dry(To(p, st))) /\ (Fresh(p) => Fresh(To(p, st)))
BY DEF Twins, WellShaped, To, Dry, Fresh, Fields

LEMMA PerformPair ==
  ASSUME NEW p, NEW q, NEW pre, NEW r, NEW s, Twins(p, q, pre, r, s), NEW e
  PROVE  /\ Twins(Perform(p, e), Perform(q, e), pre, r, s)
         /\ Still(p, Perform(p, e)) /\ (Fresh(p) => Fresh(Perform(p, e)))
<1>1. ASeq(Append(p.out, e)) /\ pre \o Append(p.out, e) = Append(pre \o p.out, e)
  <2>1. ASeq(p.out) /\ ASeq(pre)
    BY DEF Twins, WellShaped
  <2>2. QED
    BY <2>1, SeqAppends, JoinAppend
<1>2. QED
  BY <1>1 DEF Twins, WellShaped, Perform, Dry, Fresh, Fields, Still

LEMMA ResetPair ==
  ASSUME NEW p, NEW q, NEW pre, NEW r, NEW s, Twins(p, q, pre, r, s)
  PROVE  /\ Twins(ResetParams(p), ResetParams(q), pre, r, s)
         /\ Still(p, ResetParams(p)) /\ Fresh(ResetParams(p))
<1> DEFINE f == ResetParams(p)
           g == ResetParams(q)
<1>1. 0 \in 0 .. MaxParams /\ 0 \in 0 .. MaxParam /\ <<>> \in Seq(Octets) /\ <<>> \in Seq(Seq(Nat))
  BY ParserConstants
<1>2. Len(<<>>) = 0 /\ 0 <= MaxIntermediates
  BY ParserConstants
<1>3. /\ DOMAIN f = Fields /\ f = [x \in Fields |-> f[x]]
      /\ f.inter = <<>> /\ f.param = 0 /\ f.groups = <<>> /\ f.open = FALSE /\ f.len = 0 /\ f.ignoring = FALSE
      /\ f.state = p.state /\ f.fields = p.fields /\ f.raw = p.raw /\ f.partial = p.partial
      /\ f.rest = p.rest /\ f.out = p.out
  BY DEF Twins, WellShaped, ResetParams, Fields
<1>4. /\ DOMAIN g = Fields /\ g = [x \in Fields |-> g[x]]
      /\ g.inter = <<>> /\ g.param = 0 /\ g.groups = <<>> /\ g.open = FALSE /\ g.len = 0 /\ g.ignoring = FALSE
      /\ g.state = q.state /\ g.fields = q.fields /\ g.raw = q.raw /\ g.partial = q.partial
      /\ g.rest = q.rest /\ g.out = q.out
  BY DEF Twins, WellShaped, ResetParams, Fields
<1> HIDE DEF f, g
<1>5. WellShaped(f)
  BY <1>1, <1>2, <1>3, CountsNone DEF Twins, WellShaped
<1>6. Twins(f, g, pre, r, s)
  BY <1>3, <1>4, <1>5 DEF Twins
<1>7. Still(p, f) /\ Fresh(f)
  BY <1>3 DEF Still, Dry, Fresh
<1>8. QED
  BY <1>6, <1>7 DEF f, g

LEMMA IgnoringPair ==
  ASSUME NEW p, NEW q, NEW pre, NEW r, NEW s, Twins(p, q, pre, r, s)
  PROVE  Twins(Ignoring(p), Ignoring(q), pre, r, s) /\ Still(p, Ignoring(p))
BY DEF Twins, WellShaped, Ignoring, Dry, Fields, Still

LEMMA PutPair ==
  ASSUME NEW p, NEW q, NEW pre, NEW r, NEW s, Twins(p, q, pre, r, s), ~Full(p), NEW open \in BOOLEAN
  PROVE  Twins(Put(p, open), Put(q, open), pre, r, s) /\ Still(p, Put(p, open))
<1> DEFINE g == IF p.open THEN [p.groups EXCEPT ![Len(p.groups)] = Append(@, p.param)]
                ELSE Append(p.groups, <<p.param>>)
<1>1. /\ p.groups \in Seq(Seq(Nat)) /\ p.len \in 0 .. MaxParams /\ Counts(p.groups, p.len)
      /\ p.param \in 0 .. MaxParam /\ (p.open => p.groups # <<>>) /\ p.len # MaxParams
  BY DEF Twins, WellShaped, Full
<1>2. p.len \in Nat /\ p.param \in Nat /\ p.len + 1 \in 0 .. MaxParams
  BY <1>1, ParserConstants
<1>3. g \in Seq(Seq(Nat)) /\ Counts(g, p.len + 1) /\ g # <<>>
  <2>1. CASE p.open
    <3>1. g = [p.groups EXCEPT ![Len(p.groups)] = Append(@, p.param)] /\ p.groups # <<>>
      BY <1>1, <2>1
    <3> HIDE DEF g
    <3>2. QED
      BY <3>1, <1>1, <1>2, CountsExtend
  <2>2. CASE ~p.open
    <3>1. g = Append(p.groups, <<p.param>>)
      BY <2>2
    <3> HIDE DEF g
    <3>2. QED
      BY <3>1, <1>1, <1>2, CountsAppend
  <2>3. QED
    BY <2>1, <2>2
<1>4. /\ p.groups = q.groups /\ p.open = q.open /\ p.param = q.param /\ p.len = q.len
      /\ DOMAIN p = Fields /\ p = [x \in Fields |-> p[x]] /\ DOMAIN q = Fields /\ q = [x \in Fields |-> q[x]]
  BY DEF Twins, WellShaped
<1> DEFINE f == Put(p, open)
           h == Put(q, open)
<1>5. /\ f = [[[p EXCEPT !.groups = g] EXCEPT !.open = open] EXCEPT !.len = p.len + 1]
      /\ h = [[[q EXCEPT !.groups = g] EXCEPT !.open = open] EXCEPT !.len = p.len + 1]
  <2>1. f = [p EXCEPT !.groups = g, !.open = open, !.len = p.len + 1]
    BY DEF Put
  <2>2. h = [q EXCEPT !.groups = IF q.open THEN [q.groups EXCEPT ![Len(q.groups)] = Append(@, q.param)]
                                 ELSE Append(q.groups, <<q.param>>),
                      !.open = open, !.len = q.len + 1]
    BY DEF Put
  <2>3. g = IF q.open THEN [q.groups EXCEPT ![Len(q.groups)] = Append(@, q.param)]
            ELSE Append(q.groups, <<q.param>>)
    BY <1>4
  <2>4. h = [q EXCEPT !.groups = g, !.open = open, !.len = p.len + 1]
    BY <1>4, <2>2, <2>3
  <2> HIDE DEF g, f, h
  <2>5. QED
    BY <1>4, <2>1, <2>4
<1> HIDE DEF g, f, h
<1>6. /\ DOMAIN f = Fields /\ f = [x \in Fields |-> f[x]]
      /\ f.groups = g /\ f.open = open /\ f.len = p.len + 1
      /\ f.inter = p.inter /\ f.param = p.param /\ f.ignoring = p.ignoring
      /\ f.state = p.state /\ f.fields = p.fields /\ f.raw = p.raw /\ f.partial = p.partial
      /\ f.rest = p.rest /\ f.out = p.out
  BY <1>4, <1>5 DEF Fields
<1>7. /\ DOMAIN h = Fields /\ h = [x \in Fields |-> h[x]]
      /\ h.groups = g /\ h.open = open /\ h.len = p.len + 1
      /\ h.inter = q.inter /\ h.param = q.param /\ h.ignoring = q.ignoring
      /\ h.state = q.state /\ h.fields = q.fields /\ h.raw = q.raw /\ h.partial = q.partial
      /\ h.rest = q.rest /\ h.out = q.out
  BY <1>4, <1>5 DEF Fields
<1>8. WellShaped(f)
  BY <1>2, <1>3, <1>6 DEF Twins, WellShaped
<1>9. Twins(f, h, pre, r, s) /\ Still(p, f)
  BY <1>6, <1>7, <1>8 DEF Twins, Still, Dry
<1>10. QED
  BY <1>9 DEF f, h

LEMMA SetParamPair ==
  ASSUME NEW p, NEW q, NEW pre, NEW r, NEW s, Twins(p, q, pre, r, s), NEW n \in 0 .. MaxParam
  PROVE  Twins([p EXCEPT !.param = n], [q EXCEPT !.param = n], pre, r, s) /\ Still(p, [p EXCEPT !.param = n])
BY DEF Twins, WellShaped, Dry, Fields, Still

LEMMA FullAlike ==
  ASSUME NEW p, NEW q, NEW pre, NEW r, NEW s, Twins(p, q, pre, r, s)
  PROVE  Full(q) <=> Full(p)
BY DEF Twins, Full

LEMMA StillTwice ==
  ASSUME NEW p, NEW f, NEW g, Still(p, f), Still(f, g)
  PROVE  Still(p, g)
BY DEF Still

LEMMA ParamPair ==
  ASSUME NEW p, NEW q, NEW pre, NEW r, NEW s, Twins(p, q, pre, r, s)
  PROVE  /\ Twins(ActionParam(p), ActionParam(q), pre, r, s) /\ Still(p, ActionParam(p))
         /\ Twins(ActionSubparam(p), ActionSubparam(q), pre, r, s) /\ Still(p, ActionSubparam(p))
         /\ Twins(LastParam(p), LastParam(q), pre, r, s) /\ Still(p, LastParam(p))
<1>1. CASE Full(p)
  BY <1>1, FullAlike, IgnoringPair DEF ActionParam, ActionSubparam, LastParam
<1>2. CASE ~Full(p)
  <2>1. ~Full(q) /\ 0 \in 0 .. MaxParam
    BY <1>2, FullAlike, ParserConstants
  <2>2. /\ Twins(Put(p, FALSE), Put(q, FALSE), pre, r, s) /\ Still(p, Put(p, FALSE))
        /\ Twins(Put(p, TRUE), Put(q, TRUE), pre, r, s) /\ Still(p, Put(p, TRUE))
    BY <1>2, PutPair
  <2>3. /\ Twins([Put(p, FALSE) EXCEPT !.param = 0], [Put(q, FALSE) EXCEPT !.param = 0], pre, r, s)
        /\ Still(Put(p, FALSE), [Put(p, FALSE) EXCEPT !.param = 0])
    BY <2>1, <2>2, SetParamPair
  <2>4. /\ Twins([Put(p, TRUE) EXCEPT !.param = 0], [Put(q, TRUE) EXCEPT !.param = 0], pre, r, s)
        /\ Still(Put(p, TRUE), [Put(p, TRUE) EXCEPT !.param = 0])
    BY <2>1, <2>2, SetParamPair
  <2>5. QED
    BY <1>2, <2>1, <2>2, <2>3, <2>4, StillTwice DEF ActionParam, ActionSubparam, LastParam
<1>3. QED
  BY <1>1, <1>2

LEMMA ParamNextPair ==
  ASSUME NEW p, NEW q, NEW pre, NEW r, NEW s, Twins(p, q, pre, r, s), NEW byte \in Digits
  PROVE  /\ Twins(ActionParamNext(p, byte), ActionParamNext(q, byte), pre, r, s)
         /\ Still(p, ActionParamNext(p, byte))
<1>1. CASE Full(p)
  BY <1>1, FullAlike, IgnoringPair DEF ActionParamNext
<1>2. CASE ~Full(p)
  <2> DEFINE n == Min({MaxParam, Min({MaxParam, p.param * 10}) + (byte - 48)})
  <2>1. ~Full(q) /\ q.param = p.param /\ p.param \in 0 .. MaxParam /\ byte \in 48 .. 57
    BY <1>2, FullAlike DEF Twins, WellShaped, Digits
  <2>2. p.param * 10 \in Nat /\ MaxParam \in Nat /\ byte - 48 \in Nat
    BY <2>1, ParserConstants
  <2>3. Min({MaxParam, p.param * 10}) \in 0 .. MaxParam
    BY <2>2, LesserOf
  <2>4. Min({MaxParam, p.param * 10}) + (byte - 48) \in Nat
    BY <2>2, <2>3
  <2>5. n \in 0 .. MaxParam
    BY <2>2, <2>4, LesserOf
  <2>6. /\ ActionParamNext(p, byte) = [p EXCEPT !.param = n]
        /\ ActionParamNext(q, byte) = [q EXCEPT !.param = n]
    BY <1>2, <2>1 DEF ActionParamNext, Twins, WellShaped, Fields
  <2> HIDE DEF n
  <2>7. QED
    BY <2>5, <2>6, SetParamPair
<1>3. QED
  BY <1>1, <1>2

LEMMA CollectPair ==
  ASSUME NEW p, NEW q, NEW pre, NEW r, NEW s, Twins(p, q, pre, r, s), NEW byte \in Octets
  PROVE  /\ Twins(ActionCollect(p, byte), ActionCollect(q, byte), pre, r, s)
         /\ Still(p, ActionCollect(p, byte))
<1>1. q.inter = p.inter /\ p.inter \in Seq(Octets) /\ Len(p.inter) <= MaxIntermediates
  BY DEF Twins, WellShaped
<1>2. CASE Len(p.inter) = MaxIntermediates
  BY <1>1, <1>2, IgnoringPair DEF ActionCollect
<1>3. CASE Len(p.inter) # MaxIntermediates
  <2> DEFINE i == Append(p.inter, byte)
  <2>1. i \in Seq(Octets) /\ Len(i) = Len(p.inter) + 1 /\ Len(p.inter) \in Nat
    BY <1>1
  <2>2. Len(i) <= MaxIntermediates
    BY <1>1, <1>3, <2>1, ParserConstants
  <2>3. /\ ActionCollect(p, byte) = [p EXCEPT !.inter = i]
        /\ ActionCollect(q, byte) = [q EXCEPT !.inter = i]
    BY <1>1, <1>3 DEF ActionCollect, Twins, WellShaped, Fields
  <2> HIDE DEF i
  <2> DEFINE f == [p EXCEPT !.inter = i]
             g == [q EXCEPT !.inter = i]
  <2>4. /\ DOMAIN f = Fields /\ f = [x \in Fields |-> f[x]] /\ f.inter = i
        /\ f.state = p.state /\ f.groups = p.groups /\ f.open = p.open /\ f.len = p.len /\ f.param = p.param
        /\ f.ignoring = p.ignoring /\ f.fields = p.fields /\ f.raw = p.raw /\ f.partial = p.partial /\ f.rest = p.rest /\ f.out = p.out
    BY DEF Twins, WellShaped, Fields
  <2>5. /\ DOMAIN g = Fields /\ g = [x \in Fields |-> g[x]] /\ g.inter = i
        /\ g.state = q.state /\ g.groups = q.groups /\ g.open = q.open /\ g.len = q.len /\ g.param = q.param
        /\ g.ignoring = q.ignoring /\ g.fields = q.fields /\ g.raw = q.raw /\ g.partial = q.partial /\ g.rest = q.rest /\ g.out = q.out
    BY DEF Twins, Fields
  <2> HIDE DEF f, g
  <2>6. WellShaped(f)
    BY <2>1, <2>2, <2>4 DEF Twins, WellShaped
  <2>7. Twins(f, g, pre, r, s)
    BY <2>4, <2>5, <2>6 DEF Twins
  <2>8. Still(p, f)
    BY <2>4 DEF Still, Dry
  <2>9. QED
    BY <2>3, <2>7, <2>8 DEF f, g
<1>4. QED
  BY <1>2, <1>3

LEMMA ExecutePair ==
  ASSUME NEW p, NEW q, NEW pre, NEW r, NEW s, Twins(p, q, pre, r, s), NEW byte
  PROVE  Twins(Execute(p, byte), Execute(q, byte), pre, r, s) /\ Still(p, Execute(p, byte))
BY PerformPair DEF Execute

LEMMA GroundStates ==
  /\ Ground \in States /\ Escape \in States /\ Ground # Escape
  /\ <<"DcsPassthrough">> \in States /\ <<"OscString">> \in States /\ <<"ApcString">> \in States
  /\ <<"SosPmApcString">> \in States /\ <<"EscapeIntermediate">> \in States
BY DEF Ground, Escape, States

\* An operation followed by a change of state.
LEMMA ThenTo ==
  ASSUME NEW p, NEW f, NEW g, NEW pre, NEW r, NEW s, Twins(f, g, pre, r, s), Dry(p) => Dry(f), NEW st \in States
  PROVE  /\ Twins(To(f, st), To(g, st), pre, r, s)
         /\ To(f, st).state = st /\ (Dry(p) => Dry(To(f, st))) /\ (Fresh(f) => Fresh(To(f, st)))
BY ToPair

LEMMA DispatchPair ==
  ASSUME NEW p, NEW q, NEW pre, NEW r, NEW s, Twins(p, q, pre, r, s), NEW byte
  PROVE  /\ Twins(CsiDispatch(p, byte), CsiDispatch(q, byte), pre, r, s)
         /\ CsiDispatch(p, byte).state = Ground /\ (Dry(p) => Dry(CsiDispatch(p, byte)))
         /\ Twins(Hook(p, byte), Hook(q, byte), pre, r, s)
         /\ Hook(p, byte).state = <<"DcsPassthrough">> /\ (Dry(p) => Dry(Hook(p, byte)))
         /\ Twins(EscDispatch(p, byte), EscDispatch(q, byte), pre, r, s)
         /\ EscDispatch(p, byte).state = Ground /\ (Dry(p) => Dry(EscDispatch(p, byte)))
<1> DEFINE f == LastParam(p)
           g == LastParam(q)
<1>1. Twins(f, g, pre, r, s) /\ Still(p, f)
  BY ParamPair
<1> HIDE DEF f, g
<1>2. /\ g.groups = f.groups /\ g.inter = f.inter /\ g.ignoring = f.ignoring
      /\ q.inter = p.inter /\ q.ignoring = p.ignoring
  BY <1>1 DEF Twins
<1>3. ASSUME NEW kind
      PROVE  Twins(Dispatch(f, kind, byte), Dispatch(g, kind, byte), pre, r, s) /\ Still(f, Dispatch(f, kind, byte))
  <2>1. Dispatch(f, kind, byte) = Perform(f, <<kind, f.groups, f.inter, f.ignoring, byte>>)
        /\ Dispatch(g, kind, byte) = Perform(g, <<kind, f.groups, f.inter, f.ignoring, byte>>)
    BY <1>2 DEF Dispatch
  <2>2. QED
    BY <1>1, <2>1, PerformPair
<1>4. /\ Twins(CsiDispatch(p, byte), CsiDispatch(q, byte), pre, r, s)
      /\ CsiDispatch(p, byte).state = Ground /\ (Dry(p) => Dry(CsiDispatch(p, byte)))
  <2>1. CsiDispatch(p, byte) = To(Dispatch(f, "csi", byte), Ground)
        /\ CsiDispatch(q, byte) = To(Dispatch(g, "csi", byte), Ground)
    BY DEF CsiDispatch, f, g
  <2>2. Twins(Dispatch(f, "csi", byte), Dispatch(g, "csi", byte), pre, r, s) /\ Still(f, Dispatch(f, "csi", byte))
    BY <1>3
  <2>3. Dry(p) => Dry(Dispatch(f, "csi", byte))
    BY <1>1, <2>2 DEF Still
  <2> DEFINE a == Dispatch(f, "csi", byte)
             b == Dispatch(g, "csi", byte)
  <2>4. Twins(a, b, pre, r, s) /\ (Dry(p) => Dry(a)) /\ Ground \in States
    BY <2>2, <2>3, GroundStates
  <2> HIDE DEF a, b
  <2>5. Twins(To(a, Ground), To(b, Ground), pre, r, s) /\ To(a, Ground).state = Ground
        /\ (Dry(p) => Dry(To(a, Ground)))
    BY <2>4, ThenTo
  <2>6. CsiDispatch(p, byte) = To(a, Ground) /\ CsiDispatch(q, byte) = To(b, Ground)
    BY <2>1 DEF a, b
  <2>7. QED
    BY <2>5, <2>6
<1>5. /\ Twins(Hook(p, byte), Hook(q, byte), pre, r, s)
      /\ Hook(p, byte).state = <<"DcsPassthrough">> /\ (Dry(p) => Dry(Hook(p, byte)))
  <2>1. Hook(p, byte) = To(Dispatch(f, "hook", byte), <<"DcsPassthrough">>)
        /\ Hook(q, byte) = To(Dispatch(g, "hook", byte), <<"DcsPassthrough">>)
    BY DEF Hook, f, g
  <2>2. Twins(Dispatch(f, "hook", byte), Dispatch(g, "hook", byte), pre, r, s) /\ Still(f, Dispatch(f, "hook", byte))
    BY <1>3
  <2>3. Dry(p) => Dry(Dispatch(f, "hook", byte))
    BY <1>1, <2>2 DEF Still
  <2> DEFINE a == Dispatch(f, "hook", byte)
             b == Dispatch(g, "hook", byte)
  <2>4. Twins(a, b, pre, r, s) /\ (Dry(p) => Dry(a)) /\ <<"DcsPassthrough">> \in States
    BY <2>2, <2>3, GroundStates
  <2> HIDE DEF a, b
  <2>5. Twins(To(a, <<"DcsPassthrough">>), To(b, <<"DcsPassthrough">>), pre, r, s) /\ To(a, <<"DcsPassthrough">>).state = <<"DcsPassthrough">>
        /\ (Dry(p) => Dry(To(a, <<"DcsPassthrough">>)))
    BY <2>4, ThenTo
  <2>6. Hook(p, byte) = To(a, <<"DcsPassthrough">>) /\ Hook(q, byte) = To(b, <<"DcsPassthrough">>)
    BY <2>1 DEF a, b
  <2>7. QED
    BY <2>5, <2>6
<1>6. /\ Twins(EscDispatch(p, byte), EscDispatch(q, byte), pre, r, s)
      /\ EscDispatch(p, byte).state = Ground /\ (Dry(p) => Dry(EscDispatch(p, byte)))
  <2> DEFINE e == <<"esc", p.inter, p.ignoring, byte>>
  <2>1. EscDispatch(p, byte) = To(Perform(p, e), Ground) /\ EscDispatch(q, byte) = To(Perform(q, e), Ground)
    BY <1>2 DEF EscDispatch
  <2>2. Twins(Perform(p, e), Perform(q, e), pre, r, s) /\ Still(p, Perform(p, e))
    BY PerformPair
  <2>3. Dry(p) => Dry(Perform(p, e))
    BY <2>2 DEF Still
  <2> DEFINE a == Perform(p, e)
             b == Perform(q, e)
  <2>4. Twins(a, b, pre, r, s) /\ (Dry(p) => Dry(a)) /\ Ground \in States
    BY <2>2, <2>3, GroundStates
  <2> HIDE DEF a, b
  <2>5. Twins(To(a, Ground), To(b, Ground), pre, r, s) /\ To(a, Ground).state = Ground
        /\ (Dry(p) => Dry(To(a, Ground)))
    BY <2>4, ThenTo
  <2>6. EscDispatch(p, byte) = To(a, Ground) /\ EscDispatch(q, byte) = To(b, Ground)
    BY <2>1 DEF a, b
  <2>7. QED
    BY <2>5, <2>6
<1>7. QED
  BY <1>4, <1>5, <1>6

LEMMA OscFieldPair ==
  ASSUME NEW p, NEW q, NEW pre, NEW r, NEW s, Twins(p, q, pre, r, s)
  PROVE  /\ Twins(OscField(p), OscField(q), pre, r, s) /\ OscField(p).state = p.state
         /\ OscField(q).fields = OscField(p).fields
<1>1. q.fields = p.fields /\ q.raw = p.raw /\ p.fields \in Seq(Seq(Octets)) /\ Len(p.fields) <= MaxOscParams
      /\ p.raw \in Seq(Octets)
  BY DEF Twins, WellShaped
<1>2. CASE Len(p.fields) = MaxOscParams
  BY <1>1, <1>2 DEF OscField
<1>3. CASE Len(p.fields) # MaxOscParams
  <2> DEFINE i == Append(p.fields, p.raw)
  <2>1. i \in Seq(Seq(Octets)) /\ Len(i) = Len(p.fields) + 1 /\ Len(p.fields) \in Nat
    BY <1>1
  <2>2. Len(i) <= MaxOscParams /\ <<>> \in Seq(Octets)
    BY <1>1, <1>3, <2>1, ParserConstants
  <2>3. /\ OscField(p) = [p EXCEPT !.fields = i, !.raw = <<>>]
        /\ OscField(q) = [q EXCEPT !.fields = i, !.raw = <<>>]
    BY <1>1, <1>3 DEF OscField, Twins, WellShaped, Fields
  <2> HIDE DEF i
  <2> DEFINE f == [p EXCEPT !.fields = i, !.raw = <<>>]
             g == [q EXCEPT !.fields = i, !.raw = <<>>]
  <2>4. /\ DOMAIN f = Fields /\ f = [x \in Fields |-> f[x]] /\ f.fields = i /\ f.raw = <<>>
        /\ f.state = p.state /\ f.inter = p.inter /\ f.groups = p.groups /\ f.open = p.open /\ f.len = p.len
        /\ f.param = p.param /\ f.ignoring = p.ignoring /\ f.partial = p.partial /\ f.rest = p.rest /\ f.out = p.out
    BY DEF Twins, WellShaped, Fields
  <2>5. /\ DOMAIN g = Fields /\ g = [x \in Fields |-> g[x]] /\ g.fields = i /\ g.raw = <<>>
        /\ g.state = q.state /\ g.inter = q.inter /\ g.groups = q.groups /\ g.open = q.open /\ g.len = q.len
        /\ g.param = q.param /\ g.ignoring = q.ignoring /\ g.partial = q.partial /\ g.rest = q.rest /\ g.out = q.out
    BY DEF Twins, Fields
  <2> HIDE DEF f, g
  <2>6. WellShaped(f)
    BY <2>1, <2>2, <2>4 DEF Twins, WellShaped
  <2>7. Twins(f, g, pre, r, s)
    BY <2>4, <2>5, <2>6 DEF Twins
  <2>8. QED
    BY <2>3, <2>4, <2>5, <2>7 DEF f, g
<1>4. QED
  BY <1>2, <1>3

LEMMA OscPutPair ==
  ASSUME NEW p, NEW q, NEW pre, NEW r, NEW s, Twins(p, q, pre, r, s), NEW byte \in Octets
  PROVE  /\ Twins(OscPut(p, byte), OscPut(q, byte), pre, r, s) /\ OscPut(p, byte).state = p.state
<1>1. q.raw = p.raw /\ Append(p.raw, byte) \in Seq(Octets)
  BY DEF Twins, WellShaped
<1>2. QED
  BY <1>1 DEF OscPut, Twins, WellShaped, Fields

LEMMA OscStartPair ==
  ASSUME NEW p, NEW q, NEW pre, NEW r, NEW s, Twins(p, q, pre, r, s)
  PROVE  /\ Twins(OscStart(p), OscStart(q), pre, r, s) /\ OscStart(p).state = p.state
         /\ Dry(OscStart(p)) /\ (Fresh(p) => Fresh(OscStart(p)))
<1>1. <<>> \in Seq(Octets) /\ <<>> \in Seq(Seq(Octets)) /\ Len(<<>>) = 0 /\ 0 <= MaxOscParams
  BY ParserConstants
<1>2. QED
  BY <1>1 DEF OscStart, Twins, WellShaped, Dry, Fresh, Fields

LEMMA OscEndPair ==
  ASSUME NEW p, NEW q, NEW pre, NEW r, NEW s, Twins(p, q, pre, r, s), NEW byte
  PROVE  /\ Twins(OscEnd(p, byte), OscEnd(q, byte), pre, r, s) /\ OscEnd(p, byte).state = p.state
         /\ Dry(OscEnd(p, byte))
<1> DEFINE f == OscField(p)
           g == OscField(q)
           e == <<"osc", OscField(p).fields, byte = BEL>>
<1>1. Twins(f, g, pre, r, s) /\ f.state = p.state /\ OscField(q).fields = OscField(p).fields
  BY OscFieldPair
<1>2. OscEnd(p, byte) = OscStart(Perform(f, e)) /\ OscEnd(q, byte) = OscStart(Perform(g, e))
  BY <1>1 DEF OscEnd
<1> HIDE DEF f, g, e
<1>3. Twins(Perform(f, e), Perform(g, e), pre, r, s) /\ Perform(f, e).state = f.state
  BY <1>1, PerformPair DEF Still
<1>4. QED
  BY <1>1, <1>2, <1>3, OscStartPair

LEMMA TakenPair ==
  ASSUME NEW p, NEW q, NEW pre, NEW r, NEW s, Twins(p, q, pre, r, s),
         NEW n \in Nat, n <= Len(r), n <= Len(s)
  PROVE  /\ Twins(Taken(p, n), Taken(q, n), pre, SubSeq(r, n + 1, Len(r)), SubSeq(s, n + 1, Len(s)))
         /\ Still(p, Taken(p, n)) /\ (Fresh(p) => Fresh(Taken(p, n)))
<1>1. r \in Seq(Octets) /\ s \in Seq(Octets) /\ p.rest = r /\ q.rest = s
  BY DEF Twins, WellShaped
<1>2. SubSeq(r, n + 1, Len(r)) \in Seq(Octets) /\ SubSeq(s, n + 1, Len(s)) \in Seq(Octets)
  <2>1. n + 1 \in 1 .. Len(r) + 1 /\ n + 1 \in 1 .. Len(s) + 1
    BY <1>1
  <2>2. QED
    BY <1>1, <2>1, SubSeqProperties
<1> DEFINE a == SubSeq(r, n + 1, Len(r))
           b == SubSeq(s, n + 1, Len(s))
<1>3. Taken(p, n) = [p EXCEPT !.rest = a] /\ Taken(q, n) = [q EXCEPT !.rest = b]
  BY <1>1 DEF Taken, Twins, WellShaped, Fields
<1>4. a \in Seq(Octets) /\ b \in Seq(Octets)
  BY <1>2
<1> HIDE DEF a, b
<1>5. Twins(Taken(p, n), Taken(q, n), pre, a, b) /\ Still(p, Taken(p, n)) /\ (Fresh(p) => Fresh(Taken(p, n)))
  BY <1>3, <1>4 DEF Twins, WellShaped, Fields, Still, Dry, Fresh
<1>6. QED
  BY <1>5 DEF a, b

\* A state the parser may be left in: after an ESC nothing is collected, and
\* outside an OSC none of it is left.
Ready(p) == /\ p.state = Escape => Fresh(p)
            /\ p.state # <<"OscString">> => Dry(p)
Alike(p, q, pre, r, s) == Twins(p, q, pre, r, s) /\ Ready(p)

LEMMA StayAlike ==
  ASSUME NEW p, NEW f, NEW g, NEW pre, NEW r, NEW s, Ready(p), p.state # Escape,
         Twins(f, g, pre, r, s), Still(p, f)
  PROVE  Alike(f, g, pre, r, s)
BY DEF Alike, Ready, Still

LEMMA MoveAlike ==
  ASSUME NEW f, NEW g, NEW pre, NEW r, NEW s, Twins(f, g, pre, r, s), Dry(f), NEW st \in States, st # Escape
  PROVE  Alike(To(f, st), To(g, st), pre, r, s)
<1>1. /\ Twins(To(f, st), To(g, st), pre, r, s)
      /\ To(f, st).state = st /\ Dry(To(f, st))
  BY ToPair
<1>2. QED
  BY <1>1 DEF Alike, Ready

LEMMA AnywhereAlike ==
  ASSUME NEW p, NEW q, NEW pre, NEW r, NEW s, Twins(p, q, pre, r, s), Ready(p), NEW byte \in Octets,
         Dry(p) \/ byte \notin Cancels \union {ESC}
  PROVE  Alike(Anywhere(p, byte), Anywhere(q, byte), pre, r, s)
<1>1. CASE byte \in Cancels
  <2> DEFINE a == Execute(p, byte)
             b == Execute(q, byte)
  <2>1. Anywhere(p, byte) = To(a, Ground) /\ Anywhere(q, byte) = To(b, Ground)
    BY <1>1 DEF Anywhere, Cancels, ESC
  <2>2. Twins(a, b, pre, r, s) /\ Dry(a) /\ Ground \in States /\ Ground # Escape
    BY <1>1, ExecutePair, GroundStates DEF Still
  <2> HIDE DEF a, b
  <2>3. QED
    BY <2>1, <2>2, MoveAlike
<1>2. CASE byte = ESC
  <2> DEFINE a == ResetParams(p)
             b == ResetParams(q)
  <2>1. Anywhere(p, byte) = To(a, Escape) /\ Anywhere(q, byte) = To(b, Escape)
    BY <1>2 DEF Anywhere, Cancels, ESC
  <2>2. Twins(a, b, pre, r, s) /\ Dry(a) /\ Fresh(a) /\ Escape \in States
    BY <1>2, ResetPair, GroundStates DEF Still
  <2> HIDE DEF a, b
  <2>3. /\ Twins(To(a, Escape), To(b, Escape), pre, r, s)
        /\ Dry(To(a, Escape)) /\ Fresh(To(a, Escape))
    BY <2>2, ToPair
  <2>4. QED
    BY <2>1, <2>3 DEF Alike, Ready
<1>3. CASE byte \notin Cancels /\ byte # ESC
  BY <1>3 DEF Anywhere, Alike
<1>4. QED
  BY <1>1, <1>2, <1>3

LEMMA KindStates ==
  ASSUME NEW kind \in {"Csi", "Dcs"}, NEW name \in {"Entry", "Ignore", "Intermediate", "Param"}
  PROVE  <<name, kind>> \in States /\ <<name, kind>> # Escape /\ <<name, kind>> # <<"OscString">>
BY DEF States, Escape

\* Control and Finish.
LEMMA ControlAlike ==
  ASSUME NEW p, NEW q, NEW pre, NEW r, NEW s, Twins(p, q, pre, r, s), Ready(p), p.state # Escape,
         Dry(p), NEW kind, NEW byte \in Octets
  PROVE  /\ Alike(Control(p, kind, byte), Control(q, kind, byte), pre, r, s)
         /\ Alike(Finish(p, kind, byte), Finish(q, kind, byte), pre, r, s)
<1>1. Alike(Control(p, kind, byte), Control(q, kind, byte), pre, r, s)
  <2>1. Alike(p, q, pre, r, s)
    BY DEF Alike
  <2> DEFINE a == Execute(p, byte)
             b == Execute(q, byte)
  <2>2. Twins(a, b, pre, r, s) /\ Still(p, a)
    BY ExecutePair
  <2>3. Control(p, kind, byte) = (IF kind = "Csi" THEN a ELSE p) /\ Control(q, kind, byte) = (IF kind = "Csi" THEN b ELSE q)
    BY DEF Control
  <2> HIDE DEF a, b
  <2>4. Alike(a, b, pre, r, s)
    BY <2>2, StayAlike
  <2>5. QED
    BY <2>1, <2>3, <2>4
<1>2. /\ Alike(CsiDispatch(p, byte), CsiDispatch(q, byte), pre, r, s)
      /\ Alike(Hook(p, byte), Hook(q, byte), pre, r, s)
  <2>1. Ground # Escape /\ <<"DcsPassthrough">> # Escape
    BY DEF Ground, Escape
  <2>2. QED
    BY <2>1, DispatchPair DEF Alike, Ready
<1>3. QED
  BY <1>1, <1>2 DEF Finish

LEMMA EscAlike ==
  ASSUME NEW p, NEW q, NEW pre, NEW r, NEW s, Twins(p, q, pre, r, s), Dry(p), NEW byte
  PROVE  Alike(EscDispatch(p, byte), EscDispatch(q, byte), pre, r, s)
BY DispatchPair, GroundStates DEF Alike, Ready

LEMMA AdvanceEntryAlike ==
  ASSUME NEW p, NEW q, NEW pre, NEW r, NEW s, Twins(p, q, pre, r, s), Ready(p), NEW byte \in Octets, NEW kind \in {"Csi", "Dcs"},
         p.state = <<"Entry", kind>>
  PROVE  Alike(AdvanceEntry(p, kind, byte), AdvanceEntry(q, kind, byte), pre, r, s)
<1>1. byte \in 0 .. 255
  BY DEF Octets
<1>2. p.state # Escape /\ Dry(p) /\ Alike(p, q, pre, r, s)
  BY KindStates DEF Ready, Alike
<1>3. CASE byte \in C0
  <2> DEFINE a == Control(p, kind, byte)
             b == Control(q, kind, byte)
  <2>1. AdvanceEntry(p, kind, byte) = a /\ AdvanceEntry(q, kind, byte) = b
    BY <1>1, <1>3 DEF AdvanceEntry, C0, Collects, Digits, Colon, Semi, Markers, Finals, Cancels, ESC, BEL, ST8, Octets
  <2>2. Alike(a, b, pre, r, s)
    BY <1>1, <1>2, <1>3, ControlAlike DEF Octets
  <2> HIDE DEF a, b
  <2>3. QED
    BY <2>1, <2>2
<1>4. CASE byte \in Collects
  <2> DEFINE a == ActionCollect(p, byte)
             b == ActionCollect(q, byte)
  <2>1. AdvanceEntry(p, kind, byte) = To(a, <<"Intermediate", kind>>) /\ AdvanceEntry(q, kind, byte) = To(b, <<"Intermediate", kind>>)
    BY <1>1, <1>4 DEF AdvanceEntry, C0, Collects, Digits, Colon, Semi, Markers, Finals, Cancels, ESC, BEL, ST8, Octets
  <2>2. Twins(a, b, pre, r, s) /\ Dry(a)
    BY <1>1, <1>2, <1>4, CollectPair, SMTT(30) DEF Still, Octets
  <2>3. <<"Intermediate", kind>> \in States /\ <<"Intermediate", kind>> # Escape
    BY GroundStates, KindStates DEF Escape
  <2> HIDE DEF a, b
  <2>4. QED
    BY <2>1, <2>2, <2>3, MoveAlike
<1>5. CASE byte \in Digits
  <2> DEFINE a == ActionParamNext(p, byte)
             b == ActionParamNext(q, byte)
  <2>1. AdvanceEntry(p, kind, byte) = To(a, <<"Param", kind>>) /\ AdvanceEntry(q, kind, byte) = To(b, <<"Param", kind>>)
    BY <1>1, <1>5 DEF AdvanceEntry, C0, Collects, Digits, Colon, Semi, Markers, Finals, Cancels, ESC, BEL, ST8, Octets
  <2>2. Twins(a, b, pre, r, s) /\ Dry(a)
    BY <1>1, <1>2, <1>5, ParamNextPair DEF Still, Octets
  <2>3. <<"Param", kind>> \in States /\ <<"Param", kind>> # Escape
    BY GroundStates, KindStates DEF Escape
  <2> HIDE DEF a, b
  <2>4. QED
    BY <2>1, <2>2, <2>3, MoveAlike
<1>6. CASE byte = Colon
  <2> DEFINE a == ActionSubparam(p)
             b == ActionSubparam(q)
  <2>1. AdvanceEntry(p, kind, byte) = To(a, <<"Param", kind>>) /\ AdvanceEntry(q, kind, byte) = To(b, <<"Param", kind>>)
    BY <1>1, <1>6 DEF AdvanceEntry, C0, Collects, Digits, Colon, Semi, Markers, Finals, Cancels, ESC, BEL, ST8, Octets
  <2>2. Twins(a, b, pre, r, s) /\ Dry(a)
    BY <1>1, <1>2, <1>6, ParamPair DEF Still, Octets
  <2>3. <<"Param", kind>> \in States /\ <<"Param", kind>> # Escape
    BY GroundStates, KindStates DEF Escape
  <2> HIDE DEF a, b
  <2>4. QED
    BY <2>1, <2>2, <2>3, MoveAlike
<1>7. CASE byte = Semi
  <2> DEFINE a == ActionParam(p)
             b == ActionParam(q)
  <2>1. AdvanceEntry(p, kind, byte) = To(a, <<"Param", kind>>) /\ AdvanceEntry(q, kind, byte) = To(b, <<"Param", kind>>)
    BY <1>1, <1>7 DEF AdvanceEntry, C0, Collects, Digits, Colon, Semi, Markers, Finals, Cancels, ESC, BEL, ST8, Octets
  <2>2. Twins(a, b, pre, r, s) /\ Dry(a)
    BY <1>1, <1>2, <1>7, ParamPair DEF Still, Octets
  <2>3. <<"Param", kind>> \in States /\ <<"Param", kind>> # Escape
    BY GroundStates, KindStates DEF Escape
  <2> HIDE DEF a, b
  <2>4. QED
    BY <2>1, <2>2, <2>3, MoveAlike
<1>8. CASE byte \in Markers
  <2> DEFINE a == ActionCollect(p, byte)
             b == ActionCollect(q, byte)
  <2>1. AdvanceEntry(p, kind, byte) = To(a, <<"Param", kind>>) /\ AdvanceEntry(q, kind, byte) = To(b, <<"Param", kind>>)
    BY <1>1, <1>8 DEF AdvanceEntry, C0, Collects, Digits, Colon, Semi, Markers, Finals, Cancels, ESC, BEL, ST8, Octets
  <2>2. Twins(a, b, pre, r, s) /\ Dry(a)
    BY <1>1, <1>2, <1>8, CollectPair DEF Still, Octets
  <2>3. <<"Param", kind>> \in States /\ <<"Param", kind>> # Escape
    BY GroundStates, KindStates DEF Escape
  <2> HIDE DEF a, b
  <2>4. QED
    BY <2>1, <2>2, <2>3, MoveAlike
<1>9. CASE byte \in Finals
  <2> DEFINE a == Finish(p, kind, byte)
             b == Finish(q, kind, byte)
  <2>1. AdvanceEntry(p, kind, byte) = a /\ AdvanceEntry(q, kind, byte) = b
    BY <1>1, <1>9 DEF AdvanceEntry, C0, Collects, Digits, Colon, Semi, Markers, Finals, Cancels, ESC, BEL, ST8, Octets
  <2>2. Alike(a, b, pre, r, s)
    BY <1>1, <1>2, <1>9, ControlAlike DEF Octets
  <2> HIDE DEF a, b
  <2>3. QED
    BY <2>1, <2>2
<1>10. CASE byte \notin C0 \union 32 .. 126
  <2> DEFINE a == Anywhere(p, byte)
             b == Anywhere(q, byte)
  <2>1. AdvanceEntry(p, kind, byte) = a /\ AdvanceEntry(q, kind, byte) = b
    BY <1>1, <1>10 DEF AdvanceEntry, C0, Collects, Digits, Colon, Semi, Markers, Finals, Cancels, ESC, BEL, ST8, Octets
  <2>2. Alike(a, b, pre, r, s)
    BY <1>1, <1>2, <1>10, AnywhereAlike DEF Octets
  <2> HIDE DEF a, b
  <2>3. QED
    BY <2>1, <2>2
<1>11. QED
  BY <1>1, <1>3, <1>4, <1>5, <1>6, <1>7, <1>8, <1>9, <1>10 DEF C0, Collects, Digits, Colon, Semi, Markers, Finals, Cancels, ESC, BEL, ST8, Octets

LEMMA AdvanceParamAlike ==
  ASSUME NEW p, NEW q, NEW pre, NEW r, NEW s, Twins(p, q, pre, r, s), Ready(p), NEW byte \in Octets, NEW kind \in {"Csi", "Dcs"},
         p.state = <<"Param", kind>>
  PROVE  Alike(AdvanceParam(p, kind, byte), AdvanceParam(q, kind, byte), pre, r, s)
<1>1. byte \in 0 .. 255
  BY DEF Octets
<1>2. p.state # Escape /\ Dry(p) /\ Alike(p, q, pre, r, s)
  BY KindStates DEF Ready, Alike
<1>3. CASE byte \in C0
  <2> DEFINE a == Control(p, kind, byte)
             b == Control(q, kind, byte)
  <2>1. AdvanceParam(p, kind, byte) = a /\ AdvanceParam(q, kind, byte) = b
    BY <1>1, <1>3 DEF AdvanceParam, C0, Collects, Digits, Colon, Semi, Markers, Finals, Cancels, ESC, BEL, ST8, Octets
  <2>2. Alike(a, b, pre, r, s)
    BY <1>1, <1>2, <1>3, ControlAlike DEF Octets
  <2> HIDE DEF a, b
  <2>3. QED
    BY <2>1, <2>2
<1>4. CASE byte \in Collects
  <2> DEFINE a == ActionCollect(p, byte)
             b == ActionCollect(q, byte)
  <2>1. AdvanceParam(p, kind, byte) = To(a, <<"Intermediate", kind>>) /\ AdvanceParam(q, kind, byte) = To(b, <<"Intermediate", kind>>)
    BY <1>1, <1>4 DEF AdvanceParam, C0, Collects, Digits, Colon, Semi, Markers, Finals, Cancels, ESC, BEL, ST8, Octets
  <2>2. Twins(a, b, pre, r, s) /\ Dry(a)
    BY <1>1, <1>2, <1>4, CollectPair, SMTT(30) DEF Still, Octets
  <2>3. <<"Intermediate", kind>> \in States /\ <<"Intermediate", kind>> # Escape
    BY GroundStates, KindStates DEF Escape
  <2> HIDE DEF a, b
  <2>4. QED
    BY <2>1, <2>2, <2>3, MoveAlike
<1>5. CASE byte \in Digits
  <2> DEFINE a == ActionParamNext(p, byte)
             b == ActionParamNext(q, byte)
  <2>1. AdvanceParam(p, kind, byte) = a /\ AdvanceParam(q, kind, byte) = b
    BY <1>1, <1>5 DEF AdvanceParam, C0, Collects, Digits, Colon, Semi, Markers, Finals, Cancels, ESC, BEL, ST8, Octets
  <2>2. Twins(a, b, pre, r, s) /\ Still(p, a)
    BY <1>1, <1>5, ParamNextPair DEF Octets
  <2> HIDE DEF a, b
  <2>3. QED
    BY <1>2, <2>1, <2>2, StayAlike
<1>6. CASE byte = Colon
  <2> DEFINE a == ActionSubparam(p)
             b == ActionSubparam(q)
  <2>1. AdvanceParam(p, kind, byte) = a /\ AdvanceParam(q, kind, byte) = b
    BY <1>1, <1>6 DEF AdvanceParam, C0, Collects, Digits, Colon, Semi, Markers, Finals, Cancels, ESC, BEL, ST8, Octets
  <2>2. Twins(a, b, pre, r, s) /\ Still(p, a)
    BY <1>1, <1>6, ParamPair DEF Octets
  <2> HIDE DEF a, b
  <2>3. QED
    BY <1>2, <2>1, <2>2, StayAlike
<1>7. CASE byte = Semi
  <2> DEFINE a == ActionParam(p)
             b == ActionParam(q)
  <2>1. AdvanceParam(p, kind, byte) = a /\ AdvanceParam(q, kind, byte) = b
    BY <1>1, <1>7 DEF AdvanceParam, C0, Collects, Digits, Colon, Semi, Markers, Finals, Cancels, ESC, BEL, ST8, Octets
  <2>2. Twins(a, b, pre, r, s) /\ Still(p, a)
    BY <1>1, <1>7, ParamPair DEF Octets
  <2> HIDE DEF a, b
  <2>3. QED
    BY <1>2, <2>1, <2>2, StayAlike
<1>8. CASE byte \in Markers
  <2>1. AdvanceParam(p, kind, byte) = To(p, <<"Ignore", kind>>) /\ AdvanceParam(q, kind, byte) = To(q, <<"Ignore", kind>>)
    BY <1>1, <1>8 DEF AdvanceParam, C0, Collects, Digits, Colon, Semi, Markers, Finals, Cancels, ESC, BEL, ST8, Octets
  <2>2. <<"Ignore", kind>> \in States /\ <<"Ignore", kind>> # Escape
    BY GroundStates, KindStates DEF Escape
  <2>3. QED
    BY <1>2, <2>1, <2>2, MoveAlike
<1>9. CASE byte \in Finals
  <2> DEFINE a == Finish(p, kind, byte)
             b == Finish(q, kind, byte)
  <2>1. AdvanceParam(p, kind, byte) = a /\ AdvanceParam(q, kind, byte) = b
    BY <1>1, <1>9 DEF AdvanceParam, C0, Collects, Digits, Colon, Semi, Markers, Finals, Cancels, ESC, BEL, ST8, Octets
  <2>2. Alike(a, b, pre, r, s)
    BY <1>1, <1>2, <1>9, ControlAlike DEF Octets
  <2> HIDE DEF a, b
  <2>3. QED
    BY <2>1, <2>2
<1>10. CASE byte \notin C0 \union 32 .. 126
  <2> DEFINE a == Anywhere(p, byte)
             b == Anywhere(q, byte)
  <2>1. AdvanceParam(p, kind, byte) = a /\ AdvanceParam(q, kind, byte) = b
    BY <1>1, <1>10 DEF AdvanceParam, C0, Collects, Digits, Colon, Semi, Markers, Finals, Cancels, ESC, BEL, ST8, Octets
  <2>2. Alike(a, b, pre, r, s)
    BY <1>1, <1>2, <1>10, AnywhereAlike DEF Octets
  <2> HIDE DEF a, b
  <2>3. QED
    BY <2>1, <2>2
<1>11. QED
  BY <1>1, <1>3, <1>4, <1>5, <1>6, <1>7, <1>8, <1>9, <1>10 DEF C0, Collects, Digits, Colon, Semi, Markers, Finals, Cancels, ESC, BEL, ST8, Octets

LEMMA AdvanceIntermediateAlike ==
  ASSUME NEW p, NEW q, NEW pre, NEW r, NEW s, Twins(p, q, pre, r, s), Ready(p), NEW byte \in Octets, NEW kind \in {"Csi", "Dcs"},
         p.state = <<"Intermediate", kind>>
  PROVE  Alike(AdvanceIntermediate(p, kind, byte), AdvanceIntermediate(q, kind, byte), pre, r, s)
<1>1. byte \in 0 .. 255
  BY DEF Octets
<1>2. p.state # Escape /\ Dry(p) /\ Alike(p, q, pre, r, s)
  BY KindStates DEF Ready, Alike
<1>3. CASE byte \in C0
  <2> DEFINE a == Control(p, kind, byte)
             b == Control(q, kind, byte)
  <2>1. AdvanceIntermediate(p, kind, byte) = a /\ AdvanceIntermediate(q, kind, byte) = b
    BY <1>1, <1>3 DEF AdvanceIntermediate, C0, Collects, Digits, Colon, Semi, Markers, Finals, Cancels, ESC, BEL, ST8, Octets
  <2>2. Alike(a, b, pre, r, s)
    BY <1>1, <1>2, <1>3, ControlAlike DEF Octets
  <2> HIDE DEF a, b
  <2>3. QED
    BY <2>1, <2>2
<1>4. CASE byte \in Collects
  <2> DEFINE a == ActionCollect(p, byte)
             b == ActionCollect(q, byte)
  <2>1. AdvanceIntermediate(p, kind, byte) = a /\ AdvanceIntermediate(q, kind, byte) = b
    BY <1>1, <1>4 DEF AdvanceIntermediate, C0, Collects, Digits, Colon, Semi, Markers, Finals, Cancels, ESC, BEL, ST8, Octets
  <2>2. Twins(a, b, pre, r, s) /\ Still(p, a)
    BY <1>1, <1>4, CollectPair DEF Octets
  <2> HIDE DEF a, b
  <2>3. QED
    BY <1>2, <2>1, <2>2, StayAlike
<1>5. CASE byte \in 48 .. 63
  <2>1. AdvanceIntermediate(p, kind, byte) = To(p, <<"Ignore", kind>>) /\ AdvanceIntermediate(q, kind, byte) = To(q, <<"Ignore", kind>>)
    BY <1>1, <1>5 DEF AdvanceIntermediate, C0, Collects, Digits, Colon, Semi, Markers, Finals, Cancels, ESC, BEL, ST8, Octets
  <2>2. <<"Ignore", kind>> \in States /\ <<"Ignore", kind>> # Escape
    BY GroundStates, KindStates DEF Escape
  <2>3. QED
    BY <1>2, <2>1, <2>2, MoveAlike
<1>6. CASE byte \in Finals
  <2> DEFINE a == Finish(p, kind, byte)
             b == Finish(q, kind, byte)
  <2>1. AdvanceIntermediate(p, kind, byte) = a /\ AdvanceIntermediate(q, kind, byte) = b
    BY <1>1, <1>6 DEF AdvanceIntermediate, C0, Collects, Digits, Colon, Semi, Markers, Finals, Cancels, ESC, BEL, ST8, Octets
  <2>2. Alike(a, b, pre, r, s)
    BY <1>1, <1>2, <1>6, ControlAlike DEF Octets
  <2> HIDE DEF a, b
  <2>3. QED
    BY <2>1, <2>2
<1>7. CASE byte \notin C0 \union 32 .. 126
  <2> DEFINE a == Anywhere(p, byte)
             b == Anywhere(q, byte)
  <2>1. AdvanceIntermediate(p, kind, byte) = a /\ AdvanceIntermediate(q, kind, byte) = b
    BY <1>1, <1>7 DEF AdvanceIntermediate, C0, Collects, Digits, Colon, Semi, Markers, Finals, Cancels, ESC, BEL, ST8, Octets
  <2>2. Alike(a, b, pre, r, s)
    BY <1>1, <1>2, <1>7, AnywhereAlike DEF Octets
  <2> HIDE DEF a, b
  <2>3. QED
    BY <2>1, <2>2
<1>8. QED
  BY <1>1, <1>3, <1>4, <1>5, <1>6, <1>7 DEF C0, Collects, Digits, Colon, Semi, Markers, Finals, Cancels, ESC, BEL, ST8, Octets

LEMMA AdvanceIgnoreAlike ==
  ASSUME NEW p, NEW q, NEW pre, NEW r, NEW s, Twins(p, q, pre, r, s), Ready(p), NEW byte \in Octets, NEW kind \in {"Csi", "Dcs"},
         p.state = <<"Ignore", kind>>
  PROVE  Alike(AdvanceIgnore(p, kind, byte), AdvanceIgnore(q, kind, byte), pre, r, s)
<1>1. byte \in 0 .. 255
  BY DEF Octets
<1>2. p.state # Escape /\ Dry(p) /\ Alike(p, q, pre, r, s)
  BY KindStates DEF Ready, Alike
<1>3. CASE kind = "Csi" /\ byte \in C0
  <2> DEFINE a == Execute(p, byte)
             b == Execute(q, byte)
  <2>1. AdvanceIgnore(p, kind, byte) = a /\ AdvanceIgnore(q, kind, byte) = b
    BY <1>1, <1>3 DEF AdvanceIgnore, C0, Collects, Digits, Colon, Semi, Markers, Finals, Cancels, ESC, BEL, ST8, Octets
  <2>2. Twins(a, b, pre, r, s) /\ Still(p, a)
    BY <1>1, <1>3, ExecutePair DEF Octets
  <2> HIDE DEF a, b
  <2>3. QED
    BY <1>2, <2>1, <2>2, StayAlike
<1>4. CASE kind = "Csi" /\ byte \in Finals
  <2>1. AdvanceIgnore(p, kind, byte) = To(p, Ground) /\ AdvanceIgnore(q, kind, byte) = To(q, Ground)
    BY <1>1, <1>4 DEF AdvanceIgnore, C0, Collects, Digits, Colon, Semi, Markers, Finals, Cancels, ESC, BEL, ST8, Octets
  <2>2. Ground \in States /\ Ground # Escape
    BY GroundStates, KindStates DEF Escape
  <2>3. QED
    BY <1>2, <2>1, <2>2, MoveAlike
<1>5. CASE ~(kind = "Csi" /\ byte \in C0) /\ ~(kind = "Csi" /\ byte \in Finals)
  <2> DEFINE a == Anywhere(p, byte)
             b == Anywhere(q, byte)
  <2>1. AdvanceIgnore(p, kind, byte) = a /\ AdvanceIgnore(q, kind, byte) = b
    BY <1>1, <1>5 DEF AdvanceIgnore, C0, Collects, Digits, Colon, Semi, Markers, Finals, Cancels, ESC, BEL, ST8, Octets
  <2>2. Alike(a, b, pre, r, s)
    BY <1>1, <1>2, <1>5, AnywhereAlike DEF Octets
  <2> HIDE DEF a, b
  <2>3. QED
    BY <2>1, <2>2
<1>6. QED
  BY <1>1, <1>3, <1>4, <1>5 DEF C0, Collects, Digits, Colon, Semi, Markers, Finals, Cancels, ESC, BEL, ST8, Octets

LEMMA AdvanceDcsPassthroughAlike ==
  ASSUME NEW p, NEW q, NEW pre, NEW r, NEW s, Twins(p, q, pre, r, s), Ready(p), NEW byte \in Octets,
         p.state = <<"DcsPassthrough">>
  PROVE  Alike(AdvanceDcsPassthrough(p, byte), AdvanceDcsPassthrough(q, byte), pre, r, s)
<1>1. byte \in 0 .. 255
  BY DEF Octets
<1>2. p.state # Escape /\ Dry(p) /\ Alike(p, q, pre, r, s)
  BY DEF Ready, Alike, Escape
<1>3. CASE byte \in C0 \union 32 .. 126
  <2> DEFINE a == Perform(p, <<"put", byte>>)
             b == Perform(q, <<"put", byte>>)
  <2>1. AdvanceDcsPassthrough(p, byte) = a /\ AdvanceDcsPassthrough(q, byte) = b
    BY <1>1, <1>3 DEF AdvanceDcsPassthrough, C0, Collects, Digits, Colon, Semi, Markers, Finals, Cancels, ESC, BEL, ST8, Octets
  <2>2. Twins(a, b, pre, r, s) /\ Still(p, a)
    BY <1>1, <1>3, PerformPair DEF Octets
  <2> HIDE DEF a, b
  <2>3. QED
    BY <1>2, <2>1, <2>2, StayAlike
<1>4. CASE byte \in Cancels \union {ESC}
  <2> DEFINE a == Unhook(p)
             b == Unhook(q)
  <2>1. AdvanceDcsPassthrough(p, byte) = Anywhere(a, byte) /\ AdvanceDcsPassthrough(q, byte) = Anywhere(b, byte)
    BY <1>1, <1>4 DEF AdvanceDcsPassthrough, C0, Collects, Digits, Colon, Semi, Markers, Finals, Cancels, ESC, BEL, ST8, Octets
  <2>2. Twins(a, b, pre, r, s) /\ Dry(a) /\ a.state = p.state
    BY <1>1, <1>2, <1>4, PerformPair DEF Octets, Still, Unhook
  <2> HIDE DEF a, b
  <2>3. Ready(a)
    BY <1>2, <2>2 DEF Ready
  <2>4. QED
    BY <2>1, <2>2, <2>3, AnywhereAlike
<1>5. CASE byte = ST8
  <2> DEFINE a == Unhook(p)
             b == Unhook(q)
  <2>1. AdvanceDcsPassthrough(p, byte) = To(a, Ground) /\ AdvanceDcsPassthrough(q, byte) = To(b, Ground)
    BY <1>1, <1>5 DEF AdvanceDcsPassthrough, C0, Collects, Digits, Colon, Semi, Markers, Finals, Cancels, ESC, BEL, ST8, Octets
  <2>2. Twins(a, b, pre, r, s) /\ Dry(a)
    BY <1>1, <1>2, <1>5, PerformPair DEF Still, Unhook, Octets
  <2>3. Ground \in States /\ Ground # Escape
    BY GroundStates, KindStates DEF Escape
  <2> HIDE DEF a, b
  <2>4. QED
    BY <2>1, <2>2, <2>3, MoveAlike
<1>6. CASE byte \notin (C0 \union 32 .. 126) \union (Cancels \union {ESC}) \union {ST8}
  <2> DEFINE a == p
             b == q
  <2>1. AdvanceDcsPassthrough(p, byte) = a /\ AdvanceDcsPassthrough(q, byte) = b
    BY <1>1, <1>6 DEF AdvanceDcsPassthrough, C0, Collects, Digits, Colon, Semi, Markers, Finals, Cancels, ESC, BEL, ST8, Octets
  <2>2. Alike(a, b, pre, r, s)
    BY <1>1, <1>2, <1>6, ExecutePair DEF Octets
  <2> HIDE DEF a, b
  <2>3. QED
    BY <2>1, <2>2
<1>7. QED
  BY <1>1, <1>3, <1>4, <1>5, <1>6 DEF C0, Collects, Digits, Colon, Semi, Markers, Finals, Cancels, ESC, BEL, ST8, Octets

LEMMA AdvanceEscAlike ==
  ASSUME NEW p, NEW q, NEW pre, NEW r, NEW s, Twins(p, q, pre, r, s), Ready(p), NEW byte \in Octets,
         p.state = Escape
  PROVE  Alike(AdvanceEsc(p, byte), AdvanceEsc(q, byte), pre, r, s)
<1>1. byte \in 0 .. 255
  BY DEF Octets
<1>2. Dry(p) /\ Fresh(p) /\ Alike(p, q, pre, r, s)
  BY DEF Ready, Alike, Escape
<1>3. CASE byte \in C0
  <2> DEFINE a == Execute(p, byte)
             b == Execute(q, byte)
  <2>0. /\ byte \notin Collects /\ byte \notin Cancels /\ byte \notin {88, 94}
        /\ byte # 80 /\ byte # 91 /\ byte # 93 /\ byte # 95
        /\ byte \notin (48 .. 126) \ {80, 88, 91, 93, 94, 95}
    BY <1>1, <1>3 DEF C0, Collects, Digits, Colon, Semi, Markers, Finals, Cancels, ESC, BEL, ST8, Octets
  <2>1. AdvanceEsc(p, byte) = a /\ AdvanceEsc(q, byte) = b
    BY <1>3, <2>0 DEF AdvanceEsc, ESC
  <2>2. Twins(a, b, pre, r, s) /\ a.state = p.state
    BY <1>1, <1>3, ExecutePair DEF Octets, Still
  <2>4. Dry(a) /\ Fresh(a)
    BY <1>2, PerformPair DEF Still, Execute
  <2> HIDE DEF a, b
  <2>3. QED
    BY <2>1, <2>2, <2>4 DEF Alike, Ready
<1>4. CASE byte \in Collects
  <2> DEFINE a == ActionCollect(p, byte)
             b == ActionCollect(q, byte)
  <2>1. AdvanceEsc(p, byte) = To(a, <<"EscapeIntermediate">>) /\ AdvanceEsc(q, byte) = To(b, <<"EscapeIntermediate">>)
    BY <1>1, <1>4 DEF AdvanceEsc, C0, Collects, Digits, Colon, Semi, Markers, Finals, Cancels, ESC, BEL, ST8, Octets
  <2>2. Twins(a, b, pre, r, s) /\ Dry(a)
    BY <1>1, <1>2, <1>4, CollectPair, SMTT(30) DEF Still, Octets
  <2>3. <<"EscapeIntermediate">> \in States /\ <<"EscapeIntermediate">> # Escape
    BY GroundStates, KindStates DEF Escape
  <2> HIDE DEF a, b
  <2>4. QED
    BY <2>1, <2>2, <2>3, MoveAlike
<1>5. CASE byte = 80
  <2> DEFINE a == ResetParams(p)
             b == ResetParams(q)
  <2>1. AdvanceEsc(p, byte) = To(a, <<"Entry", "Dcs">>) /\ AdvanceEsc(q, byte) = To(b, <<"Entry", "Dcs">>)
    BY <1>1, <1>5 DEF AdvanceEsc, C0, Collects, Digits, Colon, Semi, Markers, Finals, Cancels, ESC, BEL, ST8, Octets
  <2>2. Twins(a, b, pre, r, s) /\ Dry(a)
    BY <1>1, <1>2, <1>5, ResetPair DEF Still, Octets
  <2>3. <<"Entry", "Dcs">> \in States /\ <<"Entry", "Dcs">> # Escape
    BY GroundStates, KindStates DEF Escape
  <2> HIDE DEF a, b
  <2>4. QED
    BY <2>1, <2>2, <2>3, MoveAlike
<1>6. CASE byte = 91
  <2> DEFINE a == ResetParams(p)
             b == ResetParams(q)
  <2>1. AdvanceEsc(p, byte) = To(a, <<"Entry", "Csi">>) /\ AdvanceEsc(q, byte) = To(b, <<"Entry", "Csi">>)
    BY <1>1, <1>6 DEF AdvanceEsc, C0, Collects, Digits, Colon, Semi, Markers, Finals, Cancels, ESC, BEL, ST8, Octets
  <2>2. Twins(a, b, pre, r, s) /\ Dry(a)
    BY <1>1, <1>2, <1>6, ResetPair DEF Still, Octets
  <2>3. <<"Entry", "Csi">> \in States /\ <<"Entry", "Csi">> # Escape
    BY GroundStates, KindStates DEF Escape
  <2> HIDE DEF a, b
  <2>4. QED
    BY <2>1, <2>2, <2>3, MoveAlike
<1>7. CASE byte = 93
  <2> DEFINE a == OscStart(p)
             b == OscStart(q)
  <2>1. AdvanceEsc(p, byte) = To(a, <<"OscString">>) /\ AdvanceEsc(q, byte) = To(b, <<"OscString">>)
    BY <1>1, <1>7 DEF AdvanceEsc, C0, Collects, Digits, Colon, Semi, Markers, Finals, Cancels, ESC, BEL, ST8, Octets
  <2>2. Twins(a, b, pre, r, s) /\ Dry(a)
    BY <1>1, <1>2, <1>7, OscStartPair DEF Still, Octets
  <2>3. <<"OscString">> \in States /\ <<"OscString">> # Escape
    BY GroundStates, KindStates DEF Escape
  <2> HIDE DEF a, b
  <2>4. QED
    BY <2>1, <2>2, <2>3, MoveAlike
<1>8. CASE byte = 95
  <2> DEFINE a == Perform(p, <<"apc_start">>)
             b == Perform(q, <<"apc_start">>)
  <2>1. AdvanceEsc(p, byte) = To(a, <<"ApcString">>) /\ AdvanceEsc(q, byte) = To(b, <<"ApcString">>)
    BY <1>1, <1>8 DEF AdvanceEsc, C0, Collects, Digits, Colon, Semi, Markers, Finals, Cancels, ESC, BEL, ST8, Octets
  <2>2. Twins(a, b, pre, r, s) /\ Dry(a)
    BY <1>1, <1>2, <1>8, PerformPair DEF Still, Octets
  <2>3. <<"ApcString">> \in States /\ <<"ApcString">> # Escape
    BY GroundStates, KindStates DEF Escape
  <2> HIDE DEF a, b
  <2>4. QED
    BY <2>1, <2>2, <2>3, MoveAlike
<1>9. CASE byte \in {88, 94}
  <2>1. AdvanceEsc(p, byte) = To(p, <<"SosPmApcString">>) /\ AdvanceEsc(q, byte) = To(q, <<"SosPmApcString">>)
    BY <1>1, <1>9 DEF AdvanceEsc, C0, Collects, Digits, Colon, Semi, Markers, Finals, Cancels, ESC, BEL, ST8, Octets
  <2>2. <<"SosPmApcString">> \in States /\ <<"SosPmApcString">> # Escape
    BY GroundStates, KindStates DEF Escape
  <2>3. QED
    BY <1>2, <2>1, <2>2, MoveAlike
<1>10. CASE byte \in (48 .. 126) \ {80, 88, 91, 93, 94, 95}
  <2> DEFINE a == EscDispatch(p, byte)
             b == EscDispatch(q, byte)
  <2>0. /\ byte \notin C0 /\ byte \notin Collects /\ byte \notin Cancels /\ byte \notin {88, 94}
        /\ byte # 80 /\ byte # 91 /\ byte # 93 /\ byte # 95
    BY <1>1, <1>10 DEF C0, Collects, Digits, Colon, Semi, Markers, Finals, Cancels, ESC, BEL, ST8, Octets
  <2>1. AdvanceEsc(p, byte) = a /\ AdvanceEsc(q, byte) = b
    BY <1>10, <2>0 DEF AdvanceEsc, ESC
  <2>2. Alike(a, b, pre, r, s)
    BY <1>1, <1>2, <1>10, EscAlike DEF Octets
  <2> HIDE DEF a, b
  <2>3. QED
    BY <2>1, <2>2
<1>11. CASE byte \in Cancels
  <2> DEFINE a == Execute(p, byte)
             b == Execute(q, byte)
  <2>1. AdvanceEsc(p, byte) = To(a, Ground) /\ AdvanceEsc(q, byte) = To(b, Ground)
    BY <1>1, <1>11 DEF AdvanceEsc, C0, Collects, Digits, Colon, Semi, Markers, Finals, Cancels, ESC, BEL, ST8, Octets
  <2>2. Twins(a, b, pre, r, s) /\ Dry(a)
    BY <1>1, <1>2, <1>11, ExecutePair DEF Still, Octets
  <2>3. Ground \in States /\ Ground # Escape
    BY GroundStates, KindStates DEF Escape
  <2> HIDE DEF a, b
  <2>4. QED
    BY <2>1, <2>2, <2>3, MoveAlike
<1>12. CASE byte = ESC \/ byte > 126
  <2> DEFINE a == p
             b == q
  <2>0. /\ byte \notin C0 /\ byte \notin Collects /\ byte \notin Cancels /\ byte \notin {88, 94}
        /\ byte # 80 /\ byte # 91 /\ byte # 93 /\ byte # 95
        /\ byte \notin (48 .. 126) \ {80, 88, 91, 93, 94, 95}
    BY <1>1, <1>12 DEF C0, Collects, Digits, Colon, Semi, Markers, Finals, Cancels, ESC, BEL, ST8, Octets
  <2>1. AdvanceEsc(p, byte) = a /\ AdvanceEsc(q, byte) = b
    BY <1>12, <2>0 DEF AdvanceEsc, ESC
  <2>2. Alike(a, b, pre, r, s)
    BY <1>1, <1>2, <1>12, ExecutePair DEF Octets
  <2> HIDE DEF a, b
  <2>3. QED
    BY <2>1, <2>2
<1>13. QED
  BY <1>1, <1>3, <1>4, <1>5, <1>6, <1>7, <1>8, <1>9, <1>10, <1>11, <1>12 DEF C0, Collects, Digits, Colon, Semi, Markers, Finals, Cancels, ESC, BEL, ST8, Octets

LEMMA AdvanceEscIntermediateAlike ==
  ASSUME NEW p, NEW q, NEW pre, NEW r, NEW s, Twins(p, q, pre, r, s), Ready(p), NEW byte \in Octets,
         p.state = <<"EscapeIntermediate">>
  PROVE  Alike(AdvanceEscIntermediate(p, byte), AdvanceEscIntermediate(q, byte), pre, r, s)
<1>1. byte \in 0 .. 255
  BY DEF Octets
<1>2. p.state # Escape /\ Dry(p) /\ Alike(p, q, pre, r, s)
  BY DEF Ready, Alike, Escape
<1>3. CASE byte \in C0
  <2> DEFINE a == Execute(p, byte)
             b == Execute(q, byte)
  <2>1. AdvanceEscIntermediate(p, byte) = a /\ AdvanceEscIntermediate(q, byte) = b
    BY <1>1, <1>3 DEF AdvanceEscIntermediate, C0, Collects, Digits, Colon, Semi, Markers, Finals, Cancels, ESC, BEL, ST8, Octets
  <2>2. Twins(a, b, pre, r, s) /\ Still(p, a)
    BY <1>1, <1>3, ExecutePair DEF Octets
  <2> HIDE DEF a, b
  <2>3. QED
    BY <1>2, <2>1, <2>2, StayAlike
<1>4. CASE byte \in Collects
  <2> DEFINE a == ActionCollect(p, byte)
             b == ActionCollect(q, byte)
  <2>1. AdvanceEscIntermediate(p, byte) = a /\ AdvanceEscIntermediate(q, byte) = b
    BY <1>1, <1>4 DEF AdvanceEscIntermediate, C0, Collects, Digits, Colon, Semi, Markers, Finals, Cancels, ESC, BEL, ST8, Octets
  <2>2. Twins(a, b, pre, r, s) /\ Still(p, a)
    BY <1>1, <1>4, CollectPair DEF Octets
  <2> HIDE DEF a, b
  <2>3. QED
    BY <1>2, <2>1, <2>2, StayAlike
<1>5. CASE byte \in 48 .. 126
  <2> DEFINE a == EscDispatch(p, byte)
             b == EscDispatch(q, byte)
  <2>1. AdvanceEscIntermediate(p, byte) = a /\ AdvanceEscIntermediate(q, byte) = b
    BY <1>1, <1>5 DEF AdvanceEscIntermediate, C0, Collects, Digits, Colon, Semi, Markers, Finals, Cancels, ESC, BEL, ST8, Octets
  <2>2. Alike(a, b, pre, r, s)
    BY <1>1, <1>2, <1>5, EscAlike DEF Octets
  <2> HIDE DEF a, b
  <2>3. QED
    BY <2>1, <2>2
<1>6. CASE byte \notin C0 \union 32 .. 126
  <2> DEFINE a == Anywhere(p, byte)
             b == Anywhere(q, byte)
  <2>1. AdvanceEscIntermediate(p, byte) = a /\ AdvanceEscIntermediate(q, byte) = b
    BY <1>1, <1>6 DEF AdvanceEscIntermediate, C0, Collects, Digits, Colon, Semi, Markers, Finals, Cancels, ESC, BEL, ST8, Octets
  <2>2. Alike(a, b, pre, r, s)
    BY <1>1, <1>2, <1>6, AnywhereAlike DEF Octets
  <2> HIDE DEF a, b
  <2>3. QED
    BY <2>1, <2>2
<1>7. QED
  BY <1>1, <1>3, <1>4, <1>5, <1>6 DEF C0, Collects, Digits, Colon, Semi, Markers, Finals, Cancels, ESC, BEL, ST8, Octets

LEMMA AdvanceOscStringAlike ==
  ASSUME NEW p, NEW q, NEW pre, NEW r, NEW s, Twins(p, q, pre, r, s), Ready(p), NEW byte \in Octets,
         p.state = <<"OscString">>
  PROVE  Alike(AdvanceOscString(p, byte), AdvanceOscString(q, byte), pre, r, s)
<1>1. byte \in 0 .. 255
  BY DEF Octets
<1>2. p.state # Escape /\ Alike(p, q, pre, r, s)
  BY DEF Alike, Escape
<1>3. CASE byte = BEL
  <2> DEFINE a == OscEnd(p, byte)
             b == OscEnd(q, byte)
  <2>1. AdvanceOscString(p, byte) = To(a, Ground) /\ AdvanceOscString(q, byte) = To(b, Ground)
    BY <1>1, <1>3 DEF AdvanceOscString, C0, Collects, Digits, Colon, Semi, Markers, Finals, Cancels, ESC, BEL, ST8, Octets
  <2>2. Twins(a, b, pre, r, s) /\ Dry(a)
    BY <1>1, <1>2, <1>3, OscEndPair DEF Still, Octets
  <2>3. Ground \in States /\ Ground # Escape
    BY GroundStates, KindStates DEF Escape
  <2> HIDE DEF a, b
  <2>4. QED
    BY <2>1, <2>2, <2>3, MoveAlike
<1>4. CASE byte \in C0 \ {BEL}
  <2> DEFINE a == p
             b == q
  <2>1. AdvanceOscString(p, byte) = a /\ AdvanceOscString(q, byte) = b
    BY <1>1, <1>4 DEF AdvanceOscString, C0, Collects, Digits, Colon, Semi, Markers, Finals, Cancels, ESC, BEL, ST8, Octets
  <2>2. Alike(a, b, pre, r, s)
    BY <1>1, <1>2, <1>4, ExecutePair DEF Octets
  <2> HIDE DEF a, b
  <2>3. QED
    BY <2>1, <2>2
<1>5. CASE byte \in Cancels \union {ESC}
  <2> DEFINE a == OscEnd(p, byte)
             b == OscEnd(q, byte)
  <2>1. AdvanceOscString(p, byte) = Anywhere(a, byte) /\ AdvanceOscString(q, byte) = Anywhere(b, byte)
    BY <1>1, <1>5 DEF AdvanceOscString, C0, Collects, Digits, Colon, Semi, Markers, Finals, Cancels, ESC, BEL, ST8, Octets
  <2>2. Twins(a, b, pre, r, s) /\ Dry(a) /\ a.state = p.state
    BY <1>1, <1>2, <1>5, OscEndPair DEF Octets, Still, Unhook
  <2> HIDE DEF a, b
  <2>3. Ready(a)
    BY <1>2, <2>2 DEF Ready
  <2>4. QED
    BY <2>1, <2>2, <2>3, AnywhereAlike
<1>6. CASE byte = Semi
  <2> DEFINE a == OscField(p)
             b == OscField(q)
  <2>1. AdvanceOscString(p, byte) = a /\ AdvanceOscString(q, byte) = b
    BY <1>1, <1>6 DEF AdvanceOscString, C0, Collects, Digits, Colon, Semi, Markers, Finals, Cancels, ESC, BEL, ST8, Octets
  <2>2. Twins(a, b, pre, r, s) /\ a.state = p.state
    BY <1>1, <1>6, OscFieldPair DEF Octets
  <2> HIDE DEF a, b
  <2>3. QED
    BY <1>2, <2>1, <2>2 DEF Alike, Ready
<1>7. CASE byte \notin C0 \union Cancels \union {ESC, Semi}
  <2> DEFINE a == OscPut(p, byte)
             b == OscPut(q, byte)
  <2>1. AdvanceOscString(p, byte) = a /\ AdvanceOscString(q, byte) = b
    BY <1>1, <1>7 DEF AdvanceOscString, C0, Collects, Digits, Colon, Semi, Markers, Finals, Cancels, ESC, BEL, ST8, Octets
  <2>2. Twins(a, b, pre, r, s) /\ a.state = p.state
    BY <1>1, <1>7, OscPutPair DEF Octets
  <2> HIDE DEF a, b
  <2>3. QED
    BY <1>2, <2>1, <2>2 DEF Alike, Ready
<1>8. QED
  BY <1>1, <1>3, <1>4, <1>5, <1>6, <1>7 DEF C0, Collects, Digits, Colon, Semi, Markers, Finals, Cancels, ESC, BEL, ST8, Octets

LEMMA AdvanceApcStringAlike ==
  ASSUME NEW p, NEW q, NEW pre, NEW r, NEW s, Twins(p, q, pre, r, s), Ready(p), NEW byte \in Octets,
         p.state = <<"ApcString">>
  PROVE  Alike(AdvanceApcString(p, byte), AdvanceApcString(q, byte), pre, r, s)
<1>1. byte \in 0 .. 255
  BY DEF Octets
<1>2. p.state # Escape /\ Dry(p) /\ Alike(p, q, pre, r, s)
  BY DEF Ready, Alike, Escape
<1>3. CASE byte \in Cancels \union {ESC}
  <2> DEFINE a == Perform(p, <<"apc_end">>)
             b == Perform(q, <<"apc_end">>)
  <2>1. AdvanceApcString(p, byte) = Anywhere(a, byte) /\ AdvanceApcString(q, byte) = Anywhere(b, byte)
    BY <1>1, <1>3 DEF AdvanceApcString, C0, Collects, Digits, Colon, Semi, Markers, Finals, Cancels, ESC, BEL, ST8, Octets
  <2>2. Twins(a, b, pre, r, s) /\ Dry(a) /\ a.state = p.state
    BY <1>1, <1>2, <1>3, PerformPair DEF Octets, Still, Unhook
  <2> HIDE DEF a, b
  <2>3. Ready(a)
    BY <1>2, <2>2 DEF Ready
  <2>4. QED
    BY <2>1, <2>2, <2>3, AnywhereAlike
<1>4. CASE byte \notin Cancels \union {ESC}
  <2> DEFINE a == Perform(p, <<"apc_put", byte>>)
             b == Perform(q, <<"apc_put", byte>>)
  <2>1. AdvanceApcString(p, byte) = a /\ AdvanceApcString(q, byte) = b
    BY <1>1, <1>4 DEF AdvanceApcString, C0, Collects, Digits, Colon, Semi, Markers, Finals, Cancels, ESC, BEL, ST8, Octets
  <2>2. Twins(a, b, pre, r, s) /\ Still(p, a)
    BY <1>1, <1>4, PerformPair DEF Octets
  <2> HIDE DEF a, b
  <2>3. QED
    BY <1>2, <2>1, <2>2, StayAlike
<1>5. QED
  BY <1>1, <1>3, <1>4 DEF C0, Collects, Digits, Colon, Semi, Markers, Finals, Cancels, ESC, BEL, ST8, Octets

LEMMA ChangeAlike ==
  ASSUME NEW p, NEW q, NEW pre, NEW r, NEW s, Alike(p, q, pre, r, s), NEW byte \in Octets, p.state # Ground
  PROVE  Alike(ChangeState(p, byte), ChangeState(q, byte), pre, r, s)
<1>1. Twins(p, q, pre, r, s) /\ Ready(p) /\ q.state = p.state /\ p.state \in States
  BY DEF Alike, Twins, WellShaped
<1>2. ASSUME NEW name \in {"Entry", "Ignore", "Intermediate", "Param"}, NEW kind \in {"Csi", "Dcs"},
             p.state = <<name, kind>>
      PROVE  Alike(ChangeState(p, byte), ChangeState(q, byte), pre, r, s)
  <2>1. p.state[1] = name /\ p.state[2] = kind /\ q.state[1] = name /\ q.state[2] = kind
    BY <1>1, <1>2
  <2>2. CASE name = "Entry"
    <3>1. ChangeState(p, byte) = AdvanceEntry(p, kind, byte) /\ ChangeState(q, byte) = AdvanceEntry(q, kind, byte)
      BY <2>1, <2>2 DEF ChangeState
    <3>2. QED
      BY <1>1, <1>2, <2>2, <3>1, AdvanceEntryAlike
  <2>3. CASE name = "Param"
    <3>1. ChangeState(p, byte) = AdvanceParam(p, kind, byte) /\ ChangeState(q, byte) = AdvanceParam(q, kind, byte)
      BY <2>1, <2>3 DEF ChangeState
    <3>2. QED
      BY <1>1, <1>2, <2>3, <3>1, AdvanceParamAlike
  <2>4. CASE name = "Intermediate"
    <3>1. ChangeState(p, byte) = AdvanceIntermediate(p, kind, byte) /\ ChangeState(q, byte) = AdvanceIntermediate(q, kind, byte)
      BY <2>1, <2>4 DEF ChangeState
    <3>2. QED
      BY <1>1, <1>2, <2>4, <3>1, AdvanceIntermediateAlike
  <2>5. CASE name = "Ignore"
    <3>1. ChangeState(p, byte) = AdvanceIgnore(p, kind, byte) /\ ChangeState(q, byte) = AdvanceIgnore(q, kind, byte)
      BY <2>1, <2>5 DEF ChangeState
    <3>2. QED
      BY <1>1, <1>2, <2>5, <3>1, AdvanceIgnoreAlike
  <2>6. QED
    BY <2>2, <2>3, <2>4, <2>5
<1>3. CASE p.state = <<"DcsPassthrough">>
  <2>1. p.state[1] = "DcsPassthrough" /\ q.state[1] = "DcsPassthrough"
    BY <1>1, <1>3 DEF Escape
  <2>2. ChangeState(p, byte) = AdvanceDcsPassthrough(p, byte) /\ ChangeState(q, byte) = AdvanceDcsPassthrough(q, byte)
    BY <2>1 DEF ChangeState
  <2>3. QED
    BY <1>1, <1>3, <2>2, AdvanceDcsPassthroughAlike
<1>4. CASE p.state = Escape
  <2>1. p.state[1] = "Escape" /\ q.state[1] = "Escape"
    BY <1>1, <1>4 DEF Escape
  <2>2. ChangeState(p, byte) = AdvanceEsc(p, byte) /\ ChangeState(q, byte) = AdvanceEsc(q, byte)
    BY <2>1 DEF ChangeState
  <2>3. QED
    BY <1>1, <1>4, <2>2, AdvanceEscAlike
<1>5. CASE p.state = <<"EscapeIntermediate">>
  <2>1. p.state[1] = "EscapeIntermediate" /\ q.state[1] = "EscapeIntermediate"
    BY <1>1, <1>5 DEF Escape
  <2>2. ChangeState(p, byte) = AdvanceEscIntermediate(p, byte) /\ ChangeState(q, byte) = AdvanceEscIntermediate(q, byte)
    BY <2>1 DEF ChangeState
  <2>3. QED
    BY <1>1, <1>5, <2>2, AdvanceEscIntermediateAlike
<1>6. CASE p.state = <<"OscString">>
  <2>1. p.state[1] = "OscString" /\ q.state[1] = "OscString"
    BY <1>1, <1>6 DEF Escape
  <2>2. ChangeState(p, byte) = AdvanceOscString(p, byte) /\ ChangeState(q, byte) = AdvanceOscString(q, byte)
    BY <2>1 DEF ChangeState
  <2>3. QED
    BY <1>1, <1>6, <2>2, AdvanceOscStringAlike
<1>7. CASE p.state = <<"ApcString">>
  <2>1. p.state[1] = "ApcString" /\ q.state[1] = "ApcString"
    BY <1>1, <1>7 DEF Escape
  <2>2. ChangeState(p, byte) = AdvanceApcString(p, byte) /\ ChangeState(q, byte) = AdvanceApcString(q, byte)
    BY <2>1 DEF ChangeState
  <2>3. QED
    BY <1>1, <1>7, <2>2, AdvanceApcStringAlike
<1>8. CASE p.state = <<"SosPmApcString">>
  <2>1. p.state[1] = "SosPmApcString" /\ q.state[1] = "SosPmApcString"
    BY <1>1, <1>8
  <2>2. ChangeState(p, byte) = Anywhere(p, byte) /\ ChangeState(q, byte) = Anywhere(q, byte)
    BY <2>1 DEF ChangeState
  <2>3. Dry(p)
    BY <1>1, <1>8 DEF Ready
  <2>4. QED
    BY <1>1, <2>2, <2>3, AnywhereAlike
<1>9. QED
  BY <1>1, <1>2, <1>3, <1>4, <1>5, <1>6, <1>7, <1>8 DEF States, Ground, Escape

-----------------------------------------------------------------------------
(* Text.                                                                   *)

LEMMA MinOf ==
  ASSUME NEW S, S \subseteq Nat, S # {}
  PROVE  Min(S) \in S /\ \A y \in S : Min(S) <= y
<1>1. \E n \in S : \A k \in S : n <= k
  BY HasLeast
<1>2. QED
  BY <1>1 DEF Min

NoLead == 128 .. 193 \union 245 .. 255
Wrong(text) == {i \in 1 .. Follows(text[1]) : i < Len(text) /\ ~Continues(text[1], i, text[i + 1])}

LEMMA LeadFollows ==
  ASSUME NEW lead \in Octets, lead \notin NoLead
  PROVE  /\ Follows(lead) \in 0 .. 3 /\ (lead < 128 <=> Follows(lead) = 0)
         /\ lead \in 0 .. 127 \/ lead \in 194 .. 244
<1>1. lead \in 0 .. 127 \/ lead \in 194 .. 223 \/ lead \in 224 .. 239 \/ lead \in 240 .. 244
  BY DEF Octets, NoLead
<1>2. CASE lead \in 0 .. 127
  BY <1>2 DEF Follows
<1>3. CASE lead \in 194 .. 223
  BY <1>3 DEF Follows
<1>4. CASE lead \in 224 .. 239
  BY <1>4 DEF Follows
<1>5. CASE lead \in 240 .. 244
  BY <1>5 DEF Follows
<1>6. QED
  BY <1>1, <1>2, <1>3, <1>4, <1>5

LEMMA ContinuesHigh ==
  ASSUME NEW lead \in Octets, NEW i \in Nat, NEW byte \in Octets, Continues(lead, i, byte)
  PROVE  byte \in 128 .. 191
<1>1. CASE i > 1
  BY <1>1 DEF Continues
<1>2. CASE ~(i > 1)
  <2>1. byte \in CASE lead = 224 -> 160..191 [] lead = 237 -> 128..159
                  [] lead = 240 -> 144..191 [] lead = 244 -> 128..143
                  [] OTHER -> 128..191
    BY <1>2 DEF Continues
  <2>2. QED
    BY <2>1 DEF Octets
<1>3. QED
  BY <1>1, <1>2

LEMMA HighLead ==
  ASSUME NEW x, ~(x < 128), x \in 0 .. 127 \/ x \in 194 .. 244
  PROVE  x \in 194 .. 244
OBVIOUS

LEMMA TextHead ==
  ASSUME NEW text \in Seq(Octets), text # <<>>
  PROVE  /\ Len(text) \in Nat \ {0} /\ Head(text) = text[1] /\ \A i \in 1 .. Len(text) : text[i] \in Octets
<1>1. Len(text) \in Nat \ {0}
  BY EmptySeq
<1>2. QED
  BY <1>1, ElementOfSeq

LEMMA Utf8Is ==
  ASSUME NEW text \in Seq(Octets), text # <<>>
  PROVE  Utf8(text) = IF text[1] \in NoLead THEN [kind |-> "bad", len |-> 1]
                      ELSE IF Wrong(text) # {} THEN [kind |-> "bad", len |-> Min(Wrong(text))]
                      ELSE IF Len(text) > Follows(text[1]) THEN [kind |-> "char", len |-> Follows(text[1]) + 1]
                      ELSE [kind |-> "cut", len |-> Len(text)]
<1>1. Head(text) = text[1]
  BY TextHead
<1>2. QED
  BY <1>1 DEF Utf8, NoLead, Wrong

\* What from_utf8 answers, and where the text is plain text.
LEMMA Utf8Says ==
  ASSUME NEW text \in Seq(Octets), text # <<>>
  PROVE  /\ Utf8(text).kind \in {"bad", "char", "cut"} /\ Utf8(text).len \in 1 .. Len(text)
         /\ Utf8(text).len <= 4
         /\ Utf8(text).kind # "bad" => /\ text[1] \notin NoLead /\ Wrong(text) = {}
                                      /\ \A i \in 2 .. Utf8(text).len : text[i] \in 128 .. 191
         /\ Utf8(text).kind = "char" => Utf8(text).len = Follows(text[1]) + 1
         /\ Utf8(text).kind = "cut" => /\ Utf8(text).len = Len(text) /\ Len(text) <= Follows(text[1])
                                      /\ text[1] \in 194 .. 244
         /\ Utf8(text).kind = "bad" => \A i \in 2 .. Utf8(text).len : text[i] \in 128 .. 191
<1> DEFINE need == Follows(text[1])
<1>1. Len(text) \in Nat \ {0} /\ \A i \in 1 .. Len(text) : text[i] \in Octets
  BY TextHead
<1>2. text[1] \in Octets
  BY <1>1
<1>3. CASE text[1] \in NoLead
  <2>1. Utf8(text) = [kind |-> "bad", len |-> 1]
    BY <1>3, Utf8Is
  <2>2. \A i \in 2 .. 1 : FALSE
    OBVIOUS
  <2>3. QED
    BY <1>1, <2>1, <2>2
<1>4. CASE text[1] \notin NoLead
  <2>1. need \in 0 .. 3 /\ (text[1] < 128 <=> need = 0) /\ (text[1] \in 0 .. 127 \/ text[1] \in 194 .. 244)
    BY <1>2, <1>4, LeadFollows
  <2>2. ASSUME NEW i \in 1 .. need, i < Len(text), i \notin Wrong(text)
        PROVE  text[i + 1] \in 128 .. 191
    <3>1. i + 1 \in 1 .. Len(text) /\ i \in Nat
      BY <1>1, <2>1, <2>2
    <3>2. text[i + 1] \in Octets /\ Continues(text[1], i, text[i + 1])
      BY <1>1, <2>2, <3>1 DEF Wrong
    <3>3. QED
      BY <1>2, <3>1, <3>2, ContinuesHigh
  <2>3. CASE Wrong(text) # {}
    <3> DEFINE w == Min(Wrong(text))
    <3>1. Wrong(text) \subseteq Nat
      BY <2>1 DEF Wrong
    <3>2. w \in Wrong(text) /\ \A y \in Wrong(text) : w <= y
      BY <2>3, <3>1, MinOf
    <3>3. w \in 1 .. need /\ w < Len(text)
      BY <3>2 DEF Wrong
    <3>4. Utf8(text) = [kind |-> "bad", len |-> w]
      BY <1>4, <2>3, Utf8Is
    <3> HIDE DEF w, need
    <3>5. \A i \in 2 .. w : text[i] \in 128 .. 191
      <4>1. TAKE i \in 2 .. w
      <4>2. i - 1 \in 1 .. need /\ i - 1 < Len(text) /\ i - 1 < w /\ (i - 1) + 1 = i
        BY <1>1, <2>1, <3>3
      <4>3. i - 1 \notin Wrong(text)
        BY <2>1, <3>2, <3>3, <4>2
      <4>4. QED
        BY <2>2, <4>2, <4>3
    <3>6. w \in 1 .. Len(text) /\ w <= 4
      BY <1>1, <2>1, <3>3
    <3>7. QED
      BY <3>4, <3>5, <3>6
  <2>4. CASE Wrong(text) = {}
    <3> HIDE DEF need
    <3>1. ASSUME NEW i \in Nat, 2 <= i, i <= Len(text), i <= need + 1
          PROVE  text[i] \in 128 .. 191
      <4>1. i - 1 \in 1 .. need /\ i - 1 < Len(text) /\ (i - 1) + 1 = i
        BY <1>1, <2>1, <3>1
      <4>2. QED
        BY <2>2, <2>4, <4>1
    <3>2. CASE Len(text) > need
      <4>1. Utf8(text) = [kind |-> "char", len |-> need + 1]
        BY <1>4, <2>4, <3>2, Utf8Is DEF need
      <4>2. need + 1 \in 1 .. Len(text) /\ need + 1 <= 4
        BY <1>1, <2>1, <3>2
      <4>3. \A i \in 2 .. need + 1 : text[i] \in 128 .. 191
        BY <1>1, <2>1, <3>1, <4>2
      <4>4. QED
        BY <1>4, <2>4, <4>1, <4>2, <4>3 DEF need
    <3>3. CASE ~(Len(text) > need)
      <4>1. Utf8(text) = [kind |-> "cut", len |-> Len(text)]
        BY <1>4, <2>4, <3>3, Utf8Is DEF need
      <4>2. Len(text) \in 1 .. Len(text) /\ Len(text) <= 4 /\ Len(text) <= need /\ Len(text) <= need + 1
        BY <1>1, <2>1, <3>3
      <4>3. \A i \in 2 .. Len(text) : text[i] \in 128 .. 191
        BY <1>1, <2>1, <3>1, <4>2
      <4>4. text[1] \in 194 .. 244
        <5>1. need # 0
          BY <1>1, <2>1, <4>2
        <5>2. ~(text[1] < 128) /\ (text[1] \in 0 .. 127 \/ text[1] \in 194 .. 244)
          BY <2>1, <5>1
        <5>3. QED
          BY <5>2, HighLead
      <4>5. QED
        BY <1>4, <2>4, <4>1, <4>2, <4>3, <4>4 DEF need
    <3>4. QED
      BY <3>2, <3>3
  <2>5. QED
    BY <2>3, <2>4
<1>5. QED
  BY <1>3, <1>4

\* A text that goes on is answered alike, if its head was not cut off.
LEMMA Utf8Extends ==
  ASSUME NEW a \in Seq(Octets), a # <<>>, NEW b \in Seq(Octets), Len(a) <= Len(b),
         \A i \in 1 .. Len(a) : b[i] = a[i]
  PROVE  /\ Utf8(a).kind # "cut" => Utf8(b) = Utf8(a)
         /\ Utf8(a).kind = "cut" /\ Utf8(b).kind = "bad" => Utf8(b).len >= Len(a)
<1>1. Len(a) \in Nat \ {0} /\ Len(b) \in Nat \ {0} /\ b # <<>> /\ a[1] \in Octets
  <2>1. Len(a) \in Nat \ {0} /\ Len(b) \in Nat
    BY TextHead
  <2>2. QED
    BY <2>1, TextHead, EmptySeq
<1>2. b[1] = a[1]
  BY <1>1
<1>3. CASE a[1] \in NoLead
  BY <1>1, <1>2, <1>3, Utf8Is
<1>4. CASE a[1] \notin NoLead
  <2> DEFINE need == Follows(a[1])
  <2>1. need \in 0 .. 3 /\ Follows(b[1]) = need
    BY <1>1, <1>2, <1>4, LeadFollows
  <2>2. \A i \in 1 .. need : i < Len(a) => (i \in Wrong(a) <=> i \in Wrong(b))
    <3>1. TAKE i \in 1 .. need
    <3>2. HAVE i < Len(a)
    <3>3. i + 1 \in 1 .. Len(a) /\ i < Len(b)
      BY <1>1, <2>1, <3>2
    <3>4. b[i + 1] = a[i + 1]
      BY <3>3
    <3>5. QED
      BY <1>2, <2>1, <3>2, <3>3, <3>4 DEF Wrong
  <2>3. Wrong(a) \subseteq 1 .. need /\ Wrong(b) \subseteq 1 .. need /\ \A i \in Wrong(a) : i < Len(a)
    BY <1>2 DEF Wrong
  <2> HIDE DEF need
  <2>4. Wrong(a) \subseteq Nat /\ Wrong(b) \subseteq Nat /\ Wrong(a) \subseteq Wrong(b)
    BY <2>1, <2>2, <2>3
  <2>5. CASE Wrong(a) # {}
    <3>1. Min(Wrong(a)) \in Wrong(a) /\ \A y \in Wrong(a) : Min(Wrong(a)) <= y
      BY <2>4, <2>5, MinOf
    <3>2. Min(Wrong(b)) \in Wrong(b) /\ \A y \in Wrong(b) : Min(Wrong(b)) <= y
      BY <2>4, <2>5, MinOf
    <3>3. Min(Wrong(b)) \in Wrong(a)
      <4>1. Min(Wrong(b)) <= Min(Wrong(a)) /\ Min(Wrong(a)) < Len(a) /\ Min(Wrong(b)) \in 1 .. need
        BY <2>3, <2>4, <3>1, <3>2
      <4>2. Min(Wrong(b)) < Len(a)
        BY <1>1, <2>1, <2>4, <3>1, <4>1
      <4>3. QED
        BY <2>2, <3>2, <4>1, <4>2
    <3>4. Min(Wrong(b)) = Min(Wrong(a))
      BY <2>4, <3>1, <3>2, <3>3
    <3>5. Wrong(b) # {}
      BY <2>4, <2>5
    <3>6. Utf8(a) = [kind |-> "bad", len |-> Min(Wrong(a))] /\ Utf8(b) = [kind |-> "bad", len |-> Min(Wrong(b))]
      BY <1>1, <1>2, <1>4, <2>5, <3>5, Utf8Is
    <3>7. QED
      BY <3>4, <3>6
  <2>6. CASE Wrong(a) = {} /\ Len(a) > need
    <3>1. Wrong(b) = {} /\ Len(b) > need
      BY <1>1, <2>1, <2>2, <2>3, <2>6
    <3>2. Utf8(a) = [kind |-> "char", len |-> need + 1] /\ Utf8(b) = [kind |-> "char", len |-> need + 1]
      BY <1>1, <1>2, <1>4, <2>1, <2>6, <3>1, Utf8Is DEF need
    <3>3. QED
      BY <3>2
  <2>7. CASE Wrong(a) = {} /\ ~(Len(a) > need)
    <3>1. Utf8(a) = [kind |-> "cut", len |-> Len(a)]
      BY <1>1, <1>4, <2>7, Utf8Is DEF need
    <3>2. ASSUME Utf8(b).kind = "bad" PROVE Utf8(b).len >= Len(a)
      <4>1. Wrong(b) # {}
        BY <1>1, <1>2, <1>4, <3>2, Utf8Is
      <4>2. Min(Wrong(b)) \in Wrong(b)
        BY <2>4, <4>1, MinOf
      <4>3. Utf8(b) = [kind |-> "bad", len |-> Min(Wrong(b))]
        BY <1>1, <1>2, <1>4, <4>1, Utf8Is
      <4>4. Min(Wrong(b)) \in 1 .. need /\ ~(Min(Wrong(b)) < Len(a))
        BY <2>2, <2>3, <2>7, <4>2
      <4>5. QED
        BY <1>1, <2>1, <4>3, <4>4
    <3>3. QED
      BY <3>1, <3>2
  <2>8. QED
    BY <2>5, <2>6, <2>7
<1>5. QED
  BY <1>3, <1>4

\* A part of bytes.
LEMMA PartOf ==
  ASSUME NEW s \in Seq(Octets), NEW a \in Nat \ {0}, NEW b \in Nat, b <= Len(s), a <= b + 1
  PROVE  /\ SubSeq(s, a, b) \in Seq(Octets) /\ Len(SubSeq(s, a, b)) = (b - a) + 1
         /\ \A i \in 1 .. (b - a) + 1 : SubSeq(s, a, b)[i] = s[(a + i) - 1]
<1>1. \A i \in a .. b : s[i] \in Octets
  BY ElementOfSeq
<1>2. /\ SubSeq(s, a, b) \in Seq(Octets) /\ Len(SubSeq(s, a, b)) = IF a <= b THEN b - a + 1 ELSE 0
      /\ \A i \in 1 .. b - a + 1 : SubSeq(s, a, b)[i] = s[a + i - 1]
  BY <1>1, SubSeqProperties
<1>3. Len(SubSeq(s, a, b)) = (b - a) + 1
  BY <1>2
<1>4. QED
  BY <1>2, <1>3

LEMMA HeadOf ==
  ASSUME NEW s \in Seq(Octets), NEW n \in Nat, n <= Len(s)
  PROVE  /\ SubSeq(s, 1, n) \in Seq(Octets) /\ Len(SubSeq(s, 1, n)) = n
         /\ \A i \in 1 .. n : SubSeq(s, 1, n)[i] = s[i]
<1> DEFINE t == SubSeq(s, 1, n)
<1>1. t \in Seq(Octets) /\ Len(t) = (n - 1) + 1 /\ \A i \in 1 .. (n - 1) + 1 : t[i] = s[(1 + i) - 1]
  BY PartOf
<1>2. \A i \in 1 .. n : (1 + i) - 1 = i
  OBVIOUS
<1>3. (n - 1) + 1 = n
  OBVIOUS
<1> HIDE DEF t
<1>4. t \in Seq(Octets) /\ Len(t) = n /\ \A i \in 1 .. n : t[i] = s[i]
  BY <1>1, <1>2, <1>3
<1>5. QED
  BY <1>4 DEF t

LEMMA RestOf ==
  ASSUME NEW s \in Seq(Octets), NEW n \in Nat, n <= Len(s)
  PROVE  /\ SubSeq(s, n + 1, Len(s)) \in Seq(Octets) /\ Len(SubSeq(s, n + 1, Len(s))) = Len(s) - n
         /\ \A i \in 1 .. Len(s) - n : SubSeq(s, n + 1, Len(s))[i] = s[n + i]
<1>1. Len(s) \in Nat
  OBVIOUS
<1> DEFINE m == Len(s)
<1>2. m \in Nat /\ n <= m /\ m <= Len(s) /\ n + 1 \in Nat \ {0} /\ n + 1 <= m + 1
  BY <1>1
<1> HIDE DEF m
<1>3. /\ SubSeq(s, n + 1, m) \in Seq(Octets) /\ Len(SubSeq(s, n + 1, m)) = (m - (n + 1)) + 1
      /\ \A i \in 1 .. (m - (n + 1)) + 1 : SubSeq(s, n + 1, m)[i] = s[((n + 1) + i) - 1]
  BY <1>2, PartOf
<1>4. (m - (n + 1)) + 1 = m - n /\ \A i \in 1 .. m - n : ((n + 1) + i) - 1 = n + i
  BY <1>2
<1>5. QED
  BY <1>3, <1>4 DEF m

\* Bytes that agree as far as both are looked at.
LEMMA HeadsAgree ==
  ASSUME NEW a \in Seq(Octets), NEW b \in Seq(Octets), NEW n \in Nat, n <= Len(a), n <= Len(b),
         \A i \in 1 .. n : a[i] = b[i]
  PROVE  SubSeq(a, 1, n) = SubSeq(b, 1, n)
<1>1. /\ SubSeq(a, 1, n) \in Seq(Octets) /\ Len(SubSeq(a, 1, n)) = n
      /\ \A i \in 1 .. n : SubSeq(a, 1, n)[i] = a[i]
  BY HeadOf
<1>2. /\ SubSeq(b, 1, n) \in Seq(Octets) /\ Len(SubSeq(b, 1, n)) = n
      /\ \A i \in 1 .. n : SubSeq(b, 1, n)[i] = b[i]
  BY HeadOf
<1> DEFINE c == SubSeq(a, 1, n)
           d == SubSeq(b, 1, n)
<1>3. c \in Seq(Octets) /\ d \in Seq(Octets) /\ Len(c) = Len(d) /\ \A i \in 1 .. Len(c) : c[i] = d[i]
  BY <1>1, <1>2
<1> HIDE DEF c, d
<1>4. c = d
  BY <1>3, SeqEqual
<1>5. QED
  BY <1>4 DEF c, d

\* Bytes and what comes after them.
LEMMA JoinSays ==
  ASSUME NEW r \in Seq(Octets), NEW tail \in Seq(Octets)
  PROVE  /\ r \o tail \in Seq(Octets) /\ Len(r \o tail) = Len(r) + Len(tail)
         /\ \A i \in 1 .. Len(r) : (r \o tail)[i] = r[i]
         /\ \A i \in 1 .. Len(tail) : (r \o tail)[Len(r) + i] = tail[i]
<1>1. ASeq(r) /\ ASeq(tail)
  BY DEF ASeq
<1>2. r \o tail \in Seq(Octets)
  BY ConcatProperties
<1>3. QED
  BY <1>1, <1>2, SeqJoins

LEMMA RestOfJoin ==
  ASSUME NEW r \in Seq(Octets), NEW tail \in Seq(Octets), NEW n \in Nat, n <= Len(r)
  PROVE  SubSeq(r \o tail, n + 1, Len(r \o tail)) = SubSeq(r, n + 1, Len(r)) \o tail
<1> DEFINE all == r \o tail
           a == SubSeq(r, n + 1, Len(r))
           c == SubSeq(all, n + 1, Len(all))
           d == a \o tail
<1>1. /\ all \in Seq(Octets) /\ Len(all) = Len(r) + Len(tail)
      /\ \A i \in 1 .. Len(r) : all[i] = r[i]
      /\ \A i \in 1 .. Len(tail) : all[Len(r) + i] = tail[i]
  BY JoinSays
<1>2. Len(r) \in Nat /\ Len(tail) \in Nat /\ n <= Len(all)
  BY <1>1
<1>3. a \in Seq(Octets) /\ Len(a) = Len(r) - n /\ \A i \in 1 .. Len(r) - n : a[i] = r[n + i]
  BY RestOf
<1> HIDE DEF all, a
<1>4. c \in Seq(Octets) /\ Len(c) = Len(all) - n /\ \A i \in 1 .. Len(all) - n : c[i] = all[n + i]
  BY <1>1, <1>2, RestOf
<1>5. /\ d \in Seq(Octets) /\ Len(d) = Len(a) + Len(tail)
      /\ \A i \in 1 .. Len(a) : d[i] = a[i]
      /\ \A i \in 1 .. Len(tail) : d[Len(a) + i] = tail[i]
  BY <1>3, JoinSays
<1> HIDE DEF c, d
<1>6. Len(c) = Len(d)
  BY <1>1, <1>2, <1>3, <1>4, <1>5
<1>7. ASSUME NEW i \in 1 .. Len(c) PROVE c[i] = d[i]
  <2>1. c[i] = all[n + i] /\ i \in Nat
    BY <1>1, <1>2, <1>4, <1>7
  <2>2. CASE i <= Len(a)
    <3>1. i \in 1 .. Len(a) /\ i \in 1 .. Len(r) - n /\ n + i \in 1 .. Len(r)
      BY <1>2, <1>3, <2>1, <2>2, <1>7
    <3>2. QED
      BY <1>1, <1>3, <1>5, <2>1, <3>1
  <2>3. CASE ~(i <= Len(a))
    <3> DEFINE k == i - Len(a)
    <3>1. k \in 1 .. Len(tail) /\ Len(a) + k = i /\ Len(r) + k = n + i
      BY <1>1, <1>2, <1>3, <1>4, <2>1, <2>3, <1>7
    <3> HIDE DEF k
    <3>2. d[Len(a) + k] = tail[k] /\ all[Len(r) + k] = tail[k]
      BY <1>1, <1>5, <3>1
    <3>3. QED
      BY <2>1, <3>1, <3>2
  <2>4. QED
    BY <2>2, <2>3
<1>8. c = d
  BY <1>4, <1>5, <1>6, <1>7, SeqEqual
<1>9. QED
  BY <1>8 DEF all, a, c, d

\* The text before the next ESC.
LEMMA PlainSays ==
  ASSUME NEW rest \in Seq(Octets)
  PROVE  /\ Plain(rest) \in Seq(Octets) /\ Len(Plain(rest)) \in Nat /\ Len(Plain(rest)) <= Len(rest)
         /\ \A i \in 1 .. Len(Plain(rest)) : Plain(rest)[i] = rest[i] /\ rest[i] # ESC
         /\ Len(Plain(rest)) < Len(rest) => rest[Len(Plain(rest)) + 1] = ESC
<1> DEFINE E == {i \in 1 .. Len(rest) : rest[i] = ESC}
<1>1. E \subseteq Nat /\ Len(rest) \in Nat
  OBVIOUS
<1>2. CASE E = {}
  <2>1. Plain(rest) = rest
    BY <1>2 DEF Plain
  <2>2. \A i \in 1 .. Len(rest) : rest[i] # ESC
    BY <1>2
  <2>3. QED
    BY <1>1, <2>1, <2>2
<1>3. CASE E # {}
  <2> DEFINE m == Min(E)
  <2>1. Plain(rest) = SubSeq(rest, 1, m - 1)
    BY <1>3 DEF Plain
  <2>2. m \in E /\ \A y \in E : m <= y
    <3> HIDE DEF E
    <3>1. QED
      BY <1>1, <1>3, MinOf
  <2>3. m \in 1 .. Len(rest) /\ rest[m] = ESC
    BY <2>2
  <2>4. \A i \in 1 .. Len(rest) : i < m => rest[i] # ESC
    <3>1. SUFFICES ASSUME NEW i \in 1 .. Len(rest), i < m, rest[i] = ESC PROVE FALSE
      OBVIOUS
    <3>2. i \in E
      BY <3>1
    <3>3. m <= i
      BY <2>2, <3>2
    <3>4. QED
      BY <1>1, <2>3, <3>1, <3>3
  <2> HIDE DEF m, E
  <2>5. m - 1 \in Nat /\ m - 1 <= Len(rest) /\ (m - 1) + 1 = m
    BY <1>1, <2>3
  <2>6. /\ Plain(rest) \in Seq(Octets) /\ Len(Plain(rest)) = m - 1
        /\ \A i \in 1 .. m - 1 : Plain(rest)[i] = rest[i]
    <3> DEFINE k == m - 1
    <3>1. k \in Nat /\ k <= Len(rest) /\ Plain(rest) = SubSeq(rest, 1, k)
      BY <2>1, <2>5
    <3> HIDE DEF k
    <3>2. Plain(rest) \in Seq(Octets) /\ Len(Plain(rest)) = k /\ \A i \in 1 .. k : Plain(rest)[i] = rest[i]
      BY <3>1, HeadOf
    <3>3. QED
      BY <3>2 DEF k
  <2>7. \A i \in 1 .. m - 1 : rest[i] # ESC
    BY <1>1, <2>3, <2>4
  <2>8. QED
    BY <2>3, <2>5, <2>6, <2>7
<1>4. QED
  BY <1>2, <1>3

\* What the ground state does with what is left of a read: a character or what
\* stands for one is told of, an ESC begins a sequence, and text that the end of
\* the read cuts is kept.
Said(text, head) ==
  LET char == SubSeq(text, 1, head.len) IN
  IF head.kind = "char"
  THEN IF C1Char(char) \/ (Len(char) = 1 /\ char[1] < 32) THEN <<"execute", char[Len(char)]>>
       ELSE <<"print", char>>
  ELSE IF head.len = 1 /\ text[1] < 160 THEN <<"execute", text[1]>> ELSE Replacement
Verdict(r) ==
  LET text == Plain(r)
      head == Utf8(text)
  IN IF text = <<>> THEN [does |-> "escape", event |-> <<>>, take |-> 1]
     ELSE IF head.kind # "cut" THEN [does |-> "tell", event |-> Said(text, head), take |-> head.len]
     ELSE IF Len(text) < Len(r) THEN [does |-> "tell", event |-> Replacement, take |-> Len(text)]
     ELSE [does |-> "keep", event |-> <<>>, take |-> Len(r)]

LEMMA VerdictSays ==
  ASSUME NEW r \in Seq(Octets), r # <<>>
  PROVE  /\ Verdict(r).does \in {"escape", "tell", "keep"}
         /\ Verdict(r).take \in 1 .. Len(r) /\ (Verdict(r).does = "escape" => Verdict(r).take = 1)
         /\ Verdict(r).does = "escape" <=> r[1] = ESC
         /\ \A i \in 2 .. Verdict(r).take : r[i] # ESC
         /\ Verdict(r).does = "keep" => /\ Plain(r) = r /\ Utf8(r).kind = "cut"
                                        /\ \A i \in 1 .. Len(r) : r[i] # ESC
<1> DEFINE text == Plain(r)
           n == Len(text)
           head == Utf8(text)
           v == Verdict(r)
<1>1. Len(r) \in Nat \ {0}
  BY EmptySeq
<1>2. /\ text \in Seq(Octets) /\ n \in Nat /\ n <= Len(r)
      /\ \A i \in 1 .. n : text[i] = r[i] /\ r[i] # ESC
      /\ n < Len(r) => r[n + 1] = ESC
  BY PlainSays
<1>3. v = IF text = <<>> THEN [does |-> "escape", event |-> <<>>, take |-> 1]
          ELSE IF head.kind # "cut" THEN [does |-> "tell", event |-> Said(text, head), take |-> head.len]
          ELSE IF n < Len(r) THEN [does |-> "tell", event |-> Replacement, take |-> n]
          ELSE [does |-> "keep", event |-> <<>>, take |-> Len(r)]
  BY DEF Verdict
<1>4. CASE text = <<>>
  <2>1. n = 0
    BY <1>4
  <2> HIDE DEF n, text, v
  <2>2. r[1] = ESC
    BY <1>1, <1>2, <2>1
  <2>3. v.does = "escape" /\ v.take = 1
    BY <1>3, <1>4
  <2>4. \A i \in 2 .. 1 : FALSE
    OBVIOUS
  <2>5. QED
    BY <1>1, <2>2, <2>3, <2>4 DEF v
<1>5. CASE text # <<>>
  <2>1. n \in Nat \ {0} /\ head.kind \in {"bad", "char", "cut"} /\ head.len \in 1 .. n
        /\ (head.kind = "cut" => head.len = n)
    BY <1>2, <1>5, Utf8Says, TextHead
  <2> HIDE DEF n, text, v, head
  <2>2. r[1] # ESC
    BY <1>2, <2>1
  <2>3. \A k \in 1 .. n : k \in 1 .. Len(r) /\ \A i \in 2 .. k : r[i] # ESC
    <3>1. TAKE k \in 1 .. n
    <3>2. \A i \in 2 .. k : i \in 1 .. n
      BY <2>1
    <3>3. QED
      BY <1>1, <1>2, <2>1, <3>2
  <2>4. v.take \in 1 .. n /\ v.does \in {"tell", "keep"}
    <3>1. CASE head.kind # "cut"
      BY <1>3, <1>5, <2>1, <3>1
    <3>2. CASE head.kind = "cut" /\ n < Len(r)
      BY <1>3, <1>5, <2>1, <3>2
    <3>3. CASE head.kind = "cut" /\ ~(n < Len(r))
      <4>1. n = Len(r)
        BY <1>1, <1>2, <2>1, <3>3
      <4>2. QED
        BY <1>3, <1>5, <2>1, <3>3, <4>1
    <3>4. QED
      BY <3>1, <3>2, <3>3
  <2>5. ASSUME v.does = "keep"
        PROVE  Plain(r) = r /\ Utf8(r).kind = "cut" /\ \A i \in 1 .. Len(r) : r[i] # ESC
    <3>1. head.kind = "cut" /\ ~(n < Len(r))
      BY <1>3, <1>5, <2>5
    <3>2. n = Len(r)
      BY <1>1, <1>2, <2>1, <3>1
    <3>3. text = r
      <4>1. text \in Seq(Octets) /\ Len(text) = Len(r) /\ \A i \in 1 .. Len(text) : text[i] = r[i]
        BY <1>2, <3>2 DEF n
      <4>2. QED
        BY <4>1, SeqEqual
    <3>4. QED
      BY <1>2, <3>1, <3>2, <3>3 DEF text, head
  <2>6. QED
    BY <1>5, <2>2, <2>3, <2>4, <2>5 DEF v
<1>6. QED
  BY <1>4, <1>5

\* What comes after changes nothing about what is told.
LEMMA VerdictJoined ==
  ASSUME NEW r \in Seq(Octets), r # <<>>, NEW tail \in Seq(Octets), Verdict(r).does # "keep"
  PROVE  Verdict(r \o tail) = Verdict(r) /\ r \o tail # <<>>
<1> DEFINE all == r \o tail
           a == Plain(r)
           b == Plain(all)
           m == Len(a)
           n == Len(b)
<1>1. Len(r) \in Nat \ {0} /\ Len(tail) \in Nat
  BY EmptySeq
<1>2. /\ all \in Seq(Octets) /\ Len(all) = Len(r) + Len(tail)
      /\ \A i \in 1 .. Len(r) : all[i] = r[i]
  BY JoinSays
<1>3. all # <<>>
  BY <1>1, <1>2, EmptySeq
<1>4. /\ a \in Seq(Octets) /\ m \in Nat /\ m <= Len(r)
      /\ \A i \in 1 .. m : a[i] = r[i] /\ r[i] # ESC
      /\ m < Len(r) => r[m + 1] = ESC
  BY PlainSays
<1> HIDE DEF all
<1>5. /\ b \in Seq(Octets) /\ n \in Nat /\ n <= Len(all)
      /\ \A i \in 1 .. n : b[i] = all[i] /\ all[i] # ESC
      /\ n < Len(all) => all[n + 1] = ESC
  BY <1>2, PlainSays
<1>6. a = <<>> <=> m = 0
  BY <1>4, EmptySeq
<1>7. b = <<>> <=> n = 0
  BY <1>5, EmptySeq
<1>8. /\ Verdict(r) = IF a = <<>> THEN [does |-> "escape", event |-> <<>>, take |-> 1]
          ELSE IF Utf8(a).kind # "cut" THEN [does |-> "tell", event |-> Said(a, Utf8(a)), take |-> Utf8(a).len]
          ELSE IF m < Len(r) THEN [does |-> "tell", event |-> Replacement, take |-> m]
          ELSE [does |-> "keep", event |-> <<>>, take |-> Len(r)]
      /\ Verdict(all) = IF b = <<>> THEN [does |-> "escape", event |-> <<>>, take |-> 1]
          ELSE IF Utf8(b).kind # "cut" THEN [does |-> "tell", event |-> Said(b, Utf8(b)), take |-> Utf8(b).len]
          ELSE IF n < Len(all) THEN [does |-> "tell", event |-> Replacement, take |-> n]
          ELSE [does |-> "keep", event |-> <<>>, take |-> Len(all)]
  BY DEF Verdict
<1> HIDE DEF a, b, m, n
<1>9. CASE m < Len(r)
  <2>1. m + 1 \in 1 .. Len(r) /\ all[m + 1] = ESC
    BY <1>1, <1>2, <1>4, <1>9
  <2>2. n <= m
    <3>1. SUFFICES ASSUME n > m PROVE FALSE
      BY <1>4, <1>5
    <3>2. m + 1 \in 1 .. n
      BY <1>4, <1>5, <3>1
    <3>3. QED
      BY <1>5, <2>1, <3>2
  <2>3. n >= m
    <3>1. SUFFICES ASSUME n < m PROVE FALSE
      BY <1>4, <1>5
    <3>2. n + 1 \in 1 .. m /\ n + 1 \in 1 .. Len(r) /\ n < Len(all)
      BY <1>1, <1>2, <1>4, <1>5, <3>1
    <3>3. QED
      BY <1>2, <1>4, <1>5, <3>2
  <2>4. n = m
    BY <1>4, <1>5, <2>2, <2>3
  <2>5. \A i \in 1 .. m : b[i] = a[i]
    <3>1. \A i \in 1 .. m : i \in 1 .. Len(r)
      BY <1>1, <1>4
    <3>2. QED
      BY <1>2, <1>4, <1>5, <2>4, <3>1
  <2>6. a = b
    <3>1. Len(a) = Len(b) /\ \A i \in 1 .. Len(a) : a[i] = b[i]
      BY <2>4, <2>5 DEF m, n
    <3>2. QED
      BY <1>4, <1>5, <3>1, SeqEqual
  <2>7. n < Len(all)
    BY <1>1, <1>2, <1>4, <1>9, <2>4
  <2>8. QED
    BY <1>3, <1>8, <1>9, <2>4, <2>6, <2>7 DEF all
<1>10. CASE ~(m < Len(r))
  <2>1. m = Len(r) /\ m > 0
    BY <1>1, <1>4, <1>10
  <2>2. a # <<>> /\ Utf8(a).kind # "cut"
    BY <1>6, <1>8, <1>10, <2>1
  <2>3. n >= m
    <3>1. SUFFICES ASSUME n < m PROVE FALSE
      BY <1>4, <1>5
    <3>2. n + 1 \in 1 .. m /\ n + 1 \in 1 .. Len(r) /\ n < Len(all)
      BY <1>1, <1>2, <1>4, <1>5, <3>1
    <3>3. QED
      BY <1>2, <1>4, <1>5, <3>2
  <2>4. \A i \in 1 .. m : b[i] = a[i]
    <3>1. \A i \in 1 .. m : i \in 1 .. Len(r) /\ i \in 1 .. n
      BY <1>1, <1>4, <1>5, <2>3
    <3>2. QED
      BY <1>2, <1>4, <1>5, <3>1
  <2>5. Utf8(b) = Utf8(a)
    <3>1. Len(a) <= Len(b) /\ \A i \in 1 .. Len(a) : b[i] = a[i]
      BY <2>3, <2>4 DEF m, n
    <3>2. QED
      BY <1>4, <1>5, <2>2, <3>1, Utf8Extends
  <2>6. Utf8(a).len \in 1 .. m
    BY <1>4, <2>2, Utf8Says DEF m
  <2>7. SubSeq(b, 1, Utf8(a).len) = SubSeq(a, 1, Utf8(a).len)
    <3> DEFINE k == Utf8(a).len
    <3>1. k \in Nat /\ k <= Len(a) /\ k <= Len(b)
      BY <1>4, <1>5, <2>3, <2>6 DEF m, n
    <3>2. \A i \in 1 .. k : b[i] = a[i]
      BY <1>4, <2>4, <2>6
    <3> HIDE DEF k
    <3>3. SubSeq(b, 1, k) = SubSeq(a, 1, k)
      BY <1>4, <1>5, <3>1, <3>2, HeadsAgree
    <3>4. QED
      BY <3>3 DEF k
  <2>8. b[1] = a[1]
    BY <2>1, <2>4
  <2>9. Said(b, Utf8(b)) = Said(a, Utf8(a))
    BY <2>5, <2>7, <2>8 DEF Said
  <2>10. b # <<>>
    BY <1>4, <1>5, <1>7, <2>1, <2>3
  <2>11. QED
    BY <1>3, <1>8, <2>2, <2>5, <2>9, <2>10 DEF all
<1>11. QED
  BY <1>9, <1>10

\* What advance_ground does by a verdict.
GroundSays(p, v) ==
  /\ v.does = "escape" => AdvanceGround(p) = Taken(To(ResetParams(p), Escape), 1)
  /\ v.does = "tell" => AdvanceGround(p) = Taken(Perform(p, v.event), v.take)
  /\ v.does = "keep" => AdvanceGround(p) = [p EXCEPT !.partial = p.rest, !.rest = <<>>]

LEMMA GroundDoes ==
  ASSUME NEW p, p.rest \in Seq(Octets), p.rest # <<>>
  PROVE  GroundSays(p, Verdict(p.rest))
<1> DEFINE text == Plain(p.rest)
           head == Utf8(text)
           v == Verdict(p.rest)
<1>0. SUFFICES /\ v.does = "escape" => AdvanceGround(p) = Taken(To(ResetParams(p), Escape), 1)
               /\ v.does = "tell" => AdvanceGround(p) = Taken(Perform(p, v.event), v.take)
               /\ v.does = "keep" => AdvanceGround(p) = [p EXCEPT !.partial = p.rest, !.rest = <<>>]
  BY DEF GroundSays
<1>1. v = IF text = <<>> THEN [does |-> "escape", event |-> <<>>, take |-> 1]
          ELSE IF head.kind # "cut" THEN [does |-> "tell", event |-> Said(text, head), take |-> head.len]
          ELSE IF Len(text) < Len(p.rest) THEN [does |-> "tell", event |-> Replacement, take |-> Len(text)]
          ELSE [does |-> "keep", event |-> <<>>, take |-> Len(p.rest)]
  BY DEF Verdict
<1>2. AdvanceGround(p) =
       IF text = <<>> THEN Taken(To(ResetParams(p), Escape), 1)
       ELSE CASE head.kind = "char" -> Taken(GroundDispatch(p, SubSeq(text, 1, head.len)), head.len)
         [] head.kind = "bad" ->
              Taken(IF head.len = 1 /\ text[1] < 160 THEN Execute(p, text[1])
                    ELSE Perform(p, Replacement), head.len)
         [] head.kind = "cut" /\ Len(text) < Len(p.rest) -> Taken(Perform(p, Replacement), Len(text))
         [] OTHER -> [p EXCEPT !.partial = text, !.rest = <<>>]
  BY DEF AdvanceGround
<1>3. CASE text = <<>>
  BY <1>1, <1>2, <1>3
<1>4. CASE text # <<>>
  <2>1. head.kind \in {"bad", "char", "cut"}
    <3>1. text \in Seq(Octets)
      BY PlainSays
    <3>2. QED
      BY <1>4, <3>1, Utf8Says
  <2>2. v.does = "keep" => text = p.rest
    BY VerdictSays
  <2> DEFINE char == SubSeq(text, 1, head.len)
  <2>3. CASE head.kind = "char"
    <3>1. AdvanceGround(p) = Taken(GroundDispatch(p, char), head.len)
      <4> HIDE DEF text, head, char
      <4>1. QED
        BY <1>2, <1>4, <2>3 DEF char
    <3>2. v = [does |-> "tell", event |-> Said(text, head), take |-> head.len]
      BY <1>1, <1>4, <2>3
    <3>3. Said(text, head) = IF C1Char(char) \/ (Len(char) = 1 /\ char[1] < 32)
                             THEN <<"execute", char[Len(char)]>> ELSE <<"print", char>>
      BY <2>3 DEF Said
    <3>4. GroundDispatch(p, char) = Perform(p, Said(text, head))
      <4> HIDE DEF text, head, char
      <4>1. CASE C1Char(char) \/ (Len(char) = 1 /\ char[1] < 32)
        BY <3>3, <4>1 DEF GroundDispatch, Execute
      <4>2. CASE ~(C1Char(char) \/ (Len(char) = 1 /\ char[1] < 32))
        BY <3>3, <4>2 DEF GroundDispatch
      <4>3. QED
        BY <4>1, <4>2
    <3> HIDE DEF text, head, char, v
    <3>5. QED
      BY <3>1, <3>2, <3>4 DEF v
  <2>4. CASE head.kind = "bad"
    <3>1. v = [does |-> "tell", event |-> Said(text, head), take |-> head.len]
      BY <1>1, <1>4, <2>4
    <3>2. Said(text, head) = IF head.len = 1 /\ text[1] < 160 THEN <<"execute", text[1]>> ELSE Replacement
      BY <2>4 DEF Said
    <3> HIDE DEF text, head, char, v
    <3>3. AdvanceGround(p) = Taken(IF head.len = 1 /\ text[1] < 160 THEN Execute(p, text[1])
                    ELSE Perform(p, Replacement), head.len)
      BY <1>2, <1>4, <2>4
    <3>4. (IF head.len = 1 /\ text[1] < 160 THEN Execute(p, text[1]) ELSE Perform(p, Replacement))
          = Perform(p, Said(text, head))
      BY <3>2 DEF Execute
    <3>5. QED
      BY <3>1, <3>3, <3>4 DEF v
  <2>5. CASE head.kind = "cut" /\ Len(text) < Len(p.rest)
    <3> HIDE DEF text, head, char, v
    <3>1. QED
      BY <1>1, <1>2, <1>4, <2>5 DEF v
  <2>6. CASE head.kind = "cut" /\ ~(Len(text) < Len(p.rest))
    <3> HIDE DEF text, head, char, v
    <3>1. AdvanceGround(p) = [p EXCEPT !.partial = text, !.rest = <<>>]
      BY <1>2, <1>4, <2>6
    <3>2. v.does = "keep"
      BY <1>1, <1>4, <2>6
    <3>3. QED
      BY <2>2, <3>1, <3>2 DEF v
  <2>7. QED
    BY <2>1, <2>3, <2>4, <2>5, <2>6
<1>5. QED
  BY <1>3, <1>4

\* The bytes a pass through the loop takes, and whether it keeps the rest.
Bite(p) == IF p.state = Ground THEN Verdict(p.rest).take ELSE 1
Keeps(p) == p.state = Ground /\ Verdict(p.rest).does = "keep"

LEMMA BiteSays ==
  ASSUME NEW p, p.rest \in Seq(Octets), p.rest # <<>>
  PROVE  /\ Bite(p) \in 1 .. Len(p.rest) /\ Len(p.rest) \in Nat \ {0}
         /\ \A i \in 2 .. Bite(p) : p.rest[i] # ESC
<1>1. Len(p.rest) \in Nat \ {0}
  BY EmptySeq
<1>2. CASE p.state = Ground
  BY <1>1, <1>2, VerdictSays DEF Bite
<1>3. CASE p.state # Ground
  <2>1. \A i \in 2 .. 1 : FALSE
    OBVIOUS
  <2>2. QED
    BY <1>1, <1>3, <2>1 DEF Bite
<1>4. QED
  BY <1>2, <1>3

\* A pass of two parsers that are alike, the one with more to come than the other.
LEMMA LoopAlike ==
  ASSUME NEW p, NEW q, NEW pre, NEW r, NEW tail \in Seq(Octets), Alike(p, q, pre, r, r \o tail),
         r # <<>>, ~Keeps(p)
  PROVE  LET after == SubSeq(r, Bite(p) + 1, Len(r))
         IN Alike(Loop(p), Loop(q), pre, after, after \o tail)
<1> DEFINE all == r \o tail
           c == Bite(p)
<1>1. /\ Twins(p, q, pre, r, all) /\ Ready(p) /\ p.rest = r /\ q.rest = all /\ q.state = p.state
      /\ r \in Seq(Octets) /\ all \in Seq(Octets)
  BY DEF Alike, Twins, WellShaped
<1>2. /\ Len(r) \in Nat \ {0} /\ Len(tail) \in Nat /\ Len(all) = Len(r) + Len(tail)
      /\ r[1] \in Octets /\ all[1] = r[1] /\ Head(r) = r[1]
  BY <1>1, TextHead, JoinSays
<1>3. Head(all) = r[1] /\ all # <<>>
  <2>1. all # <<>>
    BY <1>1, <1>2, EmptySeq
  <2>2. QED
    BY <1>1, <1>2, <2>1, TextHead
<1>4. c \in 1 .. Len(r)
  BY <1>1, BiteSays
<1>5. c \in Nat /\ c <= Len(r) /\ c <= Len(all)
  BY <1>2, <1>4
<1>6. SubSeq(all, c + 1, Len(all)) = SubSeq(r, c + 1, Len(r)) \o tail
  BY <1>1, <1>5, RestOfJoin
<1> DEFINE a == SubSeq(r, c + 1, Len(r))
           b == SubSeq(all, c + 1, Len(all))
<1> HIDE DEF c, all
<1>7. SUFFICES Alike(Loop(p), Loop(q), pre, a, b)
  BY <1>6 DEF c
<1>8. CASE p.state # Ground
  <2>1. c = 1
    BY <1>8 DEF c, Bite
  <2> DEFINE f == Taken(p, 1)
             g == Taken(q, 1)
  <2>2. Loop(p) = ChangeState(f, r[1]) /\ Loop(q) = ChangeState(g, r[1])
    BY <1>1, <1>2, <1>3, <1>8 DEF Loop
  <2>3. Twins(f, g, pre, a, b) /\ Still(p, f) /\ (Fresh(p) => Fresh(f))
    <3>1. 1 \in Nat /\ 1 <= Len(r) /\ 1 <= Len(all)
      BY <1>5, <2>1
    <3>2. /\ Twins(f, g, pre, SubSeq(r, 1 + 1, Len(r)), SubSeq(all, 1 + 1, Len(all)))
          /\ Still(p, f) /\ (Fresh(p) => Fresh(f))
      BY <1>1, <3>1, TakenPair
    <3>3. QED
      BY <2>1, <3>2
  <2> HIDE DEF f, g, a, b
  <2>4. Alike(f, g, pre, a, b) /\ f.state # Ground
    BY <1>1, <1>8, <2>3 DEF Alike, Ready, Still
  <2>5. QED
    BY <1>2, <2>2, <2>4, ChangeAlike
<1>9. CASE p.state = Ground /\ Verdict(r).does # "keep"
  <2> DEFINE v == Verdict(r)
  <2>1. Verdict(all) = v
    BY <1>1, <1>9, VerdictJoined DEF all
  <2>2. c = v.take /\ v.does \in {"escape", "tell"} /\ (v.does = "escape" => v.take = 1)
    BY <1>1, <1>9, VerdictSays DEF c, Bite
  <2>3. Loop(p) = AdvanceGround(p) /\ Loop(q) = AdvanceGround(q)
    BY <1>1, <1>9 DEF Loop
  <2>4. Dry(p) /\ p.state = Ground
    BY <1>1, <1>9 DEF Ready, Ground
  <2>5. /\ v.does = "escape" => AdvanceGround(p) = Taken(To(ResetParams(p), Escape), 1)
        /\ v.does = "tell" => AdvanceGround(p) = Taken(Perform(p, v.event), v.take)
    <3>1. GroundSays(p, v)
      BY <1>1, GroundDoes
    <3> HIDE DEF v
    <3>2. QED
      BY <3>1 DEF GroundSays
  <2>6. /\ v.does = "escape" => AdvanceGround(q) = Taken(To(ResetParams(q), Escape), 1)
        /\ v.does = "tell" => AdvanceGround(q) = Taken(Perform(q, v.event), v.take)
    <3>1. q.rest = all /\ all \in Seq(Octets) /\ all # <<>>
      BY <1>1, <1>3
    <3>2. GroundSays(q, Verdict(all))
      <4> HIDE DEF all
      <4>1. QED
        BY <3>1, GroundDoes
    <3>3. GroundSays(q, v)
      BY <2>1, <3>2
    <3> HIDE DEF v
    <3>4. QED
      BY <3>3 DEF GroundSays
  <2> HIDE DEF v
  <2>7. ASSUME NEW f, NEW g, Twins(f, g, pre, r, all), Ready(f)
        PROVE  Alike(Taken(f, c), Taken(g, c), pre, a, b)
    <3>1. Twins(Taken(f, c), Taken(g, c), pre, a, b) /\ Still(f, Taken(f, c)) /\ (Fresh(f) => Fresh(Taken(f, c)))
      BY <1>5, <2>7, TakenPair
    <3> HIDE DEF a, b
    <3>2. QED
      BY <2>7, <3>1 DEF Alike, Ready, Still
  <2>8. CASE v.does = "escape"
    <3> DEFINE f == ResetParams(p)
               g == ResetParams(q)
    <3>1. Twins(f, g, pre, r, all) /\ Dry(f) /\ Fresh(f) /\ Escape \in States
      BY <1>1, <2>4, ResetPair, GroundStates DEF Still
    <3> HIDE DEF f, g
    <3>2. Twins(To(f, Escape), To(g, Escape), pre, r, all) /\ Dry(To(f, Escape)) /\ Fresh(To(f, Escape))
      BY <3>1, ToPair
    <3>3. Ready(To(f, Escape))
      BY <3>2 DEF Ready
    <3>4. Loop(p) = Taken(To(f, Escape), c) /\ Loop(q) = Taken(To(g, Escape), c)
      BY <2>2, <2>3, <2>5, <2>6, <2>8 DEF f, g
    <3> DEFINE x == To(f, Escape)
               y == To(g, Escape)
    <3>5. Twins(x, y, pre, r, all) /\ Ready(x)
      BY <3>2, <3>3
    <3> HIDE DEF a, b, x, y
    <3>6. Alike(Taken(x, c), Taken(y, c), pre, a, b)
      BY <2>7, <3>5
    <3>7. QED
      BY <3>4, <3>6 DEF x, y
  <2>9. CASE v.does = "tell"
    <3> DEFINE f == Perform(p, v.event)
               g == Perform(q, v.event)
    <3>1. Twins(f, g, pre, r, all) /\ Still(p, f)
      BY <1>1, PerformPair
    <3>2. Loop(p) = Taken(f, c) /\ Loop(q) = Taken(g, c)
      BY <2>2, <2>3, <2>5, <2>6, <2>9
    <3> HIDE DEF a, b, f, g
    <3>3. Ready(f)
      BY <2>4, <3>1, GroundStates DEF Ready, Still
    <3>4. QED
      BY <2>7, <3>1, <3>2, <3>3
  <2>10. QED
    BY <2>2, <2>8, <2>9
<1>10. QED
  BY <1>1, <1>8, <1>9 DEF Keeps

-----------------------------------------------------------------------------
(* The character that the end of a read cut.                               *)

\* The head of what follows the first i - 1 bytes, and how far the text is valid
\* when its first i bytes have been looked at.
FromHere(text, i) == Utf8(SubSeq(text, i, Len(text)))
Grown(text, i, before) ==
  IF before = i - 1 /\ FromHere(text, i).kind = "char" THEN i - 1 + FromHere(text, i).len ELSE before
Valids(text, f, k) == f = [i \in 0 .. k |-> IF i = 0 THEN 0 ELSE Grown(text, i, f[i - 1])]

LEMMA ValidsExist ==
  ASSUME NEW text, NEW m \in Nat
  PROVE  \E f : Valids(text, f, m)
<1> DEFINE Reached == {k \in 0 .. m : \E f : Valids(text, f, k)}
<1>1. 0 \in Reached
  <2>1. Valids(text, [i \in 0 .. 0 |-> 0], 0)
    BY DEF Valids
  <2>2. QED
    BY <2>1
<1>2. ASSUME NEW k \in 1 .. m, k - 1 \in Reached
      PROVE  k \in Reached
  <2>1. PICK f : Valids(text, f, k - 1)
    BY <1>2
  <2> DEFINE g == [i \in 0 .. k |-> IF i = k THEN Grown(text, k, f[k - 1]) ELSE f[i]]
             h == [i \in 0 .. k |-> IF i = 0 THEN 0 ELSE Grown(text, i, g[i - 1])]
  <2>2. \A i \in 0 .. k - 1 : f[i] = IF i = 0 THEN 0 ELSE Grown(text, i, f[i - 1])
    <3> HIDE DEF g, h
    <3>1. QED
      BY <2>1, Zenon DEF Valids
  <2>3. \A i \in 0 .. k - 1 : g[i] = f[i]
    OBVIOUS
  <2>4. ASSUME NEW i \in 0 .. k PROVE g[i] = h[i]
    <3>1. CASE i = 0
      BY <3>1, <2>2, <2>3
    <3>2. CASE i \in 1 .. k - 1
      <4>1. h[i] = Grown(text, i, g[i - 1]) /\ i - 1 \in 0 .. k - 1 /\ i \in 0 .. k - 1
        BY <3>2
      <4>2. QED
        BY <4>1, <2>2, <2>3, <3>2
    <3>3. CASE i = k /\ k > 0
      <4>1. h[i] = Grown(text, k, g[k - 1]) /\ g[i] = Grown(text, k, f[k - 1])
        BY <3>3
      <4>2. g[k - 1] = f[k - 1]
        BY <2>3
      <4>3. QED
        BY <4>1, <4>2
    <3>4. QED
      BY <3>1, <3>2, <3>3
  <2>5. g = h
    <3>1. DOMAIN g = 0 .. k /\ DOMAIN h = 0 .. k
      OBVIOUS
    <3>2. g = [i \in 0 .. k |-> g[i]] /\ h = [i \in 0 .. k |-> h[i]]
      OBVIOUS
    <3>3. QED
      BY <2>4, <3>1, <3>2, Zenon
  <2>6. Valids(text, g, k)
    <3>1. g = [i \in 0 .. k |-> IF i = 0 THEN 0 ELSE Grown(text, i, g[i - 1])]
      BY <2>5
    <3> HIDE DEF g
    <3>2. QED
      BY <3>1 DEF Valids
  <2>7. QED
    <3> HIDE DEF g
    <3>1. QED
      BY <2>6
<1> HIDE DEF Reached
<1>3. \A n \in 0 .. m : n \in Reached
  BY <1>1, <1>2, Climbs
<1>4. m \in Reached
  BY <1>3
<1>5. QED
  BY <1>4 DEF Reached

LEMMA ValidSays ==
  ASSUME NEW text \in Seq(Octets), text # <<>>
  PROVE  /\ ValidUpTo(text) = 0 <=> Utf8(text).kind # "char"
         /\ ValidUpTo(text) \in 0 .. Len(text)
         /\ Utf8(text).kind = "char" => ValidUpTo(text) >= Utf8(text).len
<1> DEFINE m == Len(text)
           ok == Utf8(text).kind = "char"
           l == Utf8(text).len
<1>1. m \in Nat \ {0} /\ l \in 1 .. m
  BY TextHead, Utf8Says
<1>2. PICK f : Valids(text, f, m) /\ ValidUpTo(text) = f[m]
  <2> DEFINE V(f) == f = [i \in 0 .. m |-> IF i = 0 THEN 0
                            ELSE LET head == Utf8(SubSeq(text, i, Len(text)))
                                 IN IF f[i - 1] = i - 1 /\ head.kind = "char" THEN i - 1 + head.len ELSE f[i - 1]]
             x == CHOOSE f : V(f)
  <2>1. \A f : V(f) <=> Valids(text, f, m)
    BY DEF Valids, Grown, FromHere
  <2>2. ValidUpTo(text) = x[m]
    BY DEF ValidUpTo
  <2>3. \E f : V(f)
    <3> HIDE DEF V, m
    <3>1. QED
      BY <1>1, <2>1, ValidsExist
  <2> HIDE DEF V
  <2>4. V(x)
    BY <2>3
  <2> HIDE DEF x, m
  <2>5. Valids(text, x, m)
    BY <2>1, <2>4
  <2>6. QED
    BY <2>2, <2>5
<1> HIDE DEF m, ok, l
<1>3. f[0] = 0 /\ \A i \in 1 .. m : f[i] = Grown(text, i, f[i - 1])
  BY <1>1, <1>2 DEF Valids
<1>4. \A i \in 1 .. m : FromHere(text, i).len \in Nat /\ i - 1 + FromHere(text, i).len <= m
  <2>1. TAKE i \in 1 .. m
  <2> DEFINE s == SubSeq(text, i, m)
  <2>2. s \in Seq(Octets) /\ Len(s) = (m - i) + 1
    <3>1. i \in Nat \ {0} /\ m \in Nat /\ m <= Len(text) /\ i <= m + 1
      BY <1>1 DEF m
    <3>2. QED
      BY <3>1, PartOf
  <2>3. FromHere(text, i) = Utf8(s)
    BY DEF FromHere, m
  <2> HIDE DEF s
  <2>4. s # <<>>
    BY <1>1, <2>2
  <2>5. Utf8(s).len \in 1 .. Len(s)
    BY <2>2, <2>4, Utf8Says
  <2>6. QED
    BY <1>1, <2>2, <2>3, <2>5
<1>5. FromHere(text, 1) = Utf8(text)
  <2>1. SubSeq(text, 1, Len(text)) = text
    BY SubSeqFull
  <2>2. QED
    BY <2>1 DEF FromHere
<1> DEFINE Good == {i \in 0 .. m : i > 0 => /\ f[i] \in 0 .. m /\ (f[i] = 0 <=> ~ok)
                                            /\ (ok => f[i] >= l)}
<1>6. 0 \in Good
  BY <1>1
<1>7. ASSUME NEW i \in 1 .. m, i - 1 \in Good
      PROVE  i \in Good
  <2>1. f[i] = Grown(text, i, f[i - 1])
    BY <1>3
  <2>2. CASE i = 1
    <3>0. f[1] = Grown(text, 1, 0) /\ 1 - 1 = 0 /\ 0 + l = l
      <4>1. f[1 - 1] = 0
        BY <1>3
      <4>2. f[1] = Grown(text, 1, f[1 - 1])
        BY <2>1, <2>2
      <4>3. QED
        BY <1>1, <4>1, <4>2
    <3>1. f[i] = IF ok THEN l ELSE 0
      BY <1>1, <1>5, <2>2, <3>0 DEF Grown, ok, l
    <3>2. QED
      BY <1>1, <2>2, <3>1
  <2>3. CASE i # 1
    <3>1. f[i - 1] \in 0 .. m /\ (f[i - 1] = 0 <=> ~ok) /\ (ok => f[i - 1] >= l) /\ i - 1 > 0
      BY <1>7, <2>3
    <3>2. CASE f[i - 1] = i - 1 /\ FromHere(text, i).kind = "char"
      <4>1. f[i] = i - 1 + FromHere(text, i).len
        BY <2>1, <3>2 DEF Grown
      <4>2. FromHere(text, i).len \in Nat /\ i - 1 + FromHere(text, i).len <= m
        BY <1>4
      <4>3. QED
        BY <1>1, <3>1, <3>2, <4>1, <4>2
    <3>3. CASE ~(f[i - 1] = i - 1 /\ FromHere(text, i).kind = "char")
      <4>1. f[i] = f[i - 1]
        BY <2>1, <3>3 DEF Grown
      <4>2. QED
        BY <3>1, <4>1
    <3>4. QED
      BY <3>2, <3>3
  <2>4. QED
    BY <2>2, <2>3
<1> HIDE DEF Good
<1>8. \A i \in 0 .. m : i \in Good
  BY <1>1, <1>6, <1>7, Climbs
<1>9. m \in Good /\ m > 0
  BY <1>1, <1>8
<1>10. QED
  BY <1>2, <1>9 DEF Good, ok, l, m

-----------------------------------------------------------------------------
(* The parser between two passes.                                          *)

\* What a parser that waits for the rest of a character is.
Parked(p) == /\ WellShaped(p) /\ p.state = Ground /\ Dry(p) /\ p.rest = <<>>
             /\ p.partial # <<>> /\ Utf8(p.partial).kind = "cut"
Sound(p) == Alike(p, p, <<>>, p.rest, p.rest) \/ Parked(p)

LEMMA SoundShape ==
  ASSUME NEW p, Sound(p)
  PROVE  WellShaped(p) /\ (p.state # <<"OscString">> => Dry(p))
         /\ (p.rest # <<>> \/ p.partial = <<>> => Alike(p, p, <<>>, p.rest, p.rest))
BY GroundStates DEF Sound, Parked, Alike, Twins, Ready

LEMMA SelfAlike ==
  ASSUME NEW p, WellShaped(p), Ready(p), p.partial = <<>>
  PROVE  Alike(p, p, <<>>, p.rest, p.rest)
<1>1. ASeq(p.out) /\ ASeq(<<>>)
  <2>1. <<>> \in Seq(Octets)
    OBVIOUS
  <2>2. QED
    BY <2>1 DEF WellShaped, ASeq
<1>2. <<>> \o p.out = p.out
  BY <1>1, SeqJoins
<1>3. QED
  BY <1>1, <1>2 DEF Alike, Twins, WellShaped

\* A text with nothing after it.
LEMMA NoTail ==
  ASSUME NEW r \in Seq(Octets)
  PROVE  r \o <<>> = r /\ <<>> \in Seq(Octets) /\ SubSeq(r, Len(r) + 1, Len(r)) = <<>>
<1>1. r \o <<>> = r
  BY ConcatEmptySeq
<1>2. Len(r) \in Nat
  OBVIOUS
<1>3. SubSeq(r, Len(r) + 1, Len(r)) = <<>>
  <2>1. Len(r) + 1 \in Int /\ Len(r) \in Int /\ Len(r) < Len(r) + 1
    BY <1>2
  <2>2. QED
    BY <2>1, SubSeqEmpty
<1>4. QED
  BY <1>1, <1>3

LEMMA KeepParks ==
  ASSUME NEW p, Sound(p), p.rest # <<>>, Keeps(p)
  PROVE  /\ Loop(p) = [p EXCEPT !.partial = p.rest, !.rest = <<>>]
         /\ Parked(Loop(p)) /\ Loop(p).partial = p.rest /\ Loop(p).out = p.out
         /\ Bite(p) = Len(p.rest)
<1>1. WellShaped(p) /\ Dry(p) /\ p.state = Ground /\ p.rest \in Seq(Octets)
  BY SoundShape, GroundStates DEF Keeps, WellShaped, Ground
<1>2. AdvanceGround(p) = [p EXCEPT !.partial = p.rest, !.rest = <<>>] /\ Loop(p) = AdvanceGround(p)
  <2> DEFINE v == Verdict(p.rest)
  <2>1. GroundSays(p, v) /\ v.does = "keep"
    BY <1>1, GroundDoes DEF Keeps
  <2> HIDE DEF v
  <2>2. AdvanceGround(p) = [p EXCEPT !.partial = p.rest, !.rest = <<>>]
    BY <2>1 DEF GroundSays
  <2>3. QED
    BY <1>1, <2>2 DEF Loop
<1>3. Utf8(p.rest).kind = "cut"
  BY <1>1, VerdictSays DEF Keeps
<1>4. Parked(Loop(p)) /\ Loop(p).partial = p.rest /\ Loop(p).out = p.out
  <2> DEFINE f == [p EXCEPT !.partial = p.rest, !.rest = <<>>]
  <2>1. /\ DOMAIN f = Fields /\ f = [x \in Fields |-> f[x]]
        /\ f.partial = p.rest /\ f.rest = <<>>
        /\ f.inter = p.inter /\ f.param = p.param /\ f.groups = p.groups /\ f.open = p.open /\ f.len = p.len
        /\ f.ignoring = p.ignoring /\ f.state = p.state /\ f.fields = p.fields /\ f.raw = p.raw /\ f.out = p.out
    BY <1>1 DEF WellShaped, Fields
  <2>2. Loop(p) = f
    BY <1>2
  <2>3. <<>> \in Seq(Octets)
    OBVIOUS
  <2> HIDE DEF f
  <2>4. WellShaped(f)
    BY <1>1, <2>1, <2>3 DEF WellShaped
  <2>5. QED
    BY <1>1, <1>3, <2>1, <2>2, <2>4 DEF Parked, Dry
<1>5. Bite(p) = Len(p.rest)
  <2>1. p.rest # <<>> /\ Verdict(p.rest).does = "keep"
    BY DEF Keeps
  <2>2. Plain(p.rest) = p.rest /\ Utf8(p.rest).kind = "cut"
    BY <1>1, <2>1, VerdictSays
  <2>3. Len(p.rest) \in Nat
    BY <1>1
  <2>4. Verdict(p.rest).take = Len(p.rest)
    BY <2>1, <2>2, <2>3 DEF Verdict
  <2>5. QED
    BY <1>1, <2>4 DEF Bite
<1>6. QED
  BY <1>2, <1>4, <1>5

\* A pass takes some bytes and leaves the rest.
LEMMA LoopSound ==
  ASSUME NEW p, Sound(p), p.rest # <<>>
  PROVE  /\ Sound(Loop(p)) /\ Loop(p).rest = SubSeq(p.rest, Bite(p) + 1, Len(p.rest))
         /\ ~Keeps(p) => Alike(Loop(p), Loop(p), <<>>, Loop(p).rest, Loop(p).rest)
<1>1. Alike(p, p, <<>>, p.rest, p.rest) /\ p.rest \in Seq(Octets)
  BY SoundShape DEF WellShaped
<1>2. CASE Keeps(p)
  <2>1. Parked(Loop(p)) /\ Bite(p) = Len(p.rest)
    BY <1>2, KeepParks
  <2>2. Loop(p).rest = <<>>
    BY <2>1 DEF Parked
  <2>3. QED
    BY <1>1, <1>2, <2>1, <2>2, NoTail DEF Sound
<1>3. CASE ~Keeps(p)
  <2> DEFINE r == p.rest
             e == <<>>
             after == SubSeq(r, Bite(p) + 1, Len(r))
  <2>1. r \o e = r /\ e \in Seq(Octets)
    BY <1>1, NoTail
  <2>2. Alike(p, p, <<>>, r, r \o e) /\ r # <<>>
    BY <1>1, <2>1
  <2> HIDE DEF e
  <2>3. Alike(Loop(p), Loop(p), <<>>, after, after \o e)
    BY <1>3, <2>1, <2>2, LoopAlike
  <2>4. Loop(p).rest = after /\ Loop(p).rest = after \o e
    BY <2>3 DEF Alike, Twins
  <2> HIDE DEF after
  <2>5. Alike(Loop(p), Loop(p), <<>>, Loop(p).rest, Loop(p).rest)
    BY <2>3, <2>4
  <2>6. QED
    BY <2>4, <2>5 DEF Sound, after
<1>4. QED
  BY <1>2, <1>3

LEMMA Utf8Tails ==
  ASSUME NEW text \in Seq(Octets), text # <<>>
  PROVE  \A i \in 2 .. Utf8(text).len : text[i] \in 128 .. 191
<1>1. Utf8(text).kind # "bad" => \A i \in 2 .. Utf8(text).len : text[i] \in 128 .. 191
  BY Utf8Says
<1>2. Utf8(text).kind = "bad" => \A i \in 2 .. Utf8(text).len : text[i] \in 128 .. 191
  BY Utf8Says
<1>3. QED
  BY <1>1, <1>2

LEMMA HighLeads ==
  ASSUME NEW x, x \in 194 .. 244
  PROVE  ~(x < 160) /\ x # 27
OBVIOUS

LEMMA HighTails ==
  ASSUME NEW x, x \in 128 .. 191
  PROVE  x # 27
OBVIOUS

LEMMA VerdictOfCut ==
  ASSUME NEW all \in Seq(Octets), all # <<>>, Utf8(all).kind = "cut"
  PROVE  Verdict(all).does = "keep"
<1>1. /\ Len(all) \in Nat \ {0} /\ all[1] \in 194 .. 244 /\ \A i \in 2 .. Len(all) : all[i] \in 128 .. 191
  <2>1. Utf8(all).len = Len(all)
    BY Utf8Says
  <2>4. all[1] \in 194 .. 244
    BY Utf8Says
  <2>2. \A i \in 2 .. Utf8(all).len : all[i] \in 128 .. 191
    BY Utf8Tails
  <2>3. QED
    BY <2>1, <2>2, <2>4, TextHead
<1>2. ASSUME NEW i \in 1 .. Len(all) PROVE all[i] # ESC
  <2>1. i = 1 \/ i \in 2 .. Len(all)
    BY <1>1
  <2>2. QED
    <3>1. CASE i = 1
      <4>1. all[i] \in 194 .. 244
        BY <1>1, <3>1
      <4>2. QED
        BY <4>1, HighLeads DEF ESC
    <3>2. CASE i \in 2 .. Len(all)
      <4>1. all[i] \in 128 .. 191
        BY <1>1, <3>2
      <4>2. QED
        BY <4>1, HighTails DEF ESC
    <3>3. QED
      BY <2>1, <3>1, <3>2
<1>3. Plain(all) = all
  <2>1. {i \in 1 .. Len(all) : all[i] = ESC} = {}
    BY <1>2
  <2>2. QED
    BY <2>1 DEF Plain
<1>4. QED
  BY <1>1, <1>3 DEF Verdict

\* The bytes of a character beyond ASCII, or of what fails to be one, decide what
\* is told whatever follows them.
LEMMA VerdictOfHead ==
  ASSUME NEW all \in Seq(Octets), NEW b \in Seq(Octets), b # <<>>, Len(b) <= Len(all),
         \A i \in 1 .. Len(b) : all[i] = b[i], b[1] \in 194 .. 244, Utf8(b).kind # "cut",
         Utf8(b).kind = "char" => ~C1Char(SubSeq(b, 1, Utf8(b).len)) /\ Utf8(b).len > 1
  PROVE  /\ Verdict(all).does = "tell" /\ Verdict(all).take = Utf8(b).len
         /\ Verdict(all).event = IF Utf8(b).kind = "char" THEN <<"print", SubSeq(b, 1, Utf8(b).len)>>
                                 ELSE Replacement
<1> DEFINE L == Utf8(b).len
           text == Plain(all)
           n == Len(text)
           head == Utf8(text)
<1>1. /\ Len(b) \in Nat \ {0} /\ L \in 1 .. Len(b) /\ Utf8(b).kind \in {"bad", "char"}
      /\ \A i \in 2 .. L : b[i] \in 128 .. 191
  <2>1. Utf8(b).kind \in {"bad", "char", "cut"} /\ Utf8(b).len \in 1 .. Len(b) /\ Len(b) \in Nat \ {0}
    BY TextHead, Utf8Says
  <2>2. \A i \in 2 .. Utf8(b).len : b[i] \in 128 .. 191
    BY Utf8Tails
  <2>3. QED
    BY <2>1, <2>2
<1>2. Len(all) \in Nat /\ all # <<>> /\ all[1] \in 194 .. 244 /\ all[1] = b[1]
  <2>1. Len(all) \in Nat /\ Len(all) > 0
    BY <1>1
  <2>2. all # <<>>
    BY <2>1
  <2>3. all[1] = b[1]
    BY <1>1
  <2>4. QED
    BY <2>1, <2>2, <2>3
<1>3. Utf8(all) = Utf8(b)
  BY Utf8Extends
<1>4. /\ text \in Seq(Octets) /\ n \in Nat /\ n <= Len(all)
      /\ \A i \in 1 .. n : text[i] = all[i] /\ all[i] # ESC
      /\ n < Len(all) => all[n + 1] = ESC
  BY PlainSays
<1> HIDE DEF L, text, n, head
<1>5. n >= L
  <2>1. SUFFICES ASSUME n < L PROVE FALSE
    BY <1>1, <1>4
  <2>2. n + 1 \in 1 .. L /\ n < Len(all) /\ n + 1 \in 1 .. Len(b)
    BY <1>1, <1>2, <1>4, <2>1
  <2>3. b[n + 1] = ESC
    BY <1>4, <2>2
  <2>4. b[n + 1] # 27
    <3>1. n + 1 = 1 \/ n + 1 \in 2 .. L
      BY <1>1, <1>4, <2>2
    <3>2. CASE n + 1 = 1
      <4>1. b[n + 1] \in 194 .. 244
        BY <3>2
      <4>2. QED
        BY <4>1, HighLeads
    <3>3. CASE n + 1 \in 2 .. L
      <4> DEFINE k == n + 1
      <4>1. k \in 2 .. L
        BY <3>3
      <4> HIDE DEF k
      <4>2. b[k] \in 128 .. 191
        BY <1>1, <4>1
      <4>3. QED
        BY <4>2, HighTails DEF k
    <3>4. QED
      BY <3>1, <3>2, <3>3
  <2>5. QED
    BY <2>3, <2>4 DEF ESC
<1>6. text # <<>> /\ n > 0 /\ text[1] = all[1]
  <2>1. n > 0
    BY <1>1, <1>4, <1>5
  <2>2. text # <<>>
    BY <1>4, <2>1 DEF n
  <2>3. QED
    BY <1>4, <2>1, <2>2
<1>7. /\ head.kind # "cut" => head = Utf8(b)
      /\ head.kind = "cut" /\ Utf8(b).kind = "bad" => L >= n
  <2>1. Len(text) <= Len(all) /\ \A i \in 1 .. Len(text) : all[i] = text[i]
    BY <1>4 DEF n
  <2>2. /\ Utf8(text).kind # "cut" => Utf8(all) = Utf8(text)
        /\ Utf8(text).kind = "cut" /\ Utf8(all).kind = "bad" => Utf8(all).len >= Len(text)
    BY <1>4, <1>6, <2>1, Utf8Extends
  <2>3. QED
    BY <1>3, <2>2 DEF head, L, n
<1>8. Verdict(all) = IF text = <<>> THEN [does |-> "escape", event |-> <<>>, take |-> 1]
          ELSE IF head.kind # "cut" THEN [does |-> "tell", event |-> Said(text, head), take |-> head.len]
          ELSE IF n < Len(all) THEN [does |-> "tell", event |-> Replacement, take |-> n]
          ELSE [does |-> "keep", event |-> <<>>, take |-> Len(all)]
  BY DEF Verdict, text, head, n
<1>9. CASE head.kind # "cut"
  <2>1. head = Utf8(b) /\ head.len = L
    BY <1>7, <1>9 DEF L
  <2>2. CASE Utf8(b).kind = "char"
    <3>1. SubSeq(text, 1, L) = SubSeq(b, 1, L)
      <4>1. L \in Nat /\ L <= Len(text) /\ L <= Len(b)
        BY <1>1, <1>4, <1>5 DEF n
      <4>2. \A i \in 1 .. L : text[i] = b[i]
        <5>1. \A i \in 1 .. L : i \in 1 .. n /\ i \in 1 .. Len(b)
          BY <1>1, <1>4, <1>5
        <5>2. QED
          BY <1>4, <5>1
      <4>3. QED
        BY <1>4, <4>1, <4>2, HeadsAgree
    <3>2. Len(SubSeq(b, 1, L)) = L
      <4>1. L \in Nat /\ L <= Len(b)
        BY <1>1
      <4>2. QED
        BY <4>1, HeadOf
    <3>3. ~C1Char(SubSeq(b, 1, L)) /\ L > 1
      BY <2>2 DEF L
    <3>4. Said(text, head) = <<"print", SubSeq(b, 1, L)>>
      <4> DEFINE char == SubSeq(b, 1, L)
      <4>1. SubSeq(text, 1, head.len) = char /\ head.kind = "char" /\ ~C1Char(char) /\ Len(char) # 1
        BY <1>1, <2>1, <2>2, <3>1, <3>2, <3>3
      <4> HIDE DEF char
      <4>2. Said(text, head) = <<"print", char>>
        BY <4>1 DEF Said
      <4>3. QED
        BY <4>2 DEF char
    <3>5. QED
      BY <1>6, <1>8, <1>9, <2>1, <2>2, <3>4 DEF L
  <2>3. CASE Utf8(b).kind = "bad"
    <3>1. ~(text[1] < 160)
      <4>1. text[1] \in 194 .. 244
        BY <1>2, <1>6
      <4>2. QED
        BY <4>1, HighLeads
    <3>2. Said(text, head) = Replacement
      BY <2>1, <2>3, <3>1 DEF Said
    <3>3. QED
      BY <1>6, <1>8, <1>9, <2>1, <2>3, <3>2 DEF L
  <2>4. QED
    BY <1>1, <2>2, <2>3
<1>10. CASE head.kind = "cut"
  <2>1. head.len = n /\ n <= Follows(text[1])
    BY <1>4, <1>6, <1>10, Utf8Says DEF head, n
  <2>2. Utf8(b).kind = "bad"
    <3>1. SUFFICES ASSUME Utf8(b).kind = "char" PROVE FALSE
      BY <1>1
    <3>2. L = Follows(b[1]) + 1 /\ b[1] \in Octets /\ b[1] \notin NoLead
      BY <1>1, <3>1, Utf8Says, TextHead DEF L
    <3>3. Follows(b[1]) \in Nat
      BY <3>2, LeadFollows
    <3>4. QED
      BY <1>2, <1>4, <1>5, <1>6, <2>1, <3>2, <3>3
  <2>3. n = L
    BY <1>1, <1>4, <1>5, <1>7, <1>10, <2>2
  <2>4. n < Len(all)
    <3>1. SUFFICES ASSUME ~(n < Len(all)) PROVE FALSE
      OBVIOUS
    <3>2. n = Len(all)
      BY <1>2, <1>4, <3>1
    <3>3. text = all
      <4>1. Len(text) = Len(all) /\ \A i \in 1 .. Len(text) : text[i] = all[i]
        BY <1>4, <3>2 DEF n
      <4>2. QED
        BY <1>4, <4>1, SeqEqual
    <3>4. QED
      BY <1>3, <1>10, <2>2, <3>3 DEF head
  <2>5. QED
    BY <1>6, <1>8, <1>10, <2>2, <2>3, <2>4 DEF L
<1>11. QED
  BY <1>9, <1>10

\* What a waiting parser does with the next read: the buffer it looks at.
BufferSays(p, bytes, buffer, all) ==
  /\ buffer \in Seq(Octets) /\ all \in Seq(Octets) /\ all # <<>> /\ buffer # <<>>
  /\ Len(all) = Len(p.partial) + Len(bytes)
  /\ Len(p.partial) \in 1 .. 3 /\ Len(buffer) > Len(p.partial) /\ Len(buffer) <= Len(all)
  /\ \A i \in 1 .. Len(buffer) : all[i] = buffer[i]
  /\ \A i \in 1 .. Len(p.partial) : buffer[i] = p.partial[i]
  /\ p.partial[1] \in 194 .. 244 /\ buffer[1] = p.partial[1]
  /\ Len(buffer) < 4 => buffer = all

LEMMA BufferIs ==
  ASSUME NEW p, Parked(p), NEW bytes \in Seq(Octets), bytes # <<>>, NEW f, f = [p EXCEPT !.rest = bytes]
  PROVE  BufferSays(p, bytes, Buffered(f), p.partial \o bytes)
<1> DEFINE buffer == Buffered(f)
           all == p.partial \o bytes
           n == Len(p.partial)
           k == IF Len(bytes) <= 4 - n THEN Len(bytes) ELSE 4 - n
           head == SubSeq(bytes, 1, k)
<1>1. /\ p.partial \in Seq(Octets) /\ p.partial # <<>> /\ Utf8(p.partial).kind = "cut"
      /\ DOMAIN p = Fields
  BY DEF Parked, WellShaped
<1> DEFINE t == p.partial
<1>2. n <= Follows(p.partial[1]) /\ p.partial[1] \in 194 .. 244 /\ n \in Nat \ {0}
      /\ p.partial[1] \in Octets /\ p.partial[1] \notin NoLead
  <2>1. t \in Seq(Octets) /\ t # <<>> /\ Utf8(t).kind = "cut"
    BY <1>1
  <2> HIDE DEF t
  <2>2. Len(t) <= Follows(t[1]) /\ t[1] \in 194 .. 244
    BY <2>1, Utf8Says
  <2>3. t[1] \notin NoLead
    BY <2>1, Utf8Says
  <2>4. Len(t) \in Nat \ {0} /\ t[1] \in Octets
    BY <2>1, TextHead
  <2>5. QED
    BY <2>2, <2>3, <2>4 DEF t
<1> HIDE DEF n
<1>3. n \in 1 .. 3 /\ Len(bytes) \in Nat \ {0}
  <2>1. Len(bytes) \in Nat \ {0}
    BY TextHead
  <2>2. Follows(p.partial[1]) \in 0 .. 3
    BY <1>2, LeadFollows
  <2>3. QED
    BY <1>2, <2>1, <2>2
<1>4. f.partial = p.partial /\ f.rest = bytes
  BY <1>1 DEF Fields
<1>5. Min({Len(bytes), 4 - n}) = k
  <2> DEFINE x == Len(bytes)
             y == 4 - n
  <2>1. x \in Nat /\ y \in Nat
    BY <1>3
  <2> HIDE DEF x, y
  <2>2. Min({x, y}) = IF x <= y THEN x ELSE y
    BY <2>1, LesserOf
  <2>3. QED
    BY <2>2 DEF x, y
<1>6. buffer = p.partial \o head
  BY <1>4, <1>5 DEF Buffered, n
<1>7. k \in Nat \ {0} /\ k <= Len(bytes) /\ (k < 4 - n => k = Len(bytes))
  <2> DEFINE x == Len(bytes)
             y == 4 - n
  <2>1. x \in Nat \ {0} /\ y \in Nat \ {0} /\ k = (IF x <= y THEN x ELSE y)
    BY <1>3
  <2> HIDE DEF x, y, k
  <2>2. k \in Nat \ {0} /\ k <= x /\ (k < y => k = x)
    BY <2>1
  <2>3. QED
    BY <2>2 DEF x, y
<1> HIDE DEF k, buffer, all
<1>8. head \in Seq(Octets) /\ Len(head) = k /\ \A i \in 1 .. k : head[i] = bytes[i]
  BY <1>7, HeadOf
<1> HIDE DEF head
<1>9. /\ buffer \in Seq(Octets) /\ Len(buffer) = n + k
      /\ \A i \in 1 .. n : buffer[i] = p.partial[i]
      /\ \A i \in 1 .. k : buffer[n + i] = head[i]
  BY <1>1, <1>6, <1>8, JoinSays DEF n
<1>10. /\ all \in Seq(Octets) /\ Len(all) = n + Len(bytes)
       /\ \A i \in 1 .. n : all[i] = p.partial[i]
       /\ \A i \in 1 .. Len(bytes) : all[n + i] = bytes[i]
  BY <1>1, JoinSays DEF all, n
<1>11. ASSUME NEW i \in 1 .. Len(buffer) PROVE all[i] = buffer[i]
  <2>1. CASE i \in 1 .. n
    BY <1>9, <1>10, <2>1
  <2>2. CASE i \notin 1 .. n
    <3> DEFINE j == i - n
    <3>1. j \in 1 .. k /\ j \in 1 .. Len(bytes) /\ n + j = i
      BY <1>3, <1>7, <1>9, <1>11, <2>2
    <3> HIDE DEF j
    <3>2. buffer[n + j] = head[j] /\ head[j] = bytes[j] /\ all[n + j] = bytes[j]
      BY <1>8, <1>9, <1>10, <3>1
    <3>3. QED
      BY <3>1, <3>2
  <2>3. QED
    BY <2>1, <2>2
<1>12. ASSUME Len(buffer) < 4 PROVE buffer = all
  <2>1. Len(buffer) = Len(all)
    BY <1>3, <1>7, <1>9, <1>10, <1>12
  <2>2. QED
    BY <1>9, <1>10, <1>11, <2>1, SeqEqual
<1>13. Len(buffer) > n /\ Len(buffer) <= Len(all) /\ Len(all) > 0 /\ Len(buffer) > 0
  BY <1>3, <1>7, <1>9, <1>10
<1>14. all # <<>> /\ buffer # <<>> /\ buffer[1] = p.partial[1]
  BY <1>3, <1>9, <1>13
<1>15. QED
  BY <1>2, <1>3, <1>9, <1>10, <1>11, <1>12, <1>13, <1>14 DEF buffer, all, n, BufferSays

LEMMA RestBeyond ==
  ASSUME NEW a \in Seq(Octets), NEW b \in Seq(Octets), NEW n \in Nat, Len(a) <= n, n <= Len(a \o b)
  PROVE  /\ SubSeq(a \o b, n + 1, Len(a \o b)) = SubSeq(b, (n - Len(a)) + 1, Len(b))
         /\ n - Len(a) \in Nat /\ n - Len(a) <= Len(b)
<1> DEFINE all == a \o b
           k == n - Len(a)
           c == SubSeq(all, n + 1, Len(all))
           d == SubSeq(b, k + 1, Len(b))
<1>1. /\ all \in Seq(Octets) /\ Len(all) = Len(a) + Len(b) /\ Len(a) \in Nat /\ Len(b) \in Nat
      /\ \A i \in 1 .. Len(b) : all[Len(a) + i] = b[i]
  BY JoinSays
<1>2. k \in Nat /\ k <= Len(b) /\ n <= Len(all)
  BY <1>1
<1> HIDE DEF all, k
<1>3. c \in Seq(Octets) /\ Len(c) = Len(all) - n /\ \A i \in 1 .. Len(all) - n : c[i] = all[n + i]
  BY <1>1, <1>2, RestOf
<1>4. d \in Seq(Octets) /\ Len(d) = Len(b) - k /\ \A i \in 1 .. Len(b) - k : d[i] = b[k + i]
  BY <1>1, <1>2, RestOf
<1> HIDE DEF c, d
<1>5. Len(c) = Len(d)
  BY <1>1, <1>3, <1>4 DEF k
<1>6. ASSUME NEW i \in 1 .. Len(c) PROVE c[i] = d[i]
  <2>1. k + i \in 1 .. Len(b) /\ Len(a) + (k + i) = n + i /\ i \in 1 .. Len(b) - k /\ i \in 1 .. Len(all) - n
    BY <1>1, <1>2, <1>3, <1>6 DEF k
  <2>2. all[Len(a) + (k + i)] = b[k + i]
    BY <1>1, <2>1
  <2>3. QED
    BY <1>3, <1>4, <2>1, <2>2
<1>7. c = d
  BY <1>3, <1>4, <1>5, <1>6, SeqEqual
<1>8. QED
  BY <1>2, <1>7 DEF c, d, all, k

\* A waiting parser with the bytes it kept put back before the next read.
Unread(p, bytes) == [p EXCEPT !.partial = <<>>, !.rest = p.partial \o bytes]

LEMMA UnreadShape ==
  ASSUME NEW p, Parked(p), NEW bytes \in Seq(Octets)
  PROVE  /\ Alike(Unread(p, bytes), Unread(p, bytes), <<>>, p.partial \o bytes, p.partial \o bytes)
         /\ Unread(p, bytes).rest = p.partial \o bytes /\ Unread(p, bytes).state = Ground
         /\ Unread(p, bytes).out = p.out
<1> DEFINE all == p.partial \o bytes
           w == Unread(p, bytes)
<1>1. p.partial \in Seq(Octets) /\ WellShaped(p) /\ p.state = Ground /\ Dry(p)
  BY DEF Parked, WellShaped
<1>2. all \in Seq(Octets) /\ <<>> \in Seq(Octets)
  BY <1>1, JoinSays
<1> HIDE DEF all
<1>3. w = [p EXCEPT !.partial = <<>>, !.rest = all]
  BY DEF Unread, all
<1>4. /\ DOMAIN w = Fields /\ w = [x \in Fields |-> w[x]]
      /\ w.partial = <<>> /\ w.rest = all
      /\ w.inter = p.inter /\ w.param = p.param /\ w.groups = p.groups /\ w.open = p.open /\ w.len = p.len
      /\ w.ignoring = p.ignoring /\ w.state = p.state /\ w.fields = p.fields /\ w.raw = p.raw /\ w.out = p.out
  BY <1>1, <1>3 DEF WellShaped, Fields
<1> HIDE DEF w
<1>5. WellShaped(w)
  BY <1>1, <1>2, <1>4 DEF WellShaped
<1>6. Ready(w)
  BY <1>1, <1>4, GroundStates DEF Ready, Dry
<1>7. QED
  BY <1>1, <1>4, <1>5, <1>6, SelfAlike DEF w, all

\* What is left of a waiting parser when a character is told and n bytes of the
\* new read are passed over.
Resumed(p, bytes, e, n) ==
  [p EXCEPT !.partial = <<>>, !.rest = SubSeq(bytes, n + 1, Len(bytes)), !.out = Append(p.out, e)]

LEMMA ResumedShape ==
  ASSUME NEW p, Parked(p), NEW bytes \in Seq(Octets), NEW e, NEW n \in Nat, n <= Len(bytes)
  PROVE  Sound(Resumed(p, bytes, e, n))
<1> DEFINE r == SubSeq(bytes, n + 1, Len(bytes))
           o == Append(p.out, e)
           y == Resumed(p, bytes, e, n)
<1>1. WellShaped(p) /\ p.state = Ground /\ Dry(p)
  BY DEF Parked
<1>2. r \in Seq(Octets) /\ <<>> \in Seq(Octets)
  BY RestOf
<1>3. ASeq(o)
  BY <1>1, SeqAppends DEF WellShaped
<1>4. y = [p EXCEPT !.partial = <<>>, !.rest = r, !.out = o]
  BY DEF Resumed
<1> HIDE DEF r, o
<1>5. /\ DOMAIN y = Fields /\ y = [x \in Fields |-> y[x]]
      /\ y.partial = <<>> /\ y.rest = r /\ y.out = o
      /\ y.inter = p.inter /\ y.param = p.param /\ y.groups = p.groups /\ y.open = p.open /\ y.len = p.len
      /\ y.ignoring = p.ignoring /\ y.state = p.state /\ y.fields = p.fields /\ y.raw = p.raw
  BY <1>1, <1>4 DEF WellShaped, Fields
<1> HIDE DEF y
<1>6. WellShaped(y)
  BY <1>1, <1>2, <1>3, <1>5 DEF WellShaped
<1>7. Ready(y)
  BY <1>1, <1>5, GroundStates DEF Ready, Dry
<1>8. QED
  BY <1>5, <1>6, <1>7, SelfAlike DEF Sound, y

\* Three things a waiting parser may do.
CutDoes(p, f, buffer) ==
  Utf8(buffer).kind = "cut" => Resume(f) = [p EXCEPT !.partial = buffer, !.rest = <<>>]
BadDoes(p, bytes, f, buffer) ==
  Utf8(buffer).kind = "bad" =>
    /\ Utf8(buffer).len \in Len(p.partial) .. Len(buffer)
    /\ Resume(f) = Resumed(p, bytes, Replacement, Utf8(buffer).len - Len(p.partial))
CharDoes(p, bytes, f, buffer) ==
  Utf8(buffer).kind = "char" =>
    /\ Utf8(buffer).len \in Len(p.partial) + 1 .. Len(buffer)
    /\ ValidUpTo(buffer) \in Utf8(buffer).len .. Len(buffer)
    /\ Resume(f) = Resumed(p, bytes, <<"print", SubSeq(buffer, 1, Utf8(buffer).len)>>,
                           (IF ValidUpTo(buffer) = Len(buffer) THEN Utf8(buffer).len
                            ELSE ValidUpTo(buffer)) - Len(p.partial))

LEMMA ResumeDoes ==
  ASSUME NEW p, Parked(p), NEW bytes \in Seq(Octets), bytes # <<>>, NEW f, f = [p EXCEPT !.rest = bytes]
  PROVE  /\ CutDoes(p, f, Buffered(f)) /\ BadDoes(p, bytes, f, Buffered(f))
         /\ CharDoes(p, bytes, f, Buffered(f))
<1> DEFINE buffer == Buffered(f)
           head == Utf8(buffer)
           valid == ValidUpTo(buffer)
           n == Len(p.partial)
           used == IF valid = Len(buffer) \/ valid = 0 THEN head.len ELSE valid
           says == IF valid = 0 THEN Replacement ELSE <<"print", SubSeq(buffer, 1, head.len)>>
<1>1. /\ buffer \in Seq(Octets) /\ buffer # <<>>
      /\ n \in 1 .. 3 /\ Len(buffer) > n
      /\ \A i \in 1 .. n : buffer[i] = p.partial[i]
  <2> DEFINE all == p.partial \o bytes
  <2>1. BufferSays(p, bytes, buffer, all)
    BY BufferIs
  <2> HIDE DEF buffer, all
  <2>2. QED
    BY <2>1 DEF BufferSays
<1>2. /\ p.partial \in Seq(Octets) /\ p.partial # <<>> /\ Utf8(p.partial).kind = "cut"
      /\ DOMAIN p = Fields /\ p.rest = <<>>
  BY DEF Parked, WellShaped
<1>3. Resume(f) = CASE f.partial = <<>> -> f
       [] f.partial # <<>> /\ valid = 0 /\ head.kind = "cut" ->
            [f EXCEPT !.partial = buffer, !.rest = <<>>]
       [] OTHER -> [Taken(Perform(f, says), used - Len(f.partial)) EXCEPT !.partial = <<>>]
  BY DEF Resume
<1>4. f.partial = p.partial /\ f.rest = bytes /\ DOMAIN f = Fields /\ f.out = p.out
  BY <1>2 DEF Fields
<1>5. /\ head.kind \in {"bad", "char", "cut"} /\ head.len \in 1 .. Len(buffer)
      /\ Len(buffer) \in Nat
  BY <1>1, Utf8Says
<1>6. /\ valid = 0 <=> head.kind # "char"
      /\ valid \in 0 .. Len(buffer)
      /\ head.kind = "char" => valid >= head.len
  BY <1>1, ValidSays
<1>7. head.kind = "bad" => head.len >= n
  <2> DEFINE a == p.partial
  <2>1. /\ a \in Seq(Octets) /\ a # <<>> /\ Len(a) <= Len(buffer) /\ Utf8(a).kind = "cut"
        /\ \A i \in 1 .. Len(a) : buffer[i] = a[i]
    <3>1. a \in Seq(Octets) /\ a # <<>> /\ Utf8(a).kind = "cut" /\ Len(a) = n
      BY <1>2
    <3>2. \A i \in 1 .. n : buffer[i] = a[i]
      BY <1>1
    <3> HIDE DEF a, buffer, n
    <3>3. QED
      BY <1>1, <3>1, <3>2
  <2> HIDE DEF a, buffer
  <2>2. Utf8(a).kind = "cut" /\ Utf8(buffer).kind = "bad" => Utf8(buffer).len >= Len(a)
    BY <1>1, <2>1, Utf8Extends
  <2>3. QED
    BY <2>1, <2>2 DEF a
<1>8. head.kind = "char" => head.len > n
  <2> DEFINE a == p.partial
  <2>1. a \in Seq(Octets) /\ a # <<>> /\ Utf8(a).kind = "cut"
    BY <1>2
  <2>2. buffer[1] = a[1]
    BY <1>1
  <2>3. Follows(a[1]) \in 0 .. 3
    <3>1. a[1] \notin NoLead /\ a[1] \in Octets
      <4> HIDE DEF a
      <4>1. QED
        BY <2>1, Utf8Says, TextHead
    <3>2. QED
      BY <3>1, LeadFollows
  <2> HIDE DEF a, buffer
  <2>4. Len(a) <= Follows(a[1])
    BY <2>1, Utf8Says
  <2>5. Utf8(buffer).kind = "char" => Utf8(buffer).len = Follows(buffer[1]) + 1
    BY <1>1, Utf8Says
  <2>6. Len(a) \in Nat
    BY <2>1
  <2>7. QED
    <3> DEFINE k == Follows(a[1])
               m == Len(a)
    <3>1. k \in Nat /\ m \in Nat /\ m <= k /\ (head.kind = "char" => head.len = k + 1)
      BY <2>2, <2>3, <2>4, <2>5, <2>6
    <3> HIDE DEF k, m, head
    <3>2. head.kind = "char" => head.len > m
      BY <3>1
    <3>3. QED
      BY <3>2 DEF m, a
<1>9. ASSUME NEW e, NEW k, f.partial = p.partial
      PROVE  [Taken(Perform(f, e), k) EXCEPT !.partial = <<>>] = Resumed(p, bytes, e, k)
  BY <1>2, <1>4 DEF Taken, Perform, Resumed, Fields
<1> HIDE DEF valid, head, buffer, n
<1>10. CASE head.kind = "cut"
  <2>1. Resume(f) = [f EXCEPT !.partial = buffer, !.rest = <<>>]
    BY <1>2, <1>3, <1>4, <1>6, <1>10
  <2>2. [f EXCEPT !.partial = buffer, !.rest = <<>>] = [p EXCEPT !.partial = buffer, !.rest = <<>>]
    BY <1>2 DEF Fields
  <2>3. QED
    BY <1>10, <2>1, <2>2 DEF valid, head, buffer, n, CutDoes, BadDoes, CharDoes
<1>11. CASE head.kind = "bad"
  <2>1. valid = 0 /\ used = head.len /\ says = Replacement
    BY <1>6, <1>11
  <2>2. Resume(f) = [Taken(Perform(f, says), used - Len(f.partial)) EXCEPT !.partial = <<>>]
    BY <1>2, <1>3, <1>4, <1>11
  <2>3. Resume(f) = [Taken(Perform(f, Replacement), head.len - n) EXCEPT !.partial = <<>>]
    BY <1>4, <2>1, <2>2 DEF n
  <2>4. Resume(f) = Resumed(p, bytes, Replacement, head.len - n)
    BY <1>4, <1>9, <2>3
  <2>5. head.len \in n .. Len(buffer)
    BY <1>1, <1>5, <1>7, <1>11
  <2>6. QED
    BY <1>11, <2>4, <2>5 DEF valid, head, buffer, n, CutDoes, BadDoes, CharDoes
<1>12. CASE head.kind = "char"
  <2> DEFINE take == IF valid = Len(buffer) THEN head.len ELSE valid
             c == <<"print", SubSeq(buffer, 1, head.len)>>
  <2>1. valid # 0
    BY <1>6, <1>12
  <2>2. used = take /\ says = c
    BY <2>1
  <2>3. Resume(f) = [Taken(Perform(f, says), used - Len(f.partial)) EXCEPT !.partial = <<>>]
    BY <1>2, <1>3, <1>4, <1>12
  <2> HIDE DEF used, says, take, c
  <2>4. Resume(f) = [Taken(Perform(f, c), take - n) EXCEPT !.partial = <<>>]
    BY <1>4, <2>2, <2>3 DEF n
  <2>5. Resume(f) = Resumed(p, bytes, c, take - n)
    BY <1>4, <1>9, <2>4
  <2>6. head.len \in n + 1 .. Len(buffer) /\ valid \in head.len .. Len(buffer)
    BY <1>1, <1>5, <1>6, <1>8, <1>12
  <2>7. QED
    BY <1>12, <2>5, <2>6 DEF valid, head, buffer, n, take, c, CutDoes, BadDoes, CharDoes
<1>13. QED
  BY <1>5, <1>10, <1>11, <1>12 DEF valid, head, buffer, n

\* The new read is looked at with what was kept, and unless a character's end is
\* tangled with what follows it, as if both had come at once.
LEMMA ResumeSound ==
  ASSUME NEW p, Parked(p), NEW bytes \in Seq(Octets), bytes # <<>>, NEW f, f = [p EXCEPT !.rest = bytes]
  PROVE  Sound(Resume(f))
<1> DEFINE buffer == Buffered(f)
           head == Utf8(buffer)
           valid == ValidUpTo(buffer)
           n == Len(p.partial)
<1>1. /\ buffer \in Seq(Octets) /\ buffer # <<>> /\ n \in 1 .. 3
      /\ Len(buffer) <= n + Len(bytes)
  <2> DEFINE all == p.partial \o bytes
  <2>1. BufferSays(p, bytes, buffer, all)
    BY BufferIs
  <2> HIDE DEF buffer, all
  <2>2. QED
    BY <2>1 DEF BufferSays
<1>2. /\ head.kind = "cut" => Resume(f) = [p EXCEPT !.partial = buffer, !.rest = <<>>]
      /\ head.kind = "bad" =>
           /\ head.len \in n .. Len(buffer)
           /\ Resume(f) = Resumed(p, bytes, Replacement, head.len - n)
      /\ head.kind = "char" =>
           /\ head.len \in n + 1 .. Len(buffer) /\ valid \in head.len .. Len(buffer)
           /\ Resume(f) = Resumed(p, bytes, <<"print", SubSeq(buffer, 1, head.len)>>,
                                  (IF valid = Len(buffer) THEN head.len ELSE valid) - n)
  <2>1. CutDoes(p, f, buffer) /\ BadDoes(p, bytes, f, buffer) /\ CharDoes(p, bytes, f, buffer)
    BY ResumeDoes
  <2> HIDE DEF buffer
  <2>2. QED
    BY <2>1 DEF CutDoes, BadDoes, CharDoes
<1>3. head.kind \in {"bad", "char", "cut"} /\ Len(buffer) \in Nat /\ Len(bytes) \in Nat
  BY <1>1, Utf8Says
<1> HIDE DEF valid, head, n, buffer
<1>4. CASE head.kind = "cut"
  <2> DEFINE y == [p EXCEPT !.partial = buffer, !.rest = <<>>]
  <2>1. WellShaped(p) /\ p.state = Ground /\ Dry(p)
    BY DEF Parked
  <2>2. /\ DOMAIN y = Fields /\ y = [x \in Fields |-> y[x]]
        /\ y.partial = buffer /\ y.rest = <<>>
        /\ y.inter = p.inter /\ y.param = p.param /\ y.groups = p.groups /\ y.open = p.open /\ y.len = p.len
        /\ y.ignoring = p.ignoring /\ y.state = p.state /\ y.fields = p.fields /\ y.raw = p.raw /\ y.out = p.out
    BY <2>1 DEF WellShaped, Fields
  <2>3. <<>> \in Seq(Octets) /\ Resume(f) = y
    BY <1>2, <1>4
  <2> HIDE DEF y
  <2>4. WellShaped(y)
    BY <1>1, <2>1, <2>2, <2>3 DEF WellShaped
  <2>5. QED
    BY <1>1, <1>4, <2>1, <2>2, <2>3, <2>4 DEF Sound, Parked, Dry, head
<1>5. CASE head.kind = "bad"
  <2> DEFINE k == head.len - n
  <2>1. k \in Nat /\ k <= Len(bytes)
    BY <1>1, <1>2, <1>3, <1>5
  <2> HIDE DEF k
  <2>2. Sound(Resumed(p, bytes, Replacement, k))
    BY <2>1, ResumedShape
  <2>3. QED
    BY <1>2, <1>5, <2>2 DEF k
<1>6. CASE head.kind = "char"
  <2> DEFINE k == (IF valid = Len(buffer) THEN head.len ELSE valid) - n
             e == <<"print", SubSeq(buffer, 1, head.len)>>
  <2>1. k \in Nat /\ k <= Len(bytes)
    <3> DEFINE x == IF valid = Len(buffer) THEN head.len ELSE valid
    <3>1. x \in n + 1 .. Len(buffer)
      BY <1>1, <1>2, <1>3, <1>6
    <3> HIDE DEF x
    <3>2. x - n \in Nat /\ x - n <= Len(bytes)
      BY <1>1, <1>3, <3>1
    <3>3. QED
      BY <3>2 DEF x
  <2>2. Resume(f) = Resumed(p, bytes, e, k)
    BY <1>2, <1>6
  <2> HIDE DEF k, e
  <2>3. Sound(Resumed(p, bytes, e, k))
    BY <2>1, ResumedShape
  <2>4. QED
    BY <2>2, <2>3
<1>7. QED
  BY <1>3, <1>4, <1>5, <1>6

LEMMA ResumeRight ==
  ASSUME NEW p, Parked(p), NEW bytes \in Seq(Octets), bytes # <<>>, NEW f, f = [p EXCEPT !.rest = bytes],
         ~Tangles(f)
  PROVE  Resume(f) = Loop(Unread(p, bytes))
<1> DEFINE buffer == Buffered(f)
           head == Utf8(buffer)
           valid == ValidUpTo(buffer)
           n == Len(p.partial)
           all == p.partial \o bytes
           w == Unread(p, bytes)
<1>1. /\ buffer \in Seq(Octets) /\ all \in Seq(Octets) /\ all # <<>> /\ buffer # <<>>
      /\ Len(all) = n + Len(bytes)
      /\ n \in 1 .. 3 /\ Len(buffer) > n /\ Len(buffer) <= Len(all)
      /\ \A i \in 1 .. Len(buffer) : all[i] = buffer[i]
      /\ buffer[1] \in 194 .. 244
      /\ Len(buffer) < 4 => buffer = all
  <2>1. BufferSays(p, bytes, buffer, all)
    BY BufferIs
  <2> HIDE DEF buffer, all
  <2>2. QED
    BY <2>1 DEF BufferSays
<1>2. /\ head.kind = "cut" => Resume(f) = [p EXCEPT !.partial = buffer, !.rest = <<>>]
      /\ head.kind = "bad" =>
           /\ head.len \in n .. Len(buffer)
           /\ Resume(f) = Resumed(p, bytes, Replacement, head.len - n)
      /\ head.kind = "char" =>
           /\ head.len \in n + 1 .. Len(buffer) /\ valid \in head.len .. Len(buffer)
           /\ Resume(f) = Resumed(p, bytes, <<"print", SubSeq(buffer, 1, head.len)>>,
                                  (IF valid = Len(buffer) THEN head.len ELSE valid) - n)
  <2>1. CutDoes(p, f, buffer) /\ BadDoes(p, bytes, f, buffer) /\ CharDoes(p, bytes, f, buffer)
    BY ResumeDoes
  <2> HIDE DEF buffer
  <2>2. QED
    BY <2>1 DEF CutDoes, BadDoes, CharDoes
<1>3. /\ head.kind \in {"bad", "char", "cut"} /\ head.len \in 1 .. Len(buffer) /\ head.len <= 4
      /\ Len(buffer) \in Nat /\ Len(bytes) \in Nat
  BY <1>1, Utf8Says
<1>4. /\ w.rest = all /\ w.state = Ground /\ w.out = p.out
      /\ Alike(w, w, <<>>, w.rest, w.rest)
      /\ w = [p EXCEPT !.partial = <<>>, !.rest = all]
  BY UnreadShape DEF Unread
<1>5. DOMAIN p = Fields /\ p.partial \in Seq(Octets) /\ p.partial # <<>> /\ f.partial = p.partial
  BY DEF Parked, WellShaped, Fields
<1> HIDE DEF valid, head, n, buffer, all, w
<1>6. Loop(w) = AdvanceGround(w) /\ Sound(w)
  BY <1>4 DEF Loop, Sound
<1>7. CASE head.kind = "cut"
  <2>1. buffer = all
    <3>1. Len(buffer) <= Follows(buffer[1]) /\ buffer[1] \notin NoLead
      BY <1>1, <1>7, Utf8Says DEF head
    <3>2. buffer[1] \in Octets
      BY <1>1, TextHead
    <3>3. Follows(buffer[1]) \in 0 .. 3
      BY <3>1, <3>2, LeadFollows
    <3>4. QED
      <4> DEFINE k == Follows(buffer[1])
      <4>1. k \in 0 .. 3 /\ Len(buffer) <= k
        BY <3>1, <3>3
      <4> HIDE DEF k
      <4>2. Len(buffer) < 4
        BY <1>3, <4>1
      <4>3. QED
        BY <1>1, <4>2
  <2>2. Keeps(w)
    BY <1>1, <1>4, <1>7, <2>1, VerdictOfCut DEF Keeps, head
  <2>3. Loop(w) = [w EXCEPT !.partial = w.rest, !.rest = <<>>]
    BY <1>1, <1>4, <1>6, <2>2, KeepParks
  <2>4. [w EXCEPT !.partial = w.rest, !.rest = <<>>] = [p EXCEPT !.partial = all, !.rest = <<>>]
    BY <1>4, <1>5 DEF Fields
  <2>5. Resume(f) = [p EXCEPT !.partial = all, !.rest = <<>>]
    BY <1>2, <1>7, <2>1
  <2>6. QED
    BY <2>3, <2>4, <2>5 DEF w
<1> DEFINE v == Verdict(all)
<1>8. ASSUME NEW e, NEW k \in n .. Len(buffer), v.does = "tell", v.event = e, v.take = k
      PROVE  Loop(w) = Resumed(p, bytes, e, k - n)
  <2>1. AdvanceGround(w) = Taken(Perform(w, e), k)
    <3>1. w.rest = all /\ all \in Seq(Octets) /\ all # <<>>
      BY <1>1, <1>4 DEF Alike, Twins, WellShaped
    <3>2. GroundSays(w, v)
      <4> HIDE DEF all, w
      <4>1. QED
        BY <3>1, GroundDoes DEF v
    <3> HIDE DEF v, w
    <3>3. QED
      BY <1>8, <3>2 DEF GroundSays
  <2>2. k \in Nat /\ n <= k /\ k <= Len(all)
    BY <1>1, <1>3
  <2>3. SubSeq(all, k + 1, Len(all)) = SubSeq(bytes, (k - n) + 1, Len(bytes))
    BY <1>5, <2>2, RestBeyond DEF all, n
  <2> DEFINE x == SubSeq(bytes, (k - n) + 1, Len(bytes))
  <2>4. Taken(Perform(w, e), k) = [p EXCEPT !.partial = <<>>, !.rest = x, !.out = Append(p.out, e)]
    <3>1. Taken(Perform(w, e), k) = [w EXCEPT !.out = Append(w.out, e), !.rest = SubSeq(all, k + 1, Len(all))]
      BY <1>4, <1>5 DEF Taken, Perform, Fields
    <3> HIDE DEF x
    <3>2. [w EXCEPT !.out = Append(w.out, e), !.rest = x]
            = [p EXCEPT !.partial = <<>>, !.rest = x, !.out = Append(p.out, e)]
      BY <1>4, <1>5 DEF Fields
    <3>3. QED
      BY <2>3, <3>1, <3>2 DEF x
  <2>5. QED
    BY <1>6, <2>1, <2>4 DEF Resumed
<1>9. CASE head.kind = "bad"
  <2>1. v.does = "tell" /\ v.take = head.len /\ v.event = Replacement
    BY <1>1, <1>9, VerdictOfHead DEF head
  <2>3. head.len \in n .. Len(buffer) /\ Resume(f) = Resumed(p, bytes, Replacement, head.len - n)
    BY <1>2, <1>9
  <2> DEFINE e == Replacement
             k == head.len
  <2>4. k \in n .. Len(buffer) /\ v.does = "tell" /\ v.take = k /\ v.event = e
    BY <2>1, <2>3
  <2> HIDE DEF v, e, k
  <2>5. Loop(w) = Resumed(p, bytes, e, k - n)
    BY <1>8, <2>4
  <2>6. QED
    BY <2>3, <2>5 DEF e, k, w
<1>10. CASE head.kind = "char"
  <2> DEFINE c == SubSeq(buffer, 1, head.len)
  <2>1. Len(c) = head.len
    BY <1>1, <1>3, HeadOf
  <2>2. ~C1Char(c) /\ ~(valid \in (head.len + 1) .. (Len(buffer) - 1))
    <3>1. Tangles(f) <=> (C1Char(c) \/ valid \in (Len(c) + 1) .. (Len(buffer) - 1))
      BY <1>5 DEF Tangles, head, valid, buffer
    <3>2. QED
      BY <2>1, <3>1
  <2>3. head.len > 1
    <3>1. head.len \in n + 1 .. Len(buffer)
      BY <1>2, <1>10
    <3>2. QED
      BY <1>1, <1>3, <3>1
  <2>4. valid = Len(buffer) \/ valid = head.len
    BY <1>1, <1>2, <1>3, <1>10, <2>2
  <2>5. Resume(f) = Resumed(p, bytes, <<"print", c>>, head.len - n)
    <3>1. (IF valid = Len(buffer) THEN head.len ELSE valid) = head.len
      <4>1. CASE valid = head.len
        BY <4>1
      <4>2. CASE valid = Len(buffer)
        BY <4>2
      <4>3. QED
        BY <2>4, <4>1, <4>2
    <3>2. QED
      BY <1>2, <1>10, <3>1
  <2>6. v.does = "tell" /\ v.take = head.len /\ v.event = <<"print", c>>
    <3>1. Utf8(buffer).kind = "char" => ~C1Char(SubSeq(buffer, 1, Utf8(buffer).len)) /\ Utf8(buffer).len > 1
      BY <2>2, <2>3 DEF head
    <3>2. QED
      BY <1>1, <1>10, <3>1, VerdictOfHead DEF head
  <2>7. head.len \in n .. Len(buffer)
    <3>1. head.len \in n + 1 .. Len(buffer)
      BY <1>2, <1>10
    <3>2. QED
      BY <1>1, <1>3, <3>1
  <2> DEFINE e == <<"print", c>>
             k == head.len
  <2>8. k \in n .. Len(buffer) /\ v.does = "tell" /\ v.take = k /\ v.event = e
    BY <2>6, <2>7
  <2> HIDE DEF v, c, e, k
  <2>9. Loop(w) = Resumed(p, bytes, e, k - n)
    BY <1>8, <2>8
  <2>10. QED
    BY <2>5, <2>9 DEF e, k, w
<1>11. QED
  BY <1>3, <1>7, <1>9, <1>10

-----------------------------------------------------------------------------
(* The passes of a parser over what it has to read.                        *)

Running(p, f, k) == f = [n \in 0 .. k |-> IF n = 0 THEN p ELSE Pass(f[n - 1])]

LEMMA PassesExist ==
  ASSUME NEW p, NEW m \in Nat
  PROVE  \E f : Running(p, f, m)
<1> DEFINE Reached == {k \in 0 .. m : \E f : Running(p, f, k)}
<1>1. 0 \in Reached
  <2>1. Running(p, [i \in 0 .. 0 |-> p], 0)
    BY DEF Running
  <2>2. QED
    BY <2>1
<1>2. ASSUME NEW k \in 1 .. m, k - 1 \in Reached
      PROVE  k \in Reached
  <2>1. PICK f : Running(p, f, k - 1)
    BY <1>2
  <2> DEFINE g == [i \in 0 .. k |-> IF i = k THEN Pass(f[k - 1]) ELSE f[i]]
             h == [i \in 0 .. k |-> IF i = 0 THEN p ELSE Pass(g[i - 1])]
  <2>2. \A i \in 0 .. k - 1 : f[i] = IF i = 0 THEN p ELSE Pass(f[i - 1])
    <3> HIDE DEF g, h
    <3>1. QED
      BY <2>1, Zenon DEF Running
  <2>3. \A i \in 0 .. k - 1 : g[i] = f[i]
    OBVIOUS
  <2>4. ASSUME NEW i \in 0 .. k PROVE g[i] = h[i]
    <3>1. CASE i = 0
      BY <3>1, <2>2, <2>3
    <3>2. CASE i \in 1 .. k - 1
      <4>1. h[i] = Pass(g[i - 1]) /\ i - 1 \in 0 .. k - 1 /\ i \in 0 .. k - 1
        BY <3>2
      <4>2. QED
        BY <4>1, <2>2, <2>3, <3>2
    <3>3. CASE i = k /\ k > 0
      <4>1. h[i] = Pass(g[k - 1]) /\ g[i] = Pass(f[k - 1])
        BY <3>3
      <4>2. g[k - 1] = f[k - 1]
        BY <2>3
      <4>3. QED
        BY <4>1, <4>2
    <3>4. QED
      BY <3>1, <3>2, <3>3
  <2>5. g = h
    <3>1. DOMAIN g = 0 .. k /\ DOMAIN h = 0 .. k
      OBVIOUS
    <3>2. g = [i \in 0 .. k |-> g[i]] /\ h = [i \in 0 .. k |-> h[i]]
      OBVIOUS
    <3>3. QED
      BY <2>4, <3>1, <3>2, Zenon
  <2>6. Running(p, g, k)
    <3>1. g = [i \in 0 .. k |-> IF i = 0 THEN p ELSE Pass(g[i - 1])]
      BY <2>5
    <3> HIDE DEF g
    <3>2. QED
      BY <3>1 DEF Running
  <2>7. QED
    <3> HIDE DEF g
    <3>1. QED
      BY <2>6
<1> HIDE DEF Reached
<1>3. \A n \in 0 .. m : n \in Reached
  BY <1>1, <1>2, Climbs
<1>4. m \in Reached
  BY <1>3
<1>5. QED
  BY <1>4 DEF Reached

\* A function that makes m passes, one after the other.
Steps(P, m) == \A n \in 1 .. m : P[n] = Pass(P[n - 1])

LEMMA PassesSay ==
  ASSUME NEW p, Len(p.rest) \in Nat
  PROVE  Passes(p)[0] = p /\ Steps(Passes(p), Len(p.rest))
<1> DEFINE m == Len(p.rest)
           f == Passes(p)
<1>1. f = CHOOSE g : Running(p, g, m)
  BY DEF Passes, Running
<1>2. Running(p, f, m)
  <2> HIDE DEF f
  <2>1. \E g : Running(p, g, m)
    BY PassesExist
  <2>2. QED
    BY <1>1, <2>1
<1> HIDE DEF f
<1>3. \A n \in 0 .. m : f[n] = IF n = 0 THEN p ELSE Pass(f[n - 1])
  BY <1>2, Zenon DEF Running
<1>4. f[0] = p
  BY <1>3
<1>5. Steps(f, m)
  BY <1>3 DEF Steps
<1>6. QED
  BY <1>4, <1>5 DEF f

\* Every pass leaves a parser that is sound, and takes a byte if any is left.
SoundRun(P, m) ==
  \A n \in 0 .. m : Sound(P[n]) /\ (P[n].rest # <<>> => Len(P[n].rest) <= Len(P[0].rest) - n)

LEMMA RunSound ==
  ASSUME NEW P, NEW m \in Nat, Steps(P, m), Sound(P[0])
  PROVE  SoundRun(P, m)
<1> DEFINE G == {n \in 0 .. m : Sound(P[n]) /\ (P[n].rest # <<>> => Len(P[n].rest) <= Len(P[0].rest) - n)}
<1>0. \A n \in 0 .. m : Sound(P[n]) => Len(P[n].rest) \in Nat /\ P[n].rest \in Seq(Octets)
  BY SoundShape DEF WellShaped
<1>1. 0 \in G
  <2>1. 0 \in 0 .. m
    OBVIOUS
  <2>2. Len(P[0].rest) \in Nat
    BY <1>0, <2>1
  <2>3. Len(P[0].rest) <= Len(P[0].rest) - 0
    BY <2>2
  <2>4. QED
    BY <2>1, <2>3
<1>2. ASSUME NEW n \in 1 .. m, n - 1 \in G PROVE n \in G
  <2> DEFINE x == P[n - 1]
  <2>1. Sound(x) /\ P[n] = Pass(x) /\ n \in 0 .. m /\ n - 1 \in 0 .. m
    BY <1>2 DEF Steps
  <2>2. x.rest = <<>> \/ Len(x.rest) <= Len(P[0].rest) - (n - 1)
    BY <1>2
  <2>3. Len(x.rest) \in Nat /\ Len(P[0].rest) \in Nat /\ x.rest \in Seq(Octets)
    BY <1>0, <2>1
  <2> HIDE DEF x, G
  <2>4. CASE x.rest = <<>>
    BY <2>1, <2>4 DEF Pass, G
  <2>5. CASE x.rest # <<>>
    <3>1. P[n] = Loop(x) /\ Sound(Loop(x)) /\ Loop(x).rest = SubSeq(x.rest, Bite(x) + 1, Len(x.rest))
      BY <2>1, <2>5, LoopSound DEF Pass
    <3>2. Bite(x) \in 1 .. Len(x.rest)
      BY <2>3, <2>5, BiteSays
    <3> DEFINE c == Bite(x)
    <3>3. c \in Nat /\ c <= Len(x.rest) /\ c >= 1
      BY <2>3, <3>2
    <3> HIDE DEF c
    <3>4. Len(SubSeq(x.rest, c + 1, Len(x.rest))) = Len(x.rest) - c
      BY <2>3, <3>3, RestOf
    <3> DEFINE l == Len(P[n].rest)
    <3>5. l = Len(x.rest) - c
      BY <3>1, <3>4 DEF c
    <3> HIDE DEF l
    <3>6. l <= Len(P[0].rest) - n
      BY <2>2, <2>3, <2>5, <3>3, <3>5
    <3>7. Sound(P[n]) /\ Len(P[n].rest) <= Len(P[0].rest) - n
      BY <3>1, <3>6 DEF l
    <3>8. QED
      BY <2>1, <3>7 DEF G
  <2>6. QED
    BY <2>4, <2>5
<1> HIDE DEF G
<1>3. \A n \in 0 .. m : n \in G
  BY <1>1, <1>2, Climbs
<1>4. QED
  BY <1>3 DEF G, SoundRun

LEMMA RunShape ==
  ASSUME NEW P, NEW m \in Nat, SoundRun(P, m), NEW n \in 0 .. m
  PROVE  /\ Sound(P[n]) /\ WellShaped(P[n]) /\ P[n].rest \in Seq(Octets) /\ Len(P[n].rest) \in Nat
         /\ P[n].rest # <<>> => Len(P[n].rest) <= Len(P[0].rest) - n /\ Len(P[n].rest) > 0
<1>1. /\ Sound(P[n])
      /\ P[n].rest # <<>> => Len(P[n].rest) <= Len(P[0].rest) - n
  BY DEF SoundRun
<1>2. WellShaped(P[n]) /\ P[n].rest \in Seq(Octets) /\ Len(P[n].rest) \in Nat
  <2> DEFINE x == P[n]
  <2>1. Sound(x)
    BY <1>1
  <2> HIDE DEF x
  <2>2. WellShaped(x)
    BY <2>1, SoundShape
  <2>3. x.rest \in Seq(Octets) /\ Len(x.rest) \in Nat
    BY <2>2 DEF WellShaped
  <2>4. QED
    BY <2>2, <2>3 DEF x
<1>3. P[n].rest # <<>> => Len(P[n].rest) > 0
  <2> DEFINE s == P[n].rest
  <2>1. s \in Seq(Octets)
    BY <1>2
  <2> HIDE DEF s
  <2>2. s # <<>> => Len(s) > 0
    BY <2>1
  <2>3. QED
    BY <2>2 DEF s
<1>4. QED
  BY <1>1, <1>2, <1>3

\* Once nothing is left, nothing changes.
LEMMA RunStays ==
  ASSUME NEW P, NEW m \in Nat, Steps(P, m), NEW k \in 0 .. m, P[k].rest = <<>>
  PROVE  P[m] = P[k]
<1> DEFINE S == {n \in 0 .. m - k : P[k + n] = P[k]}
<1>1. 0 \in S /\ m - k \in Nat
  OBVIOUS
<1>2. ASSUME NEW n \in 1 .. m - k, n - 1 \in S PROVE n \in S
  <2>1. k + n \in 1 .. m /\ (k + n) - 1 = k + (n - 1) /\ n \in 0 .. m - k
    BY <1>2
  <2>2. P[k + n] = Pass(P[k + (n - 1)]) /\ P[k + (n - 1)] = P[k]
    BY <1>2, <2>1 DEF Steps
  <2>3. QED
    BY <2>1, <2>2 DEF Pass
<1> DEFINE d == m - k
<1>3. d \in Nat /\ 0 \in S /\ \A n \in 1 .. d : n - 1 \in S => n \in S
  BY <1>1, <1>2
<1> HIDE DEF S, d
<1>4. \A n \in 0 .. d : n \in S
  BY <1>3, Climbs
<1>5. d \in S
  BY <1>3, <1>4
<1>6. QED
  BY <1>5 DEF S, d

\* At the end nothing is left.
LEMMA RunEnds ==
  ASSUME NEW P, NEW m \in Nat, SoundRun(P, m), Len(P[0].rest) <= m
  PROVE  P[m].rest = <<>>
<1>1. /\ P[m].rest # <<>> => Len(P[m].rest) <= Len(P[0].rest) - m /\ Len(P[m].rest) > 0
      /\ Len(P[0].rest) \in Nat /\ Len(P[m].rest) \in Nat
  <2>1. m \in 0 .. m /\ 0 \in 0 .. m
    OBVIOUS
  <2>2. QED
    BY <2>1, RunShape
<1>2. QED
  BY <1>1

\* Two parsers that are alike stay so while neither keeps part of a character.
Together(P, Q, pre, tail, n) == Alike(P[n], Q[n], pre, P[n].rest, P[n].rest \o tail)
LEMMA Lockstep ==
  ASSUME NEW P, NEW Q, NEW m \in Nat, Steps(P, m), Steps(Q, m), NEW pre, NEW tail \in Seq(Octets),
         Together(P, Q, pre, tail, 0),
         \A n \in 0 .. m - 1 : P[n].rest # <<>> /\ ~Keeps(P[n])
  PROVE  \A n \in 0 .. m : Together(P, Q, pre, tail, n)
<1> DEFINE S == {n \in 0 .. m : Together(P, Q, pre, tail, n)}
<1>1. 0 \in S
  OBVIOUS
<1>2. ASSUME NEW n \in 1 .. m, n - 1 \in S PROVE n \in S
  <2> DEFINE p == P[n - 1]
             q == Q[n - 1]
             r == p.rest
  <2>1. n - 1 \in 0 .. m - 1 /\ n \in 0 .. m
    OBVIOUS
  <2>2. P[n] = Pass(p) /\ Q[n] = Pass(q) /\ r # <<>> /\ ~Keeps(p)
    BY <2>1 DEF Steps
  <2>3. Alike(p, q, pre, r, r \o tail)
    BY <1>2 DEF Together
  <2> HIDE DEF p, q
  <2>4. q.rest = r \o tail /\ r \in Seq(Octets) /\ p.rest = r
    BY <2>3 DEF Alike, Twins, WellShaped
  <2>5. q.rest # <<>>
    <3>1. Len(r) \in Nat \ {0} /\ Len(r \o tail) = Len(r) + Len(tail) /\ Len(tail) \in Nat
      BY <2>2, <2>4, TextHead, JoinSays
    <3>2. Len(r \o tail) # 0
      BY <3>1
    <3>3. QED
      BY <2>4, <3>2
  <2>6. P[n] = Loop(p) /\ Q[n] = Loop(q)
    BY <2>2, <2>4, <2>5 DEF Pass
  <2> DEFINE a == SubSeq(r, Bite(p) + 1, Len(r))
  <2> HIDE DEF r
  <2>7. Alike(Loop(p), Loop(q), pre, a, a \o tail)
    BY <2>2, <2>3, LoopAlike
  <2> HIDE DEF a
  <2>8. P[n].rest = a
    BY <2>6, <2>7 DEF Alike, Twins
  <2>9. QED
    BY <2>1, <2>6, <2>7, <2>8 DEF Together
<1> HIDE DEF S
<1>3. \A n \in 0 .. m : n \in S
  BY <1>1, <1>2, Climbs
<1>4. QED
  BY <1>3 DEF S

-----------------------------------------------------------------------------
(* The reads do not show.                                                  *)

\* A parser that has all of it to read at once.
Start(b) == [New EXCEPT !.rest = b]

LEMMA StartShape ==
  ASSUME NEW b \in Seq(Octets)
  PROVE  /\ Alike(Start(b), Start(b), <<>>, b, b) /\ Start(b).rest = b /\ Sound(Start(b))
         /\ Start(b).state = Ground /\ Start(b).partial = <<>> /\ Start(b).out = <<>> /\ Dry(Start(b))
<1> DEFINE y == Start(b)
           e == <<>>
<1>1. /\ DOMAIN y = Fields /\ y = [x \in Fields |-> y[x]]
      /\ y.state = Ground /\ y.inter = e /\ y.groups = e /\ y.open = FALSE /\ y.len = 0 /\ y.param = 0
      /\ y.ignoring = FALSE /\ y.fields = e /\ y.raw = e /\ y.partial = e /\ y.rest = b /\ y.out = e
  BY DEF Start, New, Fields
<1>2. /\ e \in Seq(Octets) /\ e \in Seq(Seq(Nat)) /\ e \in Seq(Seq(Octets)) /\ Len(e) = 0
      /\ Counts(e, 0)
  BY CountsNone
<1>3. ASeq(e)
  BY <1>2 DEF ASeq
<1>4. 0 \in 0 .. MaxParams /\ 0 \in 0 .. MaxParam /\ 0 <= MaxIntermediates /\ 0 <= MaxOscParams
  BY ParserConstants
<1> HIDE DEF y, e
<1>5. WellShaped(y)
  BY <1>1, <1>2, <1>3, <1>4, GroundStates DEF WellShaped
<1>6. Dry(y)
  BY <1>1 DEF Dry, e
<1>7. Ready(y)
  BY <1>1, <1>6, GroundStates DEF Ready
<1>8. Alike(y, y, <<>>, y.rest, y.rest)
  BY <1>1, <1>5, <1>7, SelfAlike DEF e
<1>9. QED
  BY <1>1, <1>6, <1>8 DEF Sound, y, e

LEMMA TwinIs ==
  ASSUME NEW p, NEW q, NEW pre, NEW r, NEW s, Twins(p, q, pre, r, s)
  PROVE  q = [p EXCEPT !.rest = s, !.out = pre \o p.out]
<1> DEFINE y == [p EXCEPT !.rest = s, !.out = pre \o p.out]
<1>1. DOMAIN p = Fields
  BY DEF Twins, WellShaped
<1>2. /\ DOMAIN y = Fields /\ y = [x \in Fields |-> y[x]]
      /\ y.state = p.state /\ y.inter = p.inter /\ y.groups = p.groups /\ y.open = p.open /\ y.len = p.len
      /\ y.param = p.param /\ y.ignoring = p.ignoring /\ y.fields = p.fields /\ y.raw = p.raw
      /\ y.partial = p.partial /\ y.rest = s /\ y.out = pre \o p.out
  BY <1>1 DEF Twins, WellShaped, Fields
<1> HIDE DEF y
<1>3. q = [x \in Fields |-> q[x]]
  BY DEF Twins
<1>4. ASSUME NEW x \in Fields PROVE q[x] = y[x]
  BY <1>2, <1>4 DEF Twins, Fields
<1>5. QED
  BY <1>2, <1>3, <1>4 DEF y

\* Of two texts at once: alike up to where the first ends.
LEMMA StartsAlike ==
  ASSUME NEW b \in Seq(Octets), NEW bytes \in Seq(Octets)
  PROVE  Alike(Start(b), Start(b \o bytes), <<>>, b, b \o bytes)
<1> DEFINE all == b \o bytes
           p == Start(b)
           q == Start(all)
<1>1. all \in Seq(Octets)
  BY JoinSays
<1> HIDE DEF all
<1>2. Alike(p, p, <<>>, b, b) /\ Alike(q, q, <<>>, all, all) /\ p.out = <<>> /\ q.out = <<>>
  BY <1>1, StartShape
<1>3. /\ q.state = p.state /\ q.inter = p.inter /\ q.groups = p.groups /\ q.open = p.open /\ q.len = p.len
      /\ q.param = p.param /\ q.ignoring = p.ignoring /\ q.fields = p.fields /\ q.raw = p.raw
  BY DEF Start, New
<1> HIDE DEF p, q
<1>4. Twins(p, p, <<>>, b, b) /\ Twins(q, q, <<>>, all, all) /\ Ready(p)
  BY <1>2 DEF Alike
<1>5. q.out = <<>> \o p.out
  BY <1>2, <1>4 DEF Twins
<1>6. Twins(p, q, <<>>, b, all)
  BY <1>1, <1>3, <1>4, <1>5 DEF Twins, WellShaped
<1>7. QED
  BY <1>4, <1>6 DEF Alike, p, q, all

\* A parser is where one read of all it was given would have brought it, and
\* on the way there was always something left.
OneRead(p, b) ==
  \E k \in 0 .. Len(b) :
    /\ p = Passes(Start(b))[k]
    /\ \A n \in 0 .. k - 1 : Passes(Start(b))[n].rest # <<>>

LEMMA StartRuns ==
  ASSUME NEW b \in Seq(Octets)
  PROVE  /\ Passes(Start(b))[0] = Start(b) /\ Steps(Passes(Start(b)), Len(b))
         /\ SoundRun(Passes(Start(b)), Len(b)) /\ Len(b) \in Nat
<1>1. Len(b) \in Nat /\ Start(b).rest = b /\ Sound(Start(b))
  BY StartShape
<1> DEFINE p == Start(b)
           P == Passes(p)
<1>2. Len(p.rest) \in Nat /\ p.rest = b
  BY <1>1
<1>3. Sound(p)
  BY <1>1
<1> HIDE DEF p
<1>4. P[0] = p /\ Steps(P, Len(b))
  BY <1>2, PassesSay
<1> HIDE DEF P
<1>5. SoundRun(P, Len(b))
  BY <1>1, <1>3, <1>4, RunSound
<1>6. QED
  BY <1>1, <1>4, <1>5 DEF P, p

LEMMA BeginSound ==
  ASSUME NEW p, Sound(p), p.rest = <<>>, NEW bytes \in Seq(Octets), bytes # <<>>
  PROVE  Sound(Begin(p, bytes))
<1> DEFINE f == [p EXCEPT !.rest = bytes]
<1>1. Begin(p, bytes) = Resume(f)
  BY DEF Begin
<1>2. CASE p.partial = <<>>
  <2>1. Alike(p, p, <<>>, <<>>, <<>>) /\ DOMAIN p = Fields
    <3>1. WellShaped(p) /\ Alike(p, p, <<>>, p.rest, p.rest)
      BY <1>2, SoundShape
    <3>2. QED
      BY <3>1 DEF WellShaped
  <2>2. /\ DOMAIN f = Fields /\ f = [x \in Fields |-> f[x]]
        /\ f.partial = p.partial /\ f.rest = bytes
        /\ f.inter = p.inter /\ f.param = p.param /\ f.groups = p.groups /\ f.open = p.open /\ f.len = p.len
        /\ f.ignoring = p.ignoring /\ f.state = p.state /\ f.fields = p.fields /\ f.raw = p.raw /\ f.out = p.out
    BY <2>1 DEF Fields
  <2>3. Resume(f) = f
    <3>1. f.partial = <<>>
      BY <1>2, <2>2
    <3> HIDE DEF f
    <3>2. QED
      BY <3>1 DEF Resume
  <2> HIDE DEF f
  <2>4. WellShaped(f)
    BY <2>1, <2>2 DEF Alike, Twins, WellShaped
  <2>5. Ready(f)
    BY <2>1, <2>2 DEF Alike, Ready, Fresh, Dry
  <2>6. Alike(f, f, <<>>, f.rest, f.rest)
    BY <1>2, <2>2, <2>4, <2>5, SelfAlike
  <2>7. QED
    BY <1>1, <2>3, <2>6 DEF Sound
<1>3. CASE p.partial # <<>>
  <2>1. Parked(p)
    BY <1>3 DEF Sound, Alike, Twins
  <2>2. Sound(Resume(f))
    BY <2>1, ResumeSound
  <2>3. QED
    BY <1>1, <2>2
<1>4. QED
  BY <1>2, <1>3

LEMMA BeginRight ==
  ASSUME NEW p, Sound(p), p.rest = <<>>, NEW b \in Seq(Octets), OneRead(p, b),
         NEW bytes \in Seq(Octets), bytes # <<>>, ~Tangles([p EXCEPT !.rest = bytes])
  PROVE  OneRead(Begin(p, bytes), b \o bytes)
<1> DEFINE f == [p EXCEPT !.rest = bytes]
           all == b \o bytes
           P == Passes(Start(b))
           Q == Passes(Start(all))
<1>1. Begin(p, bytes) = Resume(f)
  BY DEF Begin
<1>2. PICK k \in 0 .. Len(b) : p = P[k] /\ \A n \in 0 .. k - 1 : P[n].rest # <<>>
  BY DEF OneRead
<1>3. all \in Seq(Octets) /\ Len(all) = Len(b) + Len(bytes) /\ Len(b) \in Nat /\ Len(bytes) \in Nat
  BY JoinSays
<1>4. /\ P[0] = Start(b) /\ Steps(P, Len(b)) /\ SoundRun(P, Len(b))
  BY StartRuns
<1> HIDE DEF all
<1>5. Q[0] = Start(all) /\ Steps(Q, Len(all)) /\ SoundRun(Q, Len(all))
  BY <1>3, StartRuns
<1>6. Alike(Start(b), Start(all), <<>>, b, all) /\ Start(b).rest = b /\ Start(b).partial = <<>>
  BY StartsAlike, StartShape DEF all
<1>7. SUFFICES Resume(f) = Q[k] /\ \A n \in 0 .. k - 1 : Q[n].rest # <<>>
  <2>1. k \in 0 .. Len(all)
    BY <1>3
  <2>2. QED
    BY <1>1, <1>7, <2>1 DEF OneRead, all
<1> HIDE DEF P, Q
<1>8. Steps(P, k) /\ Steps(Q, k) /\ k \in Nat
  BY <1>3, <1>4, <1>5 DEF Steps
<1>9. ASSUME NEW n \in 0 .. k PROVE Sound(P[n])
  <2>1. n \in 0 .. Len(b)
    BY <1>3
  <2>2. QED
    BY <1>4, <2>1 DEF SoundRun
<1>10. Together(P, Q, <<>>, bytes, 0)
  BY <1>4, <1>5, <1>6 DEF Together, all
\* Only the last pass can have kept anything.
<1>11. ASSUME NEW n \in 0 .. k - 1, Keeps(P[n]) PROVE n = k - 1 /\ Parked(p)
  <2>1. P[n].rest # <<>> /\ n \in 0 .. k /\ n + 1 \in 1 .. k
    BY <1>2, <1>8
  <2>2. P[n + 1] = Pass(P[(n + 1) - 1]) /\ (n + 1) - 1 = n
    BY <1>8, <2>1 DEF Steps
  <2>3. P[n + 1] = Loop(P[n])
    BY <2>1, <2>2 DEF Pass
  <2>4. Parked(P[n + 1])
    <3>1. Sound(P[n])
      BY <1>9, <2>1
    <3>2. QED
      BY <1>11, <2>1, <2>3, <3>1, KeepParks
  <2>5. n + 1 = k
    <3>1. P[n + 1].rest = <<>>
      BY <2>4 DEF Parked
    <3>2. n + 1 \notin 0 .. k - 1
      BY <1>2, <3>1
    <3>3. QED
      BY <1>8, <3>2
  <2>6. QED
    BY <1>2, <1>8, <2>4, <2>5
<1>12. ASSUME NEW j \in 0 .. k, \A n \in 0 .. j - 1 : ~Keeps(P[n])
       PROVE  /\ Q[j] = [P[j] EXCEPT !.rest = P[j].rest \o bytes]
              /\ \A n \in 0 .. j : Q[n].rest = P[n].rest \o bytes /\ Q[n].rest # <<>>
              /\ P[j].partial = <<>> /\ WellShaped(P[j])
  <2>1. j \in Nat /\ Steps(P, j) /\ Steps(Q, j)
    BY <1>8 DEF Steps
  <2>2. \A n \in 0 .. j - 1 : P[n].rest # <<>> /\ ~Keeps(P[n])
    BY <1>2, <1>8, <1>12
  <2>3. \A n \in 0 .. j : Together(P, Q, <<>>, bytes, n)
    BY <1>10, <2>1, <2>2, Lockstep
  <2>4. ASSUME NEW n \in 0 .. j PROVE Q[n].rest = P[n].rest \o bytes /\ Q[n].rest # <<>>
    <3> DEFINE r == P[n].rest
    <3>1. Twins(P[n], Q[n], <<>>, r, r \o bytes)
      BY <2>3 DEF Together, Alike
    <3>2. Q[n].rest = r \o bytes /\ r \in Seq(Octets)
      BY <3>1 DEF Twins, WellShaped
    <3> HIDE DEF r
    <3>3. Len(r \o bytes) = Len(r) + Len(bytes) /\ Len(r) \in Nat /\ Len(bytes) \in Nat \ {0}
      BY <3>2, JoinSays, TextHead
    <3>4. Len(r \o bytes) # 0
      BY <3>3
    <3>5. QED
      BY <3>2, <3>4 DEF r
  <2> DEFINE x == P[j]
             s == x.rest \o bytes
  <2>5. Twins(x, Q[j], <<>>, x.rest, s)
    BY <2>1, <2>3 DEF Together, Alike
  <2> HIDE DEF x, s
  <2>6. Q[j] = [x EXCEPT !.rest = s, !.out = <<>> \o x.out]
    <3> DEFINE y == Q[j]
               none == <<>>
               left == x.rest
    <3>1. Twins(x, y, none, left, s)
      BY <2>5
    <3> HIDE DEF y, none, left
    <3>2. y = [x EXCEPT !.rest = s, !.out = none \o x.out]
      BY <3>1, TwinIs
    <3>3. QED
      BY <3>2 DEF y, none
  <2>7. <<>> \o x.out = x.out /\ x.partial = <<>> /\ WellShaped(x)
    <3>1. ASeq(x.out) /\ x.partial = <<>> /\ WellShaped(x) /\ ASeq(<<>>)
      BY <2>5 DEF Twins, WellShaped
    <3>2. QED
      BY <3>1, SeqJoins
  <2>8. [x EXCEPT !.rest = s, !.out = x.out] = [x EXCEPT !.rest = s]
    BY <2>7 DEF WellShaped, Fields
  <2>9. QED
    BY <2>4, <2>6, <2>7, <2>8 DEF x, s
<1>13. CASE p.partial = <<>>
  <2>1. \A n \in 0 .. k - 1 : ~Keeps(P[n])
    BY <1>11, <1>13 DEF Parked
  <2>2. k \in 0 .. k /\ \A n \in 0 .. k - 1 : n \in 0 .. k
    BY <1>8
  <2>3. Q[k] = [p EXCEPT !.rest = p.rest \o bytes] /\ \A n \in 0 .. k - 1 : Q[n].rest # <<>>
    BY <1>2, <1>12, <2>1, <2>2
  <2>4. p.rest \o bytes = bytes
    BY ConcatEmptySeq
  <2>5. Resume(f) = f
    <3>1. f.partial = <<>>
      <4>1. DOMAIN p = Fields
        BY SoundShape DEF WellShaped
      <4>2. QED
        BY <1>13, <4>1 DEF Fields
    <3> HIDE DEF f
    <3>2. QED
      BY <3>1 DEF Resume
  <2>6. QED
    BY <2>3, <2>4, <2>5
<1>14. CASE p.partial # <<>>
  <2>1. Parked(p)
    BY <1>14 DEF Sound, Alike, Twins
  <2>2. k # 0
    BY <1>2, <1>4, <1>6, <1>14
  <2>3. k - 1 \in 0 .. k - 1 /\ k - 1 \in 0 .. k /\ k \in 1 .. k
    BY <1>8, <2>2
  <2> DEFINE x == P[k - 1]
             r == x.rest
  <2>4. r # <<>> /\ Sound(x) /\ p = Loop(x)
    <3>1. P[k] = Pass(P[k - 1]) /\ P[k - 1].rest # <<>> /\ Sound(P[k - 1])
      BY <1>2, <1>8, <1>9, <2>3 DEF Steps
    <3>2. QED
      BY <1>2, <3>1 DEF Pass
  <2>5. Keeps(x)
    <3> HIDE DEF x
    <3>1. ~Keeps(x) => Alike(p, p, <<>>, p.rest, p.rest)
      BY <2>4, LoopSound
    <3>2. QED
      BY <1>14, <3>1 DEF Alike, Twins
  <2>6. \A n \in 0 .. (k - 1) - 1 : ~Keeps(P[n])
    <3>1. TAKE n \in 0 .. (k - 1) - 1
    <3>2. n \in 0 .. k - 1 /\ n # k - 1
      BY <1>8
    <3>3. QED
      BY <1>11, <3>2
  <2>7. /\ Q[k - 1] = [x EXCEPT !.rest = r \o bytes]
        /\ \A n \in 0 .. k - 1 : Q[n].rest # <<>>
        /\ x.partial = <<>> /\ WellShaped(x)
    BY <1>12, <2>3, <2>6
  <2>8. p = [x EXCEPT !.partial = r, !.rest = <<>>] /\ p.partial = r
    BY <2>4, <2>5, KeepParks
  <2> HIDE DEF x
  <2>9. Unread(p, bytes) = [p EXCEPT !.partial = <<>>, !.rest = r \o bytes]
    BY <2>8 DEF Unread
  <2>10. [p EXCEPT !.partial = <<>>, !.rest = r \o bytes] = [x EXCEPT !.rest = r \o bytes]
    <3> DEFINE s == r \o bytes
               g == [p EXCEPT !.partial = <<>>, !.rest = s]
               h == [x EXCEPT !.rest = s]
    <3>1. DOMAIN x = Fields /\ x.partial = <<>>
      BY <2>7 DEF WellShaped
    <3> HIDE DEF s, r
    <3>2. g = h
      BY <2>8, <3>1 DEF Fields
    <3>3. QED
      BY <3>2 DEF s
  <2>11. Resume(f) = Loop(Unread(p, bytes))
    BY <2>1, ResumeRight
  <2>12. Q[k] = Loop(Q[k - 1])
    <3>1. Q[k] = Pass(Q[k - 1]) /\ Q[k - 1].rest # <<>>
      BY <1>8, <2>3, <2>7 DEF Steps
    <3>2. QED
      BY <3>1 DEF Pass
  <2>13. QED
    BY <2>7, <2>9, <2>10, <2>11, <2>12
<1>15. QED
  BY <1>13, <1>14

\* A pass of the one read.
LEMMA PassRight ==
  ASSUME NEW p, p.rest # <<>>, NEW b \in Seq(Octets), OneRead(p, b)
  PROVE  OneRead(Loop(p), b)
<1> DEFINE P == Passes(Start(b))
<1>1. PICK k \in 0 .. Len(b) : p = P[k] /\ \A n \in 0 .. k - 1 : P[n].rest # <<>>
  BY DEF OneRead
<1>2. P[0] = Start(b) /\ Steps(P, Len(b)) /\ SoundRun(P, Len(b)) /\ Len(b) \in Nat /\ Start(b).rest = b
  BY StartRuns, StartShape
<1> HIDE DEF P
<1>3. Len(P[k].rest) <= Len(b) - k /\ Len(P[k].rest) > 0 /\ Len(P[k].rest) \in Nat
  BY <1>1, <1>2, RunShape
<1>4. k + 1 \in 1 .. Len(b) /\ k + 1 \in 0 .. Len(b) /\ (k + 1) - 1 = k
  <2> DEFINE l == Len(P[k].rest)
  <2> HIDE DEF l
  <2>1. l <= Len(b) - k /\ l > 0 /\ l \in Nat
    BY <1>3 DEF l
  <2>2. QED
    BY <1>2, <2>1
<1>5. P[k + 1] = Loop(p)
  BY <1>1, <1>2, <1>4 DEF Steps, Pass
<1>6. \A n \in 0 .. (k + 1) - 1 : P[n].rest # <<>>
  <2>1. TAKE n \in 0 .. (k + 1) - 1
  <2>2. n \in 0 .. k - 1 \/ n = k
    BY <1>4
  <2>3. QED
    BY <1>1, <2>2
<1>7. QED
  BY <1>4, <1>5, <1>6 DEF OneRead, P

\* What holds between two passes and between two reads.
ParserInv ==
  /\ setup \in Setups /\ fed \in Seq(Octets) /\ tangled \in BOOLEAN
  /\ Sound(parser)
  /\ ~tangled => OneRead(parser, fed)

LEMMA ParserTypes ==
  ASSUME ParserInv
  PROVE  TypeOK
<1>1. WellShaped(parser)
  BY SoundShape DEF ParserInv
<1>2. parser.len = Len(FlattenSeq(parser.groups))
  <2> DEFINE g == parser.groups
             n == parser.len
  <2>1. g \in Seq(Seq(Nat)) /\ n \in Nat /\ Counts(g, n)
    BY <1>1 DEF WellShaped
  <2> HIDE DEF g, n
  <2>2. n = Len(FlattenSeq(g))
    BY <2>1, CountsAll
  <2>3. QED
    BY <2>2 DEF g, n
<1>3. parser.partial # <<>> => Parked(parser)
  BY DEF ParserInv, Sound, Alike, Twins
<1>4. Bounded
  <2>1. parser.len <= MaxParams /\ parser.param <= MaxParam
    BY <1>1, ParserConstants DEF WellShaped
  <2>2. QED
    BY <1>1, <2>1 DEF WellShaped, Bounded
<1>5. QED
  BY <1>1, <1>2, <1>3, <1>4 DEF TypeOK, WellShaped, Parked, Octets

LEMMA StartNone == Start(<<>>) = New
<1> DEFINE n == New
           e == <<>>
<1>1. n.rest = e
  BY DEF New
<1>2. DOMAIN n = Fields /\ n = [x \in Fields |-> n[x]]
  BY DEF New, Fields
<1> HIDE DEF n, e
<1>3. ASSUME NEW x \in Fields PROVE [n EXCEPT !.rest = e][x] = n[x]
  BY <1>1, <1>2
<1>4. [n EXCEPT !.rest = e] = n
  BY <1>2, <1>3
<1>5. QED
  BY <1>4 DEF Start, n, e

LEMMA ParserStarts ==
  ASSUME Init
  PROVE  ParserInv
<1> DEFINE e == <<>>
           p == Start(e)
           P == Passes(p)
<1>1. e \in Seq(Octets) /\ Len(e) = 0
  OBVIOUS
<1>2. parser = p
  <2>1. p = New
    BY StartNone
  <2>2. QED
    BY <2>1 DEF Init
<1>3. fed = e /\ tangled = FALSE /\ setup \in Setups
  BY DEF Init
<1> HIDE DEF e
<1>4. Sound(p) /\ P[0] = p
  BY <1>1, StartShape, StartRuns
<1> HIDE DEF P, p
<1>5. OneRead(parser, fed)
  <2>1. 0 \in 0 .. Len(e) /\ \A n \in 0 .. 0 - 1 : FALSE
    BY <1>1
  <2>2. QED
    BY <1>2, <1>3, <1>4, <2>1 DEF OneRead, P, p
<1>6. QED
  BY <1>1, <1>2, <1>3, <1>4, <1>5 DEF ParserInv

\* A read brings a byte or more.
LEMMA ReadBrings ==
  ASSUME ParserInv, Read
  PROVE  \E bytes \in Seq(Octets) :
           /\ bytes # <<>> /\ fed' = fed \o bytes /\ parser' = Begin(parser, bytes)
           /\ tangled' = (tangled \/ Tangles([parser EXCEPT !.rest = bytes])) /\ setup' = setup
<1> DEFINE X == Min({setup.read, setup.max - Len(fed)})
<1>1. PICK bytes \in IF fed = <<>> /\ setup.first # <<>> THEN {setup.first}
                     ELSE UNION {[1..n -> setup.bytes] : n \in 1..X} :
           /\ fed' = fed \o bytes /\ parser' = Begin(parser, bytes)
           /\ tangled' = (tangled \/ Tangles([parser EXCEPT !.rest = bytes])) /\ setup' = setup
  BY DEF Read
<1>2. setup.bytes \subseteq Octets /\ setup.first \in Seq(setup.bytes)
  BY ParserAssumption DEF ParserInv, Octets
<1> HIDE DEF X
<1>3. CASE fed = <<>> /\ setup.first # <<>>
  <2>1. bytes = setup.first
    BY <1>1, <1>3
  <2>2. bytes \in Seq(Octets)
    BY <1>2, <2>1, SeqMonotonic
  <2>3. QED
    BY <1>1, <1>3, <2>1, <2>2
<1>4. CASE ~(fed = <<>> /\ setup.first # <<>>)
  <2>1. PICK n \in 1..X : bytes \in [1..n -> setup.bytes]
    BY <1>1, <1>4
  <2>2. n \in Nat \ {0}
    OBVIOUS
  <2>3. bytes \in Seq(Octets) /\ Len(bytes) = n
    BY <1>2, <2>1, <2>2
  <2>4. bytes # <<>>
    BY <2>2, <2>3
  <2>5. QED
    BY <1>1, <2>3, <2>4
<1>5. QED
  BY <1>3, <1>4

LEMMA ParserKeeps ==
  ASSUME ParserInv, Next \/ UNCHANGED vars
  PROVE  ParserInv'
<1>1. CASE UNCHANGED vars
  <2>1. parser' = parser /\ setup' = setup /\ fed' = fed /\ tangled' = tangled
    BY <1>1 DEF vars
  <2>2. QED
    BY <2>1 DEF ParserInv
<1>2. CASE Read
  <2>1. PICK bytes \in Seq(Octets) :
           /\ bytes # <<>> /\ fed' = fed \o bytes /\ parser' = Begin(parser, bytes)
           /\ tangled' = (tangled \/ Tangles([parser EXCEPT !.rest = bytes])) /\ setup' = setup
    BY <1>2, ReadBrings
  <2>2. parser.rest = <<>> /\ Sound(parser) /\ fed \in Seq(Octets) /\ tangled \in BOOLEAN
    BY <1>2 DEF Read, ParserInv
  <2>3. Sound(Begin(parser, bytes))
    BY <2>1, <2>2, BeginSound
  <2>4. fed \o bytes \in Seq(Octets)
    BY <2>2, JoinSays
  <2>5. ASSUME ~tangled' PROVE OneRead(Begin(parser, bytes), fed \o bytes)
    <3>1. OneRead(parser, fed) /\ ~Tangles([parser EXCEPT !.rest = bytes])
      BY <2>1, <2>5 DEF ParserInv
    <3>2. QED
      BY <2>1, <2>2, <3>1, BeginRight
  <2>6. tangled' \in BOOLEAN
    <3>1. Tangles([parser EXCEPT !.rest = bytes]) \in BOOLEAN
      BY DEF Tangles
    <3>2. QED
      BY <2>1, <2>2, <3>1
  <2>7. QED
    BY <2>1, <2>3, <2>4, <2>5, <2>6 DEF ParserInv
<1>3. CASE Advance
  <2>1. /\ parser.rest # <<>> /\ parser' = Loop(parser)
        /\ setup' = setup /\ fed' = fed /\ tangled' = tangled
    BY <1>3 DEF Advance
  <2>2. Sound(Loop(parser))
    BY <2>1, LoopSound DEF ParserInv
  <2>3. ~tangled => OneRead(Loop(parser), fed)
    BY <2>1, PassRight DEF ParserInv
  <2>4. QED
    BY <2>1, <2>2, <2>3 DEF ParserInv
<1>4. QED
  BY <1>1, <1>2, <1>3 DEF Next

\* A parser with nothing left is where one read of everything ends.
LEMMA WholeIs ==
  ASSUME NEW p, p.rest = <<>>, NEW b \in Seq(Octets), OneRead(p, b)
  PROVE  p = Whole(b)
<1> DEFINE P == Passes(Start(b))
<1>1. PICK k \in 0 .. Len(b) : p = P[k]
  BY DEF OneRead
<1>2. Steps(P, Len(b)) /\ Len(b) \in Nat
  BY StartRuns
<1>3. Whole(b) = P[Len(b)]
  BY DEF Whole, Start
<1> HIDE DEF P
<1>4. P[Len(b)] = P[k]
  BY <1>1, <1>2, RunStays
<1>5. QED
  BY <1>1, <1>3, <1>4

-----------------------------------------------------------------------------
(* An ESC starts afresh.                                                   *)

\* The parsers of a pair are both as they should be.
LEMMA TwinSound ==
  ASSUME NEW p, NEW q, NEW pre, NEW r, NEW s, Alike(p, q, pre, r, s)
  PROVE  Sound(q) /\ q.rest = s /\ q.state = p.state
<1>1. Twins(p, q, pre, r, s) /\ Ready(p)
  BY DEF Alike
<1>2. ASeq(pre \o p.out)
  <2>1. ASeq(pre) /\ ASeq(p.out)
    BY <1>1 DEF Twins, WellShaped
  <2>2. QED
    BY <2>1, SeqJoins
<1>3. WellShaped(q)
  <2>1. q.out = pre \o p.out
    BY <1>1 DEF Twins
  <2>2. ASeq(q.out)
    BY <1>2, <2>1
  <2>3. <<>> \in Seq(Octets)
    OBVIOUS
  <2>4. QED
    BY <1>1, <2>2, <2>3 DEF Twins, WellShaped
<1>4. Ready(q) /\ q.partial = <<>> /\ q.rest = s /\ q.state = p.state
  BY <1>1 DEF Twins, Ready, Fresh, Dry
<1>5. Alike(q, q, <<>>, q.rest, q.rest)
  BY <1>3, <1>4, SelfAlike
<1>6. QED
  BY <1>4, <1>5 DEF Sound

LEMMA EscAnywhere ==
  ASSUME NEW p, NEW q, NEW pre, NEW r, NEW s, Twins(p, q, pre, r, s)
  PROVE  Anywhere(p, ESC).state = Escape
<1> DEFINE a == ResetParams(p)
           b == ResetParams(q)
<1>1. Anywhere(p, ESC) = To(a, Escape)
  BY DEF Anywhere, Cancels, ESC
<1>2. Twins(a, b, pre, r, s)
  BY ResetPair
<1> HIDE DEF a, b
<1>3. To(a, Escape).state = Escape
  BY <1>2, ToPair, GroundStates
<1>4. QED
  BY <1>1, <1>3

\* Whatever the state, an ESC leads to the one after it.
LEMMA EscLeads ==
  ASSUME NEW p, NEW q, NEW pre, NEW r, NEW s, Twins(p, q, pre, r, s), p.state # Ground
  PROVE  ChangeState(p, ESC).state = Escape
<1>1. p.state \in States
  BY DEF Twins, WellShaped
<1>2. Anywhere(p, ESC).state = Escape
  BY EscAnywhere
<1>3. ASSUME NEW kind \in {"Csi", "Dcs"}
      PROVE  /\ AdvanceEntry(p, kind, ESC) = Anywhere(p, ESC)
             /\ AdvanceParam(p, kind, ESC) = Anywhere(p, ESC)
             /\ AdvanceIntermediate(p, kind, ESC) = Anywhere(p, ESC)
             /\ AdvanceIgnore(p, kind, ESC) = Anywhere(p, ESC)
  BY DEF AdvanceEntry, AdvanceParam, AdvanceIntermediate, AdvanceIgnore, C0, Collects, Digits, Colon, Semi,
         Markers, Finals, ESC
<1>4. CASE \E kind \in {"Csi", "Dcs"} : \E name \in {"Entry", "Ignore", "Intermediate", "Param"} :
             p.state = <<name, kind>>
  <2>1. PICK kind \in {"Csi", "Dcs"}, name \in {"Entry", "Ignore", "Intermediate", "Param"} :
             p.state = <<name, kind>>
    BY <1>4
  <2>2. p.state[1] = name /\ p.state[2] = kind
    BY <2>1
  <2>3. ChangeState(p, ESC) = Anywhere(p, ESC)
    <3>1. CASE name = "Entry"
      BY <1>3, <2>2, <3>1 DEF ChangeState
    <3>2. CASE name = "Ignore"
      BY <1>3, <2>2, <3>2 DEF ChangeState
    <3>3. CASE name = "Intermediate"
      BY <1>3, <2>2, <3>3 DEF ChangeState
    <3>4. CASE name = "Param"
      BY <1>3, <2>2, <3>4 DEF ChangeState
    <3>5. QED
      BY <3>1, <3>2, <3>3, <3>4
  <2>4. QED
    BY <1>2, <2>3
<1>5. CASE p.state = <<"DcsPassthrough">>
  <2> DEFINE f == Unhook(p)
             g == Unhook(q)
  <2>1. ChangeState(p, ESC) = Anywhere(f, ESC)
    <3>1. p.state[1] = "DcsPassthrough"
      BY <1>5
    <3>2. AdvanceDcsPassthrough(p, ESC) = Anywhere(f, ESC)
      BY DEF AdvanceDcsPassthrough, C0, Cancels, ESC, ST8
    <3>3. QED
      BY <3>1, <3>2 DEF ChangeState
  <2>2. Twins(f, g, pre, r, s)
    BY PerformPair DEF Unhook
  <2> HIDE DEF f, g
  <2>3. QED
    BY <2>1, <2>2, EscAnywhere
<1>6. CASE p.state = <<"OscString">>
  <2> DEFINE f == OscEnd(p, ESC)
             g == OscEnd(q, ESC)
  <2>1. ChangeState(p, ESC) = Anywhere(f, ESC)
    <3>1. p.state[1] = "OscString"
      BY <1>6
    <3>2. AdvanceOscString(p, ESC) = Anywhere(f, ESC)
      BY DEF AdvanceOscString, C0, Cancels, ESC, BEL, Semi
    <3>3. QED
      BY <3>1, <3>2 DEF ChangeState
  <2>2. Twins(f, g, pre, r, s)
    BY OscEndPair
  <2> HIDE DEF f, g
  <2>3. QED
    BY <2>1, <2>2, EscAnywhere
<1>7. CASE p.state = <<"ApcString">>
  <2> DEFINE f == Perform(p, <<"apc_end">>)
             g == Perform(q, <<"apc_end">>)
  <2>1. ChangeState(p, ESC) = Anywhere(f, ESC)
    <3>1. p.state[1] = "ApcString"
      BY <1>7
    <3>2. AdvanceApcString(p, ESC) = Anywhere(f, ESC)
      BY DEF AdvanceApcString, Cancels, ESC
    <3>3. QED
      BY <3>1, <3>2 DEF ChangeState
  <2>2. Twins(f, g, pre, r, s)
    BY PerformPair
  <2> HIDE DEF f, g
  <2>3. QED
    BY <2>1, <2>2, EscAnywhere
<1>8. CASE p.state = <<"SosPmApcString">>
  <2>1. p.state[1] = "SosPmApcString"
    BY <1>8
  <2>2. QED
    BY <1>2, <2>1 DEF ChangeState
<1>9. CASE p.state = <<"EscapeIntermediate">>
  <2>1. p.state[1] = "EscapeIntermediate"
    BY <1>9
  <2>2. AdvanceEscIntermediate(p, ESC) = Anywhere(p, ESC)
    BY DEF AdvanceEscIntermediate, C0, Collects, ESC
  <2>3. QED
    BY <1>2, <2>1, <2>2 DEF ChangeState
<1>10. CASE p.state = Escape
  <2>1. p.state[1] = "Escape"
    BY <1>10 DEF Escape
  <2>2. AdvanceEsc(p, ESC) = p
    BY DEF AdvanceEsc, C0, Collects, Cancels, ESC
  <2>3. QED
    BY <1>10, <2>1, <2>2 DEF ChangeState
<1>11. QED
  BY <1>1, <1>4, <1>5, <1>6, <1>7, <1>8, <1>9, <1>10 DEF States, Ground, Escape

LEMMA EscLoop ==
  ASSUME NEW p, Sound(p), p.rest # <<>>, p.rest[1] = ESC
  PROVE  /\ Alike(Loop(p), Loop(p), <<>>, Loop(p).rest, Loop(p).rest)
         /\ Loop(p).state = Escape /\ Fresh(Loop(p)) /\ Dry(Loop(p))
         /\ Loop(p).rest = SubSeq(p.rest, 2, Len(p.rest))
         /\ p.state = Ground => Loop(p) = Taken(To(ResetParams(p), Escape), 1)
<1> DEFINE r == p.rest
<1>1. /\ Alike(p, p, <<>>, r, r) /\ Twins(p, p, <<>>, r, r) /\ r \in Seq(Octets) /\ r # <<>>
      /\ WellShaped(p)
  BY SoundShape DEF Alike, Twins, WellShaped
<1>2. Verdict(r).does = "escape" /\ Verdict(r).take = 1
  BY <1>1, VerdictSays
<1>3. ~Keeps(p) /\ Bite(p) = 1
  BY <1>2 DEF Keeps, Bite
<1>4. /\ Alike(Loop(p), Loop(p), <<>>, Loop(p).rest, Loop(p).rest)
      /\ Loop(p).rest = SubSeq(r, 1 + 1, Len(r))
  BY <1>3, LoopSound
<1>5. p.state = Ground => Loop(p) = Taken(To(ResetParams(p), Escape), 1)
  <2> DEFINE v == Verdict(r)
  <2>1. GroundSays(p, v) /\ v.does = "escape"
    BY <1>1, <1>2, GroundDoes
  <2> HIDE DEF v
  <2>2. AdvanceGround(p) = Taken(To(ResetParams(p), Escape), 1)
    BY <2>1 DEF GroundSays
  <2>3. QED
    BY <1>1, <2>2 DEF Loop
<1>6. Loop(p).state = Escape
  <2> DEFINE a == SubSeq(r, 1 + 1, Len(r))
  <2>1. 1 \in Nat /\ 1 <= Len(r)
    BY <1>1, TextHead
  <2>2. CASE p.state = Ground
    <3> DEFINE x == ResetParams(p)
               y == To(x, Escape)
    <3>1. Twins(x, x, <<>>, r, r)
      BY <1>1, ResetPair
    <3> HIDE DEF x
    <3>2. Twins(y, y, <<>>, r, r) /\ y.state = Escape
      BY <3>1, ToPair, GroundStates
    <3> HIDE DEF y
    <3>3. Still(y, Taken(y, 1))
      BY <2>1, <3>2, TakenPair
    <3>4. QED
      BY <1>5, <2>2, <3>2, <3>3 DEF Still, x, y
  <2>3. CASE p.state # Ground
    <3> DEFINE x == Taken(p, 1)
    <3>1. Twins(x, x, <<>>, a, a) /\ Still(p, x)
      BY <1>1, <2>1, TakenPair
    <3>2. Loop(p) = ChangeState(x, ESC)
      <4>1. Head(r) = ESC
        BY <1>1, TextHead
      <4>2. QED
        BY <2>3, <4>1 DEF Loop
    <3> HIDE DEF x, a
    <3>3. x.state # Ground
      BY <2>3, <3>1 DEF Still
    <3>4. ChangeState(x, ESC).state = Escape
      BY <3>1, <3>3, EscLeads
    <3>5. QED
      BY <3>2, <3>4
  <2>4. QED
    BY <2>2, <2>3
<1>7. Fresh(Loop(p)) /\ Dry(Loop(p))
  BY <1>4, <1>6, GroundStates DEF Alike, Ready, Escape
<1>8. QED
  BY <1>4, <1>5, <1>6, <1>7

\* Two parsers that are alike, with nothing more to come, end alike.
LEMMA SameEnd ==
  ASSUME NEW P, NEW Q, NEW m \in Nat, Steps(P, m), Steps(Q, m), NEW pre,
         Together(P, Q, pre, <<>>, 0), Len(P[0].rest) <= m
  PROVE  /\ Q[m] = [P[m] EXCEPT !.out = pre \o P[m].out] /\ P[m].rest = <<>>
         /\ WellShaped(P[m])
<1>1. Sound(P[0])
  <2> DEFINE x == P[0]
             s == P[0].rest \o <<>>
  <2>1. Alike(x, Q[0], pre, x.rest, s)
    BY DEF Together
  <2> HIDE DEF x, s
  <2>2. WellShaped(x) /\ Ready(x) /\ x.partial = <<>>
    BY <2>1 DEF Alike, Twins
  <2>3. Sound(x)
    BY <2>2, SelfAlike DEF Sound
  <2>4. QED
    BY <2>3 DEF x
<1>2. SoundRun(P, m)
  BY <1>1, RunSound
<1> DEFINE Done == {k \in 0 .. m : P[k].rest = <<>>}
<1>3. m \in Done
  BY <1>2, RunEnds
<1>4. Done \subseteq Nat /\ Done # {}
  BY <1>3
<1>5. PICK K \in Done : \A n \in Done : K <= n
  <2> HIDE DEF Done
  <2>1. QED
    BY <1>4, HasLeast
<1>6. K \in 0 .. m /\ K \in Nat /\ P[K].rest = <<>>
  BY <1>5
<1>7. ASSUME NEW n \in 0 .. K - 1 PROVE P[n].rest # <<>> /\ n \in 0 .. m /\ n + 1 \in 1 .. m /\ n + 1 \in 0 .. m
  <2>1. n \in 0 .. m /\ ~(K <= n) /\ n + 1 \in 1 .. m /\ n + 1 \in 0 .. m
    BY <1>6
  <2>2. QED
    BY <1>5, <2>1
<1>8. ASSUME NEW n \in 0 .. m PROVE Sound(P[n]) /\ P[n].rest \in Seq(Octets) /\ WellShaped(P[n])
  BY <1>2, RunShape
<1>9. Steps(P, K) /\ Steps(Q, K)
  BY <1>6 DEF Steps
\* Only the last pass can keep anything.
<1>10. ASSUME NEW n \in 0 .. K - 1, Keeps(P[n]) PROVE n = K - 1 /\ P[K] = Loop(P[n])
  <2>1. P[n + 1] = Pass(P[(n + 1) - 1]) /\ (n + 1) - 1 = n
    BY <1>7 DEF Steps
  <2>2. P[n + 1] = Loop(P[n])
    BY <1>7, <2>1 DEF Pass
  <2>3. P[n + 1].rest = <<>>
    <3> DEFINE x == P[n]
    <3>1. Sound(x) /\ x.rest # <<>> /\ Keeps(x)
      BY <1>7, <1>8, <1>10
    <3> HIDE DEF x
    <3>2. Parked(Loop(x))
      BY <3>1, KeepParks
    <3>3. Loop(x).rest = <<>>
      BY <3>2 DEF Parked
    <3>4. QED
      BY <2>2, <3>3 DEF x
  <2>4. n + 1 \in Done
    BY <1>7, <2>3
  <2>5. K <= n + 1
    BY <1>5, <2>4
  <2>6. n + 1 = K
    BY <1>6, <2>5
  <2>7. QED
    BY <1>6, <2>2, <2>6
<1> HIDE DEF Done
<1>11. SUFFICES Q[K] = [P[K] EXCEPT !.out = pre \o P[K].out]
  <2>1. Q[K].rest = <<>>
    <3>1. DOMAIN P[K] = Fields
      BY <1>6, <1>8 DEF WellShaped
    <3>2. QED
      BY <1>6, <1>11, <3>1 DEF Fields
  <2>2. P[m] = P[K]
    BY <1>6, RunStays
  <2>3. Q[m] = Q[K]
    BY <1>6, <2>1, RunStays, ZenonT(60)
  <2>4. QED
    BY <1>6, <1>8, <1>11, <2>2, <2>3
<1>12. ASSUME NEW j \in 0 .. K, \A n \in 0 .. j - 1 : ~Keeps(P[n])
       PROVE  /\ Alike(P[j], Q[j], pre, P[j].rest, P[j].rest)
              /\ Q[j] = [P[j] EXCEPT !.out = pre \o P[j].out]
  <2>1. j \in Nat /\ Steps(P, j) /\ Steps(Q, j) /\ <<>> \in Seq(Octets) /\ j \in 0 .. j /\ j \in 0 .. m
    BY <1>6, <1>9 DEF Steps
  <2>2. \A n \in 0 .. j - 1 : P[n].rest # <<>> /\ ~Keeps(P[n])
    BY <1>6, <1>7, <1>12
  <2>3. \A n \in 0 .. j : Together(P, Q, pre, <<>>, n)
    BY <2>1, <2>2, Lockstep
  <2>4. P[j].rest \o <<>> = P[j].rest
    BY <1>8, <2>1, NoTail
  <2>5. Alike(P[j], Q[j], pre, P[j].rest, P[j].rest)
    BY <2>1, <2>3, <2>4 DEF Together
  <2> DEFINE x == P[j]
             o == pre \o x.out
  <2>6. Twins(x, Q[j], pre, x.rest, x.rest)
    BY <2>5 DEF Alike
  <2>7. Q[j] = [x EXCEPT !.rest = x.rest, !.out = o]
    BY <2>6, TwinIs
  <2>8. [x EXCEPT !.rest = x.rest, !.out = o] = [x EXCEPT !.out = o]
    <3>1. DOMAIN x = Fields
      BY <2>6 DEF Twins, WellShaped
    <3> HIDE DEF x, o
    <3>2. QED
      BY <3>1 DEF Fields
  <2>9. QED
    BY <2>5, <2>7, <2>8
<1>13. CASE \A n \in 0 .. K - 1 : ~Keeps(P[n])
  <2>1. K \in 0 .. K
    BY <1>6
  <2>2. QED
    BY <1>12, <1>13, <2>1
<1>14. CASE \E n \in 0 .. K - 1 : Keeps(P[n])
  <2>1. PICK n \in 0 .. K - 1 : Keeps(P[n])
    BY <1>14
  <2>2. n = K - 1 /\ P[K] = Loop(P[n]) /\ n \in 0 .. K /\ n + 1 = K
    BY <1>6, <1>10, <2>1
  <2>3. \A i \in 0 .. n - 1 : ~Keeps(P[i])
    <3>1. TAKE i \in 0 .. n - 1
    <3>2. i \in 0 .. K - 1 /\ i # K - 1
      BY <1>6, <2>2
    <3>3. QED
      BY <1>10, <3>2
  <2> DEFINE x == P[n]
             y == Q[n]
             r == x.rest
             o == pre \o x.out
  <2>4. Alike(x, y, pre, r, r) /\ y = [x EXCEPT !.out = o]
    BY <1>12, <2>2, <2>3
  <2>5. Sound(y) /\ y.rest = r /\ y.state = x.state
    BY <2>4, TwinSound
  <2>6. Sound(x) /\ r # <<>> /\ Keeps(x)
    BY <1>7, <1>8, <2>1
  <2>7. Q[K] = Loop(y)
    <3>1. Q[n + 1] = Pass(Q[(n + 1) - 1]) /\ (n + 1) - 1 = n
      BY <1>7 DEF Steps
    <3>2. QED
      BY <2>2, <2>5, <2>6, <3>1 DEF Pass
  <2> HIDE DEF x, y, o
  <2>8. Keeps(y)
    BY <2>5, <2>6 DEF Keeps
  <2>9. Loop(x) = [x EXCEPT !.partial = r, !.rest = <<>>]
    BY <2>6, KeepParks
  <2>10. Loop(y) = [y EXCEPT !.partial = r, !.rest = <<>>]
    BY <2>5, <2>6, <2>8, KeepParks
  <2>11. DOMAIN x = Fields
    BY <2>4 DEF Alike, Twins, WellShaped
  <2> DEFINE u == Loop(x)
  <2>12. u.out = x.out
    BY <2>9, <2>11 DEF Fields
  <2>13. [[x EXCEPT !.out = o] EXCEPT !.partial = r, !.rest = <<>>]
          = [[x EXCEPT !.partial = r, !.rest = <<>>] EXCEPT !.out = o]
    <3> HIDE DEF r
    <3>1. QED
      BY <2>11 DEF Fields
  <2>14. Loop(y) = [u EXCEPT !.out = o]
    BY <2>4, <2>9, <2>10, <2>13
  <2>15. P[K] = u /\ o = pre \o u.out
    BY <2>2, <2>12 DEF x, o
  <2>16. QED
    BY <2>7, <2>14, <2>15
<1>15. QED
  BY <1>13, <1>14

\* What comes before a sequence leaves it at the end.
LEMMA SuffixOf ==
  ASSUME NEW pre, ASeq(pre), NEW s, ASeq(s)
  PROVE  IsSuffix(s, pre \o s)
<1> DEFINE t == pre \o s
           m == Len(pre)
           n == Len(s)
           a == Reverse(s)
           b == Reverse(t)
<1>1. /\ m \in Nat /\ n \in Nat /\ Len(t) = m + n
      /\ \A i \in 1 .. n : t[m + i] = s[i]
  BY SeqJoins
<1> DEFINE X == {s[i] : i \in 1 .. n}
           Y == {t[i] : i \in 1 .. m + n}
<1> HIDE DEF t, m, n
<1>2. a = [i \in 1 .. n |-> s[(n - i) + 1]] /\ b = [i \in 1 .. m + n |-> t[((m + n) - i) + 1]]
  BY <1>1 DEF Reverse, n
<1>3. a \in Seq(X) /\ Len(a) = n
  <2>1. a \in [1 .. n -> X]
    <3>1. \A i \in 1 .. n : (n - i) + 1 \in 1 .. n
      BY <1>1
    <3>2. \A i \in 1 .. n : s[(n - i) + 1] \in X
      BY <3>1
    <3> HIDE DEF X, a
    <3>3. QED
      BY <1>2, <3>2
  <2> HIDE DEF a, X
  <2>2. QED
    BY <1>1, <2>1
<1>4. b \in Seq(Y) /\ Len(b) = m + n
  <2>1. b \in [1 .. m + n -> Y]
    <3>1. \A i \in 1 .. m + n : ((m + n) - i) + 1 \in 1 .. m + n
      BY <1>1
    <3>2. \A i \in 1 .. m + n : t[((m + n) - i) + 1] \in Y
      BY <3>1
    <3> HIDE DEF Y, b
    <3>3. QED
      BY <1>2, <3>2
  <2> HIDE DEF b, Y
  <2>2. m + n \in Nat
    BY <1>1
  <2>3. QED
    BY <2>1, <2>2
<1> HIDE DEF X, Y
<1>5. ASSUME NEW i \in 1 .. n PROVE a[i] = b[i]
  <2>1. /\ a[i] = s[(n - i) + 1] /\ b[i] = t[((m + n) - i) + 1]
        /\ (n - i) + 1 \in 1 .. n /\ m + ((n - i) + 1) = ((m + n) - i) + 1
    <3>1. i \in 1 .. m + n /\ (n - i) + 1 \in 1 .. n /\ m + ((n - i) + 1) = ((m + n) - i) + 1
      BY <1>1
    <3> HIDE DEF a, b
    <3>2. QED
      BY <1>2, <3>1
  <2>2. QED
    BY <1>1, <2>1
<1> HIDE DEF a, b
<1>6. Len(a) <= Len(b) /\ n \in Nat /\ n <= Len(a) /\ n <= Len(b)
  BY <1>1, <1>3, <1>4
<1>7. SubSeq(a, 1, n) = SubSeq(b, 1, n)
  <2>1. \A i \in 1 .. n : a[i] \in X \union Y /\ b[i] \in X \union Y
    <3>1. \A i \in 1 .. n : i \in 1 .. Len(a) /\ i \in 1 .. Len(b)
      BY <1>1, <1>3, <1>4
    <3>2. QED
      BY <1>3, <1>4, <3>1
  <2>2. SubSeq(a, 1, n) = [i \in 1 .. (n - 1) + 1 |-> a[(i + 1) - 1]]
    BY <1>3, <1>6
  <2>3. SubSeq(b, 1, n) = [i \in 1 .. (n - 1) + 1 |-> b[(i + 1) - 1]]
    BY <1>4, <1>6
  <2>4. \A i \in 1 .. (n - 1) + 1 : (i + 1) - 1 = i /\ i \in 1 .. n
    BY <1>6
  <2>5. QED
    BY <1>5, <2>2, <2>3, <2>4
<1>8. QED
  BY <1>3, <1>6, <1>7 DEF IsSuffix, IsPrefix, a, b, t

\* What is left is always the end of what there was.
EndOf(s, b) == \A i \in 1 .. Len(s) : s[i] = b[(Len(b) - Len(s)) + i]

LEMMA EndsOf ==
  ASSUME NEW b \in Seq(Octets), NEW s \in Seq(Octets), Len(s) <= Len(b), EndOf(s, b), NEW c \in 0 .. Len(s)
  PROVE  LET d == SubSeq(s, c + 1, Len(s)) IN EndOf(d, b) /\ Len(d) = Len(s) - c /\ Len(d) <= Len(b)
<1> DEFINE d == SubSeq(s, c + 1, Len(s))
<1>1. Len(b) \in Nat /\ Len(s) \in Nat /\ c \in Nat /\ c <= Len(s)
  OBVIOUS
<1>2. Len(d) = Len(s) - c /\ \A i \in 1 .. Len(s) - c : d[i] = s[c + i]
  BY <1>1, RestOf
<1> HIDE DEF d
<1>3. ASSUME NEW i \in 1 .. Len(d) PROVE d[i] = b[(Len(b) - Len(d)) + i]
  <2>1. i \in 1 .. Len(s) - c /\ c + i \in 1 .. Len(s)
        /\ (Len(b) - Len(d)) + i = (Len(b) - Len(s)) + (c + i)
    BY <1>1, <1>2
  <2>2. s[c + i] = b[(Len(b) - Len(s)) + (c + i)]
    BY <2>1 DEF EndOf
  <2>3. QED
    BY <1>2, <2>1, <2>2
<1>4. EndOf(d, b)
  BY <1>3 DEF EndOf
<1>5. Len(d) <= Len(b)
  BY <1>1, <1>2
<1>6. QED
  BY <1>2, <1>4, <1>5 DEF d

LEMMA RunLeaves ==
  ASSUME NEW P, NEW m \in Nat, Steps(P, m), SoundRun(P, m), NEW b, P[0].rest = b
  PROVE  \A n \in 0 .. m : EndOf(P[n].rest, b) /\ Len(P[n].rest) <= Len(b)
<1> DEFINE S == {n \in 0 .. m : EndOf(P[n].rest, b) /\ Len(P[n].rest) <= Len(b)}
<1>0. b \in Seq(Octets) /\ Len(b) \in Nat
  <2>1. 0 \in 0 .. m
    OBVIOUS
  <2>2. QED
    BY <2>1, RunShape
<1>1. 0 \in S
  <2>1. 0 \in 0 .. m /\ Len(b) <= Len(b)
    BY <1>0
  <2>2. \A i \in 1 .. Len(b) : (Len(b) - Len(b)) + i = i
    BY <1>0
  <2>3. EndOf(b, b)
    BY <2>2 DEF EndOf
  <2>4. QED
    BY <2>1, <2>3
<1>2. ASSUME NEW n \in 1 .. m, n - 1 \in S PROVE n \in S
  <2> DEFINE x == P[n - 1]
             s == x.rest
  <2>1. n - 1 \in 0 .. m /\ n \in 0 .. m /\ P[n] = Pass(x)
    BY DEF Steps
  <2>2. Sound(x) /\ s \in Seq(Octets) /\ EndOf(s, b) /\ Len(s) <= Len(b)
    BY <1>2, <2>1, RunShape
  <2> HIDE DEF x, s
  <2>3. CASE s = <<>>
    <3>1. P[n] = x
      BY <2>1, <2>3 DEF Pass, s
    <3>2. QED
      BY <2>1, <2>2, <3>1 DEF s
  <2>4. CASE s # <<>>
    <3> DEFINE c == Bite(x)
               d == SubSeq(s, c + 1, Len(s))
    <3>1. P[n].rest = d /\ c \in 1 .. Len(s) /\ Len(s) \in Nat
      BY <2>1, <2>2, <2>4, LoopSound, BiteSays DEF Pass, s
    <3> HIDE DEF c
    <3>2. c \in 0 .. Len(s)
      BY <3>1
    <3>3. EndOf(d, b) /\ Len(d) <= Len(b)
      BY <1>0, <2>2, <3>2, EndsOf
    <3> HIDE DEF d
    <3>4. QED
      BY <2>1, <3>1, <3>3
  <2>5. QED
    BY <2>3, <2>4
<1> HIDE DEF S
<1>3. \A n \in 0 .. m : n \in S
  BY <1>1, <1>2, Climbs
<1>4. QED
  BY <1>3 DEF S

\* A run comes to every ESC: no pass takes one with what is before it.
LEMMA RunStops ==
  ASSUME NEW P, NEW m \in Nat, Steps(P, m), SoundRun(P, m), NEW b, P[0].rest = b, Len(b) <= m,
         NEW e \in 1 .. Len(b), b[e] = ESC
  PROVE  \E j \in 0 .. m : /\ P[j].rest = SubSeq(b, e, Len(b))
                           /\ j + Len(SubSeq(b, e, Len(b))) <= Len(b)
<1> DEFINE L == Len(b)
           T == (L - e) + 1
           t == SubSeq(b, e, L)
           G == {n \in 0 .. m : Len(P[n].rest) >= T}
<1>0. b \in Seq(Octets) /\ L \in Nat
  <2>1. 0 \in 0 .. m
    OBVIOUS
  <2>2. QED
    BY <2>1, RunShape
<1>1. T \in 1 .. L /\ L - T = e - 1
  BY <1>0
<1>2. t \in Seq(Octets) /\ Len(t) = T /\ \A i \in 1 .. T : t[i] = b[(e + i) - 1]
  BY <1>0, <1>1, PartOf
<1>3. \A n \in 0 .. m : EndOf(P[n].rest, b) /\ Len(P[n].rest) <= L
  BY RunLeaves
<1>4. 0 \in G
  BY <1>0, <1>1
<1>5. G \subseteq 0 .. m /\ G # {}
  BY <1>4
<1> HIDE DEF G
<1>6. PICK j \in G : \A n \in G : n <= j
  BY <1>5, HasGreatest
<1> DEFINE x == P[j]
           s == x.rest
           l == Len(s)
<1>7. j \in 0 .. m /\ l >= T
  BY <1>6 DEF G
<1>8. Sound(x) /\ s \in Seq(Octets) /\ l \in Nat /\ EndOf(s, b) /\ l <= L
  BY <1>3, <1>7, RunShape
<1> HIDE DEF t, x, l, T, L
<1>9. s # <<>>
  BY <1>1, <1>7, <1>8 DEF l
<1>10. l <= L - j
  <2>1. Len(P[j].rest) <= Len(P[0].rest) - j
    BY <1>7, <1>9, RunShape DEF x
  <2>2. QED
    BY <2>1 DEF l, x, L
<1>11. j + 1 \in 1 .. m /\ j + 1 \in 0 .. m /\ (j + 1) - 1 = j
  <2>1. L <= m
    BY DEF L
  <2>2. QED
    BY <1>0, <1>1, <1>7, <1>8, <1>10, <2>1
<1> DEFINE c == Bite(x)
<1>12. /\ P[j + 1].rest = SubSeq(s, c + 1, l) /\ c \in 1 .. l
       /\ \A i \in 2 .. c : s[i] # ESC
  <2>1. P[j + 1] = Loop(x)
    BY <1>9, <1>11 DEF Steps, Pass, x
  <2>2. QED
    BY <1>8, <1>9, <2>1, LoopSound, BiteSays DEF l
<1> HIDE DEF c
<1>13. ~(l - c >= T)
  <2>1. c \in Nat /\ c <= Len(s)
    BY <1>8, <1>12 DEF l
  <2>2. Len(SubSeq(s, c + 1, Len(s))) = Len(s) - c
    BY <1>8, <2>1, RestOf
  <2>3. Len(P[j + 1].rest) = l - c
    BY <1>12, <2>2 DEF l
  <2>4. j + 1 \notin G
    BY <1>6, <1>7, <1>11
  <2>5. QED
    BY <1>11, <2>3, <2>4 DEF G
<1>14. l = T
  <2>1. SUFFICES ASSUME l > T PROVE FALSE
    BY <1>1, <1>7, <1>8
  <2> DEFINE i == (l - T) + 1
  <2>2. i \in 2 .. c /\ i \in 1 .. l /\ (L - l) + i = e
    BY <1>0, <1>1, <1>8, <1>12, <1>13, <2>1
  <2> HIDE DEF i
  <2>3. s[i] = b[(L - l) + i]
    BY <1>8, <2>2 DEF EndOf, l, L
  <2>4. QED
    BY <1>12, <2>2, <2>3
<1>15. s = t
  <2>1. ASSUME NEW i \in 1 .. T PROVE s[i] = t[i]
    <3>1. (L - l) + i = (e + i) - 1
      BY <1>0, <1>1, <1>14
    <3>2. s[i] = b[(L - l) + i]
      BY <1>8, <1>14 DEF EndOf, l, L
    <3>3. QED
      BY <1>2, <3>1, <3>2
  <2>2. Len(s) = Len(t)
    BY <1>2, <1>14 DEF l
  <2> HIDE DEF s
  <2>3. QED
    BY <1>2, <1>8, <1>14, <2>1, <2>2, SeqEqual DEF l
<1>16. j + T <= L
  BY <1>0, <1>1, <1>7, <1>10, <1>14
<1>17. QED
  BY <1>2, <1>7, <1>15, <1>16 DEF x, t, L

LEMMA EscapeAlone ==
  ASSUME NEW b \in Seq(Octets), NEW e \in 1 .. Len(b), b[e] = ESC
  PROVE  LET after == Whole(SubSeq(b, e, Len(b)))
             p == Whole(b)
         IN IsSuffix(after.out, p.out) /\ [after EXCEPT !.out = p.out] = p
<1> DEFINE t == SubSeq(b, e, Len(b))
           L == Len(b)
           T == Len(t)
           P == Passes(Start(b))
           S == Passes(Start(t))
<1>1. t \in Seq(Octets) /\ T \in Nat \ {0} /\ t[1] = ESC /\ L \in Nat
  <2>1. e \in Nat \ {0} /\ L \in Nat /\ L <= Len(b) /\ e <= L + 1 /\ 1 \in 1 .. (L - e) + 1 /\ (e + 1) - 1 = e
        /\ (L - e) + 1 \in Nat \ {0}
    OBVIOUS
  <2>2. t \in Seq(Octets) /\ Len(t) = (L - e) + 1 /\ \A i \in 1 .. (L - e) + 1 : t[i] = b[(e + i) - 1]
    BY <2>1, PartOf
  <2>3. QED
    BY <2>1, <2>2
<1>2. P[0] = Start(b) /\ Steps(P, L) /\ SoundRun(P, L) /\ Start(b).rest = b
  BY StartRuns, StartShape
<1> HIDE DEF T
<1>3. PICK j \in 0 .. L : P[j].rest = t /\ j + T <= L
  <2> HIDE DEF P
  <2>1. P[0].rest = b /\ Len(b) <= L /\ L \in Nat
    BY <1>1, <1>2
  <2>2. QED
    BY <1>2, <2>1, RunStops, ZenonT(60) DEF T
<1> HIDE DEF t
<1>4. /\ S[0] = Start(t) /\ Steps(S, T) /\ SoundRun(S, T) /\ Start(t).rest = t /\ Sound(Start(t))
      /\ Start(t).state = Ground /\ Start(t).out = <<>>
  BY <1>1, StartRuns, StartShape DEF T
<1>5. Whole(t) = S[T] /\ Whole(b) = P[L]
  BY DEF Whole, Start, T
<1> HIDE DEF P, S, L
<1> DEFINE m == T - 1
           A == [n \in 0 .. m |-> S[n + 1]]
           B == [n \in 0 .. m |-> P[(j + 1) + n]]
           u == Loop(Start(t))
           x == P[j]
           v == Loop(x)
<1>6. m \in Nat /\ m + 1 = T /\ (j + 1) + m = j + T
  BY <1>1
<1> HIDE DEF m
<1>7. Steps(A, m) /\ Steps(B, m)
  <2>1. ASSUME NEW n \in 1 .. m
        PROVE  /\ n \in 0 .. m /\ n - 1 \in 0 .. m /\ n + 1 \in 1 .. T /\ (n + 1) - 1 = (n - 1) + 1
               /\ (j + 1) + n \in 1 .. L /\ ((j + 1) + n) - 1 = (j + 1) + (n - 1)
    BY <1>1, <1>3, <1>6
  <2>2. ASSUME NEW n \in 1 .. m PROVE A[n] = Pass(A[n - 1])
    <3>1. A[n] = S[n + 1] /\ A[n - 1] = S[(n - 1) + 1] /\ S[n + 1] = Pass(S[(n + 1) - 1])
      BY <1>4, <2>1 DEF Steps
    <3>2. QED
      BY <2>1, <3>1
  <2>3. ASSUME NEW n \in 1 .. m PROVE B[n] = Pass(B[n - 1])
    <3>1. B[n] = P[(j + 1) + n] /\ B[n - 1] = P[(j + 1) + (n - 1)]
          /\ P[(j + 1) + n] = Pass(P[((j + 1) + n) - 1])
      BY <1>2, <2>1 DEF Steps
    <3>2. QED
      BY <2>1, <3>1
  <2> HIDE DEF A, B
  <2>4. QED
    BY <2>2, <2>3 DEF Steps
<1>8. t # <<>>
  BY <1>1 DEF T
<1>9. A[0] = u /\ B[0] = v /\ Sound(x) /\ x.rest = t /\ A[m] = S[T] /\ B[m] = P[j + T]
  <2>1. 0 \in 0 .. m /\ m \in 0 .. m /\ 0 + 1 = 1 /\ (j + 1) + 0 = j + 1
    BY <1>3, <1>6
  <2>2. S[1] = u
    <3>1. 1 \in 1 .. T /\ 1 - 1 = 0
      BY <1>1
    <3>2. S[1] = Pass(S[1 - 1])
      BY <1>4, <3>1 DEF Steps
    <3>3. QED
      BY <1>4, <1>8, <3>1, <3>2 DEF Pass
  <2>3. P[j + 1] = v
    <3>1. j + 1 \in 1 .. L /\ (j + 1) - 1 = j
      BY <1>1, <1>3
    <3>2. QED
      BY <1>2, <1>3, <1>8, <3>1 DEF Steps, Pass
  <2>4. Sound(x) /\ x.rest = t
    BY <1>2, <1>3 DEF SoundRun
  <2>5. A[m] = S[m + 1] /\ B[m] = P[(j + 1) + m] /\ A[0] = S[0 + 1] /\ B[0] = P[(j + 1) + 0]
    BY <2>1
  <2> HIDE DEF A, B
  <2>6. QED
    BY <1>6, <2>1, <2>2, <2>3, <2>4, <2>5
<1> HIDE DEF A, B, x
<1> DEFINE y == Start(t)
<1>10. Sound(y) /\ y.rest = t /\ y.state = Ground /\ y.out = <<>>
  BY <1>4
<1> HIDE DEF y
<1>11. /\ Alike(u, u, <<>>, u.rest, u.rest) /\ u.state = Escape /\ Fresh(u) /\ Dry(u)
       /\ u.rest = SubSeq(t, 2, T) /\ u = Taken(To(ResetParams(y), Escape), 1)
  BY <1>1, <1>8, <1>10, EscLoop DEF T, y
<1>12. /\ Alike(v, v, <<>>, v.rest, v.rest) /\ v.state = Escape /\ Fresh(v) /\ Dry(v)
       /\ v.rest = SubSeq(t, 2, T)
  BY <1>1, <1>8, <1>9, EscLoop DEF T
<1>13. u.out = <<>>
  <2>1. DOMAIN y = Fields
    BY <1>10, SoundShape DEF WellShaped
  <2> HIDE DEF u
  <2>2. QED
    BY <1>10, <1>11, <2>1 DEF Taken, To, ResetParams, Fields
<1> HIDE DEF u, v
<1> DEFINE pre == v.out
           r == SubSeq(t, 2, T)
<1>14. r \in Seq(Octets) /\ r \o <<>> = r /\ Len(r) = m
  <2>1. 1 \in Nat /\ 1 <= Len(t)
    BY <1>1 DEF T
  <2>2. SubSeq(t, 1 + 1, Len(t)) \in Seq(Octets) /\ Len(SubSeq(t, 1 + 1, Len(t))) = Len(t) - 1
    BY <1>1, <2>1, RestOf
  <2>3. r \in Seq(Octets) /\ Len(r) = m
    BY <2>2 DEF T, m
  <2> HIDE DEF r
  <2>4. QED
    BY <2>3, NoTail
<1> HIDE DEF r
<1>15. Alike(u, v, pre, r, r)
  <2>1. Twins(u, u, <<>>, r, r) /\ Twins(v, v, <<>>, r, r) /\ Ready(u)
    BY <1>11, <1>12 DEF Alike, r
  <2>2. ASeq(pre) /\ v.out = pre \o u.out
    <3>1. ASeq(v.out)
      BY <2>1 DEF Twins, WellShaped
    <3>2. PICK X : v.out \in Seq(X)
      BY <3>1 DEF ASeq
    <3>3. v.out \o <<>> = v.out
      BY <3>2, ConcatEmptySeq
    <3>4. QED
      BY <1>13, <3>1, <3>3
  <2> HIDE DEF pre
  <2>3. Twins(u, v, pre, r, r)
    BY <1>11, <1>12, <2>1, <2>2 DEF Twins, Fresh, Dry
  <2>4. QED
    BY <2>1, <2>3 DEF Alike
<1> HIDE DEF pre
<1>16. Together(A, B, pre, <<>>, 0) /\ Len(A[0].rest) <= m
  BY <1>6, <1>9, <1>11, <1>14, <1>15 DEF Together, r
<1>17. B[m] = [A[m] EXCEPT !.out = pre \o A[m].out] /\ A[m].rest = <<>> /\ WellShaped(A[m])
  BY <1>6, <1>7, <1>16, SameEnd
<1> DEFINE after == Whole(t)
           p == Whole(b)
<1>18. after = A[m]
  BY <1>5, <1>9
<1>19. p = B[m]
  <2>1. j + T \in 0 .. L
    BY <1>1, <1>3
  <2>2. P[j + T].rest = <<>>
    BY <1>9, <1>17 DEF WellShaped, Fields
  <2>3. P[L] = P[j + T]
    BY <1>1, <1>2, <2>1, <2>2, RunStays
  <2>4. QED
    BY <1>5, <1>9, <2>3
<1> HIDE DEF after, p
<1>20. p = [after EXCEPT !.out = pre \o after.out] /\ WellShaped(after)
  BY <1>17, <1>18, <1>19
<1>21. p.out = pre \o after.out
  BY <1>20 DEF WellShaped, Fields
<1>22. IsSuffix(after.out, p.out)
  <2>1. ASeq(pre) /\ ASeq(after.out)
    BY <1>15, <1>20 DEF Alike, Twins, WellShaped
  <2>2. QED
    BY <1>21, <2>1, SuffixOf
<1>23. QED
  BY <1>20, <1>21, <1>22 DEF after, p, t

-----------------------------------------------------------------------------
(* Pastes.                                                                 *)

\* The bytes of a fence and what they say: the start of a paste or its end.
FenceBytes(d) == <<ESC, 91, 50, 48, 48 + d, 126>>
FenceEvent(d) == <<"csi", << << 200 + d >> >>, <<>>, FALSE, 126>>
IsFence(s, d) == /\ Len(s) >= 6 /\ s[1] = ESC /\ s[2] = 91 /\ s[3] = 50 /\ s[4] = 48
                 /\ s[5] = 48 + d /\ s[6] = 126

Beyond(s, k) == SubSeq(s, k + 1, Len(s))

\* A parser within a fence, k bytes into it.
Plainly(o, q, state, par) ==
  /\ q.state = state /\ q.inter = <<>> /\ q.groups = <<>> /\ q.open = FALSE /\ q.len = 0
  /\ q.param = par /\ q.ignoring = FALSE /\ q.out = o /\ DOMAIN q = Fields
Amid(o, q, state, par, k, s) == Alike(q, q, <<>>, Beyond(s, k), Beyond(s, k)) /\ Plainly(o, q, state, par)

LEMMA BeyondSays ==
  ASSUME NEW s \in Seq(Octets), NEW k \in Nat, k < Len(s)
  PROVE  /\ Beyond(s, k) \in Seq(Octets) /\ Beyond(s, k) # <<>> /\ Beyond(s, k)[1] = s[k + 1]
         /\ Head(Beyond(s, k)) = s[k + 1]
         /\ SubSeq(Beyond(s, k), 2, Len(Beyond(s, k))) = Beyond(s, k + 1)
         /\ s[k + 1] \in Octets /\ 1 <= Len(Beyond(s, k))
<1> DEFINE d == Beyond(s, k)
           e == Beyond(s, k + 1)
           c == SubSeq(d, 1 + 1, Len(d))
<1>0. Len(s) \in Nat /\ k <= Len(s) /\ k + 1 \in Nat /\ k + 1 <= Len(s) /\ 1 \in 1 .. Len(s) - k
  OBVIOUS
<1>1. d \in Seq(Octets) /\ Len(d) = Len(s) - k /\ \A i \in 1 .. Len(s) - k : d[i] = s[k + i]
  BY <1>0, RestOf DEF Beyond
<1>2. e \in Seq(Octets) /\ Len(e) = Len(s) - (k + 1) /\ \A i \in 1 .. Len(s) - (k + 1) : e[i] = s[(k + 1) + i]
  BY <1>0, RestOf DEF Beyond
<1> HIDE DEF d, e
<1>3. 1 \in Nat /\ 1 <= Len(d)
  BY <1>0, <1>1
<1>4. d # <<>> /\ d[1] = s[k + 1]
  BY <1>0, <1>1, <1>3
<1>5. Head(d) = d[1] /\ d[1] \in Octets
  BY <1>1, <1>3, <1>4, TextHead
<1>6. c \in Seq(Octets) /\ Len(c) = Len(d) - 1 /\ \A i \in 1 .. Len(d) - 1 : c[i] = d[1 + i]
  BY <1>1, <1>3, RestOf
<1> HIDE DEF c
<1>7. Len(c) = Len(e)
  BY <1>0, <1>1, <1>2, <1>6
<1>8. ASSUME NEW i \in 1 .. Len(c) PROVE c[i] = e[i]
  <2>1. i \in 1 .. Len(d) - 1 /\ 1 + i \in 1 .. Len(s) - k /\ i \in 1 .. Len(s) - (k + 1)
        /\ k + (1 + i) = (k + 1) + i
    BY <1>0, <1>1, <1>6
  <2>2. QED
    BY <1>1, <1>2, <1>6, <2>1
<1>9. c = e
  BY <1>2, <1>6, <1>7, <1>8, SeqEqual
<1>10. 1 + 1 = 2
  OBVIOUS
<1>11. QED
  BY <1>1, <1>3, <1>4, <1>5, <1>9, <1>10 DEF c, d, e

LEMMA AmidPass ==
  ASSUME NEW o, NEW q, NEW state, NEW par, NEW k \in Nat, NEW s \in Seq(Octets), k < Len(s),
         Amid(o, q, state, par, k, s), state # Ground
  PROVE  /\ Pass(q) = ChangeState(Taken(q, 1), s[k + 1])
         /\ Alike(Pass(q), Pass(q), <<>>, Beyond(s, k + 1), Beyond(s, k + 1))
         /\ Plainly(o, Taken(q, 1), state, par)
<1> DEFINE r == Beyond(s, k)
<1>1. /\ r \in Seq(Octets) /\ r # <<>> /\ Head(r) = s[k + 1]
      /\ SubSeq(r, 1 + 1, Len(r)) = Beyond(s, k + 1)
  BY BeyondSays
<1> HIDE DEF r
<1>2. Alike(q, q, <<>>, r, r) /\ q.rest = r /\ q.state = state /\ Plainly(o, q, state, par)
  BY DEF Amid, Plainly, Alike, Twins, r
<1>3. Pass(q) = Loop(q) /\ Loop(q) = ChangeState(Taken(q, 1), s[k + 1])
  BY <1>1, <1>2 DEF Pass, Loop
<1>4. ~Keeps(q) /\ Bite(q) = 1 /\ Sound(q)
  BY <1>2 DEF Keeps, Bite, Sound
<1>5. Alike(Loop(q), Loop(q), <<>>, Loop(q).rest, Loop(q).rest) /\ Loop(q).rest = Beyond(s, k + 1)
  BY <1>1, <1>2, <1>4, LoopSound
<1>6. Plainly(o, Taken(q, 1), state, par)
  BY <1>2 DEF Plainly, Taken, Fields
<1>7. QED
  BY <1>3, <1>5, <1>6

\* A digit of the fence.
LEMMA DigitTaken ==
  ASSUME NEW o, NEW x, NEW par \in Nat, NEW byte \in 48 .. 57, par * 10 + (byte - 48) <= 201,
         \/ Plainly(o, x, <<"Entry", "Csi">>, par)
         \/ Plainly(o, x, <<"Param", "Csi">>, par)
  PROVE  Plainly(o, ChangeState(x, byte), <<"Param", "Csi">>, par * 10 + (byte - 48))
<1> DEFINE v == par * 10
           w == byte - 48
           n == v + w
           y == [x EXCEPT !.param = n]
<1>1. v \in Nat /\ w \in Nat /\ v + w <= 201 /\ v <= 201 /\ MaxParam \in Nat /\ MaxParam > 200
  BY ParserConstants
<1>2. ~Full(x) /\ x.param = par
  BY ParserConstants DEF Plainly, Full
<1> HIDE DEF v, w
<1>3. Min({MaxParam, v}) \in Nat /\ Min({MaxParam, v}) = IF MaxParam <= v THEN MaxParam ELSE v
  BY <1>1, LesserOf
<1>4. v + w <= MaxParam
  <2>1. MaxParam >= 201
    BY <1>1
  <2>2. QED
    BY <1>1, <2>1
<1>5. Min({MaxParam, v}) = v
  BY <1>1, <1>3, <1>4
<1>6. Min({MaxParam, v + w}) = v + w
  <2> DEFINE z == v + w
  <2>1. z \in Nat /\ z <= MaxParam
    BY <1>1, <1>4
  <2> HIDE DEF z
  <2>2. Min({MaxParam, z}) = IF MaxParam <= z THEN MaxParam ELSE z
    BY <1>1, <2>1, LesserOf
  <2>3. Min({MaxParam, z}) = z
    BY <1>1, <2>1, <2>2
  <2>4. QED
    BY <2>3 DEF z
<1>7. ActionParamNext(x, byte) = y
  <2>1. ActionParamNext(x, byte) = [x EXCEPT !.param = Min({MaxParam, Min({MaxParam, x.param * 10}) + (byte - 48)})]
    BY <1>2 DEF ActionParamNext
  <2>2. Min({MaxParam, Min({MaxParam, x.param * 10}) + (byte - 48)}) = n
    BY <1>2, <1>5, <1>6 DEF v, w
  <2> HIDE DEF n
  <2>3. QED
    BY <2>1, <2>2
<1> HIDE DEF n
<1>8. CASE Plainly(o, x, <<"Entry", "Csi">>, par)
  <2>1. x.state[1] = "Entry" /\ x.state[2] = "Csi"
    BY <1>8 DEF Plainly
  <2>2. ChangeState(x, byte) = AdvanceEntry(x, "Csi", byte)
    BY <2>1 DEF ChangeState
  <2>3. AdvanceEntry(x, "Csi", byte) = To(ActionParamNext(x, byte), <<"Param", "Csi">>)
    BY DEF AdvanceEntry, C0, Collects, Digits, Colon, Semi, Markers, Finals
  <2>4. ChangeState(x, byte) = To(y, <<"Param", "Csi">>)
    BY <1>7, <2>2, <2>3
  <2>5. Plainly(o, To(y, <<"Param", "Csi">>), <<"Param", "Csi">>, n)
    BY <1>8 DEF Plainly, To, Fields
  <2>6. QED
    BY <2>4, <2>5 DEF n, v, w
<1>9. CASE Plainly(o, x, <<"Param", "Csi">>, par)
  <2>1. x.state[1] = "Param" /\ x.state[2] = "Csi"
    BY <1>9 DEF Plainly
  <2>2. ChangeState(x, byte) = AdvanceParam(x, "Csi", byte)
    BY <2>1 DEF ChangeState
  <2>3. AdvanceParam(x, "Csi", byte) = ActionParamNext(x, byte)
    BY DEF AdvanceParam, C0, Collects, Digits, Colon, Semi, Markers, Finals
  <2>4. ChangeState(x, byte) = y
    BY <1>7, <2>2, <2>3
  <2>5. Plainly(o, y, <<"Param", "Csi">>, n)
    BY <1>9 DEF Plainly, Fields
  <2>6. QED
    BY <2>4, <2>5 DEF n, v, w
<1>10. QED
  BY <1>8, <1>9

\* The bracket and the final byte of the fence.
LEMMA BracketTaken ==
  ASSUME NEW o, NEW x, NEW par, Plainly(o, x, Escape, par)
  PROVE  Plainly(o, ChangeState(x, 91), <<"Entry", "Csi">>, 0)
<1>1. x.state[1] = "Escape"
  BY DEF Plainly, Escape
<1>2. ChangeState(x, 91) = To(ResetParams(x), <<"Entry", "Csi">>)
  <2>1. ChangeState(x, 91) = AdvanceEsc(x, 91)
    BY <1>1 DEF ChangeState
  <2>2. AdvanceEsc(x, 91) = To(ResetParams(x), <<"Entry", "Csi">>)
    BY DEF AdvanceEsc, C0, Collects, Cancels
  <2>3. QED
    BY <2>1, <2>2
<1>3. Plainly(o, To(ResetParams(x), <<"Entry", "Csi">>), <<"Entry", "Csi">>, 0)
  BY DEF Plainly, To, ResetParams, Fields
<1>4. QED
  BY <1>2, <1>3

\* A CSI dispatched with one parameter.
Finished(o, x, par) ==
  /\ ChangeState(x, 126).state = Ground
  /\ ChangeState(x, 126).out = Append(o, <<"csi", << << par >> >>, <<>>, FALSE, 126>>)

LEMMA FinalTaken ==
  ASSUME NEW o, NEW x, NEW par, Plainly(o, x, <<"Param", "Csi">>, par)
  PROVE  Finished(o, x, par)
<1>1. x.state[1] = "Param" /\ x.state[2] = "Csi"
  BY DEF Plainly
<1>2. ~Full(x)
  BY ParserConstants DEF Plainly, Full
<1> DEFINE g == << << par >> >>
           y == [x EXCEPT !.groups = g, !.open = FALSE, !.len = x.len + 1]
<1>3. LastParam(x) = y
  <2>1. LastParam(x) = Put(x, FALSE)
    BY <1>2 DEF LastParam
  <2>2. Append(x.groups, << x.param >>) = g
    BY DEF Plainly
  <2>3. x.open = FALSE
    BY DEF Plainly
  <2> HIDE DEF g
  <2>4. Put(x, FALSE) = y
    BY <2>2, <2>3 DEF Put
  <2>5. QED
    BY <2>1, <2>4
<1>4. ChangeState(x, 126) = To(Dispatch(y, "csi", 126), Ground)
  <2>1. ChangeState(x, 126) = AdvanceParam(x, "Csi", 126)
    BY <1>1 DEF ChangeState
  <2>2. AdvanceParam(x, "Csi", 126) = Finish(x, "Csi", 126)
    BY DEF AdvanceParam, C0, Collects, Digits, Colon, Semi, Markers, Finals
  <2>3. Finish(x, "Csi", 126) = CsiDispatch(x, 126)
    BY DEF Finish
  <2> HIDE DEF y
  <2>4. QED
    BY <1>3, <2>1, <2>2, <2>3 DEF CsiDispatch
<1>5. y.groups = g /\ y.inter = <<>> /\ y.ignoring = FALSE /\ y.out = o /\ DOMAIN y = Fields
  BY DEF Plainly, Fields
<1> HIDE DEF y, g
<1>6. /\ To(Dispatch(y, "csi", 126), Ground).state = Ground
      /\ To(Dispatch(y, "csi", 126), Ground).out = Append(o, <<"csi", g, <<>>, FALSE, 126>>)
  BY <1>5 DEF To, Dispatch, Perform, Fields
<1>7. QED
  BY <1>4, <1>6 DEF Finished, g

\* A parser in the ground state reads a fence as that.
LEMMA FenceRead ==
  ASSUME NEW P, NEW m \in Nat, Steps(P, m), NEW j \in Nat, j + 6 <= m, NEW s \in Seq(Octets),
         Alike(P[j], P[j], <<>>, s, s), P[j].state = Ground, NEW d \in {0, 1}, IsFence(s, d)
  PROVE  /\ Alike(P[j + 6], P[j + 6], <<>>, Beyond(s, 6), Beyond(s, 6))
         /\ P[j + 6].state = Ground /\ P[j + 6].out = Append(P[j].out, FenceEvent(d))
<1> DEFINE p == P[j]
           o == p.out
<1>1. /\ P[j + 1] = Pass(p) /\ P[j + 2] = Pass(P[j + 1]) /\ P[j + 3] = Pass(P[j + 2])
      /\ P[j + 4] = Pass(P[j + 3]) /\ P[j + 5] = Pass(P[j + 4]) /\ P[j + 6] = Pass(P[j + 5])
  <2>1. /\ j + 1 \in 1 .. m /\ j + 2 \in 1 .. m /\ j + 3 \in 1 .. m /\ j + 4 \in 1 .. m /\ j + 5 \in 1 .. m
        /\ j + 6 \in 1 .. m /\ (j + 1) - 1 = j /\ (j + 2) - 1 = j + 1 /\ (j + 3) - 1 = j + 2
        /\ (j + 4) - 1 = j + 3 /\ (j + 5) - 1 = j + 4 /\ (j + 6) - 1 = j + 5
    OBVIOUS
  <2>2. \A n \in 1 .. m : P[n] = Pass(P[n - 1])
    BY DEF Steps
  <2>3. P[j + 1] = Pass(P[(j + 1) - 1]) /\ P[j + 2] = Pass(P[(j + 2) - 1]) /\ P[j + 3] = Pass(P[(j + 3) - 1])
    BY <2>1, <2>2
  <2>4. P[j + 4] = Pass(P[(j + 4) - 1]) /\ P[j + 5] = Pass(P[(j + 5) - 1]) /\ P[j + 6] = Pass(P[(j + 6) - 1])
    BY <2>1, <2>2
  <2>5. QED
    BY <2>1, <2>3, <2>4
<1> DEFINE p1 == P[j + 1]
           p2 == P[j + 2]
           p3 == P[j + 3]
           p4 == P[j + 4]
           p5 == P[j + 5]
           p6 == P[j + 6]
<1> HIDE DEF p, p1, p2, p3, p4, p5, p6
<1>2. /\ p1 = Pass(p) /\ p2 = Pass(p1) /\ p3 = Pass(p2) /\ p4 = Pass(p3) /\ p5 = Pass(p4) /\ p6 = Pass(p5)
  BY <1>1 DEF p, p1, p2, p3, p4, p5, p6
<1>3. /\ Len(s) \in Nat /\ 1 < Len(s) /\ 2 < Len(s) /\ 3 < Len(s) /\ 4 < Len(s) /\ 5 < Len(s)
      /\ s[1] = ESC /\ s[1 + 1] = 91 /\ s[2 + 1] = 50 /\ s[3 + 1] = 48 /\ s[4 + 1] = 48 + d /\ s[5 + 1] = 126
  BY DEF IsFence
<1>4. /\ Alike(p, p, <<>>, s, s) /\ p.state = Ground /\ Sound(p) /\ p.rest = s /\ s # <<>>
      /\ DOMAIN p = Fields
  <2>1. Alike(p, p, <<>>, s, s)
    BY DEF p
  <2>2. p.rest = s /\ DOMAIN p = Fields
    BY <2>1 DEF Alike, Twins
  <2>3. QED
    BY <1>3, <2>1, <2>2 DEF Sound, p
<1>5. Amid(o, p1, Escape, 0, 1, s)
  <2>1. /\ Alike(Loop(p), Loop(p), <<>>, Loop(p).rest, Loop(p).rest)
        /\ Loop(p).state = Escape /\ Fresh(Loop(p))
        /\ Loop(p).rest = SubSeq(s, 2, Len(s)) /\ Loop(p) = Taken(To(ResetParams(p), Escape), 1)
    BY <1>3, <1>4, EscLoop
  <2>2. p1 = Loop(p)
    BY <1>2, <1>4 DEF Pass
  <2>3. p1.out = o /\ DOMAIN p1 = Fields
    BY <1>4, <2>1, <2>2 DEF Taken, To, ResetParams, Fields
  <2>4. SubSeq(s, 2, Len(s)) = Beyond(s, 1)
    <3>1. 1 + 1 = 2
      OBVIOUS
    <3>2. QED
      BY <3>1 DEF Beyond
  <2>5. QED
    BY <2>1, <2>2, <2>3, <2>4 DEF Amid, Plainly, Fresh
<1> HIDE DEF o
<1>6. /\ Escape # Ground /\ <<"Entry", "Csi">> # Ground /\ <<"Param", "Csi">> # Ground
      /\ 1 + 1 = 2 /\ 2 + 1 = 3 /\ 3 + 1 = 4 /\ 4 + 1 = 5 /\ 5 + 1 = 6
  BY DEF Escape, Ground
<1>7. Amid(o, p2, <<"Entry", "Csi">>, 0, 2, s)
  <2>1. /\ p2 = ChangeState(Taken(p1, 1), 91)
        /\ Alike(p2, p2, <<>>, Beyond(s, 2), Beyond(s, 2))
        /\ Plainly(o, Taken(p1, 1), Escape, 0)
    <3> DEFINE st == Escape
               par == 0
               k == 1
    <3>1. k \in Nat /\ k < Len(s) /\ Amid(o, p1, st, par, k, s) /\ st # Ground
      BY <1>3, <1>5, <1>6
    <3> HIDE DEF st, par, k
    <3>2. /\ Pass(p1) = ChangeState(Taken(p1, 1), s[k + 1])
          /\ Alike(Pass(p1), Pass(p1), <<>>, Beyond(s, k + 1), Beyond(s, k + 1))
          /\ Plainly(o, Taken(p1, 1), st, par)
      BY <3>1, AmidPass
    <3>3. k + 1 = 2 /\ s[k + 1] = 91
      BY <1>3, <1>6 DEF k
    <3>4. QED
      BY <1>2, <3>2, <3>3 DEF st, par
  <2>2. QED
    BY <2>1, BracketTaken DEF Amid
<1>8. Amid(o, p3, <<"Param", "Csi">>, 2, 3, s)
  <2>1. /\ p3 = ChangeState(Taken(p2, 1), 50)
        /\ Alike(p3, p3, <<>>, Beyond(s, 3), Beyond(s, 3))
        /\ Plainly(o, Taken(p2, 1), <<"Entry", "Csi">>, 0)
    <3> DEFINE st == <<"Entry", "Csi">>
               par == 0
               k == 2
    <3>1. k \in Nat /\ k < Len(s) /\ Amid(o, p2, st, par, k, s) /\ st # Ground
      BY <1>3, <1>7, <1>6
    <3> HIDE DEF st, par, k
    <3>2. /\ Pass(p2) = ChangeState(Taken(p2, 1), s[k + 1])
          /\ Alike(Pass(p2), Pass(p2), <<>>, Beyond(s, k + 1), Beyond(s, k + 1))
          /\ Plainly(o, Taken(p2, 1), st, par)
      BY <3>1, AmidPass
    <3>3. k + 1 = 3 /\ s[k + 1] = 50
      BY <1>3, <1>6 DEF k
    <3>4. QED
      BY <1>2, <3>2, <3>3 DEF st, par
  <2>2. 50 \in 48 .. 57 /\ 0 * 10 + (50 - 48) = 2
    OBVIOUS
  <2>3. Plainly(o, p3, <<"Param", "Csi">>, 0 * 10 + (50 - 48))
    BY <2>1, <2>2, DigitTaken
  <2>4. QED
    BY <2>1, <2>2, <2>3 DEF Amid
<1>9. Amid(o, p4, <<"Param", "Csi">>, 20, 4, s)
  <2>1. /\ p4 = ChangeState(Taken(p3, 1), 48)
        /\ Alike(p4, p4, <<>>, Beyond(s, 4), Beyond(s, 4))
        /\ Plainly(o, Taken(p3, 1), <<"Param", "Csi">>, 2)
    <3> DEFINE st == <<"Param", "Csi">>
               par == 2
               k == 3
    <3>1. k \in Nat /\ k < Len(s) /\ Amid(o, p3, st, par, k, s) /\ st # Ground
      BY <1>3, <1>8, <1>6
    <3> HIDE DEF st, par, k
    <3>2. /\ Pass(p3) = ChangeState(Taken(p3, 1), s[k + 1])
          /\ Alike(Pass(p3), Pass(p3), <<>>, Beyond(s, k + 1), Beyond(s, k + 1))
          /\ Plainly(o, Taken(p3, 1), st, par)
      BY <3>1, AmidPass
    <3>3. k + 1 = 4 /\ s[k + 1] = 48
      BY <1>3, <1>6 DEF k
    <3>4. QED
      BY <1>2, <3>2, <3>3 DEF st, par
  <2>2. 48 \in 48 .. 57 /\ 2 * 10 + (48 - 48) = 20
    OBVIOUS
  <2>3. Plainly(o, p4, <<"Param", "Csi">>, 2 * 10 + (48 - 48))
    BY <2>1, <2>2, DigitTaken
  <2>4. QED
    BY <2>1, <2>2, <2>3 DEF Amid
<1>10. Amid(o, p5, <<"Param", "Csi">>, 200 + d, 5, s)
  <2>1. /\ p5 = ChangeState(Taken(p4, 1), 48 + d)
        /\ Alike(p5, p5, <<>>, Beyond(s, 5), Beyond(s, 5))
        /\ Plainly(o, Taken(p4, 1), <<"Param", "Csi">>, 20)
    <3> DEFINE st == <<"Param", "Csi">>
               par == 20
               k == 4
    <3>1. k \in Nat /\ k < Len(s) /\ Amid(o, p4, st, par, k, s) /\ st # Ground
      BY <1>3, <1>9, <1>6
    <3> HIDE DEF st, par, k
    <3>2. /\ Pass(p4) = ChangeState(Taken(p4, 1), s[k + 1])
          /\ Alike(Pass(p4), Pass(p4), <<>>, Beyond(s, k + 1), Beyond(s, k + 1))
          /\ Plainly(o, Taken(p4, 1), st, par)
      BY <3>1, AmidPass
    <3>3. k + 1 = 5 /\ s[k + 1] = 48 + d
      BY <1>3, <1>6 DEF k
    <3>4. QED
      BY <1>2, <3>2, <3>3 DEF st, par
  <2>2. 48 + d \in 48 .. 57 /\ 20 * 10 + ((48 + d) - 48) = 200 + d /\ 20 * 10 + ((48 + d) - 48) <= 201
    OBVIOUS
  <2>3. Plainly(o, p5, <<"Param", "Csi">>, 20 * 10 + ((48 + d) - 48))
    BY <2>1, <2>2, DigitTaken
  <2>4. QED
    BY <2>1, <2>2, <2>3 DEF Amid
<1>11. /\ Alike(p6, p6, <<>>, Beyond(s, 6), Beyond(s, 6))
       /\ p6.state = Ground /\ p6.out = Append(o, FenceEvent(d))
  <2>1. /\ p6 = ChangeState(Taken(p5, 1), 126)
        /\ Alike(p6, p6, <<>>, Beyond(s, 6), Beyond(s, 6))
        /\ Plainly(o, Taken(p5, 1), <<"Param", "Csi">>, 200 + d)
    <3> DEFINE st == <<"Param", "Csi">>
               par == 200 + d
               k == 5
    <3>1. k \in Nat /\ k < Len(s) /\ Amid(o, p5, st, par, k, s) /\ st # Ground
      BY <1>3, <1>10, <1>6
    <3> HIDE DEF st, par, k
    <3>2. /\ Pass(p5) = ChangeState(Taken(p5, 1), s[k + 1])
          /\ Alike(Pass(p5), Pass(p5), <<>>, Beyond(s, k + 1), Beyond(s, k + 1))
          /\ Plainly(o, Taken(p5, 1), st, par)
      BY <3>1, AmidPass
    <3>3. k + 1 = 6 /\ s[k + 1] = 126
      BY <1>3, <1>6 DEF k
    <3>4. QED
      BY <1>2, <3>2, <3>3 DEF st, par
  <2>2. QED
    <3> DEFINE x == Taken(p5, 1)
               par == 200 + d
    <3>1. Plainly(o, x, <<"Param", "Csi">>, par)
      BY <2>1
    <3> HIDE DEF x, par
    <3>2. Finished(o, x, par)
      BY <3>1, FinalTaken
    <3>3. QED
      BY <2>1, <3>2 DEF Finished, FenceEvent, x, par
<1>12. QED
  BY <1>11 DEF p6, o, p

\* What has been read of a paste: its start, then text and single controls.
TextOut(o) ==
  /\ ASeq(o) /\ Len(o) >= 1 /\ o[1] = FenceEvent(0)
  /\ \A i \in 2 .. Len(o) : o[i][1] \in {"print", "execute"}

\* Text with an ESC to come is told of, up to that ESC.
LEMMA TextRead ==
  ASSUME NEW q, NEW r, Alike(q, q, <<>>, r, r), q.state = Ground, r # <<>>, r[1] # ESC,
         NEW i \in 1 .. Len(r), r[i] = ESC, TextOut(q.out)
  PROVE  /\ TextOut(Pass(q).out) /\ Pass(q).state = Ground
         /\ Alike(Pass(q), Pass(q), <<>>, Pass(q).rest, Pass(q).rest)
         /\ Len(Pass(q).rest) \in Nat /\ Len(Pass(q).rest) > Len(r) - i
<1>1. q.rest = r /\ r \in Seq(Octets) /\ DOMAIN q = Fields /\ Sound(q) /\ Twins(q, q, <<>>, r, r)
  BY DEF Alike, Twins, WellShaped, Sound
<1> DEFINE v == Verdict(r)
           c == Bite(q)
<1>2. v.does = "tell" /\ v.take = c
  <2>1. v.does \in {"escape", "tell", "keep"} /\ (v.does = "escape" <=> r[1] = ESC)
        /\ (v.does = "keep" => r[i] # ESC)
    BY <1>1, VerdictSays
  <2>2. QED
    BY <1>1, <2>1 DEF Bite
<1>3. Pass(q) = Loop(q) /\ Loop(q) = Taken(Perform(q, v.event), c)
  <2>1. Pass(q) = Loop(q) /\ Loop(q) = AdvanceGround(q)
    BY <1>1 DEF Pass, Loop
  <2>2. GroundSays(q, v)
    BY <1>1, GroundDoes
  <2> HIDE DEF v, c
  <2>3. AdvanceGround(q) = Taken(Perform(q, v.event), v.take)
    BY <1>2, <2>2 DEF GroundSays
  <2>4. QED
    BY <1>2, <2>1, <2>3
<1>4. ~Keeps(q)
  BY <1>1, <1>2 DEF Keeps
<1>5. v.event[1] \in {"print", "execute"}
  <2>1. Replacement[1] = "print"
    BY DEF Replacement
  <2>2. \A text, head : Said(text, head)[1] \in {"print", "execute"}
    BY <2>1 DEF Said
  <2> DEFINE text == Plain(r)
             head == Utf8(text)
  <2>3. v.event = Said(text, head) \/ v.event = Replacement
    <3>1. v = IF text = <<>> THEN [does |-> "escape", event |-> <<>>, take |-> 1]
              ELSE IF head.kind # "cut" THEN [does |-> "tell", event |-> Said(text, head), take |-> head.len]
              ELSE IF Len(text) < Len(r) THEN [does |-> "tell", event |-> Replacement, take |-> Len(text)]
              ELSE [does |-> "keep", event |-> <<>>, take |-> Len(r)]
      BY DEF Verdict
    <3> HIDE DEF text, head, v
    <3>2. QED
      BY <1>2, <3>1
  <2>4. QED
    BY <2>1, <2>2, <2>3
<1>6. /\ Alike(Loop(q), Loop(q), <<>>, Loop(q).rest, Loop(q).rest)
      /\ Loop(q).rest = SubSeq(r, c + 1, Len(r))
  BY <1>1, <1>4, LoopSound
<1>7. c \in 1 .. Len(r) /\ Len(r) \in Nat /\ \A k \in 2 .. c : r[k] # ESC
  BY <1>1, BiteSays
<1> DEFINE e == v.event
<1> HIDE DEF c, v, e
<1>8. Pass(q).state = Ground /\ Pass(q).out = Append(q.out, e)
  BY <1>1, <1>3 DEF Taken, Perform, Fields, e
<1>9. Len(Pass(q).rest) \in Nat /\ Len(Pass(q).rest) > Len(r) - i
  <2>1. c \in Nat /\ c <= Len(r) /\ c < i
    <3>1. i # 1
      OBVIOUS
    <3>2. ~(i \in 2 .. c)
      BY <1>7
    <3>3. QED
      BY <1>7, <3>1, <3>2
  <2>2. Len(SubSeq(r, c + 1, Len(r))) = Len(r) - c
    BY <1>1, <2>1, RestOf
  <2>3. Len(Pass(q).rest) = Len(r) - c
    BY <1>3, <1>6, <2>2
  <2>4. QED
    BY <1>7, <2>1, <2>3
<1>10. TextOut(Append(q.out, e))
  <2> DEFINE o == q.out
             x == Append(o, e)
  <2>1. ASeq(o) /\ Len(o) >= 1 /\ o[1] = FenceEvent(0) /\ \A k \in 2 .. Len(o) : o[k][1] \in {"print", "execute"}
    BY DEF TextOut
  <2> HIDE DEF o
  <2>2. /\ ASeq(x) /\ Len(o) \in Nat /\ Len(x) = Len(o) + 1 /\ x[Len(o) + 1] = e
        /\ \A k \in 1 .. Len(o) : x[k] = o[k]
    BY <2>1, SeqAppends
  <2> HIDE DEF x
  <2>3. ASSUME NEW k \in 2 .. Len(x) PROVE x[k][1] \in {"print", "execute"}
    <3>1. CASE k = Len(o) + 1
      BY <1>5, <2>2, <3>1 DEF e
    <3>2. CASE k # Len(o) + 1
      <4>1. k \in 2 .. Len(o) /\ k \in 1 .. Len(o)
        BY <2>2, <3>2
      <4>2. QED
        BY <2>1, <2>2, <4>1
    <3>3. QED
      BY <3>1, <3>2
  <2>4. Len(x) >= 1 /\ x[1] = FenceEvent(0)
    <3>1. 1 \in 1 .. Len(o)
      BY <2>1, <2>2
    <3>2. QED
      BY <2>1, <2>2, <3>1
  <2>5. TextOut(x)
    BY <2>2, <2>3, <2>4 DEF TextOut
  <2>6. QED
    BY <2>5 DEF x, o
<1>11. QED
  BY <1>3, <1>6, <1>8, <1>9, <1>10

\* A paste: the fences and n bytes between them that are no ESC.
IsPaste(b, n) ==
  /\ b \in Seq(Octets) /\ Len(b) = n + 12 /\ n \in Nat
  /\ IsFence(b, 0) /\ \A i \in 7 .. n + 6 : b[i] # ESC
  /\ b[n + 7] = ESC /\ b[n + 8] = 91 /\ b[n + 9] = 50 /\ b[n + 10] = 48 /\ b[n + 11] = 49 /\ b[n + 12] = 126

LEMMA PasteRead ==
  ASSUME NEW b, NEW n, IsPaste(b, n)
  PROVE  \E o : TextOut(o) /\ Whole(b).out = Append(o, FenceEvent(1))
<1> DEFINE L == Len(b)
           P == Passes(Start(b))
<1>1. b \in Seq(Octets) /\ L = n + 12 /\ n \in Nat /\ L \in Nat
  BY DEF IsPaste
<1>2. /\ P[0] = Start(b) /\ Steps(P, L) /\ SoundRun(P, L) /\ Alike(P[0], P[0], <<>>, b, b)
      /\ P[0].state = Ground /\ P[0].rest = b /\ P[0].out = <<>>
  BY <1>1, StartRuns, StartShape
<1>3. Whole(b) = P[L]
  BY DEF Whole, Start
<1> HIDE DEF P
<1>4. \A k \in 0 .. L : EndOf(P[k].rest, b) /\ Len(P[k].rest) <= L
  BY <1>1, <1>2, RunLeaves
<1> HIDE DEF L
<1> DEFINE InText(k) == /\ Alike(P[k], P[k], <<>>, P[k].rest, P[k].rest) /\ P[k].state = Ground
                        /\ Len(P[k].rest) >= 6 /\ TextOut(P[k].out)
           G == {k \in 0 .. L : InText(k)}
<1>5. 6 \in G
  <2>1. 0 \in Nat /\ 0 + 6 <= L /\ 0 + 6 = 6 /\ 0 \in {0, 1} /\ IsFence(b, 0) /\ 6 \in 0 .. L
    BY <1>1 DEF IsPaste
  <2> DEFINE z == 0
  <2> HIDE DEF z
  <2>2. z \in Nat /\ z + 6 <= L /\ z + 6 = 6 /\ z \in {0, 1} /\ IsFence(b, z) /\ z = 0
    BY <2>1 DEF z
  <2>3. /\ Alike(P[z + 6], P[z + 6], <<>>, Beyond(b, 6), Beyond(b, 6))
        /\ P[z + 6].state = Ground /\ P[z + 6].out = Append(P[z].out, FenceEvent(z))
    <3>1. Alike(P[z], P[z], <<>>, b, b) /\ P[z].state = Ground
      BY <1>2, <2>2
    <3>2. QED
      BY <1>1, <1>2, <2>2, <3>1, FenceRead
  <2>4. /\ Alike(P[6], P[6], <<>>, Beyond(b, 6), Beyond(b, 6))
        /\ P[6].state = Ground /\ P[6].out = Append(<<>>, FenceEvent(0))
    BY <1>2, <2>2, <2>3
  <2>5. P[6].rest = Beyond(b, 6)
    BY <2>4 DEF Alike, Twins
  <2>6. Len(P[6].rest) >= 6
    <3>1. 6 \in Nat /\ 6 <= Len(b)
      BY <1>1 DEF L
    <3>2. Len(SubSeq(b, 6 + 1, Len(b))) = Len(b) - 6
      BY <1>1, <3>1, RestOf
    <3>3. QED
      BY <1>1, <2>5, <3>2 DEF Beyond, L
  <2>7. TextOut(P[6].out)
    <3> DEFINE e == FenceEvent(0)
               s == Append(<<>>, e)
    <3>1. ASeq(<<>>)
      <4>1. <<>> \in Seq(Octets)
        OBVIOUS
      <4>2. QED
        BY <4>1 DEF ASeq
    <3> HIDE DEF e
    <3>2. ASeq(s) /\ Len(s) = Len(<<>>) + 1 /\ s[Len(<<>>) + 1] = e
      BY <3>1, SeqAppends
    <3> HIDE DEF s
    <3>3. Len(s) = 1 /\ s[1] = e
      BY <3>2
    <3>4. TextOut(s)
      BY <3>2, <3>3 DEF TextOut, e
    <3>5. QED
      BY <2>4, <3>4 DEF s, e
  <2>8. QED
    BY <2>1, <2>4, <2>5, <2>6, <2>7
<1>6. G \subseteq 0 .. L /\ G # {}
  BY <1>5
<1>7. \A k \in G : k \in 0 .. L /\ InText(k)
  OBVIOUS
<1>8. \A k \in 0 .. L : InText(k) => k \in G
  OBVIOUS
<1> HIDE DEF G
<1>9. PICK j \in G : \A k \in G : k <= j
  BY <1>1, <1>6, HasGreatest
<1> DEFINE q == P[j]
           s == q.rest
           l == Len(s)
<1>10. j \in 0 .. L /\ j >= 6 /\ InText(j)
  BY <1>5, <1>7, <1>9
<1>11. /\ Alike(q, q, <<>>, s, s) /\ q.state = Ground /\ l >= 6 /\ TextOut(q.out)
       /\ s \in Seq(Octets) /\ l \in Nat /\ EndOf(s, b) /\ l <= L
  <2>1. P[j].rest \in Seq(Octets) /\ Len(P[j].rest) \in Nat
    BY <1>1, <1>2, <1>10, RunShape
  <2>2. EndOf(P[j].rest, b) /\ Len(P[j].rest) <= L
    BY <1>4, <1>10
  <2>3. /\ Alike(P[j], P[j], <<>>, P[j].rest, P[j].rest) /\ P[j].state = Ground
        /\ Len(P[j].rest) >= 6 /\ TextOut(P[j].out)
    BY <1>10
  <2> HIDE DEF InText
  <2>4. QED
    BY <2>1, <2>2, <2>3
<1>12. l <= L - j
  <2>1. Len(P[j].rest) <= Len(P[0].rest) - j
    <3>1. P[j].rest # <<>>
      BY <1>11
    <3>2. QED
      BY <1>1, <1>2, <1>10, <3>1, RunShape
  <2>2. QED
    BY <1>2, <2>1 DEF L
<1> HIDE DEF q, InText
<1>13. \A i \in 1 .. l : s[i] = b[(L - l) + i]
  BY <1>11 DEF EndOf, L
<1> DEFINE f == L - l
<1>14. f \in 6 .. n + 6 /\ f + l = n + 12
  <2>1. l \in Nat /\ l >= 6 /\ l <= L
    BY <1>11
  <2> HIDE DEF l
  <2>2. j \in Int /\ j >= 6
    BY <1>10
  <2>3. QED
    BY <1>1, <1>12, <2>1, <2>2
<1> HIDE DEF l
<1>15. l = 6
  <2>1. SUFFICES ASSUME l > 6 PROVE FALSE
    BY <1>11, <2>1
  <2> DEFINE i == l - 5
  <2>2. i \in 1 .. l /\ f + i = n + 7 /\ 1 \in 1 .. l /\ f + 1 \in 7 .. n + 6
    BY <1>1, <1>11, <1>14, <2>1
  <2>3. s[i] = ESC /\ s[1] # ESC
    <3>1. s[i] = b[f + i] /\ s[1] = b[f + 1]
      BY <1>13, <2>2
    <3>2. b[n + 7] = ESC /\ b[f + 1] # ESC
      BY <2>2 DEF IsPaste
    <3>3. QED
      BY <2>2, <3>1, <3>2
  <2> HIDE DEF i, f
  <2>4. s # <<>>
    BY <1>11, <2>1 DEF l
  <2>5. /\ TextOut(Pass(q).out) /\ Pass(q).state = Ground
        /\ Alike(Pass(q), Pass(q), <<>>, Pass(q).rest, Pass(q).rest)
        /\ Len(Pass(q).rest) \in Nat /\ Len(Pass(q).rest) > Len(s) - i
    <3> HIDE DEF s
    <3>1. i \in 1 .. Len(s)
      BY <2>2 DEF l
    <3>2. QED
      BY <1>11, <2>3, <2>4, <3>1, TextRead
  <2>6. Len(Pass(q).rest) >= 6
    <3>1. Len(s) - i = 5
      BY <1>11 DEF i, l
    <3>2. QED
      BY <2>5, <3>1
  <2>7. j + 1 \in 1 .. L /\ j + 1 \in 0 .. L /\ (j + 1) - 1 = j
    BY <1>1, <1>10, <1>11, <1>12
  <2>8. P[j + 1] = Pass(q)
    BY <1>2, <2>7 DEF Steps, q
  <2>9. InText(j + 1)
    BY <2>5, <2>6, <2>8 DEF InText
  <2>10. j + 1 <= j
    BY <1>8, <1>9, <2>7, <2>9
  <2>11. QED
    BY <1>10, <2>10
<1>16. IsFence(s, 1)
  <2>1. f = n + 6 /\ 48 + 1 = 49
    BY <1>1, <1>14, <1>15
  <2>2. /\ s[1] = b[f + 1] /\ s[2] = b[f + 2] /\ s[3] = b[f + 3] /\ s[4] = b[f + 4]
        /\ s[5] = b[f + 5] /\ s[6] = b[f + 6]
    BY <1>13, <1>15
  <2>3. f + 1 = n + 7 /\ f + 2 = n + 8 /\ f + 3 = n + 9 /\ f + 4 = n + 10 /\ f + 5 = n + 11 /\ f + 6 = n + 12
    BY <1>1, <2>1
  <2> HIDE DEF f, s
  <2>4. /\ s[1] = b[n + 7] /\ s[2] = b[n + 8] /\ s[3] = b[n + 9] /\ s[4] = b[n + 10]
        /\ s[5] = b[n + 11] /\ s[6] = b[n + 12]
    BY <2>2, <2>3
  <2>5. Len(s) >= 6
    BY <1>15 DEF l
  <2>6. QED
    BY <2>1, <2>4, <2>5 DEF IsFence, IsPaste
<1>17. j \in Nat /\ j + 6 <= L /\ j + 6 \in 0 .. L
  BY <1>1, <1>10, <1>12, <1>15
<1> DEFINE d == 1
<1>18. d \in {0, 1} /\ IsFence(s, d)
  BY <1>16
<1> HIDE DEF d, s
<1>19. /\ Alike(P[j + 6], P[j + 6], <<>>, Beyond(s, 6), Beyond(s, 6))
       /\ P[j + 6].out = Append(P[j].out, FenceEvent(d))
  BY <1>1, <1>2, <1>11, <1>17, <1>18, FenceRead DEF q
<1>20. P[j + 6].rest = <<>>
  <2>1. P[j + 6].rest = Beyond(s, 6)
    BY <1>19 DEF Alike, Twins
  <2>2. Len(s) = 6 /\ s \in Seq(Octets)
    BY <1>11, <1>15 DEF l
  <2>3. SubSeq(s, Len(s) + 1, Len(s)) = <<>>
    BY <2>2, NoTail
  <2>4. QED
    BY <2>1, <2>2, <2>3 DEF Beyond
<1>21. P[L] = P[j + 6]
  BY <1>1, <1>2, <1>17, <1>20, RunStays
<1>22. QED
  BY <1>3, <1>11, <1>19, <1>21 DEF q, d

\* What paste::encode makes of data.
LEMMA PasteIs ==
  ASSUME NEW data \in Seq(Octets)
  PROVE  /\ IsPaste(PasteEncode(data, TRUE), Len(data))
         /\ \A i \in 1 .. Len(data) : PasteEncode(data, FALSE)[i] \notin {10, 27}
<1> DEFINE Clean(bracketed) == [i \in 1..Len(data) |-> CASE data[i] \in Strip -> 32
                                         [] data[i] = 10 /\ ~bracketed -> 13
                                         [] OTHER -> data[i]]
           n == Len(data)
           c == Clean(TRUE)
<1>1. n \in Nat /\ \A i \in 1 .. n : data[i] \in Octets
  OBVIOUS
<1>2. \A i \in 1 .. n : PasteEncode(data, FALSE)[i] \notin {10, 27}
  <2>1. PasteEncode(data, FALSE) = Clean(FALSE)
    BY DEF PasteEncode
  <2>2. ASSUME NEW i \in 1 .. n PROVE Clean(FALSE)[i] \notin {10, 27}
    BY DEF Strip
  <2> HIDE DEF Clean
  <2>3. QED
    BY <2>1, <2>2
<1>3. c \in [1 .. n -> Octets] /\ \A i \in 1 .. n : c[i] # ESC
  <2>1. ASSUME NEW i \in 1 .. n PROVE c[i] \in Octets /\ c[i] # ESC
    <3>1. data[i] \in Octets /\ 32 \in Octets /\ 32 # ESC
      BY <1>1 DEF Octets, ESC
    <3>2. c[i] = 32 \/ (c[i] = data[i] /\ data[i] \notin Strip)
      BY DEF Strip
    <3>3. QED
      BY <3>1, <3>2 DEF Strip, ESC
  <2>2. c = [i \in 1 .. n |-> c[i]]
    OBVIOUS
  <2> HIDE DEF c
  <2>3. QED
    BY <2>1, <2>2
<1>4. c \in Seq(Octets) /\ Len(c) = n
  <2> HIDE DEF c, n
  <2>1. QED
    BY <1>1, <1>3
<1> DEFINE g == FenceBytes(0)
           h == FenceBytes(1)
           a == g \o c
           b == a \o h
<1>5. PasteEncode(data, TRUE) = b
  BY DEF PasteEncode, FenceBytes
<1>6. /\ g \in Seq(Octets) /\ Len(g) = 6 /\ g[1] = ESC /\ g[2] = 91 /\ g[3] = 50 /\ g[4] = 48
      /\ g[5] = 48 + 0 /\ g[6] = 126
      /\ h \in Seq(Octets) /\ Len(h) = 6 /\ h[1] = ESC /\ h[2] = 91 /\ h[3] = 50 /\ h[4] = 48
      /\ h[5] = 48 + 1 /\ h[6] = 126
  BY DEF FenceBytes, Octets, ESC
<1> HIDE DEF g, h, c, a, b, n
<1>7. /\ a \in Seq(Octets) /\ Len(a) = 6 + n /\ \A i \in 1 .. 6 : a[i] = g[i]
      /\ \A i \in 1 .. n : a[6 + i] = c[i]
  <2>1. g \in Seq(Octets) /\ c \in Seq(Octets)
    BY <1>4, <1>6
  <2>2. /\ g \o c \in Seq(Octets) /\ Len(g \o c) = Len(g) + Len(c)
        /\ \A i \in 1 .. Len(g) : (g \o c)[i] = g[i]
        /\ \A i \in 1 .. Len(c) : (g \o c)[Len(g) + i] = c[i]
    BY <2>1, JoinSays
  <2>3. Len(g) = 6 /\ Len(c) = n
    BY <1>4, <1>6
  <2>4. Len(a) = 6 + n /\ (\A i \in 1 .. 6 : a[i] = g[i]) /\ \A i \in 1 .. n : a[6 + i] = c[i]
    BY <2>2, <2>3 DEF a
  <2>5. a \in Seq(Octets)
    BY <2>2 DEF a
  <2>6. QED
    BY <2>4, <2>5
<1>8. /\ b \in Seq(Octets) /\ Len(b) = (6 + n) + 6 /\ \A i \in 1 .. 6 + n : b[i] = a[i]
      /\ \A i \in 1 .. 6 : b[(6 + n) + i] = h[i]
  <2>1. a \in Seq(Octets) /\ h \in Seq(Octets)
    BY <1>6, <1>7
  <2>2. /\ a \o h \in Seq(Octets) /\ Len(a \o h) = Len(a) + Len(h)
        /\ \A i \in 1 .. Len(a) : (a \o h)[i] = a[i]
        /\ \A i \in 1 .. Len(h) : (a \o h)[Len(a) + i] = h[i]
    BY <2>1, JoinSays
  <2>3. Len(a) = 6 + n /\ Len(h) = 6
    BY <1>6, <1>7
  <2>4. Len(b) = (6 + n) + 6 /\ (\A i \in 1 .. 6 + n : b[i] = a[i]) /\ \A i \in 1 .. 6 : b[(6 + n) + i] = h[i]
    BY <2>2, <2>3 DEF b
  <2>5. b \in Seq(Octets)
    BY <2>2 DEF b
  <2>6. QED
    BY <2>4, <2>5
<1>9. IsFence(b, 0)
  <2>1. \A i \in 1 .. 6 : i \in 1 .. 6 + n
    BY <1>1 DEF n
  <2>2. b[1] = g[1] /\ b[2] = g[2] /\ b[3] = g[3] /\ b[4] = g[4] /\ b[5] = g[5] /\ b[6] = g[6]
    <3>1. \A i \in 1 .. 6 : b[i] = g[i]
      BY <1>7, <1>8, <2>1
    <3>2. QED
      BY <3>1
  <2>3. Len(b) >= 6
    BY <1>1, <1>8 DEF n
  <2>4. QED
    BY <1>6, <2>2, <2>3 DEF IsFence
<1>10. ASSUME NEW i \in 7 .. n + 6 PROVE b[i] # ESC
  <2> DEFINE k == i - 6
  <2>1. k \in 1 .. n /\ 6 + k = i /\ i \in 1 .. 6 + n
    BY <1>1 DEF n
  <2> HIDE DEF k
  <2>2. b[i] = c[k]
    BY <1>7, <1>8, <2>1
  <2>3. QED
    BY <1>3, <2>1, <2>2
<1>11. /\ b[n + 7] = ESC /\ b[n + 8] = 91 /\ b[n + 9] = 50 /\ b[n + 10] = 48 /\ b[n + 11] = 49
       /\ b[n + 12] = 126
  <2>1. /\ (6 + n) + 1 = n + 7 /\ (6 + n) + 2 = n + 8 /\ (6 + n) + 3 = n + 9 /\ (6 + n) + 4 = n + 10
        /\ (6 + n) + 5 = n + 11 /\ (6 + n) + 6 = n + 12 /\ 48 + 1 = 49
    BY <1>1 DEF n
  <2>2. /\ b[(6 + n) + 1] = h[1] /\ b[(6 + n) + 2] = h[2] /\ b[(6 + n) + 3] = h[3] /\ b[(6 + n) + 4] = h[4]
        /\ b[(6 + n) + 5] = h[5] /\ b[(6 + n) + 6] = h[6]
    BY <1>8
  <2>3. QED
    BY <1>6, <2>1, <2>2
<1>12. Len(b) = n + 12 /\ n \in Nat
  BY <1>1, <1>8 DEF n
<1>13. IsPaste(b, n)
  BY <1>8, <1>9, <1>10, <1>11, <1>12 DEF IsPaste
<1>14. QED
  BY <1>2, <1>5, <1>13 DEF n

LEMMA PasteInside ==
  ASSUME fed \in Seq(Octets)
  PROVE  PasteStaysInside
<1> DEFINE data == fed
           out == Whole(PasteEncode(data, TRUE)).out
           n == Len(out)
<1>1. PICK o : TextOut(o) /\ out = Append(o, FenceEvent(1))
  BY PasteIs, PasteRead
<1>2. \A i \in 1 .. Len(data) : PasteEncode(data, FALSE)[i] \notin {10, 27}
  BY PasteIs
<1>3. ASeq(o) /\ Len(o) >= 1 /\ o[1] = FenceEvent(0) /\ \A i \in 2 .. Len(o) : o[i][1] \in {"print", "execute"}
  BY <1>1 DEF TextOut
<1> DEFINE e == FenceEvent(1)
<1> HIDE DEF out, e
<1>4. /\ Len(o) \in Nat /\ n = Len(o) + 1 /\ out[Len(o) + 1] = e /\ \A i \in 1 .. Len(o) : out[i] = o[i]
  BY <1>1, <1>3, SeqAppends DEF e
<1> HIDE DEF n
<1>5. n > 1 /\ 1 \in 1 .. Len(o)
  BY <1>3, <1>4
<1>6. out[1] = FenceEvent(0) /\ out[n] = e
  BY <1>3, <1>4, <1>5
<1>7. ASSUME NEW i \in 2 .. n - 1 PROVE out[i][1] \in {"print", "execute"}
  <2>1. i \in 2 .. Len(o) /\ i \in 1 .. Len(o)
    BY <1>4
  <2>2. QED
    BY <1>3, <1>4, <2>1
<1>8. 200 + 0 = 200 /\ 200 + 1 = 201
  OBVIOUS
<1>9. QED
  BY <1>2, <1>5, <1>6, <1>7, <1>8 DEF PasteStaysInside, FenceEvent, out, n, e

-----------------------------------------------------------------------------
(* The wire.                                                               *)

LEMMA InputKeeps ==
  ASSUME KeyInv /\ MouseInv, WireNext \/ UNCHANGED wvars
  PROVE  KeyInv' /\ MouseInv'
<1>1. KeyNext \/ UNCHANGED kvars
  BY DEF WireNext, wvars
<1>2. MouseNext \/ UNCHANGED mvars
  BY DEF WireNext, wvars
<1>3. QED
  BY <1>1, <1>2, KeyKeeps, MouseKeeps

\* The inductive invariant of the keys and the pointer: what the child takes for
\* held is held or its release was lost in a cell without a name, or is one of
\* the three keys that keep their legacy form.
THEOREM InputInvariant == WireSpec => [](KeyInv /\ MouseInv)
<1>1. WireInit => KeyInv /\ MouseInv
  BY KeyStarts, MouseStarts DEF WireInit
<1>2. KeyInv /\ MouseInv /\ [WireNext]_wvars => (KeyInv /\ MouseInv)'
  BY InputKeeps
<1>3. QED
  BY <1>1, <1>2, PTL DEF WireSpec

\* A child that reads the kitty protocol reads every key as what it was, with any
\* modifiers, flags and layout, no key or button stays down for it that is up,
\* and it knows the cell the pointer is in (key::encode, Pointer::button).
THEOREM InputAlwaysTold == WireSpec => []InputTold
<1>1. KeyInv /\ MouseInv => InputTold
  BY KeyTold DEF InputTold, MouseInv
<1>2. QED
  BY <1>1, InputInvariant, PTL

LEMMA WholeSoFar ==
  ASSUME ParserInv, parser.rest = <<>>, ~tangled
  PROVE  parser = Whole(fed) /\ fed \in Seq(Octets)
<1>1. OneRead(parser, fed) /\ fed \in Seq(Octets)
  BY DEF ParserInv
<1>2. QED
  BY <1>1, WholeIs

\* Where a read ends does not show, and an ESC starts afresh.
LEMMA ReadOnce ==
  ASSUME ParserInv
  PROVE  BytesReadOnce
<1>1. ReadsAgree
  BY WholeSoFar DEF ReadsAgree
<1>2. EscapeResynchronises
  <2> DEFINE escapes == {i \in 1..Len(fed) : fed[i] = ESC}
             e == Max(escapes)
             after == Whole(SubSeq(fed, e, Len(fed)))
             o == parser.out
  <2>1. SUFFICES ASSUME parser.rest = <<>>, ~tangled, escapes # {}
                 PROVE  IsSuffix(after.out, parser.out) /\ [after EXCEPT !.out = o] = parser
    BY DEF EscapeResynchronises
  <2>2. parser = Whole(fed) /\ fed \in Seq(Octets) /\ Len(fed) \in Nat
    BY <2>1, WholeSoFar
  <2>3. e \in 1 .. Len(fed) /\ fed[e] = ESC
    <3>1. escapes \subseteq 0 .. Len(fed)
      OBVIOUS
    <3>2. \A i \in escapes : i \in 1 .. Len(fed) /\ fed[i] = ESC
      OBVIOUS
    <3> HIDE DEF escapes
    <3>3. PICK x \in escapes : \A y \in escapes : y <= x
      BY <2>1, <2>2, <3>1, HasGreatest
    <3>4. \A y \in escapes : x >= y
      BY <2>2, <3>1, <3>3
    <3>5. e \in escapes
      BY <3>3, <3>4 DEF Max
    <3>6. QED
      BY <3>2, <3>5
  <2> HIDE DEF e
  <2>4. LET a == Whole(SubSeq(fed, e, Len(fed)))
            p == Whole(fed)
        IN IsSuffix(a.out, p.out) /\ [a EXCEPT !.out = p.out] = p
    BY <2>2, <2>3, EscapeAlone
  <2>5. QED
    BY <2>2, <2>4 DEF after, o
<1>3. QED
  BY <1>1, <1>2 DEF BytesReadOnce

LEMMA ReadKeeps ==
  ASSUME ParserInv, WireNext \/ UNCHANGED wvars
  PROVE  ParserInv'
<1>1. Next \/ UNCHANGED vars
  BY DEF WireNext, wvars
<1>2. QED
  BY <1>1, ParserKeeps

\* The inductive invariant of the parser: its state has the shape its step needs,
\* and, until a character's end is tangled with what follows it, is a state of
\* the one read of everything so far (Parser::advance, advance_partial_utf8).
THEOREM ParserInvariant == WireSpec => []ParserInv
<1>1. WireInit => ParserInv
  BY ParserStarts DEF WireInit
<1>2. ParserInv /\ [WireNext]_wvars => ParserInv'
  BY ReadKeeps
<1>3. QED
  BY <1>1, <1>2, PTL DEF WireSpec

\* The types of all three parts, and that no buffer of the parser is overrun:
\* intermediates, parameters, the OSC and a character's bytes.
THEOREM WireTypesCorrect == WireSpec => []WireTypeOK
<1>1. ParserInv /\ (KeyInv /\ MouseInv) => WireTypeOK
  BY ParserTypes, KeyTold, MouseTypes DEF WireTypeOK
<1>2. QED
  BY <1>1, ParserInvariant, InputInvariant, PTL

\* However the reads of the pty cut what a program writes, what is performed and
\* the state left are those of a single read, and after the last ESC they depend
\* on nothing before it (Parser::advance, advance_partial_utf8, reset_params).
THEOREM BytesAlwaysReadOnce == WireSpec => []BytesReadOnce
<1>1. ParserInv => BytesReadOnce
  BY ReadOnce
<1>2. QED
  BY <1>1, ParserInvariant, PTL

\* Any bytes whatever, pasted, are read as text between one pair of fences
\* (paste::encode).
THEOREM PastesStayInside == WireSpec => []PasteStaysInside
<1>1. ParserInv => PasteStaysInside
  BY PasteInside DEF ParserInv
<1>2. QED
  BY <1>1, ParserInvariant, PTL
=============================================================================
