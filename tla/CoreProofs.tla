----------------------------- MODULE CoreProofs -----------------------------
(***************************************************************************)
(* What Core's runs check of the modes, proved for every value of the      *)
(* constants: no command leaves a terminal of the wrong shape (Sound), the *)
(* rings of keyboard flags are the specification's stack, and leaving the  *)
(* full-screen picture brings the shell's screen back (ModesInv, Behind).  *)
(*                                                                         *)
(* The commands are proved one at a time. A helper of Modes that goes      *)
(* through a list (a set of lines, a list of modes, of colours) is a       *)
(* function of how far it has gone; each has a lemma that says what one    *)
(* step of it is, and Climbing carries what a step keeps to the end.       *)
(***************************************************************************)
EXTENDS Core, Climbing, FiniteSetTheorems, SequenceTheorems


-----------------------------------------------------------------------------
(* Sequences of any kind of member.                                        *)

IsSequence(s) == \E S : s \in Seq(S)

LEMMA SequenceLength ==
  ASSUME NEW s, IsSequence(s)
  PROVE  Len(s) \in Nat /\ DOMAIN s = 1 .. Len(s)
  BY DEF IsSequence

LEMMA EmptySequence == IsSequence(<<>>) /\ Len(<<>>) = 0
  BY DEF IsSequence

LEMMA AppendSequence ==
  ASSUME NEW s, IsSequence(s), NEW e
  PROVE  /\ IsSequence(Append(s, e)) /\ Len(Append(s, e)) = Len(s) + 1
         /\ \A i \in 1 .. Len(s) : Append(s, e)[i] = s[i]
         /\ Append(s, e)[Len(s) + 1] = e
<1>1. PICK S : s \in Seq(S)
  BY DEF IsSequence
<1> DEFINE T == S \union {e}
<1>2. s \in Seq(T) /\ e \in T
  BY <1>1
<1> HIDE DEF T
<1>3. Append(s, e) \in Seq(T)
  BY <1>2
<1>4. QED
  BY <1>2, <1>3 DEF IsSequence

LEMMA TailSequence ==
  ASSUME NEW s, IsSequence(s), s # <<>>
  PROVE  IsSequence(Tail(s)) /\ Len(Tail(s)) = Len(s) - 1
<1>1. PICK S : s \in Seq(S)
  BY DEF IsSequence
<1>2. Tail(s) \in Seq(S) /\ Len(Tail(s)) = Len(s) - 1
  BY <1>1
<1>3. QED
  BY <1>2 DEF IsSequence

LEMMA FrontSequence ==
  ASSUME NEW s, IsSequence(s), s # <<>>
  PROVE  IsSequence(Front(s)) /\ Len(Front(s)) = Len(s) - 1
<1>1. PICK S : s \in Seq(S)
  BY DEF IsSequence
<1>2. Len(s) \in Nat \ {0} /\ DOMAIN s = 1 .. Len(s)
  BY <1>1
<1> DEFINE n == Len(s) - 1
<1>3. n \in 0 .. Len(s)
  BY <1>2
<1>4. Front(s) = [i \in 1 .. n |-> s[i]]
  BY <1>1, <1>2, <1>3 DEF Front
<1>5. [i \in 1 .. n |-> s[i]] \in Seq(S) /\ Len([i \in 1 .. n |-> s[i]]) = n
  BY <1>1, <1>2, <1>3
<1>6. QED
  BY <1>4, <1>5 DEF IsSequence

-----------------------------------------------------------------------------
(* A terminal of the modes.                                                *)


TermFields   == {"cols", "rows", "active", "screens", "pen", "savedPen", "tabs", "on", "event", "format",
                 "other2", "shape", "blink", "title", "icon", "stack", "pwd", "links", "link", "colors",
                 "reports", "ceiling", "replies", "events"}
ScreenFields == {"x", "y", "pending", "top", "bottom", "left", "right", "saved", "protected", "kitty", "ink"}

SavedOK(c) == c = <<>> \/ (Len(c) = 1 /\ c[1].x \in Nat /\ c[1].y \in Nat)

Rings == [flags : [0 .. Depth - 1 -> SUBSET (1 .. 5)], idx : 0 .. Depth - 1]

\* Cursor, region and margins are inside the screen.
ScreenOK(s, cols, rows) ==
  /\ DOMAIN s = ScreenFields
  /\ s.x \in 0 .. cols - 1 /\ s.y \in 0 .. rows - 1
  /\ s.top \in 0 .. rows - 1 /\ s.bottom \in 0 .. rows - 1 /\ s.top <= s.bottom
  /\ s.left \in 0 .. cols - 1 /\ s.right \in 0 .. cols - 1 /\ s.left <= s.right
  /\ s.kitty \in Rings /\ SavedOK(s.saved)

\* What the child may not read back is in no reply.
Secrets == {"checksum", "size", "icon", "title"}
Quiet(t) ==
  /\ IsSequence(t.replies)
  /\ ~t.reports => \A i \in 1 .. Len(t.replies) : t.replies[i][1] \notin Secrets

Allowed(t) == t.ceiling # <<>> => t.cols <= t.ceiling[1] /\ t.rows <= t.ceiling[2]

StacksBounded(t) ==
  /\ IsSequence(t.stack) /\ Len(t.stack) <= StackCap
  /\ IsSequence(t.links) /\ Len(t.links) <= MaxLinks /\ t.link \in 0 .. Len(t.links)
  /\ t.tabs \subseteq Nat

Sound(t) ==
  /\ DOMAIN t = TermFields
  /\ t.cols \in Nat \ {0} /\ t.rows \in Nat \ {0}
  /\ t.active \in Screens /\ DOMAIN t.screens = Screens
  /\ \A n \in Screens : ScreenOK(t.screens[n], t.cols, t.rows)
  /\ t.ceiling # <<>> => t.ceiling[1] \in Nat /\ t.ceiling[2] \in Nat
  /\ Quiet(t) /\ Allowed(t) /\ StacksBounded(t)

\* The grants are as they were.
SameGrants(t, u) == u.reports = t.reports /\ u.ceiling = t.ceiling

\* The same screen is active, and the other one is as it was.
SamePlace(t, u) ==
  /\ u.cols = t.cols /\ u.rows = t.rows /\ u.active = t.active
  /\ \A n \in Screens : n # t.active => u.screens[n] = t.screens[n]

\* A command that stays within the screen it is given to, and there leaves the
\* key flags alone.
StaysIn(t, u) == SamePlace(t, u) /\ \A n \in Screens : u.screens[n].kitty = t.screens[n].kitty

Steady(t, u) == Sound(u) /\ SameGrants(t, u) /\ StaysIn(t, u)

\* A command that leaves the screens alone.
Aside(t, u) ==
  /\ DOMAIN u = TermFields /\ u.cols = t.cols /\ u.rows = t.rows /\ u.active = t.active
  /\ u.screens = t.screens /\ SameGrants(t, u)

LEMMA AsideSteady ==
  ASSUME NEW t, Sound(t), NEW u, Aside(t, u), Quiet(u), StacksBounded(u)
  PROVE  Steady(t, u)
  BY DEF Sound, Aside, Steady, SameGrants, StaysIn, SamePlace, Allowed

LEMMA TurnAside ==
  ASSUME NEW t, Sound(t), NEW mode, NEW on
  PROVE  /\ Steady(t, Turn(t, mode, on)) /\ Turn(t, mode, on).screens = t.screens
         /\ Turn(t, mode, on).savedPen = t.savedPen
<1> DEFINE u == Turn(t, mode, on)
<1>1. Aside(t, u) /\ u.savedPen = t.savedPen
  BY DEF Aside, Turn, Sound, SameGrants, TermFields
<1>2. u.replies = t.replies /\ u.stack = t.stack /\ u.links = t.links /\ u.link = t.link /\ u.tabs = t.tabs
  BY DEF Turn, Sound, TermFields
<1> HIDE DEF u
<1>3. Quiet(u) /\ StacksBounded(u)
  BY <1>1, <1>2 DEF Quiet, StacksBounded, Aside, SameGrants, Sound
<1>4. Steady(t, u)
  BY <1>1, <1>3, AsideSteady
<1>5. QED
  BY <1>1, <1>4 DEF u, Aside

LEMMA ReplyAside ==
  ASSUME NEW t, Sound(t), NEW r, t.reports \/ r[1] \notin Secrets
  PROVE  Steady(t, Reply(t, r))
<1> DEFINE u == Reply(t, r)
<1>1. Aside(t, u) /\ u.replies = Append(t.replies, r)
  BY DEF Aside, Reply, Sound, SameGrants, TermFields
<1>2. u.stack = t.stack /\ u.links = t.links /\ u.link = t.link /\ u.tabs = t.tabs
  BY DEF Reply, Sound, TermFields
<1> HIDE DEF u
<1>3. Quiet(u)
  <2>1. IsSequence(t.replies) /\ Len(t.replies) \in Nat
    BY SequenceLength DEF Sound, Quiet
  <2>2. IsSequence(u.replies) /\ Len(u.replies) = Len(t.replies) + 1
        /\ (\A i \in 1 .. Len(t.replies) : u.replies[i] = t.replies[i]) /\ u.replies[Len(t.replies) + 1] = r
    BY <1>1, <2>1, AppendSequence
  <2>3. ASSUME ~u.reports, NEW i \in 1 .. Len(u.replies) PROVE u.replies[i][1] \notin Secrets
    BY <1>1, <2>1, <2>2, <2>3 DEF Aside, SameGrants, Sound, Quiet
  <2>4. QED
    BY <2>2, <2>3 DEF Quiet
<1>4. StacksBounded(u)
  BY <1>2 DEF StacksBounded, Sound
<1>5. QED
  BY <1>1, <1>3, <1>4, AsideSteady DEF u

-----------------------------------------------------------------------------
(* Commands that change the screen they are given to.                      *)

LEMMA HereOK ==
  ASSUME NEW t, Sound(t)
  PROVE  ScreenOK(Here(t), t.cols, t.rows) /\ Here(t) = t.screens[t.active]
  BY DEF Here, Sound

\* Another screen in place of the active one, whatever its key flags.
LEMMA OnScreenSound ==
  ASSUME NEW t, Sound(t), NEW s, ScreenOK(s, t.cols, t.rows)
  PROVE  /\ Sound(OnScreen(t, s)) /\ SameGrants(t, OnScreen(t, s)) /\ SamePlace(t, OnScreen(t, s))
         /\ Here(OnScreen(t, s)) = s /\ OnScreen(t, s).savedPen = t.savedPen
         /\ OnScreen(t, s).on = t.on /\ OnScreen(t, s).pen = t.pen
<1> DEFINE u == OnScreen(t, s)
<1>1. /\ DOMAIN u = TermFields /\ u.cols = t.cols /\ u.rows = t.rows /\ u.active = t.active
      /\ SameGrants(t, u) /\ u.savedPen = t.savedPen /\ u.on = t.on /\ u.pen = t.pen
      /\ u.stack = t.stack /\ u.links = t.links /\ u.link = t.link /\ u.tabs = t.tabs
      /\ u.replies = t.replies
  BY DEF Sound, OnScreen, TermFields, SameGrants
<1>2. u.screens = [t.screens EXCEPT ![t.active] = s]
  BY DEF Sound, OnScreen, TermFields
<1>3. t.active \in Screens /\ DOMAIN t.screens = Screens
  BY DEF Sound
<1> HIDE DEF u
<1>4. /\ DOMAIN u.screens = Screens /\ u.screens[t.active] = s
      /\ \A n \in Screens : n # t.active => u.screens[n] = t.screens[n]
  BY <1>2, <1>3
<1>5. \A n \in Screens : ScreenOK(u.screens[n], u.cols, u.rows)
  BY <1>1, <1>4 DEF Sound
<1>6. Quiet(u) /\ Allowed(u) /\ StacksBounded(u)
  BY <1>1 DEF Sound, Quiet, Allowed, StacksBounded, SameGrants
<1>7. Sound(u)
  BY <1>1, <1>3, <1>4, <1>5, <1>6 DEF Sound, SameGrants
<1>8. Here(u) = s
  BY <1>1, <1>4 DEF Here
<1>9. SamePlace(t, u)
  BY <1>1, <1>4 DEF SamePlace
<1>10. QED
  BY <1>1, <1>7, <1>8, <1>9 DEF u

LEMMA OnScreenSteady ==
  ASSUME NEW t, Sound(t), NEW s, ScreenOK(s, t.cols, t.rows), s.kitty = Here(t).kitty
  PROVE  /\ Steady(t, OnScreen(t, s))
         /\ Here(OnScreen(t, s)) = s /\ OnScreen(t, s).savedPen = t.savedPen
         /\ OnScreen(t, s).on = t.on /\ OnScreen(t, s).pen = t.pen
<1> DEFINE u == OnScreen(t, s)
<1>1. /\ Sound(u) /\ SameGrants(t, u) /\ SamePlace(t, u)
      /\ Here(u) = s /\ u.savedPen = t.savedPen /\ u.on = t.on /\ u.pen = t.pen
  BY OnScreenSound
<1> HIDE DEF u
<1>2. \A n \in Screens : u.screens[n].kitty = t.screens[n].kitty
  BY <1>1 DEF SamePlace, Here
<1>3. QED
  BY <1>1, <1>2 DEF u, Steady, StaysIn, SamePlace

\* Steady steps one after the other are a steady step.
LEMMA SteadyTwice ==
  ASSUME NEW t, NEW u, NEW v, Steady(t, u), Steady(u, v)
  PROVE  Steady(t, v)
  BY DEF Steady, SameGrants, StaysIn, SamePlace

LEMMA LowestFits ==
  ASSUME NEW x \in Nat, NEW n \in Nat \ {0}
  PROVE  Lowest(x, n - 1) \in 0 .. n - 1
  BY DEF Lowest

\* A screen with another cursor, saved cursor, region or margins, all inside.
LEMMA MoveToOK ==
  ASSUME NEW t, Sound(t), NEW s, ScreenOK(s, t.cols, t.rows), NEW x \in Nat, NEW y \in Nat
  PROVE  /\ ScreenOK(MoveTo(t, s, x, y), t.cols, t.rows) /\ MoveTo(t, s, x, y).kitty = s.kitty
         /\ MoveTo(t, s, x, y).top = s.top /\ MoveTo(t, s, x, y).bottom = s.bottom
<1> DEFINE c == Lowest(x, t.cols - 1)
           r == Lowest(y, t.rows - 1)
<1>1. c \in 0 .. t.cols - 1 /\ r \in 0 .. t.rows - 1
  BY LowestFits DEF Sound
<1>2. MoveTo(t, s, x, y) = [s EXCEPT !.x = c, !.y = r, !.pending = FALSE]
  BY DEF MoveTo
<1> HIDE DEF c, r
<1>3. QED
  BY <1>1, <1>2 DEF ScreenOK, ScreenFields

LEMMA CursorPositionSteady ==
  ASSUME NEW t, Sound(t), NEW row \in Nat, NEW col \in Nat
  PROVE  Steady(t, CursorPosition(t, row, col)) /\ CursorPosition(t, row, col).savedPen = t.savedPen
<1> DEFINE s == Here(t)
<1>1. ScreenOK(s, t.cols, t.rows)
  BY HereOK
<1>2. s.top \in Nat /\ s.bottom \in Nat
  BY <1>1 DEF ScreenOK
<1> DEFINE y == IF Dec(6) \in t.on THEN Lowest(s.top + row, s.bottom) ELSE row
<1>3. y \in Nat
  BY <1>2 DEF Lowest
<1>4. CursorPosition(t, row, col) = OnScreen(t, MoveTo(t, s, col, y))
  BY DEF CursorPosition
<1> HIDE DEF s, y
<1>5. ScreenOK(MoveTo(t, s, col, y), t.cols, t.rows) /\ MoveTo(t, s, col, y).kitty = s.kitty
  BY <1>1, <1>3, MoveToOK
<1>6. QED
  BY <1>4, <1>5, OnScreenSteady DEF s

LEMMA SetPenSteady ==
  ASSUME NEW t, Sound(t), NEW pen
  PROVE  /\ Steady(t, [t EXCEPT !.pen = pen]) /\ [t EXCEPT !.pen = pen].screens = t.screens
         /\ [t EXCEPT !.pen = pen].savedPen = t.savedPen /\ [t EXCEPT !.pen = pen].pen = pen
<1> DEFINE u == [t EXCEPT !.pen = pen]
<1>1. Aside(t, u) /\ u.savedPen = t.savedPen /\ u.pen = pen
  BY DEF Aside, Sound, SameGrants, TermFields
<1>2. u.replies = t.replies /\ u.stack = t.stack /\ u.links = t.links /\ u.link = t.link /\ u.tabs = t.tabs
  BY DEF Sound, TermFields
<1> HIDE DEF u
<1>3. Quiet(u) /\ StacksBounded(u)
  BY <1>1, <1>2 DEF Quiet, StacksBounded, Aside, SameGrants, Sound
<1>4. QED
  BY <1>1, <1>3, AsideSteady DEF u, Aside

LEMMA SetSavedPenSteady ==
  ASSUME NEW t, Sound(t), NEW pen
  PROVE  /\ Steady(t, [t EXCEPT !.savedPen = pen]) /\ [t EXCEPT !.savedPen = pen].screens = t.screens
         /\ [t EXCEPT !.savedPen = pen].savedPen = pen /\ [t EXCEPT !.savedPen = pen].pen = t.pen
<1> DEFINE u == [t EXCEPT !.savedPen = pen]
<1>1. Aside(t, u) /\ u.savedPen = pen /\ u.pen = t.pen
  BY DEF Aside, Sound, SameGrants, TermFields
<1>2. u.replies = t.replies /\ u.stack = t.stack /\ u.links = t.links /\ u.link = t.link /\ u.tabs = t.tabs
  BY DEF Sound, TermFields
<1> HIDE DEF u
<1>3. Quiet(u) /\ StacksBounded(u)
  BY <1>1, <1>2 DEF Quiet, StacksBounded, Aside, SameGrants, Sound
<1>4. QED
  BY <1>1, <1>3, AsideSteady DEF u, Aside

\* The cursor as DECSC keeps it.
Kept(s) == <<[x |-> s.x, y |-> s.y, pending |-> s.pending, protected |-> s.protected]>>

LEMMA SaveCursorSteady ==
  ASSUME NEW t, Sound(t)
  PROVE  /\ Steady(t, SaveCursor(t))
         /\ SaveCursor(t).savedPen = <<t.pen>> /\ SaveCursor(t).pen = t.pen
         /\ Here(SaveCursor(t)) = [Here(t) EXCEPT !.saved = Kept(Here(t))]
<1> DEFINE s == [Here(t) EXCEPT !.saved = Kept(Here(t))]
           u == OnScreen(t, s)
<1>1. ScreenOK(s, t.cols, t.rows) /\ s.kitty = Here(t).kitty
  BY HereOK DEF ScreenOK, ScreenFields, SavedOK, Kept
<1>2. SaveCursor(t) = [u EXCEPT !.savedPen = <<t.pen>>]
  BY DEF SaveCursor, Kept
<1> HIDE DEF s
<1>3. Steady(t, u) /\ Here(u) = s /\ u.pen = t.pen
  BY <1>1, OnScreenSteady
<1> HIDE DEF u
<1>4. Sound(u)
  BY <1>3 DEF Steady
<1> DEFINE v == [u EXCEPT !.savedPen = <<t.pen>>]
<1>5. Steady(u, v) /\ v.screens = u.screens /\ v.savedPen = <<t.pen>> /\ v.pen = u.pen
  BY <1>4, SetSavedPenSteady
<1> HIDE DEF v
<1>6. Steady(t, v)
  BY <1>3, <1>5, SteadyTwice
<1>7. Here(v) = Here(u)
  BY <1>5 DEF Here, Steady, StaysIn, SamePlace
<1>8. QED
  BY <1>2, <1>3, <1>5, <1>6, <1>7 DEF v, s

\* Where DECRC puts the cursor of a screen.
RestoredTo(t, s) ==
  LET c == IF s.saved = <<>> THEN [x |-> 0, y |-> 0, pending |-> FALSE, protected |-> "none"] ELSE s.saved[1]
  IN [s EXCEPT !.x = Lowest(c.x, t.cols - 1), !.y = Lowest(c.y, t.rows - 1),
               !.pending = c.pending, !.protected = c.protected]

LEMMA RestoreCursorSteady ==
  ASSUME NEW t, Sound(t)
  PROVE  /\ Steady(t, RestoreCursor(t))
         /\ RestoreCursor(t).savedPen = t.savedPen
         /\ RestoreCursor(t).pen = IF t.savedPen = <<>> THEN Plain ELSE t.savedPen[1]
         /\ Here(RestoreCursor(t)) = RestoredTo(t, Here(t))
<1> DEFINE h == Here(t)
           c == IF h.saved = <<>> THEN [x |-> 0, y |-> 0, pending |-> FALSE, protected |-> "none"] ELSE h.saved[1]
           s == RestoredTo(t, h)
           u == OnScreen(t, s)
           pen == IF t.savedPen = <<>> THEN Plain ELSE t.savedPen[1]
<1>1. ScreenOK(h, t.cols, t.rows)
  BY HereOK
<1>2. c.x \in Nat /\ c.y \in Nat
  BY <1>1 DEF ScreenOK, SavedOK
<1>3. s = [h EXCEPT !.x = Lowest(c.x, t.cols - 1), !.y = Lowest(c.y, t.rows - 1),
                    !.pending = c.pending, !.protected = c.protected]
  BY DEF RestoredTo
<1>4. RestoreCursor(t) = [u EXCEPT !.pen = pen]
  BY DEF RestoreCursor, RestoredTo
<1> HIDE DEF c, s, h
<1>5. Lowest(c.x, t.cols - 1) \in 0 .. t.cols - 1 /\ Lowest(c.y, t.rows - 1) \in 0 .. t.rows - 1
  BY <1>2, LowestFits DEF Sound
<1>6. ScreenOK(s, t.cols, t.rows) /\ s.kitty = h.kitty
  BY <1>1, <1>3, <1>5 DEF ScreenOK, ScreenFields
<1>7. Steady(t, u) /\ Here(u) = s /\ u.savedPen = t.savedPen
  BY <1>6, OnScreenSteady DEF h
<1> HIDE DEF u, pen
<1>8. Sound(u)
  BY <1>7 DEF Steady
<1> DEFINE v == [u EXCEPT !.pen = pen]
<1>9. Steady(u, v) /\ v.screens = u.screens /\ v.savedPen = u.savedPen /\ v.pen = pen
  BY <1>8, SetPenSteady
<1> HIDE DEF v
<1>10. Steady(t, v)
  BY <1>7, <1>9, SteadyTwice
<1>11. Here(v) = Here(u)
  BY <1>9 DEF Here, Steady, StaysIn, SamePlace
<1>12. QED
  BY <1>4, <1>7, <1>9, <1>10, <1>11 DEF v, s, h, pen

LEMMA SetScrollRegionSteady ==
  ASSUME NEW t, Sound(t), NEW top \in Nat, NEW bottom \in Nat
  PROVE  Steady(t, SetScrollRegion(t, top, bottom))
<1> DEFINE s == [Here(t) EXCEPT !.top = top, !.bottom = bottom]
           u == OnScreen(t, s)
<1>1. CASE top >= bottom \/ bottom > t.rows - 1
  BY <1>1 DEF SetScrollRegion, Steady, SameGrants, StaysIn, SamePlace
<1>2. CASE ~(top >= bottom \/ bottom > t.rows - 1)
  <2>1. ScreenOK(s, t.cols, t.rows) /\ s.kitty = Here(t).kitty
    <3>1. ScreenOK(Here(t), t.cols, t.rows) /\ t.rows \in Nat
      BY HereOK DEF Sound
    <3>2. top \in 0 .. t.rows - 1 /\ bottom \in 0 .. t.rows - 1 /\ top <= bottom
      BY <1>2, <3>1
    <3>3. QED
      BY <3>1, <3>2 DEF ScreenOK, ScreenFields
  <2>2. SetScrollRegion(t, top, bottom) = CursorPosition(u, 0, 0)
    BY <1>2 DEF SetScrollRegion
  <2> HIDE DEF s
  <2>3. Steady(t, u)
    BY <2>1, OnScreenSteady
  <2> HIDE DEF u
  <2>4. Steady(u, CursorPosition(u, 0, 0))
    BY <2>3, CursorPositionSteady DEF Steady
  <2>5. QED
    BY <2>2, <2>3, <2>4, SteadyTwice
<1>3. QED
  BY <1>1, <1>2

LEMMA ResetMarginsSteady ==
  ASSUME NEW t, Sound(t)
  PROVE  Steady(t, ResetMargins(t))
<1> DEFINE s == [Here(t) EXCEPT !.left = 0, !.right = t.cols - 1]
<1>1. ScreenOK(s, t.cols, t.rows) /\ s.kitty = Here(t).kitty
  <2>1. ScreenOK(Here(t), t.cols, t.rows) /\ t.cols \in Nat \ {0}
    BY HereOK DEF Sound
  <2>2. QED
    BY <2>1 DEF ScreenOK, ScreenFields
<1>2. ResetMargins(t) = OnScreen(t, s)
  BY DEF ResetMargins
<1> HIDE DEF s
<1>3. QED
  BY <1>1, <1>2, OnScreenSteady

LEMMA SetMarginsSteady ==
  ASSUME NEW t, Sound(t), NEW l \in Nat, NEW r \in Nat
  PROVE  Steady(t, SetMargins(t, l, r))
<1> DEFINE left  == IF l = 0 THEN 1 ELSE l
           right == IF r = 0 THEN t.cols ELSE Lowest(r, t.cols)
           s == [Here(t) EXCEPT !.left = left - 1, !.right = right - 1]
           u == OnScreen(t, s)
<1>1. left \in Nat \ {0} /\ right \in 1 .. t.cols
  BY DEF Lowest, Sound
<1>2. SetMargins(t, l, r) = IF left >= right THEN t ELSE CursorPosition(u, 0, 0)
  BY DEF SetMargins
<1> HIDE DEF left, right
<1>3. CASE left >= right
  BY <1>2, <1>3 DEF Steady, SameGrants, StaysIn, SamePlace
<1>4. CASE ~(left >= right)
  <2>1. ScreenOK(s, t.cols, t.rows) /\ s.kitty = Here(t).kitty
    <3>1. ScreenOK(Here(t), t.cols, t.rows) /\ t.cols \in Nat \ {0}
      BY HereOK DEF Sound
    <3>2. left - 1 \in 0 .. t.cols - 1 /\ right - 1 \in 0 .. t.cols - 1 /\ left - 1 <= right - 1
      BY <1>1, <1>4, <3>1
    <3>3. QED
      BY <3>1, <3>2 DEF ScreenOK, ScreenFields
  <2> HIDE DEF s
  <2>2. Steady(t, u)
    BY <2>1, OnScreenSteady
  <2> HIDE DEF u
  <2>3. Steady(u, CursorPosition(u, 0, 0))
    BY <2>2, CursorPositionSteady DEF Steady
  <2>4. QED
    BY <1>2, <1>4, <2>2, <2>3, SteadyTwice
<1>5. QED
  BY <1>3, <1>4

LEMMA TabsInside ==
  ASSUME NEW t, Sound(t), NEW x \in 0 .. t.cols - 1
  PROVE  NextTab(t, x) \in 0 .. t.cols - 1 /\ PreviousTab(t, x) \in 0 .. t.cols - 1
<1>1. t.cols \in Nat \ {0} /\ t.tabs \subseteq Nat
  BY DEF Sound, StacksBounded
<1>2. NextTab(t, x) \in 0 .. t.cols - 1
  <2> DEFINE after == {c \in t.tabs : c > x /\ c < t.cols}
  <2>1. CASE after = {}
    BY <1>1, <2>1 DEF NextTab
  <2>2. CASE after # {}
    <3>1. after \subseteq Nat
      BY <1>1
    <3>2. NextTab(t, x) = CHOOSE c \in after : \A d \in after : c <= d
      BY <2>2 DEF NextTab
    <3>3. \A c \in after : c \in 0 .. t.cols - 1
      BY <1>1
    <3> HIDE DEF after
    <3>4. \E c \in after : \A d \in after : c <= d
      BY <2>2, <3>1, HasLeast
    <3>5. QED
      BY <3>2, <3>3, <3>4
  <2>3. QED
    BY <2>1, <2>2
<1>3. PreviousTab(t, x) \in 0 .. t.cols - 1
  <2> DEFINE before == {c \in t.tabs : c < x}
  <2>1. CASE before = {}
    BY <1>1, <2>1 DEF PreviousTab
  <2>2. CASE before # {}
    <3>1. before \subseteq 0 .. t.cols - 1
      BY <1>1
    <3>2. PreviousTab(t, x) = CHOOSE c \in before : \A d \in before : c >= d
      BY <2>2 DEF PreviousTab
    <3> DEFINE m == t.cols - 1
    <3>3. m \in Nat /\ before \subseteq 0 .. m
      BY <1>1, <3>1
    <3> HIDE DEF before
    <3>4. \E c \in before : \A d \in before : d <= c
      <4> HIDE DEF m
      <4>1. QED
        BY <2>2, <3>3, HasGreatest
    <3>5. \E c \in before : \A d \in before : c >= d
      BY <3>1, <3>4
    <3>6. QED
      BY <3>1, <3>2, <3>5
  <2>3. QED
    BY <2>1, <2>2
<1>4. QED
  BY <1>2, <1>3

LEMMA TabSteady ==
  ASSUME NEW t, Sound(t)
  PROVE  Steady(t, Tab(t)) /\ Steady(t, BackTab(t))
<1>1. ScreenOK(Here(t), t.cols, t.rows)
  BY HereOK
<1> DEFINE a == NextTab(t, Here(t).x)
           b == PreviousTab(t, Here(t).x)
<1>2. a \in 0 .. t.cols - 1 /\ b \in 0 .. t.cols - 1
  BY <1>1, TabsInside DEF ScreenOK
<1> DEFINE s == [Here(t) EXCEPT !.x = a]
           r == [Here(t) EXCEPT !.x = b, !.pending = FALSE]
<1>3. DOMAIN Here(t) = ScreenFields
  BY <1>1 DEF ScreenOK
<1>4. Tab(t) = OnScreen(t, s)
  BY <1>3 DEF Tab, ScreenFields
<1>5. BackTab(t) = OnScreen(t, r)
  BY <1>3 DEF BackTab, ScreenFields
<1> HIDE DEF a, b
<1>6. ScreenOK(s, t.cols, t.rows) /\ s.kitty = Here(t).kitty
  BY <1>1, <1>2 DEF ScreenOK, ScreenFields
<1>7. ScreenOK(r, t.cols, t.rows) /\ r.kitty = Here(t).kitty
  BY <1>1, <1>2 DEF ScreenOK, ScreenFields
<1> HIDE DEF s, r
<1>8. QED
  BY <1>4, <1>5, <1>6, <1>7, OnScreenSteady

LEMMA WriteSteady ==
  ASSUME NEW t, Sound(t)
  PROVE  Steady(t, Write(t))
<1> DEFINE h == Here(t)
           c == Lowest(h.x + 1, t.cols - 1)
           p == h.x = t.cols - 1
           s == [h EXCEPT !.ink = TRUE, !.pending = p, !.x = c]
<1>1. ScreenOK(h, t.cols, t.rows)
  BY HereOK
<1>2. c \in 0 .. t.cols - 1
  <2>1. t.cols \in Nat \ {0}
    BY DEF Sound
  <2>2. h.x \in 0 .. t.cols - 1
    BY <1>1 DEF ScreenOK
  <2>3. h.x + 1 \in Nat
    BY <2>1, <2>2
  <2>4. QED
    BY <2>1, <2>3, LowestFits
<1>3. Write(t) = OnScreen(t, s)
  BY DEF Write
<1> HIDE DEF c, p, h
<1>4. ScreenOK(s, t.cols, t.rows) /\ s.kitty = h.kitty
  BY <1>1, <1>2 DEF ScreenOK, ScreenFields
<1> HIDE DEF s
<1>5. QED
  BY <1>3, <1>4, OnScreenSteady DEF h

LEMMA EraseCompleteSteady ==
  ASSUME NEW t, Sound(t)
  PROVE  /\ Steady(t, EraseComplete(t)) /\ EraseComplete(t).savedPen = t.savedPen
         /\ EraseComplete(t).pen = t.pen
<1> DEFINE s == [Here(t) EXCEPT !.ink = FALSE]
<1>1. ScreenOK(s, t.cols, t.rows) /\ s.kitty = Here(t).kitty
  BY HereOK DEF ScreenOK, ScreenFields
<1>2. EraseComplete(t) = OnScreen(t, s)
  BY DEF EraseComplete
<1> HIDE DEF s
<1>3. QED
  BY <1>1, <1>2, OnScreenSteady

\* Another protection for what is printed.
LEMMA ProtectSteady ==
  ASSUME NEW t, Sound(t), NEW p
  PROVE  Steady(t, OnScreen(t, [Here(t) EXCEPT !.protected = p]))
<1> DEFINE s == [Here(t) EXCEPT !.protected = p]
<1>1. ScreenOK(s, t.cols, t.rows) /\ s.kitty = Here(t).kitty
  BY HereOK DEF ScreenOK, ScreenFields
<1> HIDE DEF s
<1>2. QED
  BY <1>1, OnScreenSteady DEF s

LEMMA SetProtectionSteady ==
  ASSUME NEW t, Sound(t), NEW n
  PROVE  Steady(t, SetProtection(t, n))
<1>1. CASE n \in {0, 2}
  BY <1>1, ProtectSteady DEF SetProtection
<1>2. CASE n = 1
  BY <1>2, ProtectSteady DEF SetProtection
<1>3. CASE n \notin {0, 1, 2}
  BY <1>3 DEF SetProtection, Steady, SameGrants, StaysIn, SamePlace
<1>4. QED
  BY <1>1, <1>2, <1>3

\* The rest of a terminal, set anew around its screens.
LEMMA SoftResetSteady ==
  ASSUME NEW t, Sound(t)
  PROVE  Steady(t, SoftReset(t))
<1> DEFINE s == [Here(t) EXCEPT !.protected = "none", !.top = 0, !.bottom = t.rows - 1, !.left = 0,
                                !.right = t.cols - 1, !.pending = FALSE, !.saved = <<>>]
           u == OnScreen(t, s)
           v == [u EXCEPT !.on = (@ \union {Dec(25), Dec(7)}) \ {Dec(6), Dec(1), Dec(66), Dec(69)},
                          !.pen = Plain, !.savedPen = <<>>]
<1>1. ScreenOK(Here(t), t.cols, t.rows) /\ t.cols \in Nat \ {0} /\ t.rows \in Nat \ {0}
  BY HereOK DEF Sound
<1>2. ScreenOK(s, t.cols, t.rows) /\ s.kitty = Here(t).kitty
  BY <1>1, SMTT(30) DEF ScreenOK, ScreenFields, SavedOK
<1>3. SoftReset(t) = v
  BY DEF SoftReset
<1> HIDE DEF s
<1>4. Steady(t, u)
  BY <1>2, OnScreenSteady
<1> HIDE DEF u
<1>5. Sound(u)
  BY <1>4 DEF Steady
<1>6. Aside(u, v) /\ v.replies = u.replies /\ v.stack = u.stack /\ v.links = u.links /\ v.link = u.link
      /\ v.tabs = u.tabs
  BY <1>5 DEF Aside, Sound, SameGrants, TermFields
<1> HIDE DEF v
<1>7. Quiet(v) /\ StacksBounded(v)
  BY <1>5, <1>6 DEF Quiet, StacksBounded, Aside, SameGrants, Sound
<1>8. Steady(u, v)
  BY <1>5, <1>6, <1>7, AsideSteady
<1>9. QED
  BY <1>3, <1>4, <1>8, SteadyTwice

-----------------------------------------------------------------------------
(* Commands that leave the screens alone.                                  *)

\* Neither the screens, the replies, the stack of titles, the links nor the tabs.
Elsewhere(t, u) ==
  /\ Aside(t, u) /\ u.replies = t.replies /\ u.stack = t.stack /\ u.links = t.links
  /\ u.link = t.link /\ u.tabs = t.tabs

LEMMA ElsewhereSteady ==
  ASSUME NEW t, Sound(t), NEW u, Elsewhere(t, u)
  PROVE  Steady(t, u)
<1>1. Quiet(u) /\ StacksBounded(u)
  BY DEF Elsewhere, Quiet, StacksBounded, Aside, SameGrants, Sound
<1>2. QED
  BY <1>1, AsideSteady DEF Elsewhere

LEMMA StaysSteady ==
  ASSUME NEW t, Sound(t)
  PROVE  Steady(t, t)
  BY DEF Steady, SameGrants, StaysIn, SamePlace

LEMMA RaiseSteady ==
  ASSUME NEW t, Sound(t), NEW e
  PROVE  Steady(t, Raise(t, e))
<1>1. Elsewhere(t, Raise(t, e))
  BY DEF Elsewhere, Aside, Raise, Sound, SameGrants, TermFields
<1>2. QED
  BY <1>1, ElsewhereSteady

LEMMA AnsiModeSteady ==
  ASSUME NEW t, Sound(t), NEW n, NEW on
  PROVE  Steady(t, SetAnsiMode(t, n, on))
  BY TurnAside, StaysSteady DEF SetAnsiMode

LEMMA KeyFormatSteady ==
  ASSUME NEW t, Sound(t), NEW args
  PROVE  Steady(t, ModifyKeyFormat(t, args))
<1> DEFINE b == args = <<4, 2>>
           u == [t EXCEPT !.other2 = b]
<1>1. ModifyKeyFormat(t, args) \in {t, u}
  BY DEF ModifyKeyFormat
<1> HIDE DEF b
<1>2. Elsewhere(t, u)
  BY DEF Elsewhere, Aside, Sound, SameGrants, TermFields
<1> HIDE DEF u
<1>3. QED
  BY <1>1, <1>2, ElsewhereSteady, StaysSteady

LEMMA CursorShapeSteady ==
  ASSUME NEW t, Sound(t), NEW n
  PROVE  Steady(t, SetCursorShape(t, n))
<1> DEFINE u(shape, blink) == [t EXCEPT !.shape = shape, !.blink = blink]
<1>1. ASSUME NEW shape, NEW blink PROVE Steady(t, u(shape, blink))
  <2>1. Elsewhere(t, u(shape, blink))
    BY DEF Elsewhere, Aside, Sound, SameGrants, TermFields
  <2>2. QED
    BY <2>1, ElsewhereSteady
<1>2. SetCursorShape(t, n) = t \/ \E shape, blink : SetCursorShape(t, n) = u(shape, blink)
  <2>1. CASE n \in {0, 1}
    <3>1. SetCursorShape(t, n) = u(0, TRUE)
      BY <2>1 DEF SetCursorShape
    <3>2. QED
      BY <3>1
  <2>2. CASE n \in 2 .. 6
    <3>1. SetCursorShape(t, n) = u((n - 1) \div 2, n % 2 = 1)
      BY <2>2 DEF SetCursorShape
    <3> HIDE DEF u
    <3>2. QED
      BY <3>1
  <2>3. CASE n \notin {0, 1} /\ n \notin 2 .. 6
    BY <2>3 DEF SetCursorShape
  <2>4. QED
    BY <2>1, <2>2, <2>3
<1> HIDE DEF u
<1>3. QED
  BY <1>1, <1>2, StaysSteady

\* Other tabs, all of them columns.
LEMMA SetTabsSteady ==
  ASSUME NEW t, Sound(t), NEW tabs \in SUBSET Nat
  PROVE  Steady(t, [t EXCEPT !.tabs = tabs])
<1> DEFINE u == [t EXCEPT !.tabs = tabs]
<1>1. /\ Aside(t, u) /\ u.replies = t.replies /\ u.stack = t.stack /\ u.links = t.links /\ u.link = t.link
      /\ u.tabs = tabs
  BY DEF Aside, Sound, SameGrants, TermFields
<1> HIDE DEF u
<1>2. Quiet(u) /\ StacksBounded(u)
  BY <1>1 DEF Quiet, StacksBounded, Aside, SameGrants, Sound
<1>3. QED
  BY <1>1, <1>2, AsideSteady DEF u

LEMMA SetColorsSteady ==
  ASSUME NEW t, Sound(t), NEW colors
  PROVE  Steady(t, [t EXCEPT !.colors = colors])
<1>1. Elsewhere(t, [t EXCEPT !.colors = colors])
  BY DEF Elsewhere, Aside, Sound, SameGrants, TermFields
<1>2. QED
  BY <1>1, ElsewhereSteady

LEMMA OscTitleSteady ==
  ASSUME NEW t, Sound(t), NEW which, NEW title
  PROVE  Steady(t, OscTitle(t, which, title))
<1> DEFINE a == [t EXCEPT !.icon = title]
           u == IF which # 2 THEN a ELSE t
           v == [u EXCEPT !.title = title]
<1>1. Elsewhere(t, a)
  BY DEF Elsewhere, Aside, Sound, SameGrants, TermFields
<1> HIDE DEF a
<1>2. Steady(t, u)
  BY <1>1, ElsewhereSteady, StaysSteady
<1> HIDE DEF u
<1>3. Sound(u)
  BY <1>2 DEF Steady
<1>4. Elsewhere(u, v)
  BY <1>3 DEF Elsewhere, Aside, Sound, SameGrants, TermFields
<1>5. OscTitle(t, which, title) = IF which = 1 THEN u ELSE Raise(v, <<"title", title>>)
  BY DEF OscTitle, u, a
<1> HIDE DEF v
<1>6. Steady(u, v)
  BY <1>3, <1>4, ElsewhereSteady
<1>7. Steady(v, Raise(v, <<"title", title>>))
  BY <1>6, RaiseSteady DEF Steady
<1>8. QED
  BY <1>2, <1>5, <1>6, <1>7, SteadyTwice

LEMMA OscPwdSteady ==
  ASSUME NEW t, Sound(t), NEW path
  PROVE  Steady(t, OscPwd(t, path))
<1> DEFINE u == [t EXCEPT !.pwd = path]
<1>1. Elsewhere(t, u)
  BY DEF Elsewhere, Aside, Sound, SameGrants, TermFields
<1>2. OscPwd(t, path) = IF path[2] > MaxPwd THEN t ELSE Raise(u, <<"pwd", path>>)
  BY DEF OscPwd
<1> HIDE DEF u
<1>3. Steady(t, u)
  BY <1>1, ElsewhereSteady
<1>4. Steady(u, Raise(u, <<"pwd", path>>))
  BY <1>3, RaiseSteady DEF Steady
<1>5. QED
  BY <1>2, <1>3, <1>4, SteadyTwice, StaysSteady

LEMMA OscNotifySteady ==
  ASSUME NEW t, Sound(t), NEW kind, NEW arg, kind \in {"progress", "cwd", "notify", "clipboard"}
  PROVE  Steady(t, OscNotify(t, kind, arg))
<1>1. CASE kind = "progress"
  BY <1>1, RaiseSteady DEF OscNotify
<1>2. CASE kind = "cwd"
  BY <1>2, OscPwdSteady DEF OscNotify
<1>3. CASE kind = "notify"
  BY <1>3, RaiseSteady, StaysSteady DEF OscNotify
<1>4. CASE kind = "clipboard"
  BY <1>4, RaiseSteady, StaysSteady DEF OscNotify
<1>5. QED
  BY <1>1, <1>2, <1>3, <1>4

LEMMA PushTitleSteady ==
  ASSUME NEW t, Sound(t), NEW which
  PROVE  Steady(t, PushTitle(t, which))
<1> DEFINE entry == [icon |-> IF which = 2 THEN "" ELSE t.icon, title |-> IF which = 1 THEN "" ELSE t.title]
           rest  == IF Len(t.stack) >= StackCap THEN Tail(t.stack) ELSE t.stack
           u     == [t EXCEPT !.stack = Append(rest, entry)]
<1>1. IsSequence(t.stack) /\ Len(t.stack) <= StackCap /\ Len(t.stack) \in Nat /\ StackCap \in Nat \ {0}
  BY SequenceLength, ModesAssumption DEF Sound, StacksBounded
<1>2. IsSequence(rest) /\ Len(rest) < StackCap /\ Len(rest) \in Nat
  <2>1. CASE Len(t.stack) >= StackCap
    <3>1. t.stack # <<>>
      BY <1>1, <2>1, EmptySequence
    <3>2. QED
      BY <1>1, <2>1, <3>1, TailSequence
  <2>2. CASE ~(Len(t.stack) >= StackCap)
    BY <1>1, <2>2
  <2>3. QED
    BY <2>1, <2>2
<1>3. PushTitle(t, which) = u
  BY DEF PushTitle, Sound, TermFields
<1> HIDE DEF entry, rest
<1>4. IsSequence(Append(rest, entry)) /\ Len(Append(rest, entry)) <= StackCap
  BY <1>1, <1>2, AppendSequence
<1>5. /\ Aside(t, u) /\ u.replies = t.replies /\ u.stack = Append(rest, entry) /\ u.links = t.links
      /\ u.link = t.link /\ u.tabs = t.tabs
  BY DEF Aside, Sound, SameGrants, TermFields
<1> HIDE DEF u
<1>6. Quiet(u) /\ StacksBounded(u)
  BY <1>4, <1>5 DEF Quiet, StacksBounded, Aside, SameGrants, Sound
<1>7. QED
  BY <1>3, <1>5, <1>6, AsideSteady

LEMMA PopTitleSteady ==
  ASSUME NEW t, Sound(t), NEW which
  PROVE  Steady(t, PopTitle(t, which))
<1>1. CASE t.stack = <<>>
  BY <1>1, StaysSteady DEF PopTitle
<1>2. CASE t.stack # <<>>
  <2> DEFINE entry == t.stack[Len(t.stack)]
             icon  == IF which = 2 THEN t.icon ELSE entry.icon
             u     == [t EXCEPT !.stack = Front(t.stack), !.icon = icon]
             v     == [u EXCEPT !.title = entry.title]
  <2>1. IsSequence(t.stack) /\ Len(t.stack) <= StackCap /\ Len(t.stack) \in Nat
    BY SequenceLength DEF Sound, StacksBounded
  <2>2. IsSequence(Front(t.stack)) /\ Len(Front(t.stack)) <= StackCap
    BY <1>2, <2>1, FrontSequence, ModesAssumption
  <2>3. u = [t EXCEPT !.stack = Front(@), !.icon = IF which = 2 THEN @ ELSE entry.icon]
    BY DEF Sound, TermFields
  <2>4. PopTitle(t, which) = IF which = 1 THEN u ELSE Raise(v, <<"title", entry.title>>)
    BY <1>2, <2>3 DEF PopTitle
  <2> HIDE DEF icon
  <2>5. /\ Aside(t, u) /\ u.replies = t.replies /\ u.stack = Front(t.stack) /\ u.links = t.links
        /\ u.link = t.link /\ u.tabs = t.tabs
    BY DEF Aside, Sound, SameGrants, TermFields
  <2> HIDE DEF u
  <2>6. Quiet(u) /\ StacksBounded(u)
    BY <2>2, <2>5 DEF Quiet, StacksBounded, Aside, SameGrants, Sound
  <2>7. Steady(t, u)
    BY <2>5, <2>6, AsideSteady
  <2>8. Elsewhere(u, v)
    BY <2>7 DEF Steady, Elsewhere, Aside, Sound, SameGrants, TermFields
  <2> HIDE DEF v
  <2>9. Steady(u, v)
    BY <2>7, <2>8, ElsewhereSteady DEF Steady
  <2>10. Steady(v, Raise(v, <<"title", entry.title>>))
    BY <2>9, RaiseSteady DEF Steady
  <2>11. QED
    BY <2>4, <2>7, <2>9, <2>10, SteadyTwice
<1>3. QED
  BY <1>1, <1>2

\* Another link for what is printed, one of those there are or none.
LEMMA SetLinkSteady ==
  ASSUME NEW t, Sound(t), NEW k \in 0 .. Len(t.links)
  PROVE  Steady(t, [t EXCEPT !.link = k])
<1> DEFINE u == [t EXCEPT !.link = k]
<1>1. /\ Aside(t, u) /\ u.replies = t.replies /\ u.stack = t.stack /\ u.links = t.links
      /\ u.link = k /\ u.tabs = t.tabs
  BY DEF Aside, Sound, SameGrants, TermFields
<1> HIDE DEF u
<1>2. Quiet(u) /\ StacksBounded(u)
  BY <1>1 DEF Quiet, StacksBounded, Aside, SameGrants, Sound
<1>3. QED
  BY <1>1, <1>2, AsideSteady DEF u

LEMMA HyperlinkSteady ==
  ASSUME NEW t, Sound(t), NEW id, NEW uri
  PROVE  Steady(t, OscHyperlink(t, id, uri))
<1> DEFINE entry == <<id, uri>>
           known == uri # "" /\ entry \in ToSet(t.links)
           fresh == uri # "" /\ entry \notin ToSet(t.links) /\ Len(t.links) < MaxLinks
           k == CHOOSE j \in DOMAIN t.links : t.links[j] = entry
           u == [t EXCEPT !.links = Append(@, entry), !.link = Len(t.links) + 1]
<1>1. IsSequence(t.links) /\ Len(t.links) <= MaxLinks /\ Len(t.links) \in Nat
      /\ DOMAIN t.links = 1 .. Len(t.links) /\ MaxLinks \in Nat
  BY SequenceLength, ModesAssumption DEF Sound, StacksBounded
<1>2. CASE known
  <2>1. k \in 0 .. Len(t.links)
    <3>1. \E j \in DOMAIN t.links : t.links[j] = entry
      BY <1>2 DEF ToSet
    <3>2. k \in DOMAIN t.links
      <4> HIDE DEF entry
      <4>1. QED
        BY <3>1
    <3>3. QED
      BY <1>1, <3>2
  <2>2. OscHyperlink(t, id, uri) = [t EXCEPT !.link = k]
    BY <1>2 DEF OscHyperlink
  <2> HIDE DEF k
  <2>3. QED
    BY <2>1, <2>2, SetLinkSteady
<1>3. CASE fresh
  <2>1. OscHyperlink(t, id, uri) = u /\ Len(t.links) < MaxLinks
    BY <1>3 DEF OscHyperlink
  <2> HIDE DEF entry, fresh
  <2>2. /\ Aside(t, u) /\ u.replies = t.replies /\ u.stack = t.stack
        /\ u.links = Append(t.links, entry) /\ u.link = Len(t.links) + 1 /\ u.tabs = t.tabs
    BY DEF Aside, Sound, SameGrants, TermFields
  <2> HIDE DEF u
  <2>3. IsSequence(u.links) /\ Len(u.links) = Len(t.links) + 1
    BY <1>1, <2>2, AppendSequence
  <2>4. Len(u.links) <= MaxLinks /\ u.link \in 0 .. Len(u.links)
    BY <1>1, <2>1, <2>2, <2>3
  <2>5. Quiet(u) /\ StacksBounded(u)
    BY <2>2, <2>3, <2>4 DEF Quiet, StacksBounded, Aside, SameGrants, Sound
  <2>6. QED
    BY <2>1, <2>2, <2>5, AsideSteady
<1>4. CASE ~known /\ ~fresh
  <2>1. OscHyperlink(t, id, uri) = [t EXCEPT !.link = 0]
    BY <1>4 DEF OscHyperlink
  <2>2. 0 \in 0 .. Len(t.links)
    BY <1>1
  <2>3. QED
    BY <2>1, <2>2, SetLinkSteady
<1>5. QED
  BY <1>2, <1>3, <1>4

-----------------------------------------------------------------------------
(* Answers.                                                                *)

LEMMA ReportsSteady ==
  ASSUME NEW t, Sound(t), NEW a
  PROVE  /\ Steady(t, ModeReport(t, a)) /\ Steady(t, SettingReport(t, a))
         /\ Steady(t, StatusReport(t, a)) /\ Steady(t, Attributes(t, a))
<1>1. Steady(t, ModeReport(t, a))
  <2> DEFINE r == <<"mode", a, ModeState(t, a)>>
  <2>1. r[1] = "mode"
    OBVIOUS
  <2> HIDE DEF r
  <2>2. QED
    BY <2>1, ReplyAside DEF ModeReport, Secrets, r
<1>2. Steady(t, SettingReport(t, a))
  <2> DEFINE r == <<"setting", a, Setting(t, a)>>
  <2>1. r[1] = "setting"
    OBVIOUS
  <2> HIDE DEF r
  <2>2. QED
    BY <2>1, ReplyAside DEF SettingReport, Secrets, r
<1>3. Steady(t, CursorReport(t))
  <2> DEFINE row == IF Dec(6) \in t.on THEN (IF Here(t).y < Here(t).top THEN 0 ELSE Here(t).y - Here(t).top)
                    ELSE Here(t).y
             r == <<"cursor", row + 1, Here(t).x + 1>>
  <2>1. r[1] = "cursor" /\ CursorReport(t) = Reply(t, r)
    BY DEF CursorReport
  <2> HIDE DEF r
  <2>2. QED
    BY <2>1, ReplyAside DEF Secrets
<1>4. Steady(t, Reply(t, <<"ok">>))
  <2> DEFINE r == <<"ok">>
  <2>1. r[1] = "ok"
    OBVIOUS
  <2> HIDE DEF r
  <2>2. QED
    BY <2>1, ReplyAside DEF Secrets, r
<1>5. Steady(t, StatusReport(t, a))
  BY <1>3, <1>4, StaysSteady DEF StatusReport
<1>6. Steady(t, Attributes(t, a))
  <2> DEFINE r == <<"attributes", a>>
  <2>1. r[1] = "attributes"
    OBVIOUS
  <2> HIDE DEF r
  <2>2. QED
    BY <2>1, ReplyAside DEF Attributes, Secrets, r
<1>7. QED
  BY <1>1, <1>2, <1>5, <1>6

\* What the child may read only with the grant is answered only with it.
LEMMA GrantedSteady ==
  ASSUME NEW t, Sound(t), NEW r
  PROVE  Steady(t, Granted(t, r))
  BY ReplyAside, StaysSteady DEF Granted

LEMMA ChecksumSteady ==
  ASSUME NEW t, Sound(t)
  PROVE  Steady(t, Checksum(t))
  BY GrantedSteady DEF Checksum

-----------------------------------------------------------------------------
(* Key flags.                                                              *)

\* What one command can make of a screen's ring.
RingStep(r, q) ==
  \/ q = r \/ q = NewRing
  \/ \E f \in SUBSET (1 .. 5) : q = RingPush(r, f)
  \/ \E n \in Nat \ {0} : q = RingPop(r, n)
  \/ \E f \in SUBSET (1 .. 5), how \in 1 .. 3 : q = RingSet(r, how, f)

LEMMA NewRingTyped == NewRing \in Rings
  BY ModesAssumption DEF NewRing, Rings

LEMMA RingPushTyped ==
  ASSUME NEW r \in Rings, NEW f \in SUBSET (1 .. 5)
  PROVE  RingPush(r, f) \in Rings
<1> DEFINE i == (r.idx + 1) % Depth
<1>1. Depth \in Nat \ {0} /\ r.idx \in 0 .. Depth - 1 /\ r.flags \in [0 .. Depth - 1 -> SUBSET (1 .. 5)]
  BY ModesAssumption DEF Rings
<1>2. i \in 0 .. Depth - 1
  BY <1>1
<1>3. RingPush(r, f) = [flags |-> [r.flags EXCEPT ![i] = f], idx |-> i]
  BY DEF RingPush
<1> HIDE DEF i
<1>4. [r.flags EXCEPT ![i] = f] \in [0 .. Depth - 1 -> SUBSET (1 .. 5)]
  BY <1>1, <1>2
<1>5. QED
  BY <1>2, <1>3, <1>4 DEF Rings

LEMMA RingPopTyped ==
  ASSUME NEW r \in Rings, NEW n \in Nat
  PROVE  RingPop(r, n) \in Rings
<1>1. Depth \in Nat \ {0} /\ r.idx \in 0 .. Depth - 1 /\ r.flags \in [0 .. Depth - 1 -> SUBSET (1 .. 5)]
  BY ModesAssumption DEF Rings
<1>2. CASE n >= Depth
  BY <1>2, NewRingTyped DEF RingPop
<1>3. CASE ~(n >= Depth)
  <2> DEFINE popped == {(r.idx + Depth - k) % Depth : k \in 0 .. n - 1}
             flags  == [k \in DOMAIN r.flags |-> IF k \in popped THEN {} ELSE r.flags[k]]
             i      == (r.idx + Depth - n) % Depth
  <2>1. i \in 0 .. Depth - 1
    BY <1>1, <1>3
  <2>2. RingPop(r, n) = [flags |-> flags, idx |-> i]
    BY <1>3 DEF RingPop
  <2> HIDE DEF popped, i
  <2>3. flags \in [0 .. Depth - 1 -> SUBSET (1 .. 5)]
    BY <1>1
  <2>4. QED
    BY <2>1, <2>2, <2>3 DEF Rings
<1>4. QED
  BY <1>2, <1>3

\* The entry a set command writes.
Given(old, how, f) == CASE how = 1 -> f [] how = 2 -> old \union f [] how = 3 -> old \ f

LEMMA RingSetTyped ==
  ASSUME NEW r \in Rings, NEW f \in SUBSET (1 .. 5), NEW how \in 1 .. 3
  PROVE  /\ RingSet(r, how, f) \in Rings
         /\ RingSet(r, how, f) = [r EXCEPT !.flags = [r.flags EXCEPT ![r.idx] = Given(RingCurrent(r), how, f)]]
         /\ Given(RingCurrent(r), how, f) \in SUBSET (1 .. 5)
<1>1. r.idx \in 0 .. Depth - 1 /\ r.flags \in [0 .. Depth - 1 -> SUBSET (1 .. 5)]
  BY DEF Rings
<1> DEFINE e == Given(RingCurrent(r), how, f)
<1>2. e \in SUBSET (1 .. 5)
  <2>1. RingCurrent(r) \in SUBSET (1 .. 5)
    BY <1>1 DEF RingCurrent
  <2>2. CASE how = 1
    BY <2>2 DEF Given
  <2>3. CASE how = 2
    BY <2>1, <2>3 DEF Given
  <2>4. CASE how = 3
    BY <2>1, <2>4 DEF Given
  <2>5. QED
    BY <2>2, <2>3, <2>4
<1>3. RingSet(r, how, f) = [r EXCEPT !.flags = [r.flags EXCEPT ![r.idx] = e]]
  BY <1>1 DEF RingSet, RingCurrent, Given, Rings
<1> HIDE DEF e
<1>4. [r.flags EXCEPT ![r.idx] = e] \in [0 .. Depth - 1 -> SUBSET (1 .. 5)]
  BY <1>1, <1>2
<1>5. RingSet(r, how, f) \in Rings
  BY <1>3, <1>4 DEF Rings
<1>6. QED
  BY <1>2, <1>3, <1>5 DEF e

\* The rings of both screens take a step each.
Keyed(t, u) == \A n \in Screens : RingStep(t.screens[n].kitty, u.screens[n].kitty)

LEMMA SteadyKeyed ==
  ASSUME NEW t, NEW u, Steady(t, u)
  PROVE  Sound(u) /\ SameGrants(t, u) /\ SamePlace(t, u) /\ Keyed(t, u)
  BY DEF Steady, StaysIn, Keyed, RingStep

\* Another ring for the active screen.
LEMMA SetRingKeyed ==
  ASSUME NEW t, Sound(t), NEW q \in Rings, RingStep(Here(t).kitty, q)
  PROVE  LET u == OnScreen(t, [Here(t) EXCEPT !.kitty = q])
         IN  Sound(u) /\ SameGrants(t, u) /\ SamePlace(t, u) /\ Keyed(t, u)
<1> DEFINE s == [Here(t) EXCEPT !.kitty = q]
           u == OnScreen(t, s)
<1>1. ScreenOK(s, t.cols, t.rows) /\ s.kitty = q
  BY HereOK DEF ScreenOK, ScreenFields
<1> HIDE DEF s
<1>2. Sound(u) /\ SameGrants(t, u) /\ SamePlace(t, u) /\ Here(u) = s
  BY <1>1, OnScreenSound
<1> HIDE DEF u
<1>3. u.screens[t.active].kitty = q /\ t.screens[t.active] = Here(t)
  BY <1>1, <1>2 DEF Here, SamePlace
<1>4. \A n \in Screens : n # t.active => u.screens[n] = t.screens[n]
  BY <1>2 DEF SamePlace
<1>5. Keyed(t, u)
  BY <1>3, <1>4 DEF Keyed, RingStep
<1>6. QED
  BY <1>2, <1>5 DEF u, s

LEMMA KittyKeyed ==
  ASSUME NEW t, Sound(t), NEW op, NEW f, NEW n \in Nat
  PROVE  LET u == Kitty(t, op, f, n)
         IN  Sound(u) /\ SameGrants(t, u) /\ SamePlace(t, u) /\ Keyed(t, u)
<1> DEFINE ring == Here(t).kitty
           u == Kitty(t, op, f, n)
           Now(q) == OnScreen(t, [Here(t) EXCEPT !.kitty = q])
           Goal == Sound(u) /\ SameGrants(t, u) /\ SamePlace(t, u) /\ Keyed(t, u)
<1>1. ring \in Rings
  BY HereOK DEF ScreenOK
<1>2. CASE op = "?"
  <2> DEFINE r == <<"kitty", RingCurrent(ring)>>
  <2>1. u = Reply(t, r) /\ r[1] = "kitty"
    BY <1>2 DEF Kitty
  <2> HIDE DEF r, u
  <2>2. Steady(t, u)
    BY <2>1, ReplyAside DEF Secrets
  <2>3. QED
    BY <2>2, SteadyKeyed DEF u
<1>3. CASE op = ">" /\ f \subseteq 1 .. 5
  <2> DEFINE q == RingPush(ring, f)
  <2>1. u = Now(q)
    BY <1>3 DEF Kitty
  <2>2. q \in Rings /\ RingStep(ring, q)
    BY <1>1, <1>3, RingPushTyped DEF RingStep
  <2> HIDE DEF q, u
  <2>3. QED
    BY <2>1, <2>2, SetRingKeyed DEF u
<1>4. CASE op = "<"
  <2> DEFINE k == IF n = 0 THEN 1 ELSE n
             q == RingPop(ring, k)
  <2>1. u = Now(q)
    BY <1>4 DEF Kitty
  <2>2. k \in Nat \ {0}
    OBVIOUS
  <2> HIDE DEF k
  <2>3. q \in Rings /\ RingStep(ring, q)
    BY <1>1, <2>2, RingPopTyped DEF RingStep
  <2> HIDE DEF q, u
  <2>4. QED
    BY <2>1, <2>3, SetRingKeyed DEF u
<1>5. CASE op = "=" /\ f \subseteq 1 .. 5 /\ n \in 1 .. 3
  <2> DEFINE q == RingSet(ring, n, f)
  <2>1. u = Now(q)
    BY <1>5 DEF Kitty
  <2>2. q \in Rings /\ RingStep(ring, q)
    BY <1>1, <1>5, RingSetTyped DEF RingStep
  <2> HIDE DEF q, u
  <2>3. QED
    BY <2>1, <2>2, SetRingKeyed DEF u
<1>6. CASE op # "?" /\ op # "<" /\ ~(op = ">" /\ f \subseteq 1 .. 5)
           /\ ~(op = "=" /\ f \subseteq 1 .. 5 /\ n \in 1 .. 3)
  <2>1. u = t
    BY <1>6 DEF Kitty
  <2> HIDE DEF u
  <2>2. QED
    BY <2>1, StaysSteady, SteadyKeyed DEF u
<1>7. QED
  BY <1>2, <1>3, <1>4, <1>5, <1>6

-----------------------------------------------------------------------------
(* The ring is a stack.                                                    *)

\* Entry k of the stack, from the newest, is that many places behind the top.
LEMMA UnrolledAt ==
  ASSUME NEW r \in Rings, NEW k \in 1 .. Depth
  PROVE  /\ Unrolled(r)[k] = IF k - 1 <= r.idx THEN r.flags[r.idx - (k - 1)]
                             ELSE r.flags[r.idx + Depth - (k - 1)]
<1>1. Depth \in Nat \ {0} /\ r.idx \in 0 .. Depth - 1
  BY ModesAssumption DEF Rings
<1> DEFINE i == (r.idx + Depth - (k - 1)) % Depth
<1>2. i = IF k - 1 <= r.idx THEN r.idx - (k - 1) ELSE r.idx + Depth - (k - 1)
  BY <1>1
<1>3. Unrolled(r)[k] = r.flags[i]
  BY DEF Unrolled
<1> HIDE DEF i
<1>4. QED
  BY <1>2, <1>3

LEMMA UnrolledTyped ==
  ASSUME NEW r \in Rings
  PROVE  /\ Unrolled(r) \in Seq(SUBSET (1 .. 5)) /\ Len(Unrolled(r)) = Depth
         /\ Unrolled(r) = [k \in 1 .. Depth |-> Unrolled(r)[k]]
<1>1. Depth \in Nat \ {0} /\ r.idx \in 0 .. Depth - 1 /\ r.flags \in [0 .. Depth - 1 -> SUBSET (1 .. 5)]
  BY ModesAssumption DEF Rings
<1>2. ASSUME NEW k \in 1 .. Depth PROVE Unrolled(r)[k] \in SUBSET (1 .. 5)
  <2>1. CASE k - 1 <= r.idx
    <3>1. r.idx - (k - 1) \in 0 .. Depth - 1
      BY <1>1, <2>1
    <3>2. QED
      BY <1>1, <2>1, <3>1, UnrolledAt
  <2>2. CASE ~(k - 1 <= r.idx)
    <3>1. r.idx + Depth - (k - 1) \in 0 .. Depth - 1
      BY <1>1, <2>2
    <3>2. QED
      BY <1>1, <2>2, <3>1, UnrolledAt
  <2>3. QED
    BY <2>1, <2>2
<1>3. Unrolled(r) = [k \in 1 .. Depth |-> Unrolled(r)[k]]
  BY DEF Unrolled
<1> DEFINE w == Unrolled(r)
<1>4. w = [k \in 1 .. Depth |-> w[k]] /\ \A k \in 1 .. Depth : w[k] \in SUBSET (1 .. 5)
  BY <1>2, <1>3
<1> HIDE DEF w
<1>5. w \in Seq(SUBSET (1 .. 5)) /\ Len(w) = Depth
  BY <1>1, <1>4
<1>6. QED
  BY <1>4, <1>5 DEF w

\* An entry pushed stands before the others, the oldest of which is lost.
LEMMA PushIsPush ==
  ASSUME NEW r \in Rings, NEW f \in SUBSET (1 .. 5)
  PROVE  Unrolled(RingPush(r, f)) = <<f>> \o SubSeq(Unrolled(r), 1, Depth - 1)
<1>1. Depth \in Nat \ {0} /\ r.idx \in 0 .. Depth - 1 /\ r.flags \in [0 .. Depth - 1 -> SUBSET (1 .. 5)]
  BY ModesAssumption DEF Rings
<1> DEFINE i == IF r.idx + 1 < Depth THEN r.idx + 1 ELSE 0
           q == RingPush(r, f)
           w == Unrolled(r)
           z == Unrolled(q)
<1>2. (r.idx + 1) % Depth = i /\ i \in 0 .. Depth - 1
  BY <1>1
<1>3. q \in Rings
  BY RingPushTyped
<1>4. q = [flags |-> [r.flags EXCEPT ![i] = f], idx |-> i]
  BY <1>2 DEF RingPush
<1> HIDE DEF q
<1>5. q.idx = i /\ q.flags[i] = f /\ \A j \in 0 .. Depth - 1 : j # i => q.flags[j] = r.flags[j]
  BY <1>1, <1>2, <1>4
<1>6. z[1] = f
  <2>1. 1 \in 1 .. Depth /\ 1 - 1 <= i /\ i - (1 - 1) = i
    BY <1>1, <1>2
  <2>2. z[1] = IF 1 - 1 <= i THEN q.flags[i - (1 - 1)] ELSE q.flags[i + Depth - (1 - 1)]
    BY <1>3, <1>5, <2>1, UnrolledAt
  <2> HIDE DEF i, z
  <2>3. QED
    BY <1>5, <2>1, <2>2
<1>7. ASSUME NEW k \in 2 .. Depth PROVE z[k] = w[k - 1]
  <2>1. k \in 1 .. Depth /\ k - 1 \in 1 .. Depth
    BY <1>1
  <2>2. z[k] = IF k - 1 <= i THEN q.flags[i - (k - 1)] ELSE q.flags[i + Depth - (k - 1)]
    BY <1>3, <1>5, <2>1, UnrolledAt
  <2>3. w[k - 1] = IF k - 2 <= r.idx THEN r.flags[r.idx - (k - 2)] ELSE r.flags[r.idx + Depth - (k - 2)]
    <3>1. (k - 1) - 1 = k - 2
      BY <1>1
    <3>2. QED
      BY <2>1, <3>1, UnrolledAt
  <2> HIDE DEF z, w
  <2>4. CASE r.idx + 1 < Depth
    <3>1. i = r.idx + 1
      BY <2>4
    <3>2. CASE k - 2 <= r.idx
      <4>1. k - 1 <= i /\ i - (k - 1) = r.idx - (k - 2) /\ i - (k - 1) \in 0 .. Depth - 1 /\ i - (k - 1) # i
        BY <1>1, <3>1, <3>2
      <4> HIDE DEF i
      <4>2. QED
        BY <1>5, <2>2, <2>3, <3>2, <4>1
    <3>3. CASE ~(k - 2 <= r.idx)
      <4>1. /\ ~(k - 1 <= i) /\ i + Depth - (k - 1) = r.idx + Depth - (k - 2)
            /\ i + Depth - (k - 1) \in 0 .. Depth - 1 /\ i + Depth - (k - 1) # i
        BY <1>1, <3>1, <3>3
      <4> HIDE DEF i
      <4>2. QED
        BY <1>5, <2>2, <2>3, <3>3, <4>1
    <3>4. QED
      BY <3>2, <3>3
  <2>5. CASE ~(r.idx + 1 < Depth)
    <3>1. i = 0 /\ r.idx = Depth - 1
      BY <1>1, <2>5
    <3>2. k - 2 <= r.idx /\ ~(k - 1 <= i)
      BY <1>1, <3>1
    <3>3. i + Depth - (k - 1) = r.idx - (k - 2) /\ i + Depth - (k - 1) \in 0 .. Depth - 1 /\ i + Depth - (k - 1) # i
      BY <1>1, <3>1
    <3> HIDE DEF i
    <3>4. QED
      BY <1>5, <2>2, <2>3, <3>2, <3>3
  <2>6. QED
    BY <2>4, <2>5
<1>8. w \in Seq(SUBSET (1 .. 5)) /\ Len(w) = Depth /\ z = [k \in 1 .. Depth |-> z[k]]
  BY <1>3, UnrolledTyped
<1> HIDE DEF w, z
<1> DEFINE u == <<f>> \o SubSeq(w, 1, Depth - 1)
<1>9. u \in Seq(SUBSET (1 .. 5)) /\ Len(u) = Depth /\ u[1] = f /\ \A k \in 2 .. Depth : u[k] = w[k - 1]
  <2> DEFINE v == SubSeq(w, 1, Depth - 1)
  <2>1. v \in Seq(SUBSET (1 .. 5)) /\ Len(v) = Depth - 1 /\ \A k \in 1 .. Depth - 1 : v[k] = w[k]
    BY <1>1, <1>8
  <2>2. <<f>> \in Seq(SUBSET (1 .. 5)) /\ Len(<<f>>) = 1 /\ <<f>>[1] = f
    OBVIOUS
  <2> HIDE DEF v
  <2>3. u = <<f>> \o v
    BY DEF v
  <2>4. <<f>> \o v \in Seq(SUBSET (1 .. 5)) /\ Len(<<f>> \o v) = Depth /\ (<<f>> \o v)[1] = f
        /\ \A k \in 2 .. Depth : (<<f>> \o v)[k] = v[k - 1]
    BY <1>1, <2>1, <2>2
  <2>5. ASSUME NEW k \in 2 .. Depth PROVE v[k - 1] = w[k - 1]
    <3>1. k - 1 \in 1 .. Depth - 1
      BY <1>1
    <3>2. QED
      BY <2>1, <3>1
  <2> HIDE DEF u
  <2>6. QED
    BY <2>3, <2>4, <2>5
<1> HIDE DEF u
<1>10. u = [k \in 1 .. Depth |-> u[k]]
  BY <1>1, <1>9
<1>11. \A k \in 1 .. Depth : z[k] = u[k]
  BY <1>1, <1>6, <1>7, <1>9
<1>12. z = u
  BY <1>8, <1>10, <1>11
<1>13. QED
  BY <1>12 DEF z, u, q, w

\* The place k behind the top, around the end of the ring.
LEMMA PlaceBehind ==
  ASSUME NEW d \in Nat \ {0}, NEW i \in 0 .. d - 1, NEW k \in 0 .. d - 1
  PROVE  /\ (i + d - k) % d = IF k <= i THEN i - k ELSE i + d - k
         /\ (IF k <= i THEN i - k ELSE i + d - k) \in 0 .. d - 1
<1>1. CASE k <= i
  <2> DEFINE m == i - k
  <2>1. m \in 0 .. d - 1 /\ i + d - k = m + d
    BY <1>1
  <2> HIDE DEF m
  <2>2. (m + d) % d = m
    BY <2>1
  <2>3. QED
    BY <1>1, <2>1, <2>2 DEF m
<1>2. CASE ~(k <= i)
  <2> DEFINE m == i + d - k
  <2>1. m \in 0 .. d - 1
    BY <1>2
  <2> HIDE DEF m
  <2>2. m % d = m
    BY <2>1
  <2>3. QED
    BY <1>2, <2>1, <2>2 DEF m
<1>3. QED
  BY <1>1, <1>2

\* Entries popped uncover those below, and nothing below the oldest.
LEMMA PopIsPop ==
  ASSUME NEW r \in Rings, NEW n \in Nat \ {0}, n < Depth
  PROVE  Unrolled(RingPop(r, n)) = [k \in 1 .. Depth |-> IF k + n <= Depth THEN Unrolled(r)[k + n] ELSE {}]
<1>1. Depth \in Nat \ {0} /\ r.idx \in 0 .. Depth - 1 /\ r.flags \in [0 .. Depth - 1 -> SUBSET (1 .. 5)]
  BY ModesAssumption DEF Rings
<1> DEFINE i == IF n <= r.idx THEN r.idx - n ELSE r.idx + Depth - n
           popped == {(r.idx + Depth - k) % Depth : k \in 0 .. n - 1}
           flags  == [k \in DOMAIN r.flags |-> IF k \in popped THEN {} ELSE r.flags[k]]
           q == RingPop(r, n)
           w == Unrolled(r)
           z == Unrolled(q)
<1>2. (r.idx + Depth - n) % Depth = i /\ i \in 0 .. Depth - 1
  <2> DEFINE a == r.idx
  <2>1. n \in 0 .. Depth - 1 /\ a \in 0 .. Depth - 1
    BY <1>1
  <2> HIDE DEF a
  <2>2. /\ (a + Depth - n) % Depth = IF n <= a THEN a - n ELSE a + Depth - n
        /\ (IF n <= a THEN a - n ELSE a + Depth - n) \in 0 .. Depth - 1
    BY <1>1, <2>1, PlaceBehind
  <2>3. QED
    BY <2>2 DEF a
<1>3. q \in Rings
  BY RingPopTyped
<1>4. q = [flags |-> flags, idx |-> i]
  <2>1. ~(n >= Depth)
    BY <1>1
  <2>2. q = [flags |-> flags, idx |-> (r.idx + Depth - n) % Depth]
    BY <2>1 DEF RingPop
  <2> HIDE DEF flags, i, q
  <2>3. QED
    BY <1>2, <2>2
<1>5. ASSUME NEW j \in 0 .. Depth - 1
      PROVE  j \in popped <=> IF j <= r.idx THEN r.idx - j < n ELSE r.idx + Depth - j < n
  <2>1. ASSUME NEW k \in 0 .. n - 1
        PROVE  (r.idx + Depth - k) % Depth = IF k <= r.idx THEN r.idx - k ELSE r.idx + Depth - k
    <3>1. k \in 0 .. Depth - 1
      BY <1>1
    <3>2. QED
      BY <1>1, <3>1, PlaceBehind
  <2>2. ASSUME j \in popped
        PROVE  IF j <= r.idx THEN r.idx - j < n ELSE r.idx + Depth - j < n
    <3>1. PICK k \in 0 .. n - 1 : j = (r.idx + Depth - k) % Depth
      BY <2>2
    <3>2. j = IF k <= r.idx THEN r.idx - k ELSE r.idx + Depth - k
      BY <2>1, <3>1
    <3>3. QED
      BY <1>1, <3>2
  <2>3. ASSUME IF j <= r.idx THEN r.idx - j < n ELSE r.idx + Depth - j < n
        PROVE  j \in popped
    <3> DEFINE k == IF j <= r.idx THEN r.idx - j ELSE r.idx + Depth - j
    <3>1. k \in 0 .. n - 1 /\ j = IF k <= r.idx THEN r.idx - k ELSE r.idx + Depth - k
      BY <1>1, <2>3
    <3> HIDE DEF k
    <3>2. j = (r.idx + Depth - k) % Depth
      BY <2>1, <3>1
    <3>3. QED
      BY <3>1, <3>2
  <2>4. QED
    BY <2>2, <2>3
<1> HIDE DEF popped
<1>6. q.idx = i /\ \A j \in 0 .. Depth - 1 : q.flags[j] = IF j \in popped THEN {} ELSE r.flags[j]
  BY <1>1, <1>2, <1>4
<1> HIDE DEF q
<1>7. ASSUME NEW k \in 1 .. Depth
      PROVE  z[k] = IF k + n <= Depth THEN w[k + n] ELSE {}
  <2> DEFINE j == IF k - 1 <= i THEN i - (k - 1) ELSE i + Depth - (k - 1)
  <2>0. i \in Nat /\ i <= Depth - 1
    BY <1>1, <1>2
  <2>1. j \in 0 .. Depth - 1
    <3> HIDE DEF i
    <3>1. QED
      BY <1>1, <2>0
  <2>2. z[k] = q.flags[j]
    BY <1>3, <1>6, UnrolledAt
  <2>3. CASE k + n <= Depth
    <3>1. k + n \in 1 .. Depth
      BY <1>1, <2>3
    <3>2. ~(IF j <= r.idx THEN r.idx - j < n ELSE r.idx + Depth - j < n)
      BY <1>1, <2>3
    <3>3. j = IF (k + n) - 1 <= r.idx THEN r.idx - ((k + n) - 1) ELSE r.idx + Depth - ((k + n) - 1)
      BY <1>1, <2>3
    <3> DEFINE m == k + n
    <3>4. m \in 1 .. Depth /\ j = IF m - 1 <= r.idx THEN r.idx - (m - 1) ELSE r.idx + Depth - (m - 1)
      BY <3>1, <3>3
    <3> HIDE DEF m, j
    <3>5. w[m] = r.flags[j]
      BY <3>4, UnrolledAt
    <3>6. z[k] = r.flags[j]
      BY <1>5, <1>6, <2>1, <2>2, <3>2
    <3>7. QED
      BY <2>3, <3>5, <3>6 DEF m
  <2>4. CASE ~(k + n <= Depth)
    <3>1. IF j <= r.idx THEN r.idx - j < n ELSE r.idx + Depth - j < n
      BY <1>1, <2>4
    <3> HIDE DEF j
    <3>2. z[k] = {}
      BY <1>5, <1>6, <2>1, <2>2, <3>1
    <3>3. QED
      BY <2>4, <3>2
  <2>5. QED
    BY <2>3, <2>4
<1>8. z = [k \in 1 .. Depth |-> z[k]]
  BY <1>3, UnrolledTyped
<1> HIDE DEF z, w
<1>9. z = [k \in 1 .. Depth |-> IF k + n <= Depth THEN w[k + n] ELSE {}]
  BY <1>7, <1>8
<1>10. QED
  BY <1>9 DEF z, q, w

\* An entry set replaces the newest.
LEMMA SetIsSet ==
  ASSUME NEW r \in Rings, NEW f \in SUBSET (1 .. 5), NEW how \in 1 .. 3
  PROVE  \E e \in SUBSET (1 .. 5) : Unrolled(RingSet(r, how, f)) = [Unrolled(r) EXCEPT ![1] = e]
<1>1. Depth \in Nat \ {0} /\ r.idx \in 0 .. Depth - 1 /\ r.flags \in [0 .. Depth - 1 -> SUBSET (1 .. 5)]
  BY ModesAssumption DEF Rings
<1> DEFINE e == Given(RingCurrent(r), how, f)
           q == RingSet(r, how, f)
           w == Unrolled(r)
           z == Unrolled(q)
<1>2. q \in Rings /\ q = [r EXCEPT !.flags = [r.flags EXCEPT ![r.idx] = e]] /\ e \in SUBSET (1 .. 5)
  BY RingSetTyped
<1> HIDE DEF e, q
<1>3. q.idx = r.idx /\ q.flags[r.idx] = e /\ \A j \in 0 .. Depth - 1 : j # r.idx => q.flags[j] = r.flags[j]
  BY <1>1, <1>2 DEF Rings
<1>4. ASSUME NEW k \in 1 .. Depth
      PROVE  z[k] = IF k = 1 THEN e ELSE w[k]
  <2> DEFINE j == IF k - 1 <= r.idx THEN r.idx - (k - 1) ELSE r.idx + Depth - (k - 1)
  <2>1. j \in 0 .. Depth - 1 /\ (k = 1 => j = r.idx) /\ (k # 1 => j # r.idx)
    BY <1>1
  <2>2. z[k] = q.flags[j]
    <3>1. z[k] = IF k - 1 <= q.idx THEN q.flags[q.idx - (k - 1)] ELSE q.flags[q.idx + Depth - (k - 1)]
      BY <1>2, UnrolledAt
    <3> HIDE DEF z
    <3>2. QED
      BY <1>3, <3>1
  <2>3. w[k] = r.flags[j]
    BY UnrolledAt
  <2> HIDE DEF j, z, w
  <2>4. CASE k = 1
    BY <1>3, <2>1, <2>2, <2>4
  <2>5. CASE k # 1
    BY <1>3, <2>1, <2>2, <2>3, <2>5
  <2>6. QED
    BY <2>4, <2>5
<1>5. z = [k \in 1 .. Depth |-> z[k]] /\ w = [k \in 1 .. Depth |-> w[k]]
  BY <1>2, UnrolledTyped
<1> HIDE DEF z, w
<1>6. z = [w EXCEPT ![1] = e]
  BY <1>1, <1>4, <1>5
<1>7. QED
  BY <1>2, <1>6 DEF z, q, w

LEMMA NewIsClear == Unrolled(NewRing) = [k \in 1 .. Depth |-> {}]
<1>1. \A k \in 1 .. Depth : Unrolled(NewRing)[k] = {}
  <2>1. ASSUME NEW k \in 1 .. Depth PROVE Unrolled(NewRing)[k] = {}
    <3>1. Depth \in Nat \ {0}
      BY ModesAssumption
    <3>2. NewRing.idx = 0 /\ \A j \in 0 .. Depth - 1 : NewRing.flags[j] = {}
      BY DEF NewRing
    <3> DEFINE j == IF k - 1 <= 0 THEN 0 - (k - 1) ELSE 0 + Depth - (k - 1)
    <3>3. j \in 0 .. Depth - 1
      BY <3>1
    <3>4. Unrolled(NewRing)[k] = NewRing.flags[j]
      BY <3>2, NewRingTyped, UnrolledAt
    <3> HIDE DEF j
    <3>5. QED
      BY <3>2, <3>3, <3>4
  <2>2. QED
    BY <2>1
<1>2. Unrolled(NewRing) = [k \in 1 .. Depth |-> Unrolled(NewRing)[k]]
  BY NewRingTyped, UnrolledTyped
<1>3. QED
  BY <1>1, <1>2

\* One step of a ring is one of the stack, or none.
Stacked(w, z) ==
  \/ \E e \in SUBSET (1 .. 5) : z = <<e>> \o SubSeq(w, 1, Depth - 1) \/ z = [w EXCEPT ![1] = e]
  \/ \E n \in 1 .. Depth : z = [k \in 1 .. Depth |-> IF k + n <= Depth THEN w[k + n] ELSE {}]
  \/ z = [k \in 1 .. Depth |-> {}]

LEMMA RingIsStack ==
  ASSUME NEW r \in Rings, NEW q, RingStep(r, q)
  PROVE  Unrolled(q) = Unrolled(r) \/ Stacked(Unrolled(r), Unrolled(q))
<1>1. CASE q = r
  BY <1>1
<1>2. CASE q = NewRing
  BY <1>2, NewIsClear DEF Stacked
<1>3. ASSUME NEW f \in SUBSET (1 .. 5), q = RingPush(r, f) PROVE Stacked(Unrolled(r), Unrolled(q))
  BY <1>3, PushIsPush DEF Stacked
<1>4. ASSUME NEW n \in Nat \ {0}, q = RingPop(r, n) PROVE Stacked(Unrolled(r), Unrolled(q))
  <2>1. Depth \in Nat \ {0}
    BY ModesAssumption
  <2>2. CASE n < Depth
    <3>1. n \in 1 .. Depth
      BY <2>1, <2>2
    <3>2. Unrolled(q) = [k \in 1 .. Depth |-> IF k + n <= Depth THEN Unrolled(r)[k + n] ELSE {}]
      BY <1>4, <2>2, PopIsPop
    <3>3. QED
      BY <3>1, <3>2 DEF Stacked
  <2>3. CASE ~(n < Depth)
    <3>1. q = NewRing
      BY <1>4, <2>1, <2>3 DEF RingPop
    <3>2. QED
      BY <3>1, NewIsClear DEF Stacked
  <2>4. QED
    BY <2>2, <2>3
<1>5. ASSUME NEW f \in SUBSET (1 .. 5), NEW how \in 1 .. 3, q = RingSet(r, how, f)
      PROVE  Stacked(Unrolled(r), Unrolled(q))
  <2>1. PICK e \in SUBSET (1 .. 5) : Unrolled(q) = [Unrolled(r) EXCEPT ![1] = e]
    BY <1>5, SetIsSet
  <2>2. QED
    BY <2>1 DEF Stacked
<1>6. QED
  BY <1>1, <1>2, <1>3, <1>4, <1>5 DEF RingStep

-----------------------------------------------------------------------------
(* Lists of modes and of colours, one member after the other.              *)

\* A mode set in each of a set of terminals.
Spread(S, n, on) == UNION {SetMode(u, n, on) : u \in S}

LEMMA ModesSteps ==
  ASSUME NEW t, NEW list, NEW on, NEW m \in Nat, Len(list) = m
  PROVE  /\ ModesSet(t, list, on)[0] = {t}
         /\ \A n \in 1 .. m : ModesSet(t, list, on)[n] = Spread(ModesSet(t, list, on)[n - 1], list[n], on)
<1> DEFINE base == {t}
           Built(f, k) ==
             f = [n \in 0 .. k |-> IF n = 0 THEN base ELSE Spread(f[n - 1], list[n], on)]
           Reached == {k \in 0 .. m : \E f : Built(f, k)}
<1>0. ModesSet(t, list, on) = CHOOSE f : Built(f, m)
  BY DEF ModesSet, Spread
<1> HIDE DEF base
<1>1. 0 \in Reached
  <2>1. Built([n \in 0 .. 0 |-> base], 0)
    OBVIOUS
  <2>2. \E f : Built(f, 0)
    <3> HIDE DEF Built
    <3>1. QED
      BY <2>1
  <2>3. QED
    BY <2>2
<1>2. ASSUME NEW k \in 1 .. m, k - 1 \in Reached
      PROVE  k \in Reached
  <2>1. PICK f : Built(f, k - 1)
    BY <1>2
  <2> DEFINE g == [n \in 0 .. k |-> IF n = k THEN Spread(f[k - 1], list[k], on) ELSE f[n]]
             h == [n \in 0 .. k |-> IF n = 0 THEN base ELSE Spread(g[n - 1], list[n], on)]
  <2>2. \A n \in 0 .. k - 1 : f[n] = IF n = 0 THEN base ELSE Spread(f[n - 1], list[n], on)
    <3> HIDE DEF g, h
    <3>1. QED
      BY <2>1, Zenon
  <2>3. \A n \in 0 .. k - 1 : g[n] = f[n]
    OBVIOUS
  <2>4. ASSUME NEW n \in 0 .. k PROVE g[n] = h[n]
    <3>1. CASE n = 0
      BY <3>1, <2>2, <2>3
    <3>2. CASE n \in 1 .. k - 1
      <4>1. h[n] = Spread(g[n - 1], list[n], on) /\ n - 1 \in 0 .. k - 1 /\ n \in 0 .. k - 1
        BY <3>2
      <4>2. QED
        BY <4>1, <2>2, <2>3, <3>2
    <3>3. CASE n = k /\ k > 0
      <4>1. h[n] = Spread(g[k - 1], list[k], on) /\ g[n] = Spread(f[k - 1], list[k], on)
        BY <3>3
      <4>2. g[k - 1] = f[k - 1]
        BY <2>3
      <4>3. QED
        BY <4>1, <4>2
    <3>4. QED
      BY <3>1, <3>2, <3>3
  <2>5. g = h
    <3>1. g = [n \in 0 .. k |-> g[n]] /\ h = [n \in 0 .. k |-> h[n]]
      OBVIOUS
    <3>2. QED
      BY <3>1, <2>4
  <2>6. Built(g, k)
    BY <2>5
  <2>7. \E f2 : Built(f2, k)
    <3> HIDE DEF Built, g
    <3>1. QED
      BY <2>6
  <2>8. QED
    BY <2>7
<1>3. m \in Reached
  <2> HIDE DEF Reached
  <2>1. QED
    BY <1>1, <1>2, Climbs
<1>4. Built(ModesSet(t, list, on), m)
  BY <1>0, <1>3
<1>5. ModesSet(t, list, on)[0] = base /\
      \A n \in 1 .. m : ModesSet(t, list, on)[n] = Spread(ModesSet(t, list, on)[n - 1], list[n], on)
  BY <1>4
<1>6. QED
  BY <1>5 DEF base

LEMMA PairsSteps ==
  ASSUME NEW t, NEW pairs, NEW m \in Nat, Len(pairs) = m
  PROVE  /\ PairsRead(t, pairs)[0] = [t |-> t, end |-> FALSE]
         /\ \A n \in 1 .. m : PairsRead(t, pairs)[n] = Osc4Pair(PairsRead(t, pairs)[n - 1], pairs[n])
<1> DEFINE base == [t |-> t, end |-> FALSE]
           Built(f, k) ==
             f = [n \in 0 .. k |-> IF n = 0 THEN base ELSE Osc4Pair(f[n - 1], pairs[n])]
           Reached == {k \in 0 .. m : \E f : Built(f, k)}
<1>0. PairsRead(t, pairs) = CHOOSE f : Built(f, m)
  BY DEF PairsRead
<1> HIDE DEF base
<1>1. 0 \in Reached
  <2>1. Built([n \in 0 .. 0 |-> base], 0)
    OBVIOUS
  <2>2. \E f : Built(f, 0)
    <3> HIDE DEF Built
    <3>1. QED
      BY <2>1
  <2>3. QED
    BY <2>2
<1>2. ASSUME NEW k \in 1 .. m, k - 1 \in Reached
      PROVE  k \in Reached
  <2>1. PICK f : Built(f, k - 1)
    BY <1>2
  <2> DEFINE g == [n \in 0 .. k |-> IF n = k THEN Osc4Pair(f[k - 1], pairs[k]) ELSE f[n]]
             h == [n \in 0 .. k |-> IF n = 0 THEN base ELSE Osc4Pair(g[n - 1], pairs[n])]
  <2>2. \A n \in 0 .. k - 1 : f[n] = IF n = 0 THEN base ELSE Osc4Pair(f[n - 1], pairs[n])
    <3> HIDE DEF g, h
    <3>1. QED
      BY <2>1, Zenon
  <2>3. \A n \in 0 .. k - 1 : g[n] = f[n]
    OBVIOUS
  <2>4. ASSUME NEW n \in 0 .. k PROVE g[n] = h[n]
    <3>1. CASE n = 0
      BY <3>1, <2>2, <2>3
    <3>2. CASE n \in 1 .. k - 1
      <4>1. h[n] = Osc4Pair(g[n - 1], pairs[n]) /\ n - 1 \in 0 .. k - 1 /\ n \in 0 .. k - 1
        BY <3>2
      <4>2. QED
        BY <4>1, <2>2, <2>3, <3>2
    <3>3. CASE n = k /\ k > 0
      <4>1. h[n] = Osc4Pair(g[k - 1], pairs[k]) /\ g[n] = Osc4Pair(f[k - 1], pairs[k])
        BY <3>3
      <4>2. g[k - 1] = f[k - 1]
        BY <2>3
      <4>3. QED
        BY <4>1, <4>2
    <3>4. QED
      BY <3>1, <3>2, <3>3
  <2>5. g = h
    <3>1. g = [n \in 0 .. k |-> g[n]] /\ h = [n \in 0 .. k |-> h[n]]
      OBVIOUS
    <3>2. QED
      BY <3>1, <2>4
  <2>6. Built(g, k)
    BY <2>5
  <2>7. \E f2 : Built(f2, k)
    <3> HIDE DEF Built, g
    <3>1. QED
      BY <2>6
  <2>8. QED
    BY <2>7
<1>3. m \in Reached
  <2> HIDE DEF Reached
  <2>1. QED
    BY <1>1, <1>2, Climbs
<1>4. Built(PairsRead(t, pairs), m)
  BY <1>0, <1>3
<1>5. PairsRead(t, pairs)[0] = base /\
      \A n \in 1 .. m : PairsRead(t, pairs)[n] = Osc4Pair(PairsRead(t, pairs)[n - 1], pairs[n])
  BY <1>4
<1>6. QED
  BY <1>5 DEF base

LEMMA SpecsSteps ==
  ASSUME NEW t, NEW start, NEW specs, NEW m \in Nat, Len(specs) = m
  PROVE  /\ SpecsRead(t, start, specs)[0] = [t |-> t, end |-> FALSE]
         /\ \A n \in 1 .. m : SpecsRead(t, start, specs)[n] = OscDynamicSpec(SpecsRead(t, start, specs)[n - 1], start + n - 1, specs[n])
<1> DEFINE base == [t |-> t, end |-> FALSE]
           Built(f, k) ==
             f = [n \in 0 .. k |-> IF n = 0 THEN base ELSE OscDynamicSpec(f[n - 1], start + n - 1, specs[n])]
           Reached == {k \in 0 .. m : \E f : Built(f, k)}
<1>0. SpecsRead(t, start, specs) = CHOOSE f : Built(f, m)
  BY DEF SpecsRead
<1> HIDE DEF base
<1>1. 0 \in Reached
  <2>1. Built([n \in 0 .. 0 |-> base], 0)
    OBVIOUS
  <2>2. \E f : Built(f, 0)
    <3> HIDE DEF Built
    <3>1. QED
      BY <2>1
  <2>3. QED
    BY <2>2
<1>2. ASSUME NEW k \in 1 .. m, k - 1 \in Reached
      PROVE  k \in Reached
  <2>1. PICK f : Built(f, k - 1)
    BY <1>2
  <2> DEFINE g == [n \in 0 .. k |-> IF n = k THEN OscDynamicSpec(f[k - 1], start + k - 1, specs[k]) ELSE f[n]]
             h == [n \in 0 .. k |-> IF n = 0 THEN base ELSE OscDynamicSpec(g[n - 1], start + n - 1, specs[n])]
  <2>2. \A n \in 0 .. k - 1 : f[n] = IF n = 0 THEN base ELSE OscDynamicSpec(f[n - 1], start + n - 1, specs[n])
    <3> HIDE DEF g, h
    <3>1. QED
      BY <2>1, Zenon
  <2>3. \A n \in 0 .. k - 1 : g[n] = f[n]
    OBVIOUS
  <2>4. ASSUME NEW n \in 0 .. k PROVE g[n] = h[n]
    <3>1. CASE n = 0
      BY <3>1, <2>2, <2>3
    <3>2. CASE n \in 1 .. k - 1
      <4>1. h[n] = OscDynamicSpec(g[n - 1], start + n - 1, specs[n]) /\ n - 1 \in 0 .. k - 1 /\ n \in 0 .. k - 1
        BY <3>2
      <4>2. QED
        BY <4>1, <2>2, <2>3, <3>2
    <3>3. CASE n = k /\ k > 0
      <4>1. h[n] = OscDynamicSpec(g[k - 1], start + k - 1, specs[k]) /\ g[n] = OscDynamicSpec(f[k - 1], start + k - 1, specs[k])
        BY <3>3
      <4>2. g[k - 1] = f[k - 1]
        BY <2>3
      <4>3. QED
        BY <4>1, <4>2
    <3>4. QED
      BY <3>1, <3>2, <3>3
  <2>5. g = h
    <3>1. g = [n \in 0 .. k |-> g[n]] /\ h = [n \in 0 .. k |-> h[n]]
      OBVIOUS
    <3>2. QED
      BY <3>1, <2>4
  <2>6. Built(g, k)
    BY <2>5
  <2>7. \E f2 : Built(f2, k)
    <3> HIDE DEF Built, g
    <3>1. QED
      BY <2>6
  <2>8. QED
    BY <2>7
<1>3. m \in Reached
  <2> HIDE DEF Reached
  <2>1. QED
    BY <1>1, <1>2, Climbs
<1>4. Built(SpecsRead(t, start, specs), m)
  BY <1>0, <1>3
<1>5. SpecsRead(t, start, specs)[0] = base /\
      \A n \in 1 .. m : SpecsRead(t, start, specs)[n] = OscDynamicSpec(SpecsRead(t, start, specs)[n - 1], start + n - 1, specs[n])
  BY <1>4
<1>6. QED
  BY <1>5 DEF base

\* What a list of colours is read into: the terminal so far, and whether the rest
\* is passed over.
ReadTo(t, acc) == DOMAIN acc = {"t", "end"} /\ acc.end \in BOOLEAN /\ Steady(t, acc.t)

LEMMA ReadOn ==
  ASSUME NEW t, NEW acc, ReadTo(t, acc)
  PROVE  /\ ReadTo(t, [acc EXCEPT !.end = TRUE])
         /\ \A r : r[1] = "color" => ReadTo(t, [acc EXCEPT !.t = Reply(acc.t, r)])
         /\ \A c : ReadTo(t, [acc EXCEPT !.t = [acc.t EXCEPT !.colors = c]])
<1>1. Sound(acc.t) /\ Steady(t, acc.t) /\ DOMAIN acc = {"t", "end"} /\ acc.end \in BOOLEAN
  BY DEF ReadTo, Steady
<1>2. ASSUME NEW u, Steady(acc.t, u)
      PROVE  ReadTo(t, [acc EXCEPT !.t = u])
  <2>1. Steady(t, u)
    BY <1>1, <1>2, SteadyTwice
  <2>2. QED
    BY <1>1, <2>1 DEF ReadTo
<1>3. ASSUME NEW r, r[1] = "color"
      PROVE  ReadTo(t, [acc EXCEPT !.t = Reply(acc.t, r)])
  <2>1. Steady(acc.t, Reply(acc.t, r))
    BY <1>1, <1>3, ReplyAside DEF Secrets
  <2>2. QED
    BY <1>2, <2>1
<1>4. ASSUME NEW c
      PROVE  ReadTo(t, [acc EXCEPT !.t = [acc.t EXCEPT !.colors = c]])
  <2>1. Steady(acc.t, [acc.t EXCEPT !.colors = c])
    BY <1>1, SetColorsSteady
  <2>2. QED
    BY <1>2, <2>1
<1>5. ReadTo(t, [acc EXCEPT !.end = TRUE])
  BY <1>1 DEF ReadTo
<1>6. QED
  BY <1>3, <1>4, <1>5

LEMMA PairReadTo ==
  ASSUME NEW t, NEW acc, ReadTo(t, acc), NEW p
  PROVE  ReadTo(t, Osc4Pair(acc, p))
<1>1. acc.end \in BOOLEAN
  BY DEF ReadTo
<1>2. CASE acc.end
  BY <1>2 DEF Osc4Pair
<1>3. CASE ~acc.end /\ p[1] > 260
  BY <1>3, ReadOn DEF Osc4Pair
<1>4. CASE ~acc.end /\ ~(p[1] > 260) /\ p[1] \in 256 .. 260
  BY <1>4, ReadOn DEF Osc4Pair
<1>5. CASE ~acc.end /\ ~(p[1] > 260) /\ ~(p[1] \in 256 .. 260)
  <2> DEFINE r == ColorReply(4, p[1], PaletteColor(acc.t.colors, p[1]))
             c == SetPalette(acc.t.colors, p[1], ParseSpec(p[2])[1])
  <2>1. Osc4Pair(acc, p) = IF p[2][1] = "?" THEN [acc EXCEPT !.t = Reply(acc.t, r)]
                           ELSE IF ParseSpec(p[2]) = <<>> THEN [acc EXCEPT !.end = TRUE]
                           ELSE [acc EXCEPT !.t = [acc.t EXCEPT !.colors = c]]
    <3>1. DOMAIN acc = {"t", "end"} /\ DOMAIN acc.t = TermFields
      BY DEF ReadTo, Steady, Sound
    <3>2. Osc4Pair(acc, p) = IF p[2][1] = "?"
           THEN [acc EXCEPT !.t = Reply(@, ColorReply(4, p[1], PaletteColor(@.colors, p[1])))]
           ELSE IF ParseSpec(p[2]) = <<>> THEN [acc EXCEPT !.end = TRUE]
           ELSE [acc EXCEPT !.t.colors = SetPalette(@, p[1], ParseSpec(p[2])[1])]
      BY <1>5 DEF Osc4Pair
    <3>3. QED
      BY <3>1, <3>2 DEF TermFields
  <2>2. r[1] = "color"
    BY DEF ColorReply
  <2> HIDE DEF r, c
  <2>3. /\ ReadTo(t, [acc EXCEPT !.end = TRUE])
        /\ ReadTo(t, [acc EXCEPT !.t = Reply(acc.t, r)])
        /\ ReadTo(t, [acc EXCEPT !.t = [acc.t EXCEPT !.colors = c]])
    BY <2>2, ReadOn
  <2>4. QED
    BY <2>1, <2>3
<1>6. QED
  BY <1>1, <1>2, <1>3, <1>4, <1>5

LEMMA SpecReadTo ==
  ASSUME NEW t, NEW acc, ReadTo(t, acc), NEW n, NEW spec
  PROVE  ReadTo(t, OscDynamicSpec(acc, n, spec))
<1>1. acc.end \in BOOLEAN
  BY DEF ReadTo
<1>2. CASE acc.end \/ n > 19
  BY <1>2, ReadOn DEF OscDynamicSpec
<1>3. CASE ~(acc.end \/ n > 19) /\ spec[1] = "?"
  <2> DEFINE r == ColorReply(n, 0, DynamicColor(acc.t.colors, n)[1])
  <2>1. OscDynamicSpec(acc, n, spec) = IF DynamicColor(acc.t.colors, n) = <<>> THEN acc
                                       ELSE [acc EXCEPT !.t = Reply(acc.t, r)]
    <3>1. DOMAIN acc = {"t", "end"}
      BY DEF ReadTo
    <3>2. QED
      BY <1>3, <3>1 DEF OscDynamicSpec
  <2>2. r[1] = "color"
    BY DEF ColorReply
  <2> HIDE DEF r
  <2>3. ReadTo(t, [acc EXCEPT !.t = Reply(acc.t, r)])
    BY <2>2, ReadOn
  <2>4. QED
    BY <2>1, <2>3
<1>4. CASE ~(acc.end \/ n > 19) /\ ~(spec[1] = "?")
  <2> DEFINE c == [acc.t.colors EXCEPT ![Dynamic[n]] = ParseSpec(spec)]
  <2>1. OscDynamicSpec(acc, n, spec) = IF ParseSpec(spec) = <<>> THEN [acc EXCEPT !.end = TRUE]
                                       ELSE IF n \notin DOMAIN Dynamic THEN acc
                                       ELSE [acc EXCEPT !.t = [acc.t EXCEPT !.colors = c]]
    <3>1. DOMAIN acc = {"t", "end"} /\ DOMAIN acc.t = TermFields
      BY DEF ReadTo, Steady, Sound
    <3>2. OscDynamicSpec(acc, n, spec) =
            IF ParseSpec(spec) = <<>> THEN [acc EXCEPT !.end = TRUE]
            ELSE IF n \notin DOMAIN Dynamic THEN acc
            ELSE [acc EXCEPT !.t.colors[Dynamic[n]] = ParseSpec(spec)]
      BY <1>4 DEF OscDynamicSpec
    <3>3. QED
      BY <3>1, <3>2 DEF TermFields
  <2> HIDE DEF c
  <2>2. /\ ReadTo(t, [acc EXCEPT !.end = TRUE])
        /\ ReadTo(t, [acc EXCEPT !.t = [acc.t EXCEPT !.colors = c]])
    BY ReadOn
  <2>3. QED
    BY <2>1, <2>2
<1>5. QED
  BY <1>2, <1>3, <1>4

LEMMA Osc4Steady ==
  ASSUME NEW t, Sound(t), NEW pairs, Len(pairs) \in Nat
  PROVE  Steady(t, Osc4(t, pairs))
<1> DEFINE m == Len(pairs)
           f == PairsRead(t, pairs)
           S == {k \in 0 .. m : ReadTo(t, f[k])}
<1>0. m \in Nat /\ f[0] = [t |-> t, end |-> FALSE] /\ \A k \in 1 .. m : f[k] = Osc4Pair(f[k - 1], pairs[k])
  BY PairsSteps
<1> HIDE DEF f, m
<1>1. 0 \in S
  <2>1. ReadTo(t, [t |-> t, end |-> FALSE])
    BY StaysSteady DEF ReadTo
  <2>2. QED
    BY <1>0, <2>1
<1>2. ASSUME NEW k \in 1 .. m, k - 1 \in S PROVE k \in S
  <2>1. ReadTo(t, f[k - 1])
    BY <1>2
  <2>2. ReadTo(t, f[k])
    BY <1>0, <2>1, PairReadTo
  <2>3. QED
    BY <2>2
<1>3. m \in S
  <2> HIDE DEF S
  <2>1. m \in Nat
    BY <1>0
  <2>2. \A k \in 0 .. m : k \in S
    BY <1>1, <1>2, <2>1, Climbs
  <2>3. QED
    BY <2>1, <2>2
<1>4. ReadTo(t, f[m])
  BY <1>3
<1>5. QED
  BY <1>4 DEF f, m, Osc4, ReadTo

LEMMA OscDynamicSteady ==
  ASSUME NEW t, Sound(t), NEW start, NEW specs, Len(specs) \in Nat
  PROVE  Steady(t, OscDynamic(t, start, specs))
<1> DEFINE m == Len(specs)
           f == SpecsRead(t, start, specs)
           S == {k \in 0 .. m : ReadTo(t, f[k])}
<1>0. /\ m \in Nat /\ f[0] = [t |-> t, end |-> FALSE]
      /\ \A k \in 1 .. m : f[k] = OscDynamicSpec(f[k - 1], start + k - 1, specs[k])
  BY SpecsSteps
<1> HIDE DEF f, m
<1>1. 0 \in S
  <2>1. ReadTo(t, [t |-> t, end |-> FALSE])
    BY StaysSteady DEF ReadTo
  <2>2. QED
    BY <1>0, <2>1
<1>2. ASSUME NEW k \in 1 .. m, k - 1 \in S PROVE k \in S
  <2>1. ReadTo(t, f[k - 1])
    BY <1>2
  <2>2. ReadTo(t, f[k])
    BY <1>0, <2>1, SpecReadTo
  <2>3. QED
    BY <2>2
<1>3. m \in S
  <2> HIDE DEF S
  <2>1. m \in Nat
    BY <1>0
  <2>2. \A k \in 0 .. m : k \in S
    BY <1>1, <1>2, <2>1, Climbs
  <2>3. QED
    BY <2>1, <2>2
<1>4. ReadTo(t, f[m])
  BY <1>3
<1>5. QED
  BY <1>4 DEF f, m, OscDynamic, ReadTo

LEMMA ResetColorsSteady ==
  ASSUME NEW t, Sound(t), NEW list, NEW n
  PROVE  Steady(t, Osc104(t, list)) /\ Steady(t, OscResetDynamic(t, n))
<1>1. DOMAIN t = TermFields
  BY DEF Sound
<1>2. \E c : Osc104(t, list) = [t EXCEPT !.colors = c]
  <2> DEFINE a == [t.colors EXCEPT !.palette = <<>>]
             b == FoldLeft(LAMBDA c, i : ResetPalette(c, i), t.colors, list)
  <2>1. Osc104(t, list) = IF list = <<>> THEN [t EXCEPT !.colors = a] ELSE [t EXCEPT !.colors = b]
    BY <1>1 DEF Osc104, TermFields
  <2> HIDE DEF a, b
  <2>2. QED
    BY <2>1
<1>3. OscResetDynamic(t, n) = t \/ \E c : OscResetDynamic(t, n) = [t EXCEPT !.colors = c]
  <2> DEFINE a == [t.colors EXCEPT ![Dynamic[n - 100]] = <<>>]
  <2>1. OscResetDynamic(t, n) = IF n - 100 \in DOMAIN Dynamic THEN [t EXCEPT !.colors = a] ELSE t
    BY <1>1 DEF OscResetDynamic, TermFields
  <2> HIDE DEF a
  <2>2. QED
    BY <2>1
<1>4. QED
  BY <1>2, <1>3, SetColorsSteady, StaysSteady

-----------------------------------------------------------------------------
(* Resizes, resets and the switch of screens.                              *)

\* Whatever becomes of the screens, their key flags are as they were.
SameRings(t, u) == \A n \in Screens : u.screens[n].kitty = t.screens[n].kitty
Sane(t, u) == Sound(u) /\ SameGrants(t, u) /\ SameRings(t, u)

LEMMA SteadySane ==
  ASSUME NEW t, NEW u, Steady(t, u)
  PROVE  Sane(t, u)
  BY DEF Steady, StaysIn, Sane, SameRings

LEMMA SaneTwice ==
  ASSUME NEW t, NEW u, NEW v, Sane(t, u), Sane(u, v)
  PROVE  Sane(t, v)
  BY DEF Sane, SameGrants, SameRings

LEMMA RefittedOK ==
  ASSUME NEW cols \in Nat \ {0}, NEW rows \in Nat \ {0}, NEW a, NEW b, NEW s, ScreenOK(s, a, b),
         NEW w \in Refitted(s, cols, rows)
  PROVE  ScreenOK(w, cols, rows) /\ w.kitty = s.kitty
<1> DEFINE places == {<<[x |-> q[1], y |-> q[2], pending |-> s.saved[1].pending,
                         protected |-> s.saved[1].protected]>> : q \in Positions(cols, rows)}
           home   == <<[x |-> 0, y |-> 0, pending |-> FALSE, protected |-> "none"]>>
           keeps  == IF s.saved = <<>> THEN {<<>>} ELSE places \union {home}
<1>1. Refitted(s, cols, rows) = {RefitAt(s, cols, rows, p, saved) : p \in Positions(cols, rows), saved \in keeps}
  BY DEF Refitted
<1>2. ASSUME NEW saved \in keeps PROVE SavedOK(saved)
  <2>1. \A q \in Positions(cols, rows) : q[1] \in Nat /\ q[2] \in Nat
    BY DEF Positions
  <2>2. CASE saved \in places
    BY <2>1, <2>2 DEF SavedOK
  <2>3. CASE saved = home
    BY <2>3 DEF SavedOK
  <2>4. CASE saved = <<>>
    BY <2>4 DEF SavedOK
  <2>5. QED
    BY <2>2, <2>3, <2>4
<1> HIDE DEF keeps
<1>3. PICK p \in Positions(cols, rows), saved \in keeps : w = RefitAt(s, cols, rows, p, saved)
  BY <1>1
<1>4. p[1] \in 0 .. cols - 1 /\ p[2] \in 0 .. rows - 1
  BY DEF Positions
<1>5. SavedOK(saved)
  BY <1>2
<1>6. QED
  BY <1>3, <1>4, <1>5 DEF RefitAt, ScreenOK, ScreenFields

LEMMA ResizedSane ==
  ASSUME NEW t, Sound(t), NEW cols \in Nat, NEW rows \in Nat,
         t.ceiling # <<>> => cols <= t.ceiling[1] /\ rows <= t.ceiling[2],
         NEW u \in Resized(t, cols, rows)
  PROVE  Sane(t, u) /\ u.active = t.active
<1>1. CASE cols = 0 \/ rows = 0
  <2>1. u = t
    BY <1>1 DEF Resized
  <2>2. QED
    BY <2>1 DEF Sane, SameGrants, SameRings
<1>2. CASE ~(cols = 0 \/ rows = 0)
  <2> DEFINE on == t.on \ {Dec(2026)}
             tabs == IF cols = t.cols THEN t.tabs ELSE NewTabs(cols)
  <2>1. DOMAIN t = TermFields
    BY DEF Sound
  <2>2. PICK a \in Refitted(t.screens.primary, cols, rows), b \in Refitted(t.screens.alternate, cols, rows) :
          u = ResizedWith(t, cols, rows, a, b)
    BY <1>2 DEF Resized
  <2>3. tabs \subseteq Nat
    BY DEF Sound, StacksBounded, NewTabs
  <2>11. u = [t EXCEPT !.cols = cols, !.rows = rows, !.on = on, !.tabs = tabs,
                       !.screens = [primary |-> a, alternate |-> b]]
    BY <2>1, <2>2 DEF ResizedWith, TermFields
  <2> HIDE DEF on, tabs
  <2>4. /\ DOMAIN u = TermFields /\ u.cols = cols /\ u.rows = rows /\ u.active = t.active
        /\ u.screens = [primary |-> a, alternate |-> b] /\ SameGrants(t, u)
        /\ u.replies = t.replies /\ u.stack = t.stack /\ u.links = t.links /\ u.link = t.link /\ u.tabs = tabs
    BY <2>1, <2>11 DEF TermFields, SameGrants
  <2>5. ScreenOK(t.screens.primary, t.cols, t.rows) /\ ScreenOK(t.screens.alternate, t.cols, t.rows)
    BY DEF Sound, Screens
  <2>6. /\ ScreenOK(a, cols, rows) /\ a.kitty = t.screens.primary.kitty
        /\ ScreenOK(b, cols, rows) /\ b.kitty = t.screens.alternate.kitty
    BY <1>2, <2>5, RefittedOK
  <2>7. /\ DOMAIN u.screens = Screens /\ SameRings(t, u)
        /\ \A n \in Screens : ScreenOK(u.screens[n], u.cols, u.rows)
    BY <2>4, <2>6 DEF Screens, SameRings
  <2>8. Quiet(u) /\ Allowed(u) /\ StacksBounded(u)
    BY <2>3, <2>4 DEF Sound, Quiet, Allowed, StacksBounded, SameGrants
  <2>9. Sound(u)
    BY <1>2, <2>4, <2>7, <2>8 DEF Sound, SameGrants
  <2>10. QED
    BY <2>4, <2>7, <2>9 DEF Sane
<1>3. QED
  BY <1>1, <1>2

LEMMA ResizedTo ==
  ASSUME NEW t, Sound(t), NEW cols, NEW rows, cols # 0, rows # 0, NEW u \in Resized(t, cols, rows)
  PROVE  u.cols = cols /\ u.rows = rows
<1>1. PICK a \in Refitted(t.screens.primary, cols, rows), b \in Refitted(t.screens.alternate, cols, rows) :
        u = ResizedWith(t, cols, rows, a, b)
  BY DEF Resized
<1>2. QED
  BY <1>1 DEF ResizedWith, Sound, TermFields

LEMMA ChildResizeSane ==
  ASSUME NEW t, Sound(t), NEW cols \in Nat, NEW rows \in Nat, NEW u \in ChildResize(t, cols, rows).to
  PROVE  Sane(t, u) /\ u.active = t.active
<1>1. CASE t.ceiling # <<>> /\ (cols > t.ceiling[1] \/ rows > t.ceiling[2])
  <2>1. u = t
    BY <1>1 DEF ChildResize
  <2>2. QED
    BY <2>1 DEF Sane, SameGrants, SameRings
<1>2. CASE ~(t.ceiling # <<>> /\ (cols > t.ceiling[1] \/ rows > t.ceiling[2]))
  <2>1. u \in Resized(t, cols, rows)
    BY <1>2 DEF ChildResize
  <2>2. t.ceiling # <<>> => cols <= t.ceiling[1] /\ rows <= t.ceiling[2]
    BY <1>2 DEF Sound
  <2>3. QED
    BY <2>1, <2>2, ResizedSane
<1>3. QED
  BY <1>1, <1>2

LEMMA DeccolmSane ==
  ASSUME NEW t, Sound(t), NEW wide, NEW u \in Deccolm(t, wide)
  PROVE  Sane(t, u)
<1>1. CASE Dec(40) \notin t.on
  <2>1. u = Turn(t, Dec(3), FALSE)
    BY <1>1 DEF Deccolm
  <2>2. QED
    BY <2>1, TurnAside, SteadySane
<1>2. CASE Dec(40) \in t.on
  <2> DEFINE cols == IF wide THEN Wide ELSE Narrow
             r == ChildResize(t, cols, t.rows)
  <2>1. cols \in Nat /\ t.rows \in Nat
    BY ModesAssumption DEF Sound
  <2>2. u \in IF ~r.done THEN r.to ELSE {CursorPosition(EraseComplete(Turn(v, Dec(3), wide)), 0, 0) : v \in r.to}
    BY <1>2 DEF Deccolm
  <2> HIDE DEF cols
  <2>3. \A v \in r.to : Sane(t, v)
    BY <2>1, ChildResizeSane
  <2> HIDE DEF r
  <2>4. ASSUME NEW v \in r.to, u = CursorPosition(EraseComplete(Turn(v, Dec(3), wide)), 0, 0)
        PROVE  Sane(t, u)
    <3> DEFINE a == Turn(v, Dec(3), wide)
               b == EraseComplete(a)
    <3>1. Sane(t, v) /\ Sound(v)
      BY <2>3 DEF Sane
    <3>2. Steady(v, a)
      BY <3>1, TurnAside
    <3> HIDE DEF a
    <3>3. Steady(a, b)
      BY <3>2, EraseCompleteSteady DEF Steady
    <3> HIDE DEF b
    <3>4. Steady(b, CursorPosition(b, 0, 0))
      BY <3>3, CursorPositionSteady DEF Steady
    <3>5. u = CursorPosition(b, 0, 0)
      BY <2>4 DEF b, a
    <3>6. Steady(v, u)
      BY <3>2, <3>3, <3>4, <3>5, SteadyTwice
    <3>7. QED
      BY <3>1, <3>6, SteadySane, SaneTwice
  <2>5. QED
    BY <2>2, <2>3, <2>4
<1>3. QED
  BY <1>1, <1>2

\* A terminal as it begins.
Begun(u) ==
  /\ DOMAIN u = TermFields /\ u.active = "primary"
  /\ u.screens = [n \in {"primary", "alternate"} |-> NewScreen(u.cols, u.rows)] /\ u.replies = <<>>
  /\ u.stack = <<>> /\ u.links = <<>> /\ u.link = 0 /\ u.tabs = NewTabs(u.cols)

LEMMA BegunSound ==
  ASSUME NEW u, Begun(u), u.cols \in Nat \ {0}, u.rows \in Nat \ {0}, Allowed(u),
         u.ceiling # <<>> => u.ceiling[1] \in Nat /\ u.ceiling[2] \in Nat
  PROVE  Sound(u) /\ \A n \in Screens : u.screens[n].kitty = NewRing
<1> DEFINE s == NewScreen(u.cols, u.rows)
<1>1. ScreenOK(s, u.cols, u.rows) /\ s.kitty = NewRing
  BY NewRingTyped DEF NewScreen, ScreenOK, ScreenFields, SavedOK
<1> HIDE DEF s
<1>2. DOMAIN u.screens = Screens /\ u.active \in Screens /\ \A n \in Screens : u.screens[n] = s
  BY DEF Begun, Screens, s
<1>3. Quiet(u)
  BY EmptySequence DEF Quiet, Begun
<1>4. StacksBounded(u)
  BY EmptySequence, ModesAssumption DEF StacksBounded, NewTabs, Begun
<1>5. DOMAIN u = TermFields
  BY DEF Begun
<1>6. Sound(u)
  BY <1>1, <1>2, <1>3, <1>4, <1>5 DEF Sound
<1>7. QED
  BY <1>1, <1>2, <1>6

LEMMA FullResetKeyed ==
  ASSUME NEW t, Sound(t)
  PROVE  Sound(FullReset(t)) /\ SameGrants(t, FullReset(t)) /\ Keyed(t, FullReset(t))
<1> DEFINE u == FullReset(t)
<1>1. u = [New(t.cols, t.rows) EXCEPT !.reports = t.reports, !.ceiling = t.ceiling, !.colors = t.colors]
  BY DEF FullReset
<1>2. Begun(u) /\ u.cols = t.cols /\ u.rows = t.rows /\ SameGrants(t, u)
  BY <1>1 DEF Begun, New, TermFields, SameGrants
<1> HIDE DEF u
<1>3. Sound(u) /\ \A n \in Screens : u.screens[n].kitty = NewRing
  BY <1>2, BegunSound DEF Sound, Allowed, SameGrants
<1>4. QED
  BY <1>2, <1>3 DEF u, Keyed, RingStep

LEMMA SwitchedSane ==
  ASSUME NEW t, Sound(t), NEW to \in Screens
  PROVE  LET u == Switched(t, to) IN
         /\ Sane(t, u) /\ u.active = to /\ u.cols = t.cols /\ u.rows = t.rows
         /\ u.savedPen = t.savedPen /\ u.pen = t.pen
         /\ to = t.active => u = t
         /\ to # t.active => /\ u.screens[to] = [t.screens[to] EXCEPT !.top = Here(t).top, !.bottom = Here(t).bottom]
                             /\ u.screens[t.active] = t.screens[t.active]
<1> DEFINE u == Switched(t, to)
<1>1. CASE t.active = to
  BY <1>1 DEF Switched, Sane, SameGrants, SameRings
<1>2. CASE t.active # to
  <2> DEFINE s == [t.screens[to] EXCEPT !.top = Here(t).top, !.bottom = Here(t).bottom]
             v == [t.screens EXCEPT ![to] = s]
  <2>1. DOMAIN t = TermFields /\ DOMAIN t.screens = Screens /\ t.active \in Screens
    BY DEF Sound
  <2>2. ScreenOK(t.screens[to], t.cols, t.rows) /\ ScreenOK(Here(t), t.cols, t.rows)
    BY HereOK DEF Sound
  <2>3. ScreenOK(s, t.cols, t.rows) /\ s.kitty = t.screens[to].kitty
    BY <2>2 DEF ScreenOK, ScreenFields
  <2>4. u = [t EXCEPT !.active = to, !.screens = v]
    <3>1. DOMAIN t.screens[to] = ScreenFields
      BY <2>2 DEF ScreenOK
    <3>2. u = [t EXCEPT !.active = to, !.screens[to].top = Here(t).top, !.screens[to].bottom = Here(t).bottom]
      BY <1>2 DEF Switched
    <3> HIDE DEF u
    <3> DEFINE a == Here(t).top
               b == Here(t).bottom
    <3>3. u = [t EXCEPT !.active = to, !.screens[to].top = a, !.screens[to].bottom = b]
      BY <3>2
    <3> HIDE DEF a, b
    <3>4. u = [t EXCEPT !.active = to, !.screens = [t.screens EXCEPT ![to] = [t.screens[to] EXCEPT !.top = a, !.bottom = b]]]
      BY <2>1, <3>1, <3>3, ZenonT(60) DEF TermFields, ScreenFields
    <3>5. QED
      BY <3>4 DEF a, b
  <2> HIDE DEF s, u
  <2>5. DOMAIN v = Screens /\ v[to] = s /\ \A n \in Screens : n # to => v[n] = t.screens[n]
    BY <2>1
  <2> HIDE DEF v
  <2>6. /\ DOMAIN u = TermFields /\ u.active = to /\ u.cols = t.cols /\ u.rows = t.rows /\ u.screens = v
        /\ SameGrants(t, u) /\ u.savedPen = t.savedPen /\ u.pen = t.pen /\ u.replies = t.replies
        /\ u.stack = t.stack /\ u.links = t.links /\ u.link = t.link /\ u.tabs = t.tabs
    BY <2>1, <2>4 DEF TermFields, SameGrants
  <2>7. SameRings(t, u) /\ \A n \in Screens : ScreenOK(u.screens[n], u.cols, u.rows)
    BY <2>3, <2>5, <2>6 DEF SameRings, Sound
  <2>8. Quiet(u) /\ Allowed(u) /\ StacksBounded(u)
    BY <2>6 DEF Sound, Quiet, Allowed, StacksBounded, SameGrants
  <2>9. Sound(u)
    BY <2>5, <2>6, <2>7, <2>8 DEF Sound, SameGrants
  <2>10. QED
    BY <1>2, <2>1, <2>5, <2>6, <2>7, <2>9 DEF Sane, u, s
<1>3. QED
  BY <1>1, <1>2

LEMMA CopyCursorSteady ==
  ASSUME NEW t, Sound(t), NEW from, from.x \in Nat, from.y \in Nat
  PROVE  LET u == CopyCursorAcross(t, from) IN
         Steady(t, u) /\ u.savedPen = t.savedPen /\ u.pen = t.pen
<1> DEFINE s == MoveTo(t, Here(t), from.x, from.y)
<1>1. ScreenOK(s, t.cols, t.rows) /\ s.kitty = Here(t).kitty
  <2> DEFINE x == from.x
             y == from.y
             h == Here(t)
  <2>1. x \in Nat /\ y \in Nat /\ ScreenOK(h, t.cols, t.rows)
    BY HereOK
  <2> HIDE DEF x, y, h
  <2>2. ScreenOK(MoveTo(t, h, x, y), t.cols, t.rows) /\ MoveTo(t, h, x, y).kitty = h.kitty
    BY <2>1, MoveToOK
  <2>3. QED
    BY <2>2 DEF x, y, h
<1>2. CopyCursorAcross(t, from) = OnScreen(t, s)
  BY DEF CopyCursorAcross
<1> HIDE DEF s
<1>3. QED
  BY <1>1, <1>2, OnScreenSteady

\* 47, 1047 and 1049 set end on the alternate screen and reset on the primary.
\* Set over the alternate they leave the primary alone; 1049 leaves it saved, and
\* comes back to what it saved.
Switches(t, mode, on, u) ==
  /\ Sane(t, u) /\ u.cols = t.cols /\ u.rows = t.rows
  /\ u.active = IF on THEN "alternate" ELSE "primary"
  /\ on /\ t.active = "alternate" => u.screens["primary"] = t.screens["primary"]
  /\ mode = 1049 /\ on /\ t.active = "primary" =>
       /\ u.screens["primary"] = [Here(t) EXCEPT !.saved = Kept(Here(t))]
       /\ u.savedPen = <<t.pen>> /\ u.pen = t.pen
  /\ mode = 1049 /\ ~on /\ t.active = "alternate" =>
       /\ u.screens["primary"] = RestoredTo(t, [t.screens["primary"] EXCEPT !.top = Here(t).top,
                                                                           !.bottom = Here(t).bottom])
       /\ u.pen = IF t.savedPen = <<>> THEN Plain ELSE t.savedPen[1]

LEMMA SwitchScreenSteps ==
  ASSUME NEW t, Sound(t), NEW mode, NEW on \in BOOLEAN
  PROVE  Switches(t, mode, on, SwitchScreen(t, mode, on))
<1> DEFINE u     == SwitchScreen(t, mode, on)
           from  == IF mode = 1047 /\ ~on /\ t.active = "alternate" THEN EraseComplete(t)
                    ELSE IF mode = 1049 /\ on THEN SaveCursor(t) ELSE t
           to    == IF on THEN "alternate" ELSE "primary"
           there == Switched(from, to)
           over  == IF there.active # t.active THEN CopyCursorAcross(there, Here(t)) ELSE there
<1>1. u = IF mode # 1049 THEN over ELSE IF on THEN EraseComplete(over) ELSE RestoreCursor(there)
  BY DEF SwitchScreen
<1> HIDE DEF u
<1>2. Steady(t, from) /\ t.active \in Screens /\ to \in Screens
  BY EraseCompleteSteady, SaveCursorSteady, StaysSteady DEF Sound, Screens
<1>3. mode = 1049 /\ on => /\ from.savedPen = <<t.pen>> /\ from.pen = t.pen
                           /\ Here(from) = [Here(t) EXCEPT !.saved = Kept(Here(t))]
  BY SaveCursorSteady
<1>4. mode = 1049 /\ ~on => from = t
  OBVIOUS
<1> HIDE DEF from
<1>5. Sound(from) /\ from.active = t.active /\ from.cols = t.cols /\ from.rows = t.rows
      /\ \A n \in Screens : n # t.active => from.screens[n] = t.screens[n]
  BY <1>2 DEF Steady, StaysIn, SamePlace
<1>6. to = IF on THEN "alternate" ELSE "primary"
  OBVIOUS
<1> HIDE DEF to
<1>7. /\ Sane(from, there) /\ there.active = to /\ there.cols = from.cols /\ there.rows = from.rows
      /\ there.savedPen = from.savedPen /\ there.pen = from.pen
      /\ to = from.active => there = from
      /\ to # from.active =>
           /\ there.screens[to] = [from.screens[to] EXCEPT !.top = Here(from).top, !.bottom = Here(from).bottom]
           /\ there.screens[from.active] = from.screens[from.active]
  BY <1>2, <1>5, SwitchedSane
<1> HIDE DEF there
<1>8. Here(t).x \in Nat /\ Here(t).y \in Nat /\ Sound(there)
  BY <1>7, HereOK DEF ScreenOK, Sane
<1>9. /\ Steady(there, over) /\ over.savedPen = there.savedPen /\ over.pen = there.pen
      /\ there.active = t.active => over = there
  <2> DEFINE h == Here(t)
  <2>1. h.x \in Nat /\ h.y \in Nat /\ over = IF there.active # t.active THEN CopyCursorAcross(there, h) ELSE there
    BY <1>8
  <2> HIDE DEF h, over
  <2>2. QED
    BY <1>8, <2>1, CopyCursorSteady, StaysSteady
<1> HIDE DEF over
<1>10. Sound(over) /\ over.active = to
  BY <1>7, <1>9 DEF Steady, StaysIn, SamePlace
<1>11. Steady(there, u)
  <2>1. Steady(over, EraseComplete(over))
    BY <1>10, EraseCompleteSteady
  <2>2. Steady(there, EraseComplete(over))
    BY <1>9, <2>1, SteadyTwice
  <2>3. Steady(there, RestoreCursor(there))
    BY <1>8, RestoreCursorSteady
  <2>4. QED
    BY <1>1, <1>9, <2>2, <2>3
<1>12. u.active = to /\ u.cols = t.cols /\ u.rows = t.rows
       /\ \A n \in Screens : n # to => u.screens[n] = there.screens[n]
  BY <1>5, <1>7, <1>11 DEF Steady, StaysIn, SamePlace
<1>13. Sane(t, u)
  BY <1>2, <1>7, <1>11, SteadySane, SaneTwice
<1>14. ASSUME on, t.active = "alternate"
       PROVE  u.screens["primary"] = t.screens["primary"]
  BY <1>5, <1>6, <1>7, <1>12, <1>14 DEF Screens
<1>15. ASSUME mode = 1049, on, t.active = "primary"
       PROVE  /\ u.screens["primary"] = [Here(t) EXCEPT !.saved = Kept(Here(t))]
              /\ u.savedPen = <<t.pen>> /\ u.pen = t.pen
  <2>1. from.screens["primary"] = Here(from)
    BY <1>5, <1>15 DEF Here
  <2>2. u.screens["primary"] = from.screens["primary"]
    BY <1>5, <1>6, <1>7, <1>12, <1>15 DEF Screens
  <2>3. u.savedPen = over.savedPen /\ u.pen = over.pen
    BY <1>1, <1>10, <1>15, EraseCompleteSteady
  <2>4. QED
    BY <1>3, <1>7, <1>9, <1>15, <2>1, <2>2, <2>3
<1>16. ASSUME mode = 1049, ~on, t.active = "alternate"
       PROVE  /\ u.screens["primary"] = RestoredTo(t, [t.screens["primary"] EXCEPT !.top = Here(t).top,
                                                                                  !.bottom = Here(t).bottom])
              /\ u.pen = IF t.savedPen = <<>> THEN Plain ELSE t.savedPen[1]
  <2>1. u = RestoreCursor(there) /\ from = t /\ to = "primary"
    BY <1>1, <1>4, <1>6, <1>16
  <2>2. Here(u) = RestoredTo(there, Here(there)) /\ u.pen = IF there.savedPen = <<>> THEN Plain ELSE there.savedPen[1]
    BY <1>8, <2>1, RestoreCursorSteady
  <2>3. Here(u) = u.screens["primary"] /\ Here(there) = there.screens["primary"]
    BY <1>7, <1>12, <2>1 DEF Here
  <2>4. RestoredTo(there, Here(there)) = RestoredTo(t, Here(there))
    BY <1>7, <2>1 DEF RestoredTo
  <2> DEFINE v == [t.screens["primary"] EXCEPT !.top = Here(t).top, !.bottom = Here(t).bottom]
  <2>5. there.screens["primary"] = v /\ there.savedPen = t.savedPen
    BY <1>7, <1>16, <2>1
  <2> HIDE DEF v
  <2>6. u.screens["primary"] = RestoredTo(t, v)
    BY <2>2, <2>3, <2>4, <2>5
  <2>7. QED
    BY <2>2, <2>5, <2>6 DEF v
<1>17. QED
  BY <1>6, <1>12, <1>13, <1>14, <1>15, <1>16 DEF u, Switches

-----------------------------------------------------------------------------
(* Modes.                                                                  *)

LEMMA MouseSteady ==
  ASSUME NEW t, Sound(t), NEW n, NEW on
  PROVE  Steady(t, SetMouse(t, n, on))
<1> DEFINE v      == Turn(t, Dec(n), on)
           event  == IF n \notin DOMAIN MouseEvents THEN v.event ELSE IF on THEN MouseEvents[n] ELSE "None"
           format == IF n \notin DOMAIN MouseFormats THEN v.format ELSE IF on THEN MouseFormats[n] ELSE "X10"
           u      == [v EXCEPT !.event = event, !.format = format]
<1>1. Steady(t, v) /\ Sound(v)
  BY TurnAside DEF Steady
<1>2. DOMAIN v = TermFields
  BY <1>1 DEF Sound
<1>3. SetMouse(t, n, on) = [v EXCEPT !.event = IF n \notin DOMAIN MouseEvents THEN @ ELSE IF on THEN MouseEvents[n] ELSE "None",
                                     !.format = IF n \notin DOMAIN MouseFormats THEN @ ELSE IF on THEN MouseFormats[n] ELSE "X10"]
  BY DEF SetMouse
<1> HIDE DEF v
<1>4. SetMouse(t, n, on) = u
  BY <1>2, <1>3 DEF TermFields
<1> HIDE DEF event, format
<1>5. Elsewhere(v, u)
  BY <1>2 DEF Elsewhere, Aside, SameGrants, TermFields
<1>6. QED
  BY <1>1, <1>4, <1>5, ElsewhereSteady, SteadyTwice

\* A mode set or reset, but for DECCOLM: while the alternate screen is up, the
\* primary waits as it was.
Waits(t, u, on) ==
  /\ u.cols = t.cols /\ u.rows = t.rows
  /\ on /\ t.active = "alternate" => u.active = "alternate" /\ u.screens["primary"] = t.screens["primary"]
  /\ ~on /\ u.active = "alternate" => t.active = "alternate" /\ u.screens["primary"] = t.screens["primary"]

LEMMA SteadyWaits ==
  ASSUME NEW t, Sound(t), NEW u, Steady(t, u), NEW on
  PROVE  Sane(t, u) /\ Waits(t, u, on)
<1>1. \A n \in Screens : n # t.active => u.screens[n] = t.screens[n]
  BY DEF Steady, StaysIn, SamePlace
<1>2. u.cols = t.cols /\ u.rows = t.rows /\ u.active = t.active
  BY DEF Steady, StaysIn, SamePlace
<1>3. t.active = "alternate" => u.screens["primary"] = t.screens["primary"]
  BY <1>1 DEF Screens
<1>4. QED
  BY <1>2, <1>3, SteadySane DEF Waits

MouseModes == {9, 1000, 1002, 1003, 1005, 1006, 1015, 1016}

LEMMA MouseNumbers == DOMAIN MouseEvents \union DOMAIN MouseFormats = MouseModes
  BY DEF MouseEvents, MouseFormats, MouseModes

LEMMA ModeKinds ==
  ASSUME NEW n
  PROVE  /\ n \in PlainModes => n \notin DOMAIN MouseEvents \union DOMAIN MouseFormats
         /\ n \in PlainModes \union MouseModes =>
              n # 6 /\ n # 69 /\ n # 3 /\ n # 1048 /\ n \notin {47, 1047, 1049}
         /\ n \in MouseModes => n \notin PlainModes /\ n \in DOMAIN MouseEvents \union DOMAIN MouseFormats
         /\ n \in {6, 69, 3, 1048, 47, 1047, 1049} =>
              n \notin PlainModes /\ n \notin DOMAIN MouseEvents \union DOMAIN MouseFormats
         /\ n \notin MouseModes => n \notin DOMAIN MouseEvents \union DOMAIN MouseFormats
  BY MouseNumbers DEF PlainModes, MouseModes

LEMMA ModeWaits ==
  ASSUME NEW t, Sound(t), NEW n, NEW on \in BOOLEAN, NEW u \in SetMode(t, n, on)
  PROVE  Sane(t, u) /\ (n # 3 => Waits(t, u, on))
<1>1. CASE n = 3
  <2>1. u \in Deccolm(t, on)
    BY <1>1, ModeKinds DEF SetMode
  <2>2. QED
    BY <1>1, <2>1, DeccolmSane
<1>2. CASE n \in {47, 1047, 1049}
  <2>1. u = SwitchScreen(t, n, on)
    BY <1>2, ModeKinds DEF SetMode
  <2>2. Switches(t, n, on, u)
    BY <2>1, SwitchScreenSteps
  <2>3. QED
    BY <2>2 DEF Switches, Waits
<1>3. CASE n \notin {3, 47, 1047, 1049}
  <2>1. CASE n \in PlainModes
    <3>0. /\ n \in PlainModes /\ n \notin DOMAIN MouseEvents \union DOMAIN MouseFormats
          /\ n # 6 /\ n # 69 /\ n # 3 /\ n # 1048 /\ n \notin {47, 1047, 1049}
      BY <2>1, ModeKinds
    <3>1. u = Turn(t, Dec(n), on)
      BY <2>1, <3>0 DEF SetMode
    <3>2. QED
      BY <1>3, <3>1, TurnAside, SteadyWaits
  <2>2. CASE n \in MouseModes
    <3>0. /\ n \notin PlainModes /\ n \in DOMAIN MouseEvents \union DOMAIN MouseFormats
          /\ n # 6 /\ n # 69 /\ n # 3 /\ n # 1048 /\ n \notin {47, 1047, 1049}
      BY <2>2, ModeKinds
    <3>1. u = SetMouse(t, n, on)
      BY <2>2, <3>0 DEF SetMode
    <3>2. QED
      BY <3>1, MouseSteady, SteadyWaits
  <2>3. CASE n = 6
    <3>0. /\ n \notin PlainModes /\ n \notin DOMAIN MouseEvents \union DOMAIN MouseFormats
          /\ n = 6 /\ n # 69 /\ n # 3 /\ n # 1048 /\ n \notin {47, 1047, 1049}
      BY <2>3, ModeKinds
    <3> DEFINE v == Turn(t, Dec(6), on)
    <3>1. u = CursorPosition(v, 0, 0)
      BY <2>3, <3>0 DEF SetMode
    <3>2. Steady(t, v)
      BY TurnAside
    <3> HIDE DEF v
    <3>3. Steady(v, u)
      BY <3>1, <3>2, CursorPositionSteady DEF Steady
    <3>4. Steady(t, u)
      BY <3>2, <3>3, SteadyTwice
    <3>5. QED
      BY <3>4, SteadyWaits
  <2>4. CASE n = 69
    <3>0. /\ n \notin PlainModes /\ n \notin DOMAIN MouseEvents \union DOMAIN MouseFormats
          /\ n # 6 /\ n = 69 /\ n # 3 /\ n # 1048 /\ n \notin {47, 1047, 1049}
      BY <2>4, ModeKinds
    <3> DEFINE v == Turn(t, Dec(69), FALSE)
    <3>1. u = IF on THEN Turn(t, Dec(69), TRUE) ELSE ResetMargins(v)
      <4>1. SetMode(t, n, on) = {IF on THEN Turn(t, Dec(69), TRUE) ELSE ResetMargins(Turn(t, Dec(69), FALSE))}
        BY <2>4, <3>0 DEF SetMode
      <4>2. QED
        BY <4>1
    <3>2. Steady(t, v) /\ Steady(t, Turn(t, Dec(69), TRUE))
      BY TurnAside
    <3> HIDE DEF v
    <3>3. Steady(t, ResetMargins(v))
      <4>1. Steady(v, ResetMargins(v))
        BY <3>2, ResetMarginsSteady DEF Steady
      <4>2. QED
        BY <3>2, <4>1, SteadyTwice
    <3>4. Steady(t, u)
      BY <3>1, <3>2, <3>3
    <3>5. QED
      BY <3>4, SteadyWaits
  <2>5. CASE n = 1048
    <3>0. /\ n \notin PlainModes /\ n \notin DOMAIN MouseEvents \union DOMAIN MouseFormats
          /\ n # 6 /\ n # 69 /\ n # 3 /\ n = 1048 /\ n \notin {47, 1047, 1049}
      BY <2>5, ModeKinds
    <3>1. u = IF on THEN SaveCursor(t) ELSE RestoreCursor(t)
      BY <2>5, <3>0 DEF SetMode
    <3>2. Steady(t, u)
      BY <3>1, SaveCursorSteady, RestoreCursorSteady
    <3>3. QED
      BY <3>2, SteadyWaits
  <2>6. CASE n \notin PlainModes \union MouseModes \union {6, 69, 1048}
    <3>0. /\ n \notin PlainModes /\ n \notin DOMAIN MouseEvents \union DOMAIN MouseFormats
          /\ n # 6 /\ n # 69 /\ n # 3 /\ n # 1048 /\ n \notin {47, 1047, 1049}
      BY <1>3, <2>6, ModeKinds
    <3>1. u = t
      BY <1>3, <2>6, <3>0 DEF SetMode
    <3>2. QED
      BY <3>1, StaysSteady, SteadyWaits
  <2>7. QED
    BY <2>1, <2>2, <2>3, <2>4, <2>5, <2>6
<1>4. QED
  BY <1>1, <1>2, <1>3

LEMMA WaitsTwice ==
  ASSUME NEW t, NEW u, NEW v, NEW on, Waits(t, u, on), Waits(u, v, on)
  PROVE  Waits(t, v, on)
  BY DEF Waits

LEMMA ModesWait ==
  ASSUME NEW t, Sound(t), NEW list \in Seq(Nat), NEW on \in BOOLEAN, NEW u \in SetModes(t, list, on)
  PROVE  Sane(t, u) /\ (3 \notin ToSet(list) => Waits(t, u, on))
<1> DEFINE m == Len(list)
           f == ModesSet(t, list, on)
           Plain3 == \A i \in 1 .. m : list[i] # 3
           Stepped(v) == Sane(t, v) /\ (Plain3 => Waits(t, v, on))
           S == {k \in 0 .. m : \A v \in f[k] : Stepped(v)}
<1>0. /\ m \in Nat /\ f[0] = {t}
      /\ \A k \in 1 .. m : f[k] = Spread(f[k - 1], list[k], on)
  BY ModesSteps
<1>1. u \in f[m] /\ (3 \notin ToSet(list) => Plain3)
  <2>1. DOMAIN list = 1 .. m
    OBVIOUS
  <2>2. QED
    BY <2>1 DEF SetModes, ToSet
<1>2. Stepped(t)
  BY StaysSteady, SteadyWaits
<1> HIDE DEF f, m
<1>3. 0 \in S
  <2> HIDE DEF Stepped
  <2>1. QED
    BY <1>0, <1>2
<1>4. ASSUME NEW k \in 1 .. m, k - 1 \in S PROVE k \in S
  <2>1. \A v \in f[k - 1] : Stepped(v)
    BY <1>4
  <2>2. ASSUME NEW w \in f[k] PROVE Stepped(w)
    <3>1. PICK v \in f[k - 1] : w \in SetMode(v, list[k], on)
      BY <1>0 DEF Spread
    <3>2. Stepped(v)
      BY <2>1
    <3>3. Sane(v, w) /\ (list[k] # 3 => Waits(v, w, on))
      <4> DEFINE n == list[k]
      <4>1. w \in SetMode(v, n, on) /\ Sound(v)
        BY <3>1, <3>2 DEF Sane
      <4> HIDE DEF n
      <4>2. Sane(v, w) /\ (n # 3 => Waits(v, w, on))
        BY <4>1, ModeWaits
      <4>3. QED
        BY <4>2 DEF n
    <3>4. Sane(t, w)
      BY <3>2, <3>3, SaneTwice
    <3>5. ASSUME Plain3 PROVE Waits(t, w, on)
      BY <3>2, <3>3, <3>5, WaitsTwice
    <3>6. QED
      BY <3>4, <3>5
  <2> HIDE DEF Stepped
  <2>3. QED
    BY <2>2
<1>5. m \in S
  <2> HIDE DEF S
  <2>1. m \in Nat
    BY <1>0
  <2>2. \A k \in 0 .. m : k \in S
    BY <1>3, <1>4, <2>1, Climbs
  <2>3. QED
    BY <2>1, <2>2
<1>6. Stepped(u)
  <2> HIDE DEF Stepped
  <2>1. QED
    BY <1>1, <1>5
<1>7. QED
  BY <1>1, <1>6

\* The list of a 1049 alone.
LEMMA OneMode ==
  ASSUME NEW t, NEW on \in BOOLEAN, NEW u \in SetModes(t, << 1049 >>, on)
  PROVE  u = SwitchScreen(t, 1049, on)
<1> DEFINE list == << 1049 >>
<1>1. Len(list) = 1 /\ list[1] = 1049 /\ 1 \in Nat
  OBVIOUS
<1> HIDE DEF list
<1> DEFINE f == ModesSet(t, list, on)
<1>2. f[0] = {t} /\ f[1] = Spread(f[0], list[1], on)
  <2> DEFINE m == Len(list)
  <2>0. m \in Nat /\ Len(list) = m
    BY <1>1
  <2> HIDE DEF m
  <2>3. f[0] = {t} /\ \A k \in 1 .. m : f[k] = Spread(f[k - 1], list[k], on)
    BY <2>0, ModesSteps
  <2> HIDE DEF f
  <2>1. f[0] = {t} /\ \A k \in 1 .. 1 : f[k] = Spread(f[k - 1], list[k], on)
    BY <1>1, <2>0, <2>3
  <2>2. 1 \in 1 .. 1 /\ 1 - 1 = 0
    OBVIOUS
  <2>4. QED
    BY <2>1, <2>2
<1>3. u \in f[1]
  BY <1>1 DEF SetModes, list
<1> HIDE DEF f
<1>4. u \in SetMode(t, 1049, on)
  BY <1>1, <1>2, <1>3 DEF Spread
<1>5. QED
  BY <1>4, ModeKinds DEF SetMode

LEMMA WindowSteps ==
  ASSUME NEW t, Sound(t), NEW op, NEW a \in Nat, NEW b \in Nat, NEW u \in WindowReport(t, op, a, b)
  PROVE  Sane(t, u) /\ (u.cols = t.cols /\ u.rows = t.rows => Steady(t, u))
<1> DEFINE asked == op = 8 /\ t.reports /\ ((a # 0 /\ a # t.rows) \/ (b # 0 /\ b # t.cols))
           cols  == IF b = 0 THEN t.cols ELSE b
           rows  == IF a = 0 THEN t.rows ELSE a
<1>1. t.cols \in Nat \ {0} /\ t.rows \in Nat \ {0}
  BY DEF Sound
<1>2. CASE asked
  <2>1. u \in ChildResize(t, cols, rows).to
    BY <1>2 DEF WindowReport
  <2>2. cols \in Nat /\ rows \in Nat /\ cols # 0 /\ rows # 0 /\ ~(cols = t.cols /\ rows = t.rows)
    BY <1>1, <1>2
  <2> HIDE DEF cols, rows, asked
  <2>3. Sane(t, u)
    BY <2>1, <2>2, ChildResizeSane
  <2>4. u = t \/ (u.cols = cols /\ u.rows = rows)
    <3>1. u = t \/ u \in Resized(t, cols, rows)
      BY <2>1 DEF ChildResize
    <3>2. ASSUME u \in Resized(t, cols, rows) PROVE u.cols = cols /\ u.rows = rows
      BY <2>2, <3>2, ResizedTo
    <3>3. QED
      BY <3>1, <3>2
  <2>5. QED
    BY <2>2, <2>3, <2>4, StaysSteady
<1>3. CASE ~asked
  <2>1. CASE op = 18
    BY <1>3, <2>1, GrantedSteady, SteadySane DEF WindowReport
  <2>2. CASE op = 20
    BY <1>3, <2>2, GrantedSteady, SteadySane DEF WindowReport
  <2>3. CASE op = 21
    BY <1>3, <2>3, GrantedSteady, SteadySane DEF WindowReport
  <2>4. CASE op = 22
    BY <1>3, <2>4, PushTitleSteady, SteadySane DEF WindowReport
  <2>5. CASE op = 23
    BY <1>3, <2>5, PopTitleSteady, SteadySane DEF WindowReport
  <2>6. CASE op \notin {18, 20, 21, 22, 23}
    <3>1. u = t
      BY <1>3, <2>6 DEF WindowReport
    <3>2. QED
      BY <3>1, StaysSteady, SteadySane
  <2>7. QED
    BY <2>1, <2>2, <2>3, <2>4, <2>5, <2>6
<1>4. QED
  BY <1>2, <1>3

-----------------------------------------------------------------------------
(* The commands.                                                           *)

\* Those that stay on the screen they are given to and keep its key flags.
LEMMA QuietCommands ==
  ASSUME NEW t, Sound(t), NEW c, Dispatched(c), NEW u \in Do(t, c),
         c[1] \notin {"dec", "kitty", "ris", "window"}
  PROVE  Steady(t, u)
<1> DEFINE a == c[2]
           b == c[3]
<1>1. CASE c[1] = "ansi"
  <2>1. u = SetAnsiMode(t, a, b)
    BY <1>1 DEF Do
  <2> HIDE DEF a, b
  <2>3. QED
    BY <2>1, AnsiModeSteady
<1>2. CASE c[1] = "keys"
  <2>1. u = ModifyKeyFormat(t, a)
    BY <1>2 DEF Do
  <2> HIDE DEF a, b
  <2>3. QED
    BY <2>1, KeyFormatSteady
<1>3. CASE c[1] = "keypad"
  <2>1. u = Turn(t, Dec(66), a)
    BY <1>3 DEF Do
  <2> HIDE DEF a, b
  <2>3. QED
    BY <2>1, TurnAside
<1>4. CASE c[1] = "sgr"
  <2>1. u = [t EXCEPT !.pen = Sgr(t.pen, a)]
    BY <1>4 DEF Do
  <2> DEFINE pen == Sgr(t.pen, a)
  <2> HIDE DEF a, pen
  <2>2. u = [t EXCEPT !.pen = pen]
    BY <2>1 DEF pen
  <2>3. QED
    BY <2>2, SetPenSteady
<1>5. CASE c[1] = "shape"
  <2>1. u = SetCursorShape(t, a)
    BY <1>5 DEF Do
  <2> HIDE DEF a, b
  <2>3. QED
    BY <2>1, CursorShapeSteady
<1>6. CASE c[1] = "decsca"
  <2>1. u = SetProtection(t, a)
    BY <1>6 DEF Do
  <2> HIDE DEF a, b
  <2>3. QED
    BY <2>1, SetProtectionSteady
<1>7. CASE c[1] = "spa"
  <2>1. u = OnScreen(t, [Here(t) EXCEPT !.protected = IF a THEN "iso" ELSE "none"])
    BY <1>7 DEF Do
  <2> DEFINE p == IF a THEN "iso" ELSE "none"
  <2>2. u = OnScreen(t, [Here(t) EXCEPT !.protected = p])
    BY <2>1
  <2> HIDE DEF p
  <2>3. QED
    BY <2>2, ProtectSteady
<1>8. CASE c[1] = "cup"
  <2>1. u = CursorPosition(t, a, b)
    BY <1>8 DEF Do
  <2>2. a \in Nat /\ b \in Nat
    BY <1>8 DEF Dispatched
  <2> HIDE DEF a, b
  <2>3. QED
    BY <2>1, <2>2, CursorPositionSteady
<1>9. CASE c[1] = "stbm"
  <2>1. u = SetScrollRegion(t, a - 1, b - 1)
    BY <1>9 DEF Do
  <2>2. a - 1 \in Nat /\ b - 1 \in Nat
    BY <1>9 DEF Dispatched
  <2> DEFINE top == a - 1
             bottom == b - 1
  <2>3. u = SetScrollRegion(t, top, bottom) /\ top \in Nat /\ bottom \in Nat
    BY <2>1, <2>2
  <2> HIDE DEF top, bottom
  <2>4. QED
    BY <2>3, SetScrollRegionSteady
<1>10. CASE c[1] = "csi s"
  <2>1. u = IF Dec(69) \in t.on THEN SetMargins(t, a, b) ELSE SaveCursor(t)
    BY <1>10 DEF Do
  <2>2. a \in Nat /\ b \in Nat
    BY <1>10 DEF Dispatched
  <2> HIDE DEF a, b
  <2>3. QED
    BY <2>1, <2>2, SetMarginsSteady, SaveCursorSteady
<1>11. CASE c[1] = "save"
  <2>1. u = SaveCursor(t)
    BY <1>11 DEF Do
  <2> HIDE DEF a, b
  <2>3. QED
    BY <2>1, SaveCursorSteady
<1>12. CASE c[1] = "restore"
  <2>1. u = RestoreCursor(t)
    BY <1>12 DEF Do
  <2> HIDE DEF a, b
  <2>3. QED
    BY <2>1, RestoreCursorSteady
<1>13. CASE c[1] = "hts"
  <2>1. u = [t EXCEPT !.tabs = t.tabs \union {Here(t).x}]
    BY <1>13 DEF Do
  <2>2. Here(t).x \in Nat /\ t.tabs \subseteq Nat
    <3>1. ScreenOK(Here(t), t.cols, t.rows)
      BY HereOK
    <3>2. Here(t).x \in Nat
      BY <3>1 DEF ScreenOK
    <3>3. QED
      BY <3>2 DEF Sound, StacksBounded
  <2> DEFINE tabs == t.tabs \union {Here(t).x}
  <2>3. tabs \in SUBSET Nat /\ u = [t EXCEPT !.tabs = tabs]
    BY <2>1, <2>2
  <2> HIDE DEF tabs
  <2>4. QED
    BY <2>3, SetTabsSteady
<1>14. CASE c[1] = "tbc"
  <2>1. u = [t EXCEPT !.tabs = CASE a = 0 -> t.tabs \ {Here(t).x} [] a = 3 -> {} [] OTHER -> t.tabs]
    BY <1>14 DEF Do
  <2>2. Here(t).x \in Nat /\ t.tabs \subseteq Nat
    <3>1. ScreenOK(Here(t), t.cols, t.rows)
      BY HereOK
    <3>2. Here(t).x \in Nat
      BY <3>1 DEF ScreenOK
    <3>3. QED
      BY <3>2 DEF Sound, StacksBounded
  <2> DEFINE tabs == CASE a = 0 -> t.tabs \ {Here(t).x} [] a = 3 -> {} [] OTHER -> t.tabs
  <2>3. tabs \in SUBSET Nat /\ u = [t EXCEPT !.tabs = tabs]
    BY <2>1, <2>2
  <2> HIDE DEF tabs
  <2>4. QED
    BY <2>3, SetTabsSteady
<1>15. CASE c[1] = "tab"
  <2>1. u = Tab(t)
    BY <1>15 DEF Do
  <2> HIDE DEF a, b
  <2>3. QED
    BY <2>1, TabSteady
<1>16. CASE c[1] = "backtab"
  <2>1. u = BackTab(t)
    BY <1>16 DEF Do
  <2> HIDE DEF a, b
  <2>3. QED
    BY <2>1, TabSteady
<1>17. CASE c[1] = "print"
  <2>1. u = Write(t)
    BY <1>17 DEF Do
  <2> HIDE DEF a, b
  <2>3. QED
    BY <2>1, WriteSteady
<1>18. CASE c[1] = "erase"
  <2>1. u = EraseComplete(t)
    BY <1>18 DEF Do
  <2> HIDE DEF a, b
  <2>3. QED
    BY <2>1, EraseCompleteSteady
<1>19. CASE c[1] = "decstr"
  <2>1. u = SoftReset(t)
    BY <1>19 DEF Do
  <2> HIDE DEF a, b
  <2>3. QED
    BY <2>1, SoftResetSteady
<1>20. CASE c[1] = "rqm"
  <2>1. u = ModeReport(t, a)
    BY <1>20 DEF Do
  <2> HIDE DEF a, b
  <2>3. QED
    BY <2>1, ReportsSteady
<1>21. CASE c[1] = "rqss"
  <2>1. u = SettingReport(t, a)
    BY <1>21 DEF Do
  <2> HIDE DEF a, b
  <2>3. QED
    BY <2>1, ReportsSteady
<1>22. CASE c[1] = "dsr"
  <2>1. u = StatusReport(t, a)
    BY <1>22 DEF Do
  <2> HIDE DEF a, b
  <2>3. QED
    BY <2>1, ReportsSteady
<1>23. CASE c[1] = "da"
  <2>1. u = Attributes(t, a)
    BY <1>23 DEF Do
  <2> HIDE DEF a, b
  <2>3. QED
    BY <2>1, ReportsSteady
<1>24. CASE c[1] = "checksum"
  <2>1. u = Checksum(t)
    BY <1>24 DEF Do
  <2> HIDE DEF a, b
  <2>3. QED
    BY <2>1, ChecksumSteady
<1>25. CASE c[1] = "osc 4"
  <2>1. u = Osc4(t, a)
    BY <1>25 DEF Do
  <2>2. Len(a) \in Nat
    BY <1>25 DEF Dispatched
  <2> HIDE DEF a, b
  <2>3. QED
    BY <2>1, <2>2, Osc4Steady
<1>26. CASE c[1] = "osc 10"
  <2>1. u = OscDynamic(t, a, b)
    BY <1>26 DEF Do
  <2>2. Len(b) \in Nat
    BY <1>26 DEF Dispatched
  <2> HIDE DEF a, b
  <2>3. QED
    BY <2>1, <2>2, OscDynamicSteady
<1>27. CASE c[1] = "osc 104"
  <2>1. u = Osc104(t, a)
    BY <1>27 DEF Do
  <2> HIDE DEF a, b
  <2>3. QED
    BY <2>1, ResetColorsSteady
<1>28. CASE c[1] = "osc 110"
  <2>1. u = OscResetDynamic(t, a)
    BY <1>28 DEF Do
  <2> HIDE DEF a, b
  <2>3. QED
    BY <2>1, ResetColorsSteady
<1>29. CASE c[1] = "title"
  <2>1. u = OscTitle(t, a, b)
    BY <1>29 DEF Do
  <2> HIDE DEF a, b
  <2>3. QED
    BY <2>1, OscTitleSteady
<1>30. CASE c[1] = "pwd"
  <2>1. u = OscPwd(t, a)
    BY <1>30 DEF Do
  <2> HIDE DEF a, b
  <2>3. QED
    BY <2>1, OscPwdSteady
<1>31. CASE c[1] = "link"
  <2>1. u = OscHyperlink(t, a, b)
    BY <1>31 DEF Do
  <2> HIDE DEF a, b
  <2>3. QED
    BY <2>1, HyperlinkSteady
<1>32. CASE c[1] = "notify"
  <2>1. u = OscNotify(t, a, b)
    BY <1>32 DEF Do
  <2>2. a \in {"progress", "cwd", "notify", "clipboard"}
    BY <1>32 DEF Dispatched
  <2> HIDE DEF a, b
  <2>3. QED
    BY <2>1, <2>2, OscNotifySteady
<1>33. CASE c[1] = "bell"
  <2>1. u = Raise(t, <<"bell">>)
    BY <1>33 DEF Do
  <2> HIDE DEF a, b
  <2>3. QED
    BY <2>1, RaiseSteady
<1>34. QED
  BY <1>1, <1>2, <1>3, <1>4, <1>5, <1>6, <1>7, <1>8, <1>9, <1>10, <1>11, <1>12, <1>13, <1>14, <1>15, <1>16, <1>17, <1>18, <1>19, <1>20, <1>21, <1>22, <1>23, <1>24, <1>25, <1>26, <1>27, <1>28, <1>29, <1>30, <1>31, <1>32, <1>33 DEF Dispatched, Commands

\* The primary is laid out anew by a reset, another size, or DECCOLM.
Relays(t, c, u) ==
  c[1] = "ris" \/ <<t.cols, t.rows>> # <<u.cols, u.rows>> \/ (c[1] = "dec" /\ 3 \in ToSet(c[2]))

\* Otherwise, while the alternate screen is up, it waits as it was; and the way
\* to the alternate and back by 1049 is that of the switch.
Moves(t, c, u) ==
  /\ Sound(u) /\ SameGrants(t, u) /\ Keyed(t, u)
  /\ ~Relays(t, c, u) /\ u.active = "alternate" /\ t.active = "alternate" =>
       u.screens["primary"] = t.screens["primary"]
  /\ c[1] = "dec" /\ c[2] = << 1049 >> => c[3] \in BOOLEAN /\ Switches(t, 1049, c[3], u)

LEMMA SaneKeyed ==
  ASSUME NEW t, NEW u, Sane(t, u)
  PROVE  Sound(u) /\ SameGrants(t, u) /\ Keyed(t, u)
  BY DEF Sane, SameRings, Keyed, RingStep

LEMMA PlaceMoves ==
  ASSUME NEW t, Sound(t), NEW c, c[1] # "dec", NEW u, Sound(u), SameGrants(t, u), SamePlace(t, u), Keyed(t, u)
  PROVE  Moves(t, c, u)
<1>1. t.active = "alternate" => u.screens["primary"] = t.screens["primary"]
  BY DEF SamePlace, Screens
<1>2. QED
  BY <1>1 DEF Moves

LEMMA CommandMoves ==
  ASSUME NEW t, Sound(t), NEW c, Dispatched(c), NEW u \in Do(t, c)
  PROVE  Moves(t, c, u)
<1> DEFINE a == c[2]
           b == c[3]
           d == c[4]
<1>1. CASE c[1] \notin {"dec", "kitty", "ris", "window"}
  <2>1. Steady(t, u)
    BY <1>1, QuietCommands
  <2>2. QED
    BY <1>1, <2>1, SteadyKeyed, PlaceMoves
<1>2. CASE c[1] = "kitty"
  <2>1. u = Kitty(t, a, b, d) /\ d \in Nat
    BY <1>2 DEF Do, Dispatched
  <2> HIDE DEF a, b, d
  <2>2. Sound(u) /\ SameGrants(t, u) /\ SamePlace(t, u) /\ Keyed(t, u)
    BY <2>1, KittyKeyed
  <2>3. QED
    BY <1>2, <2>2, PlaceMoves
<1>3. CASE c[1] = "ris"
  <2>1. u = FullReset(t)
    BY <1>3 DEF Do
  <2>2. Sound(u) /\ SameGrants(t, u) /\ Keyed(t, u)
    BY <2>1, FullResetKeyed
  <2>3. QED
    BY <1>3, <2>2 DEF Moves, Relays
<1>4. CASE c[1] = "window"
  <2>1. u \in WindowReport(t, a, b, d) /\ b \in Nat /\ d \in Nat
    BY <1>4 DEF Do, Dispatched
  <2> HIDE DEF a, b, d
  <2>2. Sane(t, u) /\ (u.cols = t.cols /\ u.rows = t.rows => Steady(t, u))
    BY <2>1, WindowSteps
  <2>3. CASE u.cols = t.cols /\ u.rows = t.rows
    BY <1>4, <2>2, <2>3, SteadyKeyed, PlaceMoves
  <2>4. CASE ~(u.cols = t.cols /\ u.rows = t.rows)
    <3>1. Relays(t, c, u)
      BY <2>4 DEF Relays
    <3>2. QED
      BY <1>4, <2>2, <3>1, SaneKeyed DEF Moves
  <2>5. QED
    BY <2>3, <2>4
<1>5. CASE c[1] = "dec"
  <2>1. u \in SetModes(t, a, b) /\ a \in Seq(Nat) /\ b \in BOOLEAN
    BY <1>5 DEF Do, Dispatched
  <2> HIDE DEF a, b, d
  <2>2. Sane(t, u) /\ (3 \notin ToSet(a) => Waits(t, u, b))
    BY <2>1, ModesWait
  <2>3. ASSUME ~Relays(t, c, u), u.active = "alternate", t.active = "alternate"
        PROVE  u.screens["primary"] = t.screens["primary"]
    <3>1. 3 \notin ToSet(a)
      BY <1>5, <2>3 DEF Relays, a
    <3>2. QED
      BY <2>1, <2>2, <2>3, <3>1 DEF Waits
  <2>4. ASSUME a = << 1049 >> PROVE Switches(t, 1049, b, u)
    <3>1. u = SwitchScreen(t, 1049, b)
      BY <2>1, <2>4, OneMode
    <3>2. QED
      BY <2>1, <3>1, SwitchScreenSteps
  <2>5. c[1] = "dec" /\ c[2] = << 1049 >> => c[3] \in BOOLEAN /\ Switches(t, 1049, c[3], u)
    BY <2>1, <2>4 DEF a, b
  <2>6. QED
    BY <2>2, <2>3, <2>5, SaneKeyed DEF Moves
<1>6. QED
  BY <1>1, <1>2, <1>3, <1>4, <1>5

-----------------------------------------------------------------------------
(* What holds of the modes in every state.                                 *)

\* Of what a 1049h left behind: while the alternate screen is up the primary waits
\* as it was left, saved in itself; after the 1049l it is back.
Behind(e, t) ==
  /\ DOMAIN e = {"screen", "pen", "resaved", "back"} /\ e.back \in BOOLEAN /\ e.resaved \in BOOLEAN
  /\ ~e.back => /\ t.active = "alternate" /\ t.screens["primary"] = e.screen
                /\ e.screen.saved = Kept(e.screen)
                /\ e.resaved \/ t.savedPen = <<e.pen>>
  /\ e.back => /\ t.active = "primary"
               /\ LET now == t.screens["primary"]
                  IN  now = [e.screen EXCEPT !.top = now.top, !.bottom = now.bottom]
               /\ t.pen = e.pen \/ e.resaved

ModesInv ==
  /\ scene \in Scenes
  /\ Sound(term) /\ term.reports = scene.reports /\ term.ceiling = scene.ceiling
  /\ \A k \in DOMAIN shell : Behind(shell[k], term)

LEMMA RestoredIsKept ==
  ASSUME NEW t, t.cols \in Nat \ {0}, t.rows \in Nat \ {0},
         NEW v, v.x \in 0 .. t.cols - 1, v.y \in 0 .. t.rows - 1,
         v.saved = Kept(v)
  PROVE  RestoredTo(t, v) = [v EXCEPT !.x = v.x, !.y = v.y, !.pending = v.pending, !.protected = v.protected]
<1> DEFINE r == [x |-> v.x, y |-> v.y, pending |-> v.pending, protected |-> v.protected]
<1>1. v.saved = <<r>>
  BY DEF Kept
<1>2. r.x = v.x /\ r.y = v.y /\ r.pending = v.pending /\ r.protected = v.protected
  OBVIOUS
<1> HIDE DEF r
<1>3. v.saved # <<>> /\ v.saved[1].x = v.x /\ v.saved[1].y = v.y /\ v.saved[1].pending = v.pending
      /\ v.saved[1].protected = v.protected
  BY <1>1, <1>2
<1>4. Lowest(v.x, t.cols - 1) = v.x /\ Lowest(v.y, t.rows - 1) = v.y
  BY DEF Lowest
<1> DEFINE c == v.saved[1]
<1>5. RestoredTo(t, v) = [v EXCEPT !.x = Lowest(c.x, t.cols - 1), !.y = Lowest(c.y, t.rows - 1),
                                   !.pending = c.pending, !.protected = c.protected]
  BY <1>3 DEF RestoredTo
<1>6. QED
  BY <1>3, <1>4, <1>5

\* A command from a terminal whose answers were taken.
LEMMA LeftBehind ==
  ASSUME NEW t, Sound(t), NEW c, NEW u, Moves(t, c, u),
         \A k \in DOMAIN shell : Behind(shell[k], t)
  PROVE  \A k \in DOMAIN Left(t, c, u) : Behind(Left(t, c, u)[k], u)
<1> DEFINE swap == c[1] = "dec" /\ c[2] = << 1049 >>
           out  == swap /\ c[3] /\ t.active = "primary"
           home == swap /\ ~c[3] /\ t.active = "alternate"
           gone == u.active = "primary" \/ \E k \in DOMAIN shell : shell[k].back
           fresh == [screen |-> u.screens.primary, pen |-> u.pen, resaved |-> FALSE, back |-> FALSE]
<1>1. Left(t, c, u) = IF Relays(t, c, u) THEN <<>>
                      ELSE IF out THEN <<fresh>>
                      ELSE IF home THEN [k \in DOMAIN shell |-> [shell[k] EXCEPT !.back = TRUE]]
                      ELSE IF gone THEN <<>>
                      ELSE [k \in DOMAIN shell |-> [shell[k] EXCEPT !.resaved = @ \/ u.savedPen # t.savedPen]]
  BY DEF Left, Relays
<1>2. u.active \in Screens /\ t.active \in Screens
  BY DEF Moves, Sound
<1>3. CASE Relays(t, c, u) \/ (~out /\ ~home /\ gone)
  <2>1. Left(t, c, u) = <<>>
    BY <1>1, <1>3
  <2>2. QED
    BY <2>1
<1>4. CASE ~Relays(t, c, u) /\ out
  <2>1. Left(t, c, u) = <<fresh>>
    BY <1>1, <1>4
  <2>2. Switches(t, 1049, TRUE, u)
    BY <1>4, ZenonT(60) DEF Moves
  <2>3. /\ u.active = "alternate" /\ u.screens["primary"] = [Here(t) EXCEPT !.saved = Kept(Here(t))]
        /\ u.savedPen = <<u.pen>>
    BY <1>4, <2>2 DEF Switches
  <2>4. u.screens["primary"].saved = Kept(u.screens["primary"])
    <3>1. ScreenOK(Here(t), t.cols, t.rows)
      BY HereOK
    <3>2. DOMAIN Here(t) = ScreenFields
      BY <3>1 DEF ScreenOK
    <3>3. QED
      BY <2>3, <3>2 DEF Kept, ScreenFields
  <2>5. Behind(fresh, u)
    BY <2>3, <2>4 DEF Behind
  <2> HIDE DEF fresh
  <2>6. QED
    BY <2>1, <2>5
<1>5. CASE ~Relays(t, c, u) /\ ~out /\ home
  <2>1. Left(t, c, u) = [k \in DOMAIN shell |-> [shell[k] EXCEPT !.back = TRUE]]
    BY <1>1, <1>5
  <2>2. Switches(t, 1049, c[3], u) /\ ~c[3] /\ t.active = "alternate"
    BY <1>5 DEF Moves
  <2> DEFINE s == t.screens["primary"]
             v == [s EXCEPT !.top = Here(t).top, !.bottom = Here(t).bottom]
  <2>3. /\ u.active = "primary" /\ u.screens["primary"] = RestoredTo(t, v)
        /\ u.pen = IF t.savedPen = <<>> THEN Plain ELSE t.savedPen[1]
    BY <2>2 DEF Switches
  <2>4. ScreenOK(s, t.cols, t.rows) /\ t.cols \in Nat \ {0} /\ t.rows \in Nat \ {0}
    BY DEF Sound, Screens
  <2>5. ASSUME NEW k \in DOMAIN shell PROVE Behind([shell[k] EXCEPT !.back = TRUE], u)
    <3> DEFINE e == shell[k]
               f == [e EXCEPT !.back = TRUE]
    <3>1. /\ DOMAIN e = {"screen", "pen", "resaved", "back"} /\ e.back \in BOOLEAN /\ e.resaved \in BOOLEAN
          /\ ~e.back /\ s = e.screen /\ s.saved = Kept(s) /\ (e.resaved \/ t.savedPen = <<e.pen>>)
      BY <2>2 DEF Behind
    <3> HIDE DEF e
    <3>2. /\ DOMAIN f = {"screen", "pen", "resaved", "back"} /\ f.back = TRUE /\ f.resaved = e.resaved
          /\ f.screen = s /\ f.pen = e.pen
      BY <3>1
    <3> HIDE DEF f, s
    <3>3. RestoredTo(t, v) = v
      <4>1. DOMAIN s = ScreenFields /\ s.x \in 0 .. t.cols - 1 /\ s.y \in 0 .. t.rows - 1
        BY <2>4 DEF ScreenOK
      <4>2. /\ v = [f1 \in ScreenFields |-> v[f1]] /\ v.x = s.x /\ v.y = s.y /\ v.pending = s.pending
            /\ v.protected = s.protected /\ v.saved = s.saved
        BY <4>1 DEF ScreenFields
      <4> HIDE DEF v
      <4>3. v.saved = Kept(v)
        BY <3>1, <4>2 DEF Kept
      <4>4. v.x \in 0 .. t.cols - 1 /\ v.y \in 0 .. t.rows - 1
        BY <4>1, <4>2
      <4>5. RestoredTo(t, v) = [v EXCEPT !.x = v.x, !.y = v.y, !.pending = v.pending, !.protected = v.protected]
        BY <2>4, <4>3, <4>4, RestoredIsKept
      <4>6. [v EXCEPT !.x = v.x, !.y = v.y, !.pending = v.pending, !.protected = v.protected] = v
        BY <4>2 DEF ScreenFields
      <4>7. QED
        BY <4>5, <4>6
    <3>4. u.screens["primary"] = v /\ v.top = Here(t).top /\ v.bottom = Here(t).bottom
      BY <2>3, <2>4, <3>3 DEF ScreenOK, ScreenFields
    <3>5. u.pen = f.pen \/ f.resaved
      <4>1. ASSUME t.savedPen = <<e.pen>> PROVE u.pen = e.pen
        <5>1. t.savedPen # <<>> /\ t.savedPen[1] = e.pen
          BY <4>1
        <5>2. QED
          BY <2>3, <5>1
      <4>2. QED
        BY <3>1, <3>2, <4>1
    <3>6. LET now == u.screens["primary"] IN now = [f.screen EXCEPT !.top = now.top, !.bottom = now.bottom]
      BY <3>2, <3>4
    <3>7. f.back \in BOOLEAN /\ f.resaved \in BOOLEAN /\ f.back
      BY <3>1, <3>2
    <3>8. Behind(f, u)
      BY <2>3, <3>2, <3>5, <3>6, <3>7 DEF Behind
    <3>9. QED
      BY <3>8 DEF f, e
  <2>6. QED
    BY <2>1, <2>5
<1>6. CASE ~Relays(t, c, u) /\ ~out /\ ~home /\ ~gone
  <2>1. Left(t, c, u) = [k \in DOMAIN shell |-> [shell[k] EXCEPT !.resaved = @ \/ u.savedPen # t.savedPen]]
    BY <1>1, <1>6
  <2>2. u.active = "alternate" /\ \A k \in DOMAIN shell : ~shell[k].back
    BY <1>2, <1>6 DEF Screens
  <2>3. ASSUME NEW k \in DOMAIN shell
        PROVE  Behind([shell[k] EXCEPT !.resaved = @ \/ u.savedPen # t.savedPen], u)
    <3> DEFINE e == shell[k]
               b == e.resaved \/ u.savedPen # t.savedPen
               f == [e EXCEPT !.resaved = b]
    <3>1. /\ DOMAIN e = {"screen", "pen", "resaved", "back"} /\ e.back \in BOOLEAN /\ e.resaved \in BOOLEAN
          /\ ~e.back /\ t.active = "alternate" /\ t.screens["primary"] = e.screen
          /\ e.screen.saved = Kept(e.screen) /\ (e.resaved \/ t.savedPen = <<e.pen>>)
      BY <2>2 DEF Behind
    <3>2. u.screens["primary"] = t.screens["primary"]
      BY <1>6, <2>2, <3>1 DEF Moves
    <3>3. [shell[k] EXCEPT !.resaved = @ \/ u.savedPen # t.savedPen] = f
      OBVIOUS
    <3>4. b \in BOOLEAN /\ (b \/ u.savedPen = <<e.pen>>)
      BY <3>1
    <3> HIDE DEF e, b
    <3>5. /\ DOMAIN f = {"screen", "pen", "resaved", "back"} /\ f.back = e.back /\ f.resaved = b
          /\ f.screen = e.screen /\ f.pen = e.pen
      BY <3>1
    <3> HIDE DEF f
    <3>6. Behind(f, u)
      BY <2>2, <3>1, <3>2, <3>4, <3>5 DEF Behind
    <3>7. QED
      BY <3>3, <3>6
  <2>4. QED
    BY <2>1, <2>3
<1>7. QED
  BY <1>3, <1>4, <1>5, <1>6

LEMMA ModesBegin == ModesInit => ModesInv
<1>1. SUFFICES ASSUME ModesInit PROVE ModesInv
  OBVIOUS
<1> DEFINE cols == scene.cols
           rows == scene.rows
<1>2. scene \in Scenes /\ shell = <<>>
  BY <1>1 DEF ModesInit
<1>3. term = [New(scene.cols, scene.rows) EXCEPT !.reports = scene.reports, !.ceiling = scene.ceiling]
  BY <1>1 DEF ModesInit
<1>4. Begun(term) /\ term.cols = scene.cols /\ term.rows = scene.rows /\ term.reports = scene.reports
      /\ term.ceiling = scene.ceiling
  <2> DEFINE w == New(scene.cols, scene.rows)
  <2>1. /\ DOMAIN w = TermFields /\ w.cols = scene.cols /\ w.rows = scene.rows /\ w.active = "primary"
        /\ w.screens = [n \in {"primary", "alternate"} |-> NewScreen(w.cols, w.rows)] /\ w.replies = <<>>
        /\ w.stack = <<>> /\ w.links = <<>> /\ w.link = 0 /\ w.tabs = NewTabs(w.cols)
    BY DEF New, TermFields
  <2>2. term = [w EXCEPT !.reports = scene.reports, !.ceiling = scene.ceiling]
    BY <1>3
  <2> HIDE DEF w
  <2>3. QED
    BY <2>1, <2>2 DEF Begun, TermFields
<1>5. /\ scene.cols \in Nat \ {0} /\ scene.rows \in Nat \ {0}
      /\ scene.ceiling # <<>> => scene.ceiling[1] \in Nat /\ scene.ceiling[2] \in Nat
      /\ scene.ceiling = <<>> \/ (scene.cols <= scene.ceiling[1] /\ scene.rows <= scene.ceiling[2])
  BY <1>2, ScenesAssumption
<1>6. Sound(term)
  BY <1>4, <1>5, BegunSound DEF Allowed
<1>7. QED
  BY <1>2, <1>4, <1>6 DEF ModesInv

\* The answers and events taken.
Taken(t) == [t EXCEPT !.replies = <<>>, !.events = <<>>]

LEMMA TakenSteady ==
  ASSUME NEW t, Sound(t)
  PROVE  Steady(t, Taken(t)) /\ Taken(t).screens = t.screens /\ Taken(t).pen = t.pen
         /\ Taken(t).savedPen = t.savedPen
<1> DEFINE u == Taken(t)
<1>1. /\ Aside(t, u) /\ u.replies = <<>> /\ u.stack = t.stack /\ u.links = t.links /\ u.link = t.link
      /\ u.tabs = t.tabs /\ u.pen = t.pen /\ u.savedPen = t.savedPen
  BY DEF Taken, Aside, Sound, SameGrants, TermFields
<1> HIDE DEF u
<1>2. Quiet(u)
  BY <1>1, EmptySequence DEF Quiet
<1>3. StacksBounded(u)
  BY <1>1 DEF StacksBounded, Sound
<1>4. QED
  BY <1>1, <1>2, <1>3, AsideSteady DEF u, Aside

\* Every step keeps the invariant, and takes each ring one step.
LEMMA ModesKeep ==
  ASSUME ModesInv, ModesNext
  PROVE  ModesInv' /\ Keyed(term, term')
<1>1. scene \in Scenes /\ Sound(term) /\ term.reports = scene.reports /\ term.ceiling = scene.ceiling
  BY DEF ModesInv
<1>2. ASSUME Command PROVE ModesInv' /\ Keyed(term, term')
  <2> DEFINE t == Taken(term)
  <2>12. PICK c \in scene.commands : \E u \in Do(t, c) : term' = u /\ shell' = Left(term, c, u)
    BY <1>2 DEF Command, Taken
  <2>1. PICK u \in Do(t, c) : term' = u /\ shell' = Left(term, c, u)
    BY <2>12
  <2>2. Steady(term, t) /\ t.screens = term.screens /\ t.pen = term.pen /\ t.savedPen = term.savedPen
    BY <1>1, TakenSteady
  <2> HIDE DEF t
  <2>3. Sound(t) /\ SameGrants(term, t) /\ t.cols = term.cols /\ t.rows = term.rows /\ t.active = term.active
    BY <2>2 DEF Steady, StaysIn, SamePlace
  <2>4. Dispatched(c)
    BY <1>1, ScenesAssumption
  <2>5. Moves(t, c, u)
    BY <2>3, <2>4, CommandMoves
  <2>6. Left(term, c, u) = Left(t, c, u)
    BY <2>2, <2>3 DEF Left
  <2>7. \A k \in DOMAIN shell : Behind(shell[k], t)
    <3>1. ASSUME NEW k \in DOMAIN shell PROVE Behind(shell[k], t)
      <4>1. Behind(shell[k], term)
        BY DEF ModesInv
      <4>2. QED
        BY <2>2, <2>3, <4>1 DEF Behind
    <3>2. QED
      BY <3>1
  <2>8. \A k \in DOMAIN shell' : Behind(shell'[k], term')
    BY <2>1, <2>3, <2>5, <2>6, <2>7, LeftBehind
  <2>9. Sound(term') /\ SameGrants(term, term') /\ Keyed(term, term')
    BY <2>1, <2>2, <2>3, <2>5 DEF Moves, SameGrants, Keyed
  <2>10. scene' = scene
    BY <1>2 DEF Command
  <2>11. QED
    BY <1>1, <2>8, <2>9, <2>10 DEF ModesInv, SameGrants
<1>3. ASSUME HostResize PROVE ModesInv' /\ Keyed(term, term')
  <2>1. PICK size \in scene.sizes : term' \in Resized(term, size[1], size[2])
    BY <1>3 DEF HostResize
  <2> DEFINE cols == size[1]
             rows == size[2]
  <2>2. /\ cols \in Nat /\ rows \in Nat
        /\ scene.ceiling = <<>> \/ (cols <= scene.ceiling[1] /\ rows <= scene.ceiling[2])
    BY <1>1, ScenesAssumption
  <2>3. term' \in Resized(term, cols, rows)
    BY <2>1
  <2> HIDE DEF cols, rows
  <2>4. Sane(term, term')
    BY <1>1, <2>2, <2>3, ResizedSane
  <2>5. scene' = scene /\ shell' = <<>>
    BY <1>3 DEF HostResize
  <2>6. Sound(term') /\ SameGrants(term, term') /\ Keyed(term, term')
    BY <2>4, SaneKeyed
  <2>7. QED
    BY <1>1, <2>5, <2>6 DEF ModesInv, SameGrants
<1>4. QED
  BY <1>2, <1>3 DEF ModesNext

\* A state whose modes do not move.
LEMMA ModesStay ==
  ASSUME ModesInv, UNCHANGED tvars
  PROVE  ModesInv' /\ term' = term
  BY DEF ModesInv, tvars

LEMMA CoreKeeps ==
  ASSUME ModesInv, [CoreNext]_cvars
  PROVE  ModesInv' /\ (Keyed(term, term') \/ term' = term)
<1>1. CASE part = "modes" /\ ModesNext
  BY <1>1, ModesKeep
<1>2. CASE UNCHANGED tvars
  BY <1>2, ModesStay
<1>3. QED
  BY <1>1, <1>2 DEF CoreNext, cvars

\* Whatever the child asks of the modes and the embedder of their size, the terminal
\* is sound, its grants are its embedder's, and a primary screen left by a 1049h
\* waits or is back.
THEOREM ModesInvariant == CoreSpec => []ModesInv
<1>1. CoreInit => ModesInv
  BY ModesBegin DEF CoreInit
<1>2. ModesInv /\ [CoreNext]_cvars => ModesInv'
  BY CoreKeeps
<1>3. QED
  BY <1>1, <1>2, PTL DEF CoreSpec

\* The cursors, regions, margins, stacks and grants of CoreTypeOK
\* (terminal.rs, dispatch.rs).
THEOREM ModesTypesCorrect == CoreSpec => []CoreTypeOK
<1>1. ModesInv => CoreTypeOK
  <2>1. SUFFICES ASSUME ModesInv PROVE ModesTypeOK /\ GrantsHold
    BY DEF CoreTypeOK
  <2>2. Sound(term) /\ term.reports = scene.reports /\ term.ceiling = scene.ceiling
    BY <2>1 DEF ModesInv
  <2>3. /\ term.cols \in Nat \ {0} /\ term.rows \in Nat \ {0} /\ term.active \in Screens
        /\ DOMAIN term.screens = Screens /\ Quiet(term) /\ Allowed(term) /\ StacksBounded(term)
    BY <2>2 DEF Sound
  <2>4. ASSUME NEW n \in Screens
        PROVE  LET w == term.screens[n] IN
               /\ w.x \in 0..term.cols-1 /\ w.y \in 0..term.rows-1
               /\ 0 <= w.top /\ w.top <= w.bottom /\ w.bottom < term.rows
               /\ 0 <= w.left /\ w.left <= w.right /\ w.right < term.cols
               /\ w.kitty.idx \in 0..Depth-1
    <3> DEFINE w == term.screens[n]
    <3>1. ScreenOK(w, term.cols, term.rows)
      BY <2>2 DEF Sound
    <3> HIDE DEF w
    <3>2. /\ w.x \in 0..term.cols-1 /\ w.y \in 0..term.rows-1
          /\ 0 <= w.top /\ w.top <= w.bottom /\ w.bottom < term.rows
          /\ 0 <= w.left /\ w.left <= w.right /\ w.right < term.cols
          /\ w.kitty.idx \in 0..Depth-1
      BY <2>3, <3>1, SMTT(30) DEF ScreenOK, Rings
    <3>3. QED
      BY <3>2 DEF w
  <2>5. ModesTypeOK
    BY <2>3, <2>4 DEF ModesTypeOK, StacksBounded, Screens
  <2>6. ASSUME ~term.reports, NEW r \in ToSet(term.replies)
        PROVE  r[1] \notin {"checksum", "size", "icon", "title"}
    <3>1. IsSequence(term.replies)
      BY <2>3 DEF Quiet
    <3>2. DOMAIN term.replies = 1 .. Len(term.replies)
      BY <3>1, SequenceLength
    <3>3. PICK i \in DOMAIN term.replies : r = term.replies[i]
      BY DEF ToSet
    <3>4. QED
      BY <2>3, <2>6, <3>2, <3>3 DEF Quiet, Secrets
  <2>7. GrantsHold
    BY <2>2, <2>3, <2>6 DEF GrantsHold, Allowed
  <2>8. QED
    BY <2>5, <2>7
<1>2. QED
  BY <1>1, ModesInvariant, PTL

\* A shell that lends its screen with 1049h has it back with 1049l, whatever the
\* borrower did between (switch_screen).
THEOREM ShellHasItsScreen == CoreSpec => []ScreenComesBack
<1>1. ModesInv => ScreenComesBack
  BY DEF ModesInv, ScreenComesBack, ShellComesBack, Behind
<1>2. QED
  BY <1>1, ModesInvariant, PTL

\* The key flags of each screen, a ring in the code, are the stack of the newest
\* Depth entries the protocol describes (kitty_keys.rs).
THEOREM KeyFlagsImplement == CoreSpec => KeyFlagsStack
<1> DEFINE P == Unrolled(term.screens.primary.kitty)
           A == Unrolled(term.screens.alternate.kitty)
<1>1. CoreInit => PrimaryFlags!Init /\ AlternateFlags!Init
  <2>1. SUFFICES ASSUME ModesInit PROVE PrimaryFlags!Init /\ AlternateFlags!Init
    BY DEF CoreInit
  <2>2. term = [New(scene.cols, scene.rows) EXCEPT !.reports = scene.reports, !.ceiling = scene.ceiling]
    BY <2>1 DEF ModesInit
  <2>3. term.screens.primary.kitty = NewRing /\ term.screens.alternate.kitty = NewRing
    BY <2>2 DEF New, NewScreen
  <2>4. QED
    BY <2>3, NewIsClear DEF PrimaryFlags!Init, PrimaryFlags!Bottom, AlternateFlags!Init, AlternateFlags!Bottom
<1>2. ASSUME ModesInv, [CoreNext]_cvars
      PROVE  [PrimaryFlags!Next]_P /\ [AlternateFlags!Next]_A
  <2>1. Keyed(term, term') \/ term' = term
    BY <1>2, CoreKeeps
  <2>2. term.screens.primary.kitty \in Rings /\ term.screens.alternate.kitty \in Rings
    BY <1>2 DEF ModesInv, Sound, ScreenOK, Screens
  <2>3. CASE term' = term
    BY <2>3
  <2>4. CASE Keyed(term, term')
    <3>1. P' = P \/ Stacked(P, P')
      <4>1. RingStep(term.screens.primary.kitty, term'.screens.primary.kitty)
        BY <2>4 DEF Keyed, Screens
      <4>2. QED
        BY <2>2, <4>1, RingIsStack
    <3>2. A' = A \/ Stacked(A, A')
      <4>1. RingStep(term.screens.alternate.kitty, term'.screens.alternate.kitty)
        BY <2>4 DEF Keyed, Screens
      <4>2. QED
        BY <2>2, <4>1, RingIsStack
    <3>3. Stacked(P, P') => PrimaryFlags!Next
      BY DEF Stacked, PrimaryFlags!Next, PrimaryFlags!Push, PrimaryFlags!Pop, PrimaryFlags!Set,
             PrimaryFlags!Clear, PrimaryFlags!Bottom
    <3>4. Stacked(A, A') => AlternateFlags!Next
      BY DEF Stacked, AlternateFlags!Next, AlternateFlags!Push, AlternateFlags!Pop, AlternateFlags!Set,
             AlternateFlags!Clear, AlternateFlags!Bottom
    <3>5. QED
      BY <3>1, <3>2, <3>3, <3>4
  <2>5. QED
    BY <2>1, <2>3, <2>4
<1>3. QED
  BY <1>1, <1>2, ModesInvariant, PTL DEF CoreSpec, KeyFlagsStack, PrimaryFlags!Spec, AlternateFlags!Spec

-----------------------------------------------------------------------------
(* The table of styles.                                                    *)

StyleSet == {Plain} \union Pens \union {BlankStyle(p) : p \in Pens}

Listed(table) == table \in Seq(StyleSet) /\ Len(table) > 0 /\ table[1] = Plain

GridOK(g) ==
  /\ DOMAIN g = {"table", "cells"}
  /\ Listed(g.table) /\ Len(g.table) <= MaxIds
  /\ g.cells \in [1 .. NCells -> Nat]

\* A cell has an id of the table, that of this style.
HasStyle(g, i, style) == g.cells[i] < Len(g.table) /\ g.table[g.cells[i] + 1] = style

LEMMA InternKeeps ==
  ASSUME NEW g, "table" \in DOMAIN g, Listed(g.table), Len(g.table) < MaxIds, MaxIds \in Nat,
         NEW style \in StyleSet
  PROVE  LET r == Intern(g, style) IN
         /\ DOMAIN r.g = DOMAIN g /\ ("cells" \in DOMAIN g => r.g.cells = g.cells)
         /\ Listed(r.g.table) /\ Len(r.g.table) \in Len(g.table) .. Len(g.table) + 1
         /\ \A k \in 1 .. Len(g.table) : r.g.table[k] = g.table[k]
         /\ r.id \in Nat /\ r.id < Len(r.g.table) /\ r.g.table[r.id + 1] = style
         /\ style = Plain => r.id = 0
<1> DEFINE r == Intern(g, style)
           n == Len(g.table)
<1>0. n \in Nat \ {0} /\ DOMAIN g.table = 1 .. n /\ g.table \in Seq(StyleSet) /\ g.table[1] = Plain
  BY DEF Listed
<1>1. CASE style = Plain
  <2>1. r = [g |-> g, id |-> 0]
    BY <1>1 DEF Intern
  <2>2. QED
    BY <2>1, <1>0, <1>1
<1>2. CASE style # Plain /\ style \in ToSet(g.table)
  <2>1. r = [g |-> g, id |-> Id(g.table, style)]
    BY <1>2 DEF Intern
  <2>2. \E k \in 1 .. n : g.table[k] = style
    BY <1>0, <1>2 DEF ToSet
  <2>3. Id(g.table, style) + 1 \in 1 .. n /\ g.table[Id(g.table, style) + 1] = style
    <3> DEFINE k == CHOOSE j \in 1 .. n : g.table[j] = style
    <3>1. k \in 1 .. n /\ g.table[k] = style
      BY <2>2
    <3>2. Id(g.table, style) = k - 1
      BY DEF Id
    <3> HIDE DEF k
    <3>3. (k - 1) + 1 = k
      BY <3>1, <1>0
    <3>4. QED
      BY <3>1, <3>2, <3>3
  <2> DEFINE id == Id(g.table, style)
  <2>4. id \in Nat /\ id < n
    <3>1. id \in Int
      <4> DEFINE k == CHOOSE j \in 1 .. n : g.table[j] = style
      <4>1. k \in 1 .. n
        BY <2>2
      <4>2. QED
        BY <4>1, <1>0 DEF Id
    <3> HIDE DEF id
    <3>2. id + 1 \in 1 .. n
      BY <2>3 DEF id
    <3>3. QED
      BY <3>1, <3>2, <1>0
  <2>5. QED
    BY <2>1, <2>3, <2>4, <1>0, <1>2
<1>3. CASE style # Plain /\ style \notin ToSet(g.table)
  <2>1. r = [g |-> [g EXCEPT !.table = Append(g.table, style)], id |-> n]
    BY <1>3, <1>0 DEF Intern
  <2> DEFINE table == Append(g.table, style)
  <2>2. /\ table \in Seq(StyleSet) /\ Len(table) = n + 1 /\ table[n + 1] = style
        /\ \A k \in 1 .. n : table[k] = g.table[k]
    BY <1>0, AppendProperties
  <2> HIDE DEF table
  <2>3. DOMAIN r.g = DOMAIN g /\ ("cells" \in DOMAIN g => r.g.cells = g.cells) /\ r.g.table = table /\ r.id = n
    BY <2>1 DEF table
  <2>4. table[1] = Plain
    BY <2>2, <1>0
  <2> HIDE DEF r
  <2>5. QED
    BY <2>2, <2>3, <2>4, <1>0, <1>3 DEF Listed, r
<1>4. QED
  BY <1>1, <1>2, <1>3

LEMMA RelistSteps ==
  ASSUME NEW g, NEW m \in Nat, Len(g.table) - 1 = m
  PROVE  /\ Relisted(g)[0] = <<Plain>>
         /\ \A n \in 1 .. m : Relisted(g)[n] = Relist(g, Relisted(g)[n - 1], n)
<1> DEFINE base == <<Plain>>
           Built(f, k) ==
             f = [n \in 0 .. k |-> IF n = 0 THEN base ELSE Relist(g, f[n - 1], n)]
           Reached == {k \in 0 .. m : \E f : Built(f, k)}
<1>0. Relisted(g) = CHOOSE f : Built(f, m)
  BY DEF Relisted
<1> HIDE DEF base
<1>1. 0 \in Reached
  <2>1. Built([n \in 0 .. 0 |-> base], 0)
    OBVIOUS
  <2>2. \E f : Built(f, 0)
    <3> HIDE DEF Built
    <3>1. QED
      BY <2>1
  <2>3. QED
    BY <2>2
<1>2. ASSUME NEW k \in 1 .. m, k - 1 \in Reached
      PROVE  k \in Reached
  <2>1. PICK f : Built(f, k - 1)
    BY <1>2
  <2> DEFINE h1 == [n \in 0 .. k |-> IF n = k THEN Relist(g, f[k - 1], k) ELSE f[n]]
             h2 == [n \in 0 .. k |-> IF n = 0 THEN base ELSE Relist(g, h1[n - 1], n)]
  <2>2. \A n \in 0 .. k - 1 : f[n] = IF n = 0 THEN base ELSE Relist(g, f[n - 1], n)
    <3> HIDE DEF h1, h2
    <3>1. QED
      BY <2>1, Zenon
  <2>3. \A n \in 0 .. k - 1 : h1[n] = f[n]
    OBVIOUS
  <2>4. ASSUME NEW n \in 0 .. k PROVE h1[n] = h2[n]
    <3>1. CASE n = 0
      BY <3>1, <2>2, <2>3
    <3>2. CASE n \in 1 .. k - 1
      <4>1. h2[n] = Relist(g, h1[n - 1], n) /\ n - 1 \in 0 .. k - 1 /\ n \in 0 .. k - 1
        BY <3>2
      <4>2. QED
        BY <4>1, <2>2, <2>3, <3>2
    <3>3. CASE n = k /\ k > 0
      <4>1. h2[n] = Relist(g, h1[k - 1], n) /\ h1[n] = Relist(g, f[k - 1], n)
        BY <3>3
      <4>2. h1[k - 1] = f[k - 1]
        BY <2>3
      <4>3. QED
        BY <4>1, <4>2
    <3>4. QED
      BY <3>1, <3>2, <3>3
  <2>5. h1 = h2
    <3>1. h1 = [n \in 0 .. k |-> h1[n]] /\ h2 = [n \in 0 .. k |-> h2[n]]
      OBVIOUS
    <3>2. QED
      BY <3>1, <2>4
  <2>6. Built(h1, k)
    BY <2>5
  <2>7. \E f2 : Built(f2, k)
    <3> HIDE DEF Built, h1
    <3>1. QED
      BY <2>6
  <2>8. QED
    BY <2>7
<1>3. m \in Reached
  <2> HIDE DEF Reached
  <2>1. QED
    BY <1>1, <1>2, Climbs, SMTT(30)
<1>4. Built(Relisted(g), m)
  BY <1>0, <1>3
<1>5. Relisted(g)[0] = base /\
      \A n \in 1 .. m : Relisted(g)[n] = Relist(g, Relisted(g)[n - 1], n)
  BY <1>4
<1>6. QED
  BY <1>5 DEF base

\* The ids up to one that some cell uses.
Used(g, id) == ToSet(g.cells) \intersect (1 .. id)

LEMMA UsedIsSmall ==
  ASSUME NEW g, GridOK(g), NEW id \in Nat, NCells \in Nat
  PROVE  /\ IsFiniteSet(Used(g, id)) /\ Cardinality(Used(g, id)) \in Nat
         /\ Cardinality(Used(g, id)) <= NCells
<1>1. DOMAIN g.cells = 1 .. NCells /\ g.cells \in [1 .. NCells -> Nat]
  BY DEF GridOK
<1>2. IsFiniteSet(1 .. NCells) /\ Cardinality(1 .. NCells) = NCells
  BY FS_Interval
<1> DEFINE S == ToSet(g.cells)
<1>3. g.cells \in Surjection(1 .. NCells, S)
  BY <1>1 DEF ToSet, Surjection
<1>4. IsFiniteSet(S) /\ Cardinality(S) <= NCells
  <2> HIDE DEF S
  <2>1. IsFiniteSet(S) /\ Cardinality(S) <= Cardinality(1 .. NCells)
    BY <1>2, <1>3, FS_Surjection
  <2>2. QED
    BY <2>1, <1>2
<1>5. Used(g, id) \in SUBSET S
  BY DEF Used
<1> HIDE DEF S
<1>6. IsFiniteSet(Used(g, id)) /\ Cardinality(Used(g, id)) <= Cardinality(S)
  BY <1>4, <1>5, FS_Subset
<1>7. Cardinality(Used(g, id)) \in Nat /\ Cardinality(S) \in Nat
  BY <1>4, <1>6, FS_CardinalityType
<1>8. QED
  BY <1>4, <1>6, <1>7

\* How far a compaction has come: the default first, no more styles than cells use,
\* and every style that a cell has.
KeptBy(g, table, id) ==
  /\ Listed(table) /\ Len(table) <= Cardinality(Used(g, id)) + 1
  /\ \A k \in Used(g, id) : g.table[k + 1] \in ToSet(table)

LEMMA RelistKeeps ==
  ASSUME NEW g, GridOK(g), NEW n \in Nat, n > 0, n < Len(g.table), NEW table, KeptBy(g, table, n - 1),
         NCells \in Nat, MaxIds \in Nat, NCells + 1 < MaxIds
  PROVE  KeptBy(g, Relist(g, table, n), n)
<1> DEFINE used == Used(g, n - 1)
<1>1. /\ IsFiniteSet(used) /\ Cardinality(used) \in Nat /\ Cardinality(used) <= NCells
  BY UsedIsSmall
<1>2. /\ Listed(table) /\ Len(table) <= Cardinality(used) + 1
      /\ \A k \in used : g.table[k + 1] \in ToSet(table)
  BY DEF KeptBy
<1>3. Len(table) \in Nat /\ Len(table) < MaxIds
  BY <1>1, <1>2 DEF Listed
<1>4. g.table[n + 1] \in StyleSet
  BY DEF GridOK, Listed
<1>5. CASE n \in ToSet(g.cells)
  <2>1. Used(g, n) = used \union {n}
    BY <1>5 DEF Used
  <2>2. n \notin used
    BY DEF Used
  <2> DEFINE h == [table |-> table]
             r == Intern(h, g.table[n + 1])
             after == r.g.table
  <2>3. Relist(g, table, n) = after
    BY <1>5 DEF Relist
  <2>4. /\ Listed(after) /\ Len(after) \in Len(table) .. Len(table) + 1
        /\ \A k \in 1 .. Len(table) : after[k] = table[k]
        /\ r.id \in Nat /\ r.id < Len(after) /\ after[r.id + 1] = g.table[n + 1]
    <3>1. "table" \in DOMAIN h /\ h.table = table
      OBVIOUS
    <3> HIDE DEF h
    <3>2. QED
      BY <3>1, <1>2, <1>3, <1>4, InternKeeps
  <2> HIDE DEF after, r
  <2>5. Cardinality(Used(g, n)) = Cardinality(used) + 1
    <3> HIDE DEF used
    <3>1. QED
      BY <1>1, <2>1, <2>2, FS_AddElement
  <2>6. Len(after) <= Cardinality(Used(g, n)) + 1
    <3> HIDE DEF used
    <3>1. QED
      BY <2>4, <2>5, <1>1, <1>2, <1>3
  <2>7. DOMAIN after = 1 .. Len(after) /\ DOMAIN table = 1 .. Len(table) /\ Len(after) \in Nat
    BY <2>4, <1>2 DEF Listed
  <2>8. g.table[n + 1] \in ToSet(after)
    BY <2>4, <2>7 DEF ToSet
  <2>9. ASSUME NEW k \in used PROVE g.table[k + 1] \in ToSet(after)
    <3>1. PICK i \in 1 .. Len(table) : table[i] = g.table[k + 1]
      <4> HIDE DEF used
      <4>1. QED
        BY <1>2, <2>7 DEF ToSet
    <3>2. i \in DOMAIN after /\ after[i] = g.table[k + 1]
      BY <2>4, <2>7, <3>1, <1>3
    <3>3. QED
      BY <3>2 DEF ToSet
  <2>10. QED
    BY <2>1, <2>3, <2>4, <2>6, <2>8, <2>9 DEF KeptBy
<1>6. CASE n \notin ToSet(g.cells)
  <2>1. Used(g, n) = used
    BY <1>6 DEF Used
  <2>2. Relist(g, table, n) = table
    BY <1>6 DEF Relist
  <2>3. QED
    BY <2>1, <2>2, <1>2 DEF KeptBy
<1>7. QED
  BY <1>5, <1>6

\* A compaction leaves one style more than there are cells, at most, and every cell
\* the style it had.
LEMMA CompactKeeps ==
  ASSUME NEW g, GridOK(g), NCells \in Nat, MaxIds \in Nat, NCells + 1 < MaxIds
  PROVE  LET c == Compact(g) IN
         /\ GridOK(c) /\ Len(c.table) < MaxIds
         /\ \A i \in 1 .. NCells : HasStyle(c, i, StyleOf(g, g.cells[i]))
<1> DEFINE m == Len(g.table) - 1
           Reached == {n \in 0 .. m : KeptBy(g, Relisted(g)[n], n)}
<1>0. /\ m \in Nat /\ Len(g.table) = m + 1 /\ Len(g.table) - 1 = m /\ DOMAIN g.table = 1 .. m + 1
      /\ g.table[1] = Plain /\ g.table \in Seq(StyleSet) /\ g.cells \in [1 .. NCells -> Nat]
  BY DEF GridOK, Listed
<1> HIDE DEF m
<1>1. /\ Relisted(g)[0] = <<Plain>>
      /\ \A n \in 1 .. m : Relisted(g)[n] = Relist(g, Relisted(g)[n - 1], n)
  BY <1>0, RelistSteps
<1>2. KeptBy(g, Relisted(g)[0], 0)
  <2>1. Used(g, 0) = {}
    BY DEF Used
  <2>2. Cardinality({}) = 0
    BY FS_EmptySet
  <2>3. Listed(<<Plain>>) /\ Len(<<Plain>>) = 1
    BY DEF Listed, StyleSet
  <2>4. QED
    BY <1>1, <2>1, <2>2, <2>3 DEF KeptBy
<1>3. ASSUME NEW n \in 1 .. m, n - 1 \in Reached
      PROVE  n \in Reached
  <2> DEFINE before == Relisted(g)[n - 1]
  <2>1. KeptBy(g, before, n - 1) /\ n \in Nat /\ n > 0 /\ n < Len(g.table)
    BY <1>0, <1>3
  <2>2. Relisted(g)[n] = Relist(g, before, n)
    BY <1>1
  <2> HIDE DEF before
  <2>3. KeptBy(g, Relist(g, before, n), n)
    BY <2>1, RelistKeeps
  <2>4. QED
    BY <2>2, <2>3, <1>0
<1>4. m \in Reached
  <2>1. 0 \in Reached
    BY <1>0, <1>2
  <2>2. m \in Nat
    BY <1>0
  <2> HIDE DEF Reached
  <2>3. \A n \in 0 .. m : n \in Reached
    BY <2>1, <2>2, <1>3, Climbs
  <2>4. QED
    BY <2>2, <2>3
<1> DEFINE table == Relisted(g)[m]
           c == Compact(g)
<1>5. KeptBy(g, table, m)
  BY <1>4
<1>6. /\ c = [table |-> table, cells |-> [i \in 1 .. NCells |-> Id(table, StyleOf(g, g.cells[i]))]]
  BY <1>0 DEF Compact, m
<1>7. Listed(table) /\ Len(table) <= NCells + 1 /\ Len(table) \in Nat /\ Len(table) < MaxIds
      /\ DOMAIN table = 1 .. Len(table)
  <2> HIDE DEF table
  <2>1. Cardinality(Used(g, m)) \in Nat /\ Cardinality(Used(g, m)) <= NCells
    BY <1>0, UsedIsSmall
  <2>2. Listed(table) /\ Len(table) <= Cardinality(Used(g, m)) + 1
    BY <1>5 DEF KeptBy
  <2>3. Len(table) \in Nat /\ DOMAIN table = 1 .. Len(table)
    BY <2>2 DEF Listed
  <2>4. QED
    BY <2>1, <2>2, <2>3
<1> HIDE DEF table, c
<1>8. ASSUME NEW i \in 1 .. NCells
      PROVE  /\ c.cells[i] \in Nat /\ c.cells[i] < Len(table)
             /\ table[c.cells[i] + 1] = StyleOf(g, g.cells[i])
  <2> DEFINE id == g.cells[i]
             style == StyleOf(g, id)
  <2>1. id \in Nat /\ id \in ToSet(g.cells)
    BY <1>0 DEF ToSet
  <2>2. \E k \in 1 .. Len(table) : table[k] = style
    <3>1. CASE id \in 1 .. m
      <4>1. id \in Used(g, m)
        BY <2>1, <3>1 DEF Used
      <4>2. g.table[id + 1] \in ToSet(table)
        BY <1>5, <4>1 DEF KeptBy
      <4>3. style = g.table[id + 1]
        <5> HIDE DEF id
        <5>1. id < Len(g.table)
          BY <1>0, <3>1
        <5>2. QED
          BY <5>1 DEF StyleOf
      <4> HIDE DEF style, id
      <4>4. QED
        BY <4>2, <4>3, <1>7 DEF ToSet
    <3>2. CASE id \notin 1 .. m
      <4>1. style = Plain
        <5> HIDE DEF id
        <5>1. CASE id = 0
          BY <5>1, <1>0 DEF StyleOf
        <5>2. CASE ~(id < Len(g.table))
          BY <5>2 DEF StyleOf
        <5>3. QED
          BY <5>1, <5>2, <3>2, <2>1, <1>0
      <4>2. table[1] = Plain /\ 1 \in 1 .. Len(table)
        BY <1>7 DEF Listed
      <4> HIDE DEF style, id
      <4>3. QED
        BY <4>1, <4>2
    <3>3. QED
      BY <3>1, <3>2
  <2> HIDE DEF style
  <2>3. c.cells[i] = Id(table, style)
    BY <1>6 DEF style
  <2> DEFINE k == CHOOSE j \in 1 .. Len(table) : table[j] = style
  <2>4. k \in 1 .. Len(table) /\ table[k] = style
    BY <2>2
  <2>5. c.cells[i] = k - 1
    BY <2>3 DEF Id
  <2> HIDE DEF k
  <2>6. QED
    BY <2>4, <2>5, <1>7 DEF style
<1>9. c.cells \in [1 .. NCells -> Nat] /\ c.table = table /\ DOMAIN c = {"table", "cells"}
  <2>1. c.cells = [i \in 1 .. NCells |-> c.cells[i]]
    BY <1>6
  <2>2. QED
    BY <1>6, <1>8, <2>1
<1>10. QED
  BY <1>7, <1>8, <1>9 DEF GridOK, HasStyle, c

\* Interning a style in a grid: it gets an id of the table that means it, the
\* default's is 0, and no cell's style changes.
LEMMA InternStyleKeeps ==
  ASSUME NEW g, GridOK(g), NEW style \in StyleSet,
         NCells \in Nat, MaxIds \in Nat, MinTable \in Nat, TableHasRoom
  PROVE  LET r == InternStyle(g, style) IN
         /\ GridOK(r.g)
         /\ r.id \in Nat /\ r.id < Len(r.g.table) /\ r.g.table[r.id + 1] = style
         /\ style = Plain => r.id = 0
         /\ \A i \in 1 .. NCells : \A s : HasStyle(g, i, s) => HasStyle(r.g, i, s)
<1> DEFINE full == Len(g.table) >= Threshold
           h == IF full THEN Compact(g) ELSE g
           r == InternStyle(g, style)
<1>0. NCells + 1 < MaxIds /\ Threshold \in Nat /\ Threshold <= MaxIds
  BY DEF TableHasRoom, Threshold
<1>1. GridOK(h) /\ Len(h.table) < MaxIds
  <2>1. CASE full
    <3>1. h = Compact(g)
      BY <2>1
    <3> HIDE DEF h
    <3>2. QED
      BY <3>1, <1>0, CompactKeeps
  <2>2. CASE ~full
    BY <2>2, <1>0 DEF GridOK, Listed
  <2>3. QED
    BY <2>1, <2>2
<1>2. ASSUME NEW i \in 1 .. NCells, NEW s, HasStyle(g, i, s)
      PROVE  HasStyle(h, i, s)
  <2>1. CASE full
    <3>1. StyleOf(g, g.cells[i]) = s
      BY <1>2 DEF HasStyle, StyleOf
    <3>2. h = Compact(g)
      BY <2>1
    <3> HIDE DEF h
    <3>3. HasStyle(h, i, StyleOf(g, g.cells[i]))
      BY <3>2, <1>0, CompactKeeps
    <3>4. QED
      BY <3>1, <3>3
  <2>2. CASE ~full
    BY <2>2, <1>2
  <2>3. QED
    BY <2>1, <2>2
<1>3. r = Intern(h, style)
  BY DEF InternStyle
<1> HIDE DEF h, r
<1>4. /\ DOMAIN r.g = DOMAIN h /\ r.g.cells = h.cells
      /\ Listed(r.g.table) /\ Len(r.g.table) \in Len(h.table) .. Len(h.table) + 1
      /\ \A k \in 1 .. Len(h.table) : r.g.table[k] = h.table[k]
      /\ r.id \in Nat /\ r.id < Len(r.g.table) /\ r.g.table[r.id + 1] = style
      /\ style = Plain => r.id = 0
  <2>1. Listed(h.table) /\ "table" \in DOMAIN h /\ "cells" \in DOMAIN h
    BY <1>1 DEF GridOK
  <2>2. QED
    BY <1>1, <1>3, <2>1, InternKeeps
<1>5. Len(h.table) \in Nat /\ h.cells \in [1 .. NCells -> Nat] /\ DOMAIN h = {"table", "cells"}
  BY <1>1 DEF GridOK, Listed
<1>6. GridOK(r.g)
  BY <1>1, <1>4, <1>5 DEF GridOK
<1>7. ASSUME NEW i \in 1 .. NCells, NEW s, HasStyle(h, i, s) PROVE HasStyle(r.g, i, s)
  <2>1. h.cells[i] \in Nat /\ h.cells[i] < Len(h.table) /\ h.table[h.cells[i] + 1] = s
    BY <1>5, <1>7 DEF HasStyle
  <2>2. h.cells[i] + 1 \in 1 .. Len(h.table)
    BY <2>1, <1>5
  <2> DEFINE id == h.cells[i]
  <2>3. r.g.cells[i] = id /\ id < Len(r.g.table)
    BY <2>1, <1>4, <1>5
  <2>4. r.g.table[id + 1] = s
    <3> HIDE DEF id
    <3>1. QED
      BY <1>4, <2>1, <2>2 DEF id
  <2> HIDE DEF id
  <2>5. QED
    BY <2>3, <2>4 DEF HasStyle
<1>8. QED
  BY <1>2, <1>4, <1>6, <1>7 DEF r

\* The table lists the default first and ids are numbers; until a wrapped blank goes
\* stale every cell has an id of the table, that of the style it was written with.
StylesInv ==
  /\ GridOK(styles)
  /\ meant \in [1 .. NCells -> StyleSet]
  /\ stale \/ \A i \in 1 .. NCells : HasStyle(styles, i, meant[i])

LEMMA StylesBegin ==
  ASSUME StylesInit, NCells \in Nat \ {0}, MaxIds \in Nat \ {0}
  PROVE  StylesInv
<1> DEFINE table == <<Plain>>
           cells == [i \in 1 .. NCells |-> 0]
<1>1. Listed(table) /\ Len(table) = 1 /\ table[1] = Plain /\ Plain \in StyleSet
  BY DEF Listed, StyleSet
<1>2. styles.table = table /\ styles.cells = cells /\ DOMAIN styles = {"table", "cells"}
  BY DEF StylesInit
<1>3. meant = [i \in 1 .. NCells |-> Plain]
  BY DEF StylesInit
<1>4. cells \in [1 .. NCells -> Nat] /\ \A i \in 1 .. NCells : cells[i] = 0
  OBVIOUS
<1> HIDE DEF table, cells
<1>5. GridOK(styles)
  <2>1. Listed(styles.table) /\ Len(styles.table) = 1
    BY <1>1, <1>2
  <2>2. styles.cells \in [1 .. NCells -> Nat]
    BY <1>2, <1>4
  <2>3. 1 <= MaxIds
    OBVIOUS
  <2>4. QED
    BY <1>2, <2>1, <2>2, <2>3 DEF GridOK
<1>6. meant \in [1 .. NCells -> StyleSet]
  BY <1>1, <1>3
<1>7. ASSUME NEW i \in 1 .. NCells PROVE HasStyle(styles, i, meant[i])
  <2>1. styles.cells[i] = 0 /\ meant[i] = Plain /\ Len(styles.table) = 1 /\ styles.table[0 + 1] = Plain
    BY <1>1, <1>2, <1>3, <1>4
  <2>2. QED
    BY <2>1 DEF HasStyle
<1>8. QED
  BY <1>5, <1>6, <1>7 DEF StylesInv

LEMMA WriteKeeps ==
  ASSUME NEW g, GridOK(g), NEW i \in 1 .. NCells, NEW id \in Nat
  PROVE  LET w == WriteCell(g, i, id) IN
         /\ GridOK(w) /\ w.table = g.table
         /\ w.cells[i] = id /\ \A k \in 1 .. NCells \ {i} : w.cells[k] = g.cells[k]
<1> DEFINE cells == [g.cells EXCEPT ![i] = id]
           w == WriteCell(g, i, id)
<1>1. w.cells = cells /\ w.table = g.table /\ DOMAIN w = DOMAIN g
  BY DEF WriteCell, GridOK
<1>2. cells \in [1 .. NCells -> Nat] /\ cells[i] = id
      /\ \A k \in 1 .. NCells \ {i} : cells[k] = g.cells[k]
  BY DEF GridOK
<1> HIDE DEF cells, w
<1>3. QED
  BY <1>1, <1>2 DEF GridOK, w

LEMMA PrintKeeps ==
  ASSUME StylesInv, TableHasRoom, NEW i \in 1 .. NCells, NEW pen \in Pens, PrintCell(i, pen),
         NCells \in Nat, MaxIds \in Nat, MinTable \in Nat
  PROVE  StylesInv'
<1> DEFINE b == InternStyle(styles, BlankStyle(pen))
           p == InternStyle(b.g, pen)
<1>1. /\ styles' = WriteCell(p.g, i, p.id)
      /\ meant' = [meant EXCEPT ![i] = pen] /\ stale' = stale
  BY DEF PrintCell
<1>2. GridOK(styles) /\ meant \in [1 .. NCells -> StyleSet]
      /\ pen \in StyleSet /\ BlankStyle(pen) \in StyleSet
  BY DEF StylesInv, StyleSet
<1>3. GridOK(b.g) /\ \A k \in 1 .. NCells : \A s : HasStyle(styles, k, s) => HasStyle(b.g, k, s)
  BY <1>2, InternStyleKeeps
<1> DEFINE bg == b.g
<1> HIDE DEF b
<1>4. /\ GridOK(p.g) /\ p.id \in Nat /\ p.id < Len(p.g.table) /\ p.g.table[p.id + 1] = pen
      /\ \A k \in 1 .. NCells : \A s : HasStyle(bg, k, s) => HasStyle(p.g, k, s)
  <2> HIDE DEF bg
  <2>1. GridOK(bg) /\ p = InternStyle(bg, pen)
    BY <1>3 DEF bg
  <2> HIDE DEF p
  <2>2. QED
    BY <1>2, <2>1, InternStyleKeeps
<1> DEFINE pg == p.g
           pid == p.id
<1> HIDE DEF p
<1>5. /\ GridOK(styles') /\ styles'.table = pg.table
      /\ styles'.cells[i] = pid /\ \A k \in 1 .. NCells \ {i} : styles'.cells[k] = pg.cells[k]
  <2>1. GridOK(pg) /\ pid \in Nat /\ styles' = WriteCell(pg, i, pid)
    BY <1>1, <1>4
  <2> HIDE DEF pg, pid
  <2>2. /\ GridOK(WriteCell(pg, i, pid)) /\ WriteCell(pg, i, pid).table = pg.table
        /\ WriteCell(pg, i, pid).cells[i] = pid
        /\ \A k \in 1 .. NCells \ {i} : WriteCell(pg, i, pid).cells[k] = pg.cells[k]
    BY <2>1, WriteKeeps
  <2>3. QED
    BY <2>1, <2>2
<1>6. meant' \in [1 .. NCells -> StyleSet]
  BY <1>1, <1>2
<1>7. ASSUME ~stale', NEW k \in 1 .. NCells PROVE HasStyle(styles', k, meant'[k])
  <2>1. CASE k = i
    BY <2>1, <1>1, <1>2, <1>4, <1>5 DEF HasStyle
  <2>2. CASE k # i
    <3>1. HasStyle(pg, k, meant[k])
      BY <1>1, <1>3, <1>4, <1>7 DEF StylesInv
    <3>2. meant'[k] = meant[k] /\ styles'.cells[k] = pg.cells[k]
      BY <1>1, <1>2, <1>5, <2>2
    <3>3. QED
      BY <3>1, <3>2, <1>5 DEF HasStyle
  <2>3. QED
    BY <2>1, <2>2
<1>8. QED
  BY <1>5, <1>6, <1>7 DEF StylesInv

LEMMA EraseKeeps ==
  ASSUME StylesInv, TableHasRoom, NEW i \in 1 .. NCells, NEW j \in 1 .. NCells, NEW pen \in Pens,
         EraseCells(i, j, pen), NCells \in Nat, MaxIds \in Nat, MinTable \in Nat
  PROVE  StylesInv'
<1> DEFINE blank == BlankStyle(pen)
           b == InternStyle(styles, blank)
           bg == b.g
           cells == [k \in DOMAIN bg.cells |-> IF k \in i .. j THEN b.id ELSE bg.cells[k]]
<1>1. /\ styles' = [bg EXCEPT !.cells = cells]
      /\ meant' = [k \in DOMAIN meant |-> IF k \in i .. j THEN blank ELSE meant[k]]
      /\ stale' = stale
  BY DEF EraseCells
<1>2. GridOK(styles) /\ meant \in [1 .. NCells -> StyleSet] /\ blank \in StyleSet
  BY DEF StylesInv, StyleSet
<1>3. /\ GridOK(bg) /\ b.id \in Nat /\ b.id < Len(bg.table) /\ bg.table[b.id + 1] = blank
      /\ \A k \in 1 .. NCells : \A s : HasStyle(styles, k, s) => HasStyle(bg, k, s)
  <2> HIDE DEF blank
  <2>1. QED
    BY <1>2, InternStyleKeeps
<1> HIDE DEF blank, bg
<1>4. styles'.cells = cells /\ styles'.table = bg.table /\ DOMAIN styles' = DOMAIN bg
  <2> HIDE DEF cells
  <2>1. QED
    BY <1>1, <1>3 DEF GridOK
<1>5. /\ cells \in [1 .. NCells -> Nat]
      /\ \A k \in 1 .. NCells : cells[k] = IF k \in i .. j THEN b.id ELSE bg.cells[k]
  BY <1>3 DEF GridOK
<1> HIDE DEF cells
<1>6. GridOK(styles')
  BY <1>3, <1>4, <1>5 DEF GridOK
<1>7. meant' \in [1 .. NCells -> StyleSet] /\
      \A k \in 1 .. NCells : meant'[k] = IF k \in i .. j THEN blank ELSE meant[k]
  BY <1>1, <1>2
<1>8. ASSUME ~stale', NEW k \in 1 .. NCells PROVE HasStyle(styles', k, meant'[k])
  <2>1. CASE k \in i .. j
    BY <2>1, <1>3, <1>4, <1>5, <1>7 DEF HasStyle
  <2>2. CASE k \notin i .. j
    <3>1. HasStyle(bg, k, meant[k])
      BY <1>1, <1>3, <1>8 DEF StylesInv
    <3>2. meant'[k] = meant[k] /\ styles'.cells[k] = bg.cells[k]
      BY <1>4, <1>5, <1>7, <2>2
    <3>3. QED
      BY <3>1, <3>2, <1>4 DEF HasStyle
  <2>3. QED
    BY <2>1, <2>2
<1>9. QED
  BY <1>6, <1>7, <1>8 DEF StylesInv

LEMMA WrapKeeps ==
  ASSUME StylesInv, TableHasRoom, NEW i \in 1 .. NCells, NEW j \in 1 .. NCells, i # j, NEW pen \in Pens,
         WrapWide(i, j, pen), NCells \in Nat, MaxIds \in Nat, MinTable \in Nat
  PROVE  StylesInv'
<1> DEFINE blank == BlankStyle(pen)
           b == InternStyle(styles, blank)
           bg == b.g
           bid == b.id
           p == InternStyle(bg, pen)
           pg == p.g
           pid == p.id
           w == WriteCell(pg, i, pid)
<1>1. /\ styles' = WriteCell(w, j, bid)
      /\ meant' = [meant EXCEPT ![i] = pen, ![j] = blank]
      /\ stale' = (stale \/ StyleOf(pg, bid) # blank)
  BY DEF WrapWide
<1>2. GridOK(styles) /\ meant \in [1 .. NCells -> StyleSet] /\ pen \in StyleSet /\ blank \in StyleSet
  BY DEF StylesInv, StyleSet
<1>3. /\ GridOK(bg) /\ bid \in Nat /\ (blank = Plain => bid = 0)
      /\ \A k \in 1 .. NCells : \A s : HasStyle(styles, k, s) => HasStyle(bg, k, s)
  <2> HIDE DEF blank
  <2>1. QED
    BY <1>2, InternStyleKeeps
<1> HIDE DEF blank, bg, bid
<1>4. /\ GridOK(pg) /\ pid \in Nat /\ pid < Len(pg.table) /\ pg.table[pid + 1] = pen
      /\ \A k \in 1 .. NCells : \A s : HasStyle(bg, k, s) => HasStyle(pg, k, s)
  BY <1>2, <1>3, InternStyleKeeps
<1> HIDE DEF pg, pid
<1>5. /\ GridOK(w) /\ w.table = pg.table /\ w.cells[i] = pid
      /\ \A k \in 1 .. NCells \ {i} : w.cells[k] = pg.cells[k]
  <2>1. GridOK(pg) /\ pid \in Nat /\ i \in 1 .. NCells
    BY <1>4
  <2> HIDE DEF w
  <2>2. /\ GridOK(WriteCell(pg, i, pid)) /\ WriteCell(pg, i, pid).table = pg.table
        /\ WriteCell(pg, i, pid).cells[i] = pid
        /\ \A k \in 1 .. NCells \ {i} : WriteCell(pg, i, pid).cells[k] = pg.cells[k]
    BY <2>1, WriteKeeps
  <2>3. w = WriteCell(pg, i, pid)
    BY DEF w
  <2>4. QED
    BY <2>2, <2>3
<1> HIDE DEF w
<1>6. /\ GridOK(styles') /\ styles'.table = pg.table /\ styles'.cells[j] = bid
      /\ \A k \in 1 .. NCells \ {j} : styles'.cells[k] = w.cells[k]
  <2>1. GridOK(WriteCell(w, j, bid)) /\ WriteCell(w, j, bid).table = w.table
        /\ WriteCell(w, j, bid).cells[j] = bid
        /\ \A k \in 1 .. NCells \ {j} : WriteCell(w, j, bid).cells[k] = w.cells[k]
    BY <1>3, <1>5, WriteKeeps
  <2>2. QED
    BY <2>1, <1>1, <1>5
<1>7. /\ meant' \in [1 .. NCells -> StyleSet] /\ meant'[i] = pen /\ meant'[j] = blank
      /\ \A k \in 1 .. NCells \ {i, j} : meant'[k] = meant[k]
  BY <1>1, <1>2
<1>8. ASSUME ~stale', NEW k \in 1 .. NCells PROVE HasStyle(styles', k, meant'[k])
  <2>1. CASE k = i
    BY <2>1, <1>4, <1>5, <1>6, <1>7 DEF HasStyle
  <2>2. CASE k = j
    <3>1. StyleOf(pg, bid) = blank
      BY <1>1, <1>8
    <3>2. bid < Len(pg.table) /\ pg.table[bid + 1] = blank
      <4>1. Len(pg.table) \in Nat /\ Len(pg.table) > 0 /\ pg.table[1] = Plain
        BY <1>4 DEF GridOK, Listed
      <4>2. CASE bid < Len(pg.table)
        BY <3>1, <4>2 DEF StyleOf
      <4>3. CASE ~(bid < Len(pg.table))
        <5>1. blank = Plain
          BY <3>1, <4>3 DEF StyleOf
        <5>2. bid = 0
          BY <5>1, <1>3
        <5>3. QED
          BY <5>2, <4>1, <4>3
      <4>4. QED
        BY <4>2, <4>3
    <3>3. QED
      BY <2>2, <3>2, <1>6, <1>7 DEF HasStyle
  <2>3. CASE k # i /\ k # j
    <3>1. HasStyle(pg, k, meant[k])
      BY <1>1, <1>3, <1>4, <1>8 DEF StylesInv
    <3>2. meant'[k] = meant[k] /\ styles'.cells[k] = pg.cells[k]
      BY <2>3, <1>5, <1>6, <1>7
    <3>3. QED
      BY <3>1, <3>2, <1>6 DEF HasStyle
  <2>4. QED
    BY <2>1, <2>2, <2>3
<1>9. QED
  BY <1>6, <1>7, <1>8 DEF StylesInv

\* A cell shows the style it was written with, for any pens and any grid that leaves the
\* table room, unless a wrapped blank went stale (Grid::intern_style, compact_styles).
THEOREM CellsShowTheirStyle ==
  ASSUME TableHasRoom
  PROVE  CoreSpec => []StylesKept
<1>0. NCells \in Nat \ {0} /\ MaxIds \in Nat \ {0} /\ MinTable \in Nat
  BY PenAssumption
<1>1. CoreInit => StylesInv
  BY <1>0, StylesBegin DEF CoreInit
<1>2. StylesInv /\ [CoreNext]_cvars => StylesInv'
  <2>1. SUFFICES ASSUME StylesInv, [CoreNext]_cvars PROVE StylesInv'
    OBVIOUS
  <2>2. CASE StylesNext
    <3>1. PICK i \in 1 .. NCells, j \in 1 .. NCells, pen \in Pens :
            \/ PrintCell(i, pen) \/ EraseCells(i, j, pen) \/ (i # j /\ WrapWide(i, j, pen))
      BY <2>2 DEF StylesNext
    <3>2. QED
      BY <2>1, <3>1, <1>0, TableHasRoom, PrintKeeps, EraseKeeps, WrapKeeps
  <2>3. CASE UNCHANGED svars
    BY <2>1, <2>3 DEF svars, StylesInv, GridOK, HasStyle, Listed
  <2>4. QED
    BY <2>1, <2>2, <2>3 DEF CoreNext, cvars
<1>3. StylesInv => StylesKept
  BY DEF StylesInv, StylesKept, CellsKeepTheirStyle, HasStyle, StyleOf
<1>4. QED
  BY <1>1, <1>2, <1>3, PTL DEF CoreSpec
=============================================================================
