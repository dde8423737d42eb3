------------------------------- MODULE Modes -------------------------------
(***************************************************************************)
(* The state of a terminal that its child negotiates and can ask back:     *)
(* modes, the two screens and the switch between them, key flags, tabs,    *)
(* colours, titles, links, and the answers (crates/core/src/dispatch.rs,   *)
(* replies.rs, terminal.rs, kitty_keys.rs, mouse.rs, tabs.rs, colors.rs,   *)
(* events.rs, pwd.rs, hyperlink.rs).                                       *)
(*                                                                         *)
(* The terminal is a record and a command a function of it, as in the      *)
(* code.  One command comes in a read, so the replies and events are what  *)
(* that command gave rise to.  Of a screen's text only whether there is    *)
(* any is kept (`ink`), and where a resize leaves its cursors is left open *)
(* (Screen is about that).  Columns and rows count from 0.                 *)
(***************************************************************************)
EXTENDS Pen, FiniteSets

CONSTANTS Depth,        \* KittyFlagStack::LEN, 8
          Wide, Narrow, \* the columns of DECCOLM, 132 and 80
          TabInterval,  \* 8
          StackCap,     \* the title stack's 10
          MaxLinks, MaxPwd, \* 255 and 2047
          Scenes        \* [cols, rows, reports, ceiling, commands, sizes, max]

ASSUME ModesAssumption ==
  /\ Depth \in Nat \ {0} /\ Wide \in Nat \ {0} /\ Narrow \in Nat \ {0}
  /\ TabInterval \in Nat \ {0} /\ StackCap \in Nat \ {0} /\ MaxLinks \in Nat /\ MaxPwd \in Nat

\* What the parser hands to a command: a missing argument is 0, or 1 where a
\* row is counted from 1 (dispatch.rs, arg_or_zero and arg).
Commands ==
  {"dec", "ansi", "keys", "keypad", "kitty", "sgr", "shape", "decsca", "spa", "cup", "stbm", "csi s",
   "save", "restore", "hts", "tbc", "tab", "backtab", "print", "erase", "ris", "decstr", "rqm", "rqss",
   "dsr", "da", "checksum", "window", "osc 4", "osc 10", "osc 104", "osc 110", "title", "pwd", "link",
   "notify", "bell"}
Dispatched(c) ==
  /\ c[1] \in Commands
  /\ c[1] = "dec" => c[2] \in Seq(Nat) /\ c[3] \in BOOLEAN
  /\ c[1] \in {"cup", "csi s"} => c[2] \in Nat /\ c[3] \in Nat
  /\ c[1] = "stbm" => c[2] \in Nat \ {0} /\ c[3] \in Nat \ {0}
  /\ c[1] = "kitty" => c[4] \in Nat
  /\ c[1] = "window" => c[3] \in Nat /\ c[4] \in Nat
  /\ c[1] = "osc 4" => Len(c[2]) \in Nat
  /\ c[1] = "osc 10" => Len(c[3]) \in Nat
  /\ c[1] = "notify" => c[2] \in {"progress", "cwd", "notify", "clipboard"}

\* A screen has cells, and the embedder stays within the ceiling it set.
ASSUME ScenesAssumption ==
  \A s \in Scenes :
    LET Within(cols, rows) == s.ceiling = <<>> \/ (cols <= s.ceiling[1] /\ rows <= s.ceiling[2]) IN
    /\ s.cols \in Nat \ {0} /\ s.rows \in Nat \ {0} /\ Within(s.cols, s.rows)
    /\ s.ceiling # <<>> => s.ceiling[1] \in Nat /\ s.ceiling[2] \in Nat
    /\ \A size \in s.sizes : size[1] \in Nat /\ size[2] \in Nat /\ Within(size[1], size[2])
    /\ \A c \in s.commands : Dispatched(c)

VARIABLES term, scene, steps,
          shell  \* the primary screen and pen a 1049h left behind: <<>> or <<[..]>>

tvars == <<term, scene, steps, shell>>

-----------------------------------------------------------------------------
(* A new terminal.                                                         *)

Dec(n)  == <<"dec", n>>
Ansi(n) == <<"ansi", n>>
MouseEvents  == [n \in {9, 1000, 1002, 1003} |->
  CASE n = 9 -> "X10" [] n = 1000 -> "Normal" [] n = 1002 -> "Button" [] n = 1003 -> "Any"]
MouseFormats == [n \in {1005, 1006, 1015, 1016} |->
  CASE n = 1005 -> "Utf8" [] n = 1006 -> "Sgr" [] n = 1015 -> "Urxvt" [] n = 1016 -> "SgrPixels"]
PlainModes == {1, 7, 66, 1035, 1036, 25, 4, 5, 67, 40, 2004, 2026, 1007}
AnsiModes  == {2, 4, 12, 20}
NeverModes == {1, 5, 7, 10, 11} \union 13..19

Lowest(m, n) == IF m < n THEN m ELSE n

NewRing == [flags |-> [k \in 0..Depth-1 |-> {}], idx |-> 0]
NewScreen(cols, rows) ==
  [x |-> 0, y |-> 0, pending |-> FALSE, top |-> 0, bottom |-> rows - 1, left |-> 0,
   right |-> cols - 1, saved |-> <<>>, protected |-> "none", kitty |-> NewRing, ink |-> FALSE]
NewTabs(cols) == {x \in 1..cols-1 : x % TabInterval = 0}
NewColors == [fg |-> <<>>, bg |-> <<>>, cursor |-> <<>>, palette |-> <<>>]

New(cols, rows) ==
  [cols |-> cols, rows |-> rows, active |-> "primary",
   screens |-> [s \in {"primary", "alternate"} |-> NewScreen(cols, rows)],
   pen |-> Plain, savedPen |-> <<>>, tabs |-> NewTabs(cols),
   on |-> {Dec(7), Dec(25), Dec(1035), Dec(1036), Dec(1007), Ansi(12)},
   event |-> "None", format |-> "X10", other2 |-> FALSE, shape |-> 0, blink |-> TRUE,
   title |-> "", icon |-> "", stack |-> <<>>, pwd |-> <<"", 0>>, links |-> <<>>, link |-> 0,
   colors |-> NewColors, reports |-> FALSE, ceiling |-> <<>>, replies |-> <<>>, events |-> <<>>]

Here(t) == t.screens[t.active]
OnScreen(t, screen) == [t EXCEPT !.screens[t.active] = screen]
Reply(t, r) == [t EXCEPT !.replies = Append(@, r)]
Raise(t, e) == [t EXCEPT !.events = Append(@, e)]
Turn(t, mode, on) == [t EXCEPT !.on = IF on THEN @ \union {mode} ELSE @ \ {mode}]

-----------------------------------------------------------------------------
(* Cursor, region, margins, tabs.                                          *)

MoveTo(t, s, x, y) ==
  [s EXCEPT !.x = Lowest(x, t.cols - 1), !.y = Lowest(y, t.rows - 1), !.pending = FALSE]
CursorPosition(t, row, col) ==
  LET s == Here(t) IN
  OnScreen(t, IF Dec(6) \in t.on THEN MoveTo(t, s, col, Lowest(s.top + row, s.bottom))
              ELSE MoveTo(t, s, col, row))

SaveCursor(t) ==
  LET s == Here(t) IN
  [OnScreen(t, [s EXCEPT !.saved = <<[x |-> s.x, y |-> s.y, pending |-> s.pending,
                                     protected |-> s.protected]>>])
    EXCEPT !.savedPen = <<t.pen>>]
RestoreCursor(t) ==
  LET s == Here(t)
      c == IF s.saved = <<>> THEN [x |-> 0, y |-> 0, pending |-> FALSE, protected |-> "none"]
           ELSE s.saved[1]
  IN [OnScreen(t, [s EXCEPT !.x = Lowest(c.x, t.cols - 1), !.y = Lowest(c.y, t.rows - 1),
                            !.pending = c.pending, !.protected = c.protected])
       EXCEPT !.pen = IF t.savedPen = <<>> THEN Plain ELSE t.savedPen[1]]

SetScrollRegionPast(t, top, bottom) ==
  IF top >= bottom THEN t
  ELSE CursorPosition(OnScreen(t, [Here(t) EXCEPT !.top = top, !.bottom = bottom]), 0, 0)
SetScrollRegion(t, top, bottom) ==
  IF top >= bottom \/ bottom > t.rows - 1 THEN t
  ELSE CursorPosition(OnScreen(t, [Here(t) EXCEPT !.top = top, !.bottom = bottom]), 0, 0)
ResetMargins(t) == OnScreen(t, [Here(t) EXCEPT !.left = 0, !.right = t.cols - 1])
SetMargins(t, l, r) ==
  LET left  == IF l = 0 THEN 1 ELSE l
      right == IF r = 0 THEN t.cols ELSE Lowest(r, t.cols)
  IN IF left >= right THEN t
     ELSE CursorPosition(OnScreen(t, [Here(t) EXCEPT !.left = left - 1, !.right = right - 1]), 0, 0)

NextTab(t, x) ==
  LET after == {c \in t.tabs : c > x /\ c < t.cols} IN
  IF after = {} THEN t.cols - 1 ELSE CHOOSE c \in after : \A d \in after : c <= d
PreviousTab(t, x) ==
  LET before == {c \in t.tabs : c < x} IN
  IF before = {} THEN 0 ELSE CHOOSE c \in before : \A d \in before : c >= d
Tab(t) == OnScreen(t, [Here(t) EXCEPT !.x = NextTab(t, @)])
BackTab(t) == OnScreen(t, [Here(t) EXCEPT !.x = PreviousTab(t, @), !.pending = FALSE])

\* A printed character that fits; the last column defers its wrap.
Write(t) ==
  LET s == Here(t) IN
  OnScreen(t, [s EXCEPT !.ink = TRUE, !.pending = (s.x = t.cols - 1),
                        !.x = Lowest(s.x + 1, t.cols - 1)])

-----------------------------------------------------------------------------
(* Resizes, resets, the switch of screens: each a set of terminals.        *)

Positions(cols, rows) == (0..cols-1) \X (0..rows-1)
RefitAt(s, cols, rows, p, saved) ==
  [s EXCEPT !.x = p[1], !.y = p[2], !.top = 0, !.bottom = rows - 1, !.left = 0,
            !.right = cols - 1, !.saved = saved]
Refitted(s, cols, rows) ==
  LET places == {<<[x |-> q[1], y |-> q[2], pending |-> s.saved[1].pending,
                   protected |-> s.saved[1].protected]>> : q \in Positions(cols, rows)}
      home   == <<[x |-> 0, y |-> 0, pending |-> FALSE, protected |-> "none"]>>
  IN {RefitAt(s, cols, rows, p, saved) :
        p \in Positions(cols, rows),
        saved \in IF s.saved = <<>> THEN {<<>>} ELSE places \union {home}}

ResizedWith(t, cols, rows, a, b) ==
  [t EXCEPT !.cols = cols, !.rows = rows, !.on = @ \ {Dec(2026)},
            !.tabs = IF cols = t.cols THEN @ ELSE NewTabs(cols),
            !.screens = [primary |-> a, alternate |-> b]]
Resized(t, cols, rows) ==
  IF cols = 0 \/ rows = 0 THEN {t}
  ELSE {ResizedWith(t, cols, rows, a, b) :
          a \in Refitted(t.screens.primary, cols, rows),
          b \in Refitted(t.screens.alternate, cols, rows)}

\* A resize the child asks for is refused whole past the ceiling.
ChildResizeUncapped(t, cols, rows) == [done |-> TRUE, to |-> Resized(t, cols, rows)]
ChildResize(t, cols, rows) ==
  IF t.ceiling # <<>> /\ (cols > t.ceiling[1] \/ rows > t.ceiling[2])
  THEN [done |-> FALSE, to |-> {t}]
  ELSE [done |-> TRUE, to |-> Resized(t, cols, rows)]

EraseComplete(t) == OnScreen(t, [Here(t) EXCEPT !.ink = FALSE])

Deccolm(t, wide) ==
  IF Dec(40) \notin t.on THEN {Turn(t, Dec(3), FALSE)}
  ELSE LET r == ChildResize(t, IF wide THEN Wide ELSE Narrow, t.rows) IN
       IF ~r.done THEN r.to
       ELSE {CursorPosition(EraseComplete(Turn(u, Dec(3), wide)), 0, 0) : u \in r.to}

\* The embedder's grants and the colours outlive a RIS.
FullReset(t) ==
  [New(t.cols, t.rows) EXCEPT !.reports = t.reports, !.ceiling = t.ceiling, !.colors = t.colors]

\* Of the screens only the active one.
SoftReset(t) ==
  LET s == Here(t) IN
  [OnScreen(t, [s EXCEPT !.protected = "none", !.top = 0, !.bottom = t.rows - 1, !.left = 0,
                         !.right = t.cols - 1, !.pending = FALSE, !.saved = <<>>])
    EXCEPT !.on = (@ \union {Dec(25), Dec(7)}) \ {Dec(6), Dec(1), Dec(66), Dec(69)},
           !.pen = Plain, !.savedPen = <<>>]

\* The region is carried over, the cursor too but for the return of a 1049.
CopyCursorAcross(t, from) == OnScreen(t, MoveTo(t, Here(t), from.x, from.y))
Switched(t, to) ==
  IF t.active = to THEN t
  ELSE [t EXCEPT !.active = to, !.screens[to].top = Here(t).top, !.screens[to].bottom = Here(t).bottom]

SwitchCopyingBack(t, mode, on) ==
  LET from  == IF mode = 1047 /\ ~on /\ t.active = "alternate" THEN EraseComplete(t)
               ELSE IF mode = 1049 /\ on THEN SaveCursor(t) ELSE t
      there == Switched(from, IF on THEN "alternate" ELSE "primary")
      over  == IF there.active # t.active THEN CopyCursorAcross(there, Here(t)) ELSE there
  IN IF mode = 1049 /\ on THEN EraseComplete(over) ELSE over
SwitchScreen(t, mode, on) ==
  LET from  == IF mode = 1047 /\ ~on /\ t.active = "alternate" THEN EraseComplete(t)
               ELSE IF mode = 1049 /\ on THEN SaveCursor(t) ELSE t
      there == Switched(from, IF on THEN "alternate" ELSE "primary")
      over  == IF there.active # t.active THEN CopyCursorAcross(there, Here(t)) ELSE there
  IN CASE mode # 1049 -> over
       [] mode = 1049 /\ on -> EraseComplete(over)
       [] mode = 1049 /\ ~on -> RestoreCursor(there)

-----------------------------------------------------------------------------
(* Modes.                                                                  *)

\* MouseModes::set: the raw bit, and the last writer's kind or encoding.
SetMouse(t, n, on) ==
  [Turn(t, Dec(n), on) EXCEPT
    !.event  = IF n \notin DOMAIN MouseEvents THEN @ ELSE IF on THEN MouseEvents[n] ELSE "None",
    !.format = IF n \notin DOMAIN MouseFormats THEN @ ELSE IF on THEN MouseFormats[n] ELSE "X10"]

SetMode(t, n, on) ==
  CASE n \in PlainModes -> {Turn(t, Dec(n), on)}
    [] n \in DOMAIN MouseEvents \union DOMAIN MouseFormats -> {SetMouse(t, n, on)}
    [] n = 6  -> {CursorPosition(Turn(t, Dec(6), on), 0, 0)}
    [] n = 69 -> {IF on THEN Turn(t, Dec(69), TRUE) ELSE ResetMargins(Turn(t, Dec(69), FALSE))}
    [] n = 3  -> Deccolm(t, on)
    [] n = 1048 -> {IF on THEN SaveCursor(t) ELSE RestoreCursor(t)}
    [] n \in {47, 1047, 1049} -> {SwitchScreen(t, n, on)}
    [] OTHER -> {t}

\* CSI ? Pm h / l: one after the other.
ModesSet(t, list, on) ==
  LET after[k \in 0..Len(list)] ==
        IF k = 0 THEN {t} ELSE UNION {SetMode(u, list[k], on) : u \in after[k - 1]}
  IN after
SetModes(t, list, on) == ModesSet(t, list, on)[Len(list)]

SetAnsiMode(t, n, on) == IF n \in AnsiModes THEN Turn(t, Ansi(n), on) ELSE t

ModifyKeyFormat(t, args) ==
  IF Len(args) > 2 \/ args[1] \notin {0, 1, 2, 4} THEN t
  ELSE [t EXCEPT !.other2 = (args = <<4, 2>>)]

\* The kitty flags: a ring, its newest entry at idx.
RingPush(r, f) ==
  LET i == (r.idx + 1) % Depth IN [flags |-> [r.flags EXCEPT ![i] = f], idx |-> i]
RingPopKeeping(r, n) == [r EXCEPT !.idx = (@ + Depth - (n % Depth)) % Depth]
RingPop(r, n) ==
  IF n >= Depth THEN NewRing
  ELSE LET popped == {(r.idx + Depth - k) % Depth : k \in 0..n-1} IN
       [flags |-> [k \in DOMAIN r.flags |-> IF k \in popped THEN {} ELSE r.flags[k]],
        idx   |-> (r.idx + Depth - n) % Depth]
RingCurrent(r) == r.flags[r.idx]
RingSet(r, how, f) ==
  [r EXCEPT !.flags[r.idx] = CASE how = 1 -> f [] how = 2 -> @ \union f [] how = 3 -> @ \ f]

\* Flags past the five bits or an unknown way spoil the command.
Kitty(t, op, f, n) ==
  LET ring == Here(t).kitty
      Now(r) == OnScreen(t, [Here(t) EXCEPT !.kitty = r])
  IN CASE op = "?" -> Reply(t, <<"kitty", RingCurrent(ring)>>)
       [] op = ">" /\ f \subseteq 1..5 -> Now(RingPush(ring, f))
       [] op = "<" -> Now(RingPop(ring, IF n = 0 THEN 1 ELSE n))
       [] op = "=" /\ f \subseteq 1..5 /\ n \in 1..3 -> Now(RingSet(ring, n, f))
       [] OTHER -> t

-----------------------------------------------------------------------------
(* Colours.                                                                *)

\* A channel of n hexadecimal digits; intensities are in thousandths.
HexChannel(n, v) == (v * 255) \div (16 ^ n - 1)
ParseSpec(spec) ==
  CASE spec[1] = "hex" /\ spec[2] \in 1..4 ->
         <<<<"rgb", HexChannel(spec[2], spec[3]), HexChannel(spec[2], spec[4]), HexChannel(spec[2], spec[5])>>>>
    [] spec[1] = "bare" /\ spec[2] \in 1..2 ->
         <<<<"rgb", HexChannel(spec[2], spec[3]), HexChannel(spec[2], spec[4]), HexChannel(spec[2], spec[5])>>>>
    [] spec[1] = "rgbi" /\ \A k \in 2..4 : spec[k] <= 1000 ->
         <<<<"rgb", (spec[2] * 255) \div 1000, (spec[3] * 255) \div 1000, (spec[4] * 255) \div 1000>>>>
    [] OTHER -> <<>>

DefaultPalette(i) == <<"rgb", i, i, i>>
PaletteColor(c, i) ==
  LET set == SelectSeq(c.palette, LAMBDA e : e[1] = i) IN
  IF set = <<>> THEN DefaultPalette(i) ELSE set[1][2]
ResetPalette(c, i) == [c EXCEPT !.palette = SelectSeq(@, LAMBDA e : e[1] # i)]
SetPalette(c, i, color) ==
  [c EXCEPT !.palette = Append(SelectSeq(@, LAMBDA e : e[1] # i), <<i, color>>)]

ColorReplyShort(osc, i, color) ==
  <<"color", osc, i, <<"hex", 4, color[2] * 256, color[3] * 256, color[4] * 256>>>>

\* rgb:rrrr/gggg/bbbb, each channel 257 times itself.
ColorReply(osc, i, color) ==
  <<"color", osc, i, <<"hex", 4, color[2] * 257, color[3] * 257, color[4] * 257>>>>

\* OSC 4: pairs of an index and a spec; the first that cannot be read ends it.
Osc4Pair(acc, p) ==
  CASE acc.end -> acc
    [] ~acc.end /\ p[1] > 260 -> [acc EXCEPT !.end = TRUE]
    [] ~acc.end /\ p[1] \in 256..260 -> IF p[2][1] # "?" /\ ParseSpec(p[2]) = <<>>
                                        THEN [acc EXCEPT !.end = TRUE] ELSE acc
    [] OTHER ->
         IF p[2][1] = "?"
         THEN [acc EXCEPT !.t = Reply(@, ColorReply(4, p[1], PaletteColor(@.colors, p[1])))]
         ELSE IF ParseSpec(p[2]) = <<>> THEN [acc EXCEPT !.end = TRUE]
         ELSE [acc EXCEPT !.t.colors = SetPalette(@, p[1], ParseSpec(p[2])[1])]
PairsRead(t, pairs) ==
  LET after[k \in 0..Len(pairs)] ==
        IF k = 0 THEN [t |-> t, end |-> FALSE] ELSE Osc4Pair(after[k - 1], pairs[k])
  IN after
Osc4(t, pairs) == PairsRead(t, pairs)[Len(pairs)].t

Dynamic == [n \in 10..12 |-> CASE n = 10 -> "fg" [] n = 11 -> "bg" [] n = 12 -> "cursor"]
\* The cursor's colour, asked for, falls back on the foreground's.
DynamicColor(c, n) ==
  IF n \notin DOMAIN Dynamic THEN <<>>
  ELSE IF n = 12 /\ c.cursor = <<>> THEN c.fg ELSE c[Dynamic[n]]
OscDynamicSpec(acc, n, spec) ==
  CASE acc.end \/ n > 19 -> [acc EXCEPT !.end = TRUE]
    [] ~(acc.end \/ n > 19) /\ spec[1] = "?" ->
         IF DynamicColor(acc.t.colors, n) = <<>> THEN acc
         ELSE [acc EXCEPT !.t = Reply(@, ColorReply(n, 0, DynamicColor(@.colors, n)[1]))]
    [] OTHER ->
         IF ParseSpec(spec) = <<>> THEN [acc EXCEPT !.end = TRUE]
         ELSE IF n \notin DOMAIN Dynamic THEN acc
         ELSE [acc EXCEPT !.t.colors[Dynamic[n]] = ParseSpec(spec)]
SpecsRead(t, start, specs) ==
  LET after[k \in 0..Len(specs)] ==
        IF k = 0 THEN [t |-> t, end |-> FALSE]
        ELSE OscDynamicSpec(after[k - 1], start + k - 1, specs[k])
  IN after
OscDynamic(t, start, specs) == SpecsRead(t, start, specs)[Len(specs)].t

\* OSC 104 and 110-112.
Osc104(t, list) ==
  IF list = <<>> THEN [t EXCEPT !.colors.palette = <<>>]
  ELSE [t EXCEPT !.colors = FoldLeft(LAMBDA c, i : ResetPalette(c, i), @, list)]
OscResetDynamic(t, n) ==
  IF n - 100 \in DOMAIN Dynamic THEN [t EXCEPT !.colors[Dynamic[n - 100]] = <<>>] ELSE t

-----------------------------------------------------------------------------
(* Titles, working directory, links, notifications.                        *)

OscTitle(t, which, title) ==
  LET u == IF which # 2 THEN [t EXCEPT !.icon = title] ELSE t IN
  IF which = 1 THEN u ELSE Raise([u EXCEPT !.title = title], <<"title", title>>)
PushTitle(t, which) ==
  LET entry == [icon |-> IF which = 2 THEN "" ELSE t.icon, title |-> IF which = 1 THEN "" ELSE t.title]
  IN [t EXCEPT !.stack = Append(IF Len(@) >= StackCap THEN Tail(@) ELSE @, entry)]
PopTitle(t, which) ==
  IF t.stack = <<>> THEN t
  ELSE LET entry == t.stack[Len(t.stack)]
           u == [t EXCEPT !.stack = Front(@), !.icon = IF which = 2 THEN @ ELSE entry.icon]
       IN IF which = 1 THEN u ELSE Raise([u EXCEPT !.title = entry.title], <<"title", entry.title>>)

\* A path is its name and its length; too long a report is none.
OscPwd(t, path) == IF path[2] > MaxPwd THEN t ELSE Raise([t EXCEPT !.pwd = path], <<"pwd", path>>)

\* `link` is an index from 1, 0 none; an id and a uri are one link.
OscHyperlink(t, id, uri) ==
  LET entry == <<id, uri>> IN
  CASE uri = "" -> [t EXCEPT !.link = 0]
    [] uri # "" /\ entry \in ToSet(t.links) ->
         [t EXCEPT !.link = CHOOSE k \in DOMAIN t.links : t.links[k] = entry]
    [] uri # "" /\ entry \notin ToSet(t.links) /\ Len(t.links) < MaxLinks ->
         [t EXCEPT !.links = Append(@, entry), !.link = Len(t.links) + 1]
    [] OTHER -> [t EXCEPT !.link = 0]

\* OSC 9: progress, ConEmu's directory, or a notification that says something.
OscNotify(t, kind, arg) ==
  CASE kind = "progress" -> Raise(t, <<"progress", Lowest(arg[1], 4), Lowest(arg[2], 100)>>)
    [] kind = "cwd" -> OscPwd(t, arg)
    [] kind = "notify" -> IF arg = <<"", "">> THEN t ELSE Raise(t, <<"notify", arg>>)
    [] kind = "clipboard" -> IF arg \in {"?", "bad"} THEN t ELSE Raise(t, <<"clipboard", arg>>)

-----------------------------------------------------------------------------
(* Answers.                                                                *)

\* DECRPM: 1 set, 2 reset, 4 never set, 0 unknown.
ModeState(t, mode) ==
  LET Bool(b) == IF b THEN 1 ELSE 2
      n == mode[2]
  IN CASE mode[1] = "ansi" /\ n \in AnsiModes -> Bool(mode \in t.on)
       [] mode[1] = "ansi" /\ n \in NeverModes -> 4
       [] mode[1] = "dec" /\ n \in {47, 1047, 1049} -> Bool(t.active = "alternate")
       [] mode[1] = "dec" /\ n \in PlainModes \union DOMAIN MouseEvents \union DOMAIN MouseFormats
                                     \union {3, 6, 69} -> Bool(mode \in t.on)
       [] OTHER -> 0
ModeReport(t, mode) == Reply(t, <<"mode", mode, ModeState(t, mode)>>)

SetCursorShape(t, n) ==
  CASE n \in {0, 1} -> [t EXCEPT !.shape = 0, !.blink = TRUE]
    [] n \in 2..6 -> [t EXCEPT !.shape = (n - 1) \div 2, !.blink = (n % 2 = 1)]
    [] OTHER -> t
SetProtection(t, n) ==
  CASE n \in {0, 2} -> OnScreen(t, [Here(t) EXCEPT !.protected = "none"])
    [] n = 1 -> OnScreen(t, [Here(t) EXCEPT !.protected = "dec"])
    [] OTHER -> t

\* DECRQSS; <<>> is the invalid answer.
Setting(t, name) ==
  LET s == Here(t) IN
  CASE name = "m"  -> <<SgrReport(t.pen)>>
    [] name = "r"  -> <<<<s.top + 1, s.bottom + 1>>>>
    [] name = "s"  -> IF Dec(69) \in t.on THEN <<<<s.left + 1, s.right + 1>>>> ELSE <<>>
    [] name = "q"  -> <<2 * t.shape + (IF t.blink THEN 1 ELSE 2)>>
    [] name = "\"q" -> <<IF s.protected = "dec" THEN 1 ELSE 0>>
    [] OTHER -> <<>>
SettingReport(t, name) == Reply(t, <<"setting", name, Setting(t, name)>>)

CursorReport(t) ==
  LET s   == Here(t)
      row == IF Dec(6) \in t.on THEN (IF s.y < s.top THEN 0 ELSE s.y - s.top) ELSE s.y
  IN Reply(t, <<"cursor", row + 1, s.x + 1>>)
StatusReport(t, n) == CASE n = 5 -> Reply(t, <<"ok">>) [] n = 6 -> CursorReport(t) [] OTHER -> t
Attributes(t, kind) == Reply(t, <<"attributes", kind>>)

\* What the child may read of the screen only with the embedder's grant.
Granted(t, r) == IF t.reports THEN Reply(t, r) ELSE t
Checksum(t) == Granted(t, <<"checksum", Here(t).ink>>)
WindowReport(t, op, a, b) ==
  CASE op = 8 /\ t.reports /\ ((a # 0 /\ a # t.rows) \/ (b # 0 /\ b # t.cols)) ->
         ChildResize(t, IF b = 0 THEN t.cols ELSE b, IF a = 0 THEN t.rows ELSE a).to
    [] op = 18 -> {Granted(t, <<"size", t.rows, t.cols>>)}
    [] op = 20 -> {Granted(t, <<"icon", t.icon>>)}
    [] op = 21 -> {Granted(t, <<"title", t.title>>)}
    [] op = 22 -> {PushTitle(t, a)}
    [] op = 23 -> {PopTitle(t, a)}
    [] OTHER -> {t}

-----------------------------------------------------------------------------
(* The table of commands.                                                  *)

Do(t, c) ==
  CASE c[1] = "dec"    -> SetModes(t, c[2], c[3])
    [] c[1] = "ansi"   -> {SetAnsiMode(t, c[2], c[3])}
    [] c[1] = "keys"   -> {ModifyKeyFormat(t, c[2])}
    [] c[1] = "keypad" -> {Turn(t, Dec(66), c[2])}
    [] c[1] = "kitty"  -> {Kitty(t, c[2], c[3], c[4])}
    [] c[1] = "sgr"    -> {[t EXCEPT !.pen = Sgr(@, c[2])]}
    [] c[1] = "shape"  -> {SetCursorShape(t, c[2])}
    [] c[1] = "decsca" -> {SetProtection(t, c[2])}
    [] c[1] = "spa"    -> {OnScreen(t, [Here(t) EXCEPT !.protected = IF c[2] THEN "iso" ELSE "none"])}
    [] c[1] = "cup"    -> {CursorPosition(t, c[2], c[3])}
    [] c[1] = "stbm"   -> {SetScrollRegion(t, c[2] - 1, c[3] - 1)}
    [] c[1] = "csi s"  -> {IF Dec(69) \in t.on THEN SetMargins(t, c[2], c[3]) ELSE SaveCursor(t)}
    [] c[1] = "save"   -> {SaveCursor(t)}
    [] c[1] = "restore" -> {RestoreCursor(t)}
    [] c[1] = "hts"    -> {[t EXCEPT !.tabs = @ \union {Here(t).x}]}
    [] c[1] = "tbc"    -> {[t EXCEPT !.tabs = CASE c[2] = 0 -> @ \ {Here(t).x} [] c[2] = 3 -> {} [] OTHER -> @]}
    [] c[1] = "tab"    -> {Tab(t)}
    [] c[1] = "backtab" -> {BackTab(t)}
    [] c[1] = "print"  -> {Write(t)}
    [] c[1] = "erase"  -> {EraseComplete(t)}
    [] c[1] = "ris"    -> {FullReset(t)}
    [] c[1] = "decstr" -> {SoftReset(t)}
    [] c[1] = "rqm"    -> {ModeReport(t, c[2])}
    [] c[1] = "rqss"   -> {SettingReport(t, c[2])}
    [] c[1] = "dsr"    -> {StatusReport(t, c[2])}
    [] c[1] = "da"     -> {Attributes(t, c[2])}
    [] c[1] = "checksum" -> {Checksum(t)}
    [] c[1] = "window" -> WindowReport(t, c[2], c[3], c[4])
    [] c[1] = "osc 4"  -> {Osc4(t, c[2])}
    [] c[1] = "osc 10" -> {OscDynamic(t, c[2], c[3])}
    [] c[1] = "osc 104" -> {Osc104(t, c[2])}
    [] c[1] = "osc 110" -> {OscResetDynamic(t, c[2])}
    [] c[1] = "title"  -> {OscTitle(t, c[2], c[3])}
    [] c[1] = "pwd"    -> {OscPwd(t, c[2])}
    [] c[1] = "link"   -> {OscHyperlink(t, c[2], c[3])}
    [] c[1] = "notify" -> {OscNotify(t, c[2], c[3])}
    [] c[1] = "bell"   -> {Raise(t, <<"bell">>)}

-----------------------------------------------------------------------------
(* Behaviour.                                                              *)

ModesInit ==
  /\ scene \in Scenes /\ steps = 0 /\ shell = <<>>
  /\ term = [New(scene.cols, scene.rows) EXCEPT !.reports = scene.reports, !.ceiling = scene.ceiling]

\* What the 1049h that leaves the primary screen leaves behind, until the
\* screens are laid out anew or the terminal is reset; `back`: 1049l came.
Left(t, c, u) ==
  LET swap == c[1] = "dec" /\ c[2] = <<1049>> IN
  IF c[1] = "ris" \/ <<t.cols, t.rows>> # <<u.cols, u.rows>> \/ (c[1] = "dec" /\ 3 \in ToSet(c[2]))
  THEN <<>>
  ELSE IF swap /\ c[3] /\ t.active = "primary"
  THEN <<[screen |-> u.screens.primary, pen |-> u.pen, resaved |-> FALSE, back |-> FALSE]>>
  ELSE IF swap /\ ~c[3] /\ t.active = "alternate"
  THEN [k \in DOMAIN shell |-> [shell[k] EXCEPT !.back = TRUE]]
  ELSE IF u.active = "primary" \/ \E k \in DOMAIN shell : shell[k].back THEN <<>>
  ELSE [k \in DOMAIN shell |-> [shell[k] EXCEPT !.resaved = @ \/ u.savedPen # t.savedPen]]

\* The child's next command; the pump has taken the replies and events before.
Command ==
  /\ steps < scene.max
  /\ \E c \in scene.commands :
       \E u \in Do([term EXCEPT !.replies = <<>>, !.events = <<>>], c) :
         /\ term' = u
         /\ shell' = Left(term, c, u)
  /\ steps' = steps + 1
  /\ UNCHANGED scene

\* The embedder's resize, within the capacity it made the ceiling from.
HostResize ==
  /\ steps < scene.max
  /\ \E size \in scene.sizes : \E u \in Resized(term, size[1], size[2]) : term' = u
  /\ shell' = <<>> /\ steps' = steps + 1
  /\ UNCHANGED scene

ModesNext == Command \/ HostResize

-----------------------------------------------------------------------------
(* Properties.                                                             *)

ModesTypeOK ==
  /\ term.active \in {"primary", "alternate"}
  /\ \A s \in DOMAIN term.screens :
       LET w == term.screens[s] IN
       /\ w.x \in 0..term.cols-1 /\ w.y \in 0..term.rows-1
       /\ 0 <= w.top /\ w.top <= w.bottom /\ w.bottom < term.rows
       /\ 0 <= w.left /\ w.left <= w.right /\ w.right < term.cols
       /\ w.kitty.idx \in 0..Depth-1
  /\ Len(term.stack) <= StackCap /\ Len(term.links) <= MaxLinks /\ term.link \in 0..Len(term.links)

\* What the terminal answers is what would make it so again: the pen, cursor
\* shape, region, margins, key flags, modes, colours and the cursor's place, set
\* from their reports, are the ones in force (DECRQSS, DECRQM, CPR, OSC 4 and
\* 10-12, the kitty query against the commands they name).
ReportsRestore ==
  LET fresh  == New(term.cols, term.rows)
      s      == Here(term)
      Asked(t, c)  == (CHOOSE u \in Do([t EXCEPT !.replies = <<>>], c) : TRUE).replies
      Answer(c)    == Asked(term, c)[1]
      Made(t, c)   == CHOOSE u \in Do(t, c) : TRUE
      Value(name)  == Setting(term, name)[1]
      colors == term.colors
  IN /\ \A pen \in {Plain, [term.pen EXCEPT !.flags = {"bold", "overline"}, !.fg = Palette(9)]} :
          Sgr(pen, Value("m")) = Reported(term.pen)
     /\ LET u == SetCursorShape(fresh, Value("q")) IN u.shape = term.shape /\ u.blink = term.blink
     /\ s.protected # "iso" =>
          Here(SetProtection(OnScreen(fresh, [Here(fresh) EXCEPT !.protected = "dec"]), Value("\"q"))).protected
            = s.protected
     /\ LET u == Here(SetScrollRegion(fresh, Value("r")[1] - 1, Value("r")[2] - 1)) IN
          u.top = s.top /\ u.bottom = s.bottom
     /\ Dec(69) \in term.on =>
          LET u == Here(SetMargins(fresh, Value("s")[1], Value("s")[2])) IN
          u.left = s.left /\ u.right = s.right
     /\ \A n \in PlainModes \ {3} :
          ModeState(Made(fresh, <<"dec", <<n>>, ModeState(term, Dec(n)) = 1>>), Dec(n))
            = ModeState(term, Dec(n))
     /\ RingCurrent(Here(Kitty(fresh, "=", Answer(<<"kitty", "?", {}, 0>>)[2], 1)).kitty)
          = RingCurrent(s.kitty)
     /\ \A e \in ToSet(colors.palette) :
          ParseSpec(Answer(<<"osc 4", <<<<e[1], <<"?">>>>>>>>)[4]) = <<e[2]>>
     /\ \A n \in DOMAIN Dynamic : colors[Dynamic[n]] # <<>> =>
          ParseSpec(Answer(<<"osc 10", n, <<<<"?">>>>>>)[4]) = colors[Dynamic[n]]
     /\ (Dec(6) \in term.on => s.y \in s.top..s.bottom) =>
          LET r == Answer(<<"dsr", 6>>)
              u == Here(CursorPosition(term, r[2] - 1, r[3] - 1))
          IN u.x = s.x /\ u.y = s.y

\* The child can neither outgrow the frame channel, nor read back the screen or
\* the titles without the embedder's grant, nor change the grant or the ceiling,
\* by any sequence of commands, RIS included (child_resize, reports_enabled).
GrantsHold ==
  /\ term.reports = scene.reports /\ term.ceiling = scene.ceiling
  /\ term.ceiling # <<>> => term.cols <= term.ceiling[1] /\ term.rows <= term.ceiling[2]
  /\ ~term.reports => \A r \in ToSet(term.replies) : r[1] \notin {"checksum", "size", "icon", "title"}

\* A program that takes the alternate screen with 1049h and gives it back with
\* 1049l leaves the primary as it was, whatever it did between, other switches
\* and pushed key flags included: text, cursor, protection, margins, key flags;
\* and the pen too unless something saved a cursor meanwhile (the saved pen is
\* one for both screens).
ShellComesBack ==
  \A k \in DOMAIN shell : shell[k].back =>
    LET now == term.screens.primary  old == shell[k].screen IN
    /\ now = [old EXCEPT !.top = now.top, !.bottom = now.bottom]
    /\ term.pen = shell[k].pen \/ shell[k].resaved

\* Each screen's ring of key flags is a stack of the newest Depth entries.
Unrolled(r) == [k \in 1..Depth |-> r.flags[(r.idx + Depth - (k - 1)) % Depth]]
PrimaryFlags   == INSTANCE FlagStack WITH stack <- Unrolled(term.screens.primary.kitty),
                                          Entries <- SUBSET (1..5), None <- {}
AlternateFlags == INSTANCE FlagStack WITH stack <- Unrolled(term.screens.alternate.kitty),
                                          Entries <- SUBSET (1..5), None <- {}
KeyFlagsStack == PrimaryFlags!Spec /\ AlternateFlags!Spec
=============================================================================
