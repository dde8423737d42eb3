------------------------------- MODULE MCCore -------------------------------
EXTENDS Core

MCPens == {Plain, [Plain EXCEPT !.fg = Palette(1)], [Plain EXCEPT !.bg = Palette(2)],
           [Plain EXCEPT !.fg = Palette(1), !.bg = Palette(3)]}

DecSet(ns)   == {<<"dec", <<n>>, b>> : n \in ns, b \in BOOLEAN}
Scene(cols, rows, commands, max) ==
  [cols |-> cols, rows |-> rows, reports |-> FALSE, ceiling |-> <<>>, commands |-> commands,
   sizes |-> {}, max |-> max]

\* Switches of the screen and what they carry, save and lose.
Switching ==
  DecSet({47, 1047, 1049, 1048, 6, 69}) \union
  {<<"print">>, <<"cup", 1, 1>>, <<"save">>, <<"restore">>, <<"stbm", 1, 2>>, <<"csi s", 1, 2>>,
   <<"sgr", <<<<1>>>>>>, <<"sgr", <<<<31>>>>>>, <<"decsca", 1>>, <<"kitty", ">", {1}, 0>>, <<"decstr">>, <<"ris">>}

\* Each mode, asked and set.
EveryMode ==
  DecSet(PlainModes \union {9, 1000, 1003, 1005, 1006, 1016}) \union
  {<<"ansi", n, b>> : n \in {4, 7}, b \in BOOLEAN} \union {<<"keypad", b>> : b \in BOOLEAN} \union
  {<<"rqm", Dec(1002)>>, <<"rqm", Ansi(20)>>, <<"rqm", Ansi(13)>>, <<"rqm", Dec(99)>>,
   <<"dec", <<1000, 6, 1002>>, TRUE>>, <<"keys", <<4, 2>>>>, <<"keys", <<1>>>>, <<"keys", <<3>>>>,
   <<"decstr">>, <<"ris">>, <<"da", "primary">>, <<"dsr", 5>>, <<"dsr", 7>>}

\* Renditions whole, cut short, of unknown kinds, past a byte.
Renditions ==
  {<<"sgr", items>> : items \in
    {<<<<c>>>> : c \in {0, 1, 2, 5, 7, 8, 9, 4, 21, 22, 23, 24, 25, 27, 28, 29, 53, 55, 39, 49, 59, 33, 45, 97, 104}} \union
    {<<<<4, k>>>> : k \in {0, 3, 5, 7}} \union
    {<<<<38>>, <<5>>, <<12>>, <<3>>>>, <<<<48>>, <<5>>, <<300>>>>, <<<<38>>, <<2>>, <<1>>, <<2>>, <<700>>, <<1>>>>,
     <<<<38, 5, 9>>>>, <<<<48, 2, 1, 2, 3>>>>, <<<<58, 2, 0, 1, 2, 3>>, <<1>>>>, <<<<38, 2, 1>>, <<7>>>>,
     <<<<38>>, <<5>>>>, <<<<48>>, <<2>>, <<4>>>>, <<<<38>>, <<7>>, <<1>>>>}}

Keys == {<<"kitty", op, f, 0>> : op \in {">"}, f \in {{1}, {2}, {1, 2}, {6}}} \union
        {<<"kitty", "<", {}, n>> : n \in 0..3} \union
        {<<"kitty", "=", f, n>> : f \in {{1}, {2}}, n \in 1..4} \union {<<"kitty", "?", {}, 0>>} \union
        DecSet({47})

Rgb(kind, n, v) == <<kind, n, v, 0, v>>
Painting ==
  {<<"osc 4", <<<<i, s>>>>>> : i \in {1, 256, 300}, s \in {<<"?">>, Rgb("hex", 1, 7), Rgb("bad", 0, 0)}} \union
  {<<"osc 4", <<<<1, Rgb("bare", 2, 200)>>, <<300, <<"?">>>>, <<2, <<"?">>>>>>>>,
   <<"osc 4", <<<<2, Rgb("hex", 4, 65535)>>, <<1, <<"?">>>>>>>>,
   <<"osc 104", <<>>>>, <<"osc 104", <<1, 2>>>>} \union
  {<<"osc 10", n, <<s>>>> : n \in {10, 12, 13}, s \in {<<"?">>, Rgb("hex", 3, 4000), Rgb("hex", 5, 1)}} \union
  {<<"osc 10", 10, <<<<"rgbi", 1000, 500, 3>>, Rgb("hex", 2, 9), <<"?">>>>>>,
   <<"osc 10", 18, <<<<"?">>, Rgb("hex", 1, 1), Rgb("hex", 1, 1)>>>>} \union
  {<<"osc 110", n>> : n \in {110, 112, 113}} \union {<<"ris">>}

Naming ==
  {<<"title", w, s>> : w \in 0..2, s \in {"a", "b"}} \union
  {<<"window", op, w, 0>> : op \in {22, 23}, w \in 0..2} \union
  {<<"window", op, 0, 0>> : op \in {18, 20, 21, 99}} \union {<<"checksum">>, <<"ris">>}

Links ==
  {<<"link", id, uri>> : id \in {"", "i"}, uri \in {"", "u", "v"}} \union
  {<<"pwd", <<"p", 5>>>>, <<"pwd", <<"q", 6>>>>, <<"notify", "cwd", <<"r", 1>>>>,
   <<"notify", "progress", <<9, 900>>>>, <<"notify", "notify", <<"", "">>>>, <<"notify", "notify", <<"", "b">>>>,
   <<"notify", "clipboard", "?">>, <<"notify", "clipboard", "c">>, <<"bell">>, <<"ris">>}

Looks ==
  {<<"shape", n>> : n \in 0..7} \union {<<"decsca", n>> : n \in 0..3} \union {<<"spa", b>> : b \in BOOLEAN} \union
  {<<"rqss", n>> : n \in {"m", "r", "s", "q", "\"q", "z"}} \union
  {<<"stbm", 2, 3>>, <<"stbm", 2, 4>>, <<"stbm", 3, 2>>, <<"csi s", 0, 0>>, <<"csi s", 2, 4>>, <<"csi s", 2, 2>>} \union
  DecSet({69, 6}) \union
  {<<"tab">>, <<"backtab">>, <<"hts">>, <<"tbc", 0>>, <<"tbc", 3>>, <<"tbc", 1>>, <<"cup", 1, 1>>, <<"print">>,
   <<"dsr", 6>>}

\* Resizes by the child and by the host, with and without a ceiling and a grant.
Sizing ==
  DecSet({3, 40, 1049, 2026}) \union
  {<<"window", 8, 0, 3>>, <<"window", 8, 1, 0>>, <<"window", 8, 0, 0>>, <<"save">>, <<"restore">>,
   <<"dec", <<40, 3>>, TRUE>>, <<"window", 18, 0, 0>>, <<"checksum">>, <<"print">>, <<"ris">>}

MCScenes ==
  {Scene(2, 2, Switching, 4), Scene(4, 3, Looks, 4), Scene(1, 1, EveryMode, 3),
   Scene(1, 1, Renditions, 3), Scene(1, 1, Keys, 5), Scene(1, 1, Painting, 3),
   Scene(1, 1, Naming, 4), Scene(1, 1, Links, 4)} \union
  {[Scene(1, 1, Sizing, 4) EXCEPT !.sizes = {<<1, 1>>, <<2, 1>>, <<0, 1>>}, !.reports = r, !.ceiling = c] :
     r \in BOOLEAN, c \in {<<>>, <<2, 1>>}}

K(id) == [id |-> id, display |-> FALSE, medium |-> "direct", format |-> 32, w |-> 1, h |-> 1, more |-> FALSE,
          quiet |-> 0, rows |-> 0, z |-> 0, virtual |-> FALSE]
Bytes(n) == [token |-> 0, bytes |-> n, valid |-> TRUE, png |-> <<>>]
MCAlbums ==
  { [commands |-> {<<"query", K(3), Bytes(4)>>, <<"query", [K(3) EXCEPT !.medium = "file"], Bytes(4)>>, <<"query", K(3), Bytes(5)>>,
       <<"other", K(1)>>, <<"delete", K(1), "z">>, <<"put", K(9)>>, <<"sixel", [w |-> 1, h |-> 6, data |-> <<>>]>>, <<"stbm", 0, 2>>, <<"ri">>, <<"il">>, <<"dl">>, <<"cup", 1>>}, max |-> 3, reuse |-> FALSE],
    [commands |->
      {<<"transmit", [K(1) EXCEPT !.more = m], Bytes(4)>> : m \in BOOLEAN} \union
      {<<"transmit", [K(1) EXCEPT !.h = 2, !.more = m], Bytes(4)>> : m \in BOOLEAN} \union
      {<<"transmit", [K(2) EXCEPT !.h = 2, !.more = m, !.quiet = 1], Bytes(4)>> : m \in BOOLEAN} \union
      {<<"transmit", [K(0) EXCEPT !.more = m], Bytes(4)>> : m \in BOOLEAN} \union
      {<<"delete", K(1), "A">>, <<"delete", K(1), "I">>}, max |-> 4, reuse |-> TRUE],
    [commands |->
      {<<"transmit", [K(1) EXCEPT !.h = 2, !.more = m], Bytes(4)>> : m \in BOOLEAN} \union
      {<<"transmit", [K(1) EXCEPT !.format = 100, !.quiet = 2], [Bytes(3) EXCEPT !.png = <<1, 2>>]>>,
       <<"transmit", K(1), [Bytes(4) EXCEPT !.valid = FALSE]>>,
       <<"transmit", [K(1) EXCEPT !.medium = "file"], Bytes(4)>>,
       <<"transmit", [K(2) EXCEPT !.format = 24], Bytes(3)>>,
       <<"transmit", [K(2) EXCEPT !.format = 7], Bytes(3)>>}, max |-> 3, reuse |-> TRUE],
    [commands |->
      {<<"transmit", [K(1) EXCEPT !.display = TRUE, !.h = 2, !.rows = r, !.z = r - 2], Bytes(8)>> : r \in {1, 2}} \union
      {<<"put", [K(1) EXCEPT !.z = -3]>>, <<"delete", K(1), "a">>, <<"delete", K(1), "i">>,
       <<"print", 1>>, <<"print", 2>>, <<"cup", 1>>, <<"su", 1>>, <<"sd", 1>>, <<"switch">>}, max |-> 4, reuse |-> FALSE],
    [commands |->
      {<<"transmit", [K(1) EXCEPT !.display = TRUE, !.h = 2, !.rows = 2], Bytes(8)>>,
       <<"transmit", [K(2) EXCEPT !.display = TRUE, !.virtual = TRUE], Bytes(4)>>,
       <<"holder", 2, 0>>, <<"put", [K(2) EXCEPT !.virtual = TRUE, !.rows = 2]>>, <<"delete", K(2), "I">>,
       <<"print", 1>>, <<"su", 1>>, <<"switch">>}, max |-> 4, reuse |-> FALSE]}
MCUnder == -2

MCCells == {<<>>} \union
  {[low |-> l, place |-> 0, row |-> r, col |-> c, high |-> h] : l \in {0, 1}, r \in {-1, 0}, c \in {-1, 0, 1}, h \in {-1, 1}}
D(n) == <<"digit", n>>
Semi == <<";">>
MCPrefixes == {<<>>, <<<<"raster">>, Semi, Semi, D(2), Semi, D(3)>>,
               <<<<"color">>, D(1), Semi, D(2), Semi, D(1), Semi, Semi>>}
MCBits == {{}, {0}, {1}}

Ty(s) == {<<"type", c>> : c \in s}
MCPages ==
  {[ops |-> Ty({"a", " "}) \union {<<"newline">>}, max |-> 8],
   [ops |-> Ty({"a"}) \union {<<"newline">>} \union {<<"133", a, m>> : a \in {"A", "P", "B", "I", "C", "D", "L", "Z"}, m \in {"prompt", "continuation"}}, max |-> 4],
   [ops |-> Ty({"a", "b"}) \union {<<"guard", "c">>, <<"newline">>, <<"origin", 2, 3>>, <<"fill", "x", <<1, 1, 2, 1>>>>, <<"fill", "y", <<0, 2, 0, 0>>>>,
     <<"erase", <<2, 1, 2, 2>>>>, <<"erase", <<2, 2, 1, 1>>>>, <<"sera", <<0, 0, 0, 0>>>>, <<"copy", <<1, 1, 2, 2>>, <<1, 2>>>>, <<"copy", <<1, 1, 2, 1>>, <<2, 1>>>>, <<"copy", <<2, 1, 3, 3>>, <<1, 1>>>>, <<"copy", <<1, 1, 1, 1>>, <<9, 9>>>>}, max |-> 5]}

\* Rows that leave the screen: blanks at the end, styled blanks, a prompt.
Leaves(cells) == [cells |-> cells, prompt |-> FALSE, wrap |-> FALSE]
MCLeaving ==
  {Leaves(<<<<"a", "plain">>, Empty>>), Leaves(<<<<"", "red">>, <<"", "red">>>>),
   [Leaves(<<<<"$", "blue">>, Empty, <<"b", "red">>>>) EXCEPT !.prompt = TRUE],
   [Leaves(<<Empty, Empty, Empty>>) EXCEPT !.wrap = TRUE]}

\* What a core can show: clusters, wide characters and their tails, styles,
\* scrollback that fits a reference and that does not.
MCHash(s) == (IF s.fg = DefaultColor THEN 0 ELSE 3) + (IF s.bg = DefaultColor THEN 0 ELSE 6)
Shows1(text, wide, sem, style) == [text |-> text, wide |-> wide, semantic |-> sem, style |-> style]
Reds   == [Plain EXCEPT !.fg = Palette(1), !.underline = "curly", !.flags = {"bold"}]
Greens == [Plain EXCEPT !.bg = <<"rgb", 1, 2, 3>>, !.line = Palette(9)]
Spare  == Shows1(<<>>, 0, 0, Plain)
ARow(cells) == [wrap |-> FALSE, continued |-> FALSE, prompt |-> 0, cells |-> cells]
Base ==
  [cols |-> 2, rows |-> 1, screen |-> "primary", title |-> <<>>, pwd |-> <<>>, history |-> <<>>,
   cursor |-> [x |-> 0, y |-> 0, pending_wrap |-> FALSE, visible |-> TRUE, style |-> Plain],
   modes |-> {<<"dec", 1007>>}, grid |-> <<ARow(<<Spare, Spare>>)>>,
   colors |-> [foreground |-> <<>>, background |-> <<>>, caret |-> <<>>, palette |-> <<7, 8>>]]
MCContents ==
  {Base,
   [Base EXCEPT !.grid = <<ARow(<<Shows1(<<5>>, 1, 1, Reds), Shows1(<<>>, 2, 0, Reds)>>)>>,
                !.cursor.style = Reds, !.modes = {<<"ansi", 4>>}],
   [Base EXCEPT !.grid = <<[ARow(<<Shows1(<<5, 6, 7>>, 0, 2, Greens), Shows1(<<>>, 3, 0, Plain)>>) EXCEPT !.wrap = TRUE]>>,
                !.history = <<[ARow(<<Shows1(<<4>>, 0, 2, Plain), Spare>>) EXCEPT !.prompt = 2, !.continued = TRUE]>>,
                !.title = <<"t">>],
   [Base EXCEPT !.history = <<ARow(<<Shows1(<<4, 1>>, 0, 2, Greens), Spare>>), ARow(<<Spare, Spare>>), ARow(<<Spare, Spare>>)>>,
                !.screen = "alternate"],
   [Base EXCEPT !.history = <<ARow(<<Shows1(<<4>>, 0, 2, Greens), Spare>>)>>, !.colors.caret = <<1>>, !.cursor.x = 1],
   [Base EXCEPT !.colors.palette = <<7, 9>>],
   [Base EXCEPT !.cols = 1, !.rows = 2, !.grid = <<ARow(<<Shows1(<<1>>, 0, 0, Greens)>>), ARow(<<Spare>>)>>]}

\* The instance is one the theorem about the styles speaks of.
ASSUME MCRoom == TableHasRoom
=============================================================================
