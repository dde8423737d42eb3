-------------------------------- MODULE Desk --------------------------------
(***************************************************************************)
(* What the app around the panes keeps: the command history and its file   *)
(* (crates/host/src/suggest.rs) keyed by directory (cwd.rs), the events a  *)
(* window drains from its session, workflow templates (workflow.rs), the   *)
(* configuration (config.rs), the wheel's remainder (wheel.rs), paging     *)
(* (scrollback.rs), and the C calls on them (crates/host/src/lib.rs).      *)
(*                                                                         *)
(* Text is a sequence of tokens, an optional value a sequence of at most   *)
(* one.                                                                    *)
(***************************************************************************)
EXTENDS Integers, Sequences, SequencesExt, FiniteSetsExt

CONSTANTS Typed,     \* what a shell reports as executed
          Dirs,      \* directories, as sequences of names
          HistoryCap, \* CAP
          Templates, \* commands with holes
          Given,     \* the values a palette sends: sequences of <<name, value>>
          Deltas, Cells, Row, \* wheel deltas, cell heights, and sub-units of a row
          Depth, View,        \* scrollback rows and rows of the viewport
          MaxEvents, MaxWheel, MaxAppends \* bounds

ASSUME DeskAssumption ==
  /\ {HistoryCap, Row, Depth, View, MaxEvents, MaxWheel, MaxAppends} \subseteq Nat
  /\ \A h \in Cells : h \in 1..Row /\ Row % h = 0

VARIABLES store,  \* History.entries, what a save is doing, the last answer, the last entry offered
          disk,   \* the file and the temporary beside it
          kept,   \* the entries of the last save that answered Success
          events, \* pushed by the pump, waiting there, pending_events, drained by the window
          wheel,  \* Accumulator.residual; what it was given and what it delivered
          page,   \* the viewport's offset, and the last chord
          form    \* a template rendered, a directory of them or a configuration loaded

dvars == <<store, disk, kept, events, wheel, page, form>>

-----------------------------------------------------------------------------
(* cwd::normalize: a report is [scheme, host, path], its path tokens. The  *)
(* whole report is trimmed before anything of it is decoded: an escaped    *)
(* blank at its end stays, a raw one does not.                             *)

Slash == "/"
TrimRight(text, token) ==
  SubSeq(text, 1, Max({0} \union {i \in DOMAIN text : text[i] # token}))

Tab == "TAB"
Newline == "NL"
Blanks == {" ", Tab, Newline}
Trim(text) ==
  LET solid == {i \in DOMAIN text : text[i] \notin Blanks}
  IN IF solid = {} THEN <<>> ELSE SubSeq(text, Min(solid), Max(solid))

Decoded(path) == [i \in DOMAIN path |-> IF path[i] = "%20" THEN " " ELSE path[i]]

\* The path as reported, its trailing slash a part of its name.
NormalizeAsSent(report) ==
  LET path == Trim(report.path)
  IN IF path = <<>> \/ report.scheme = "other" THEN <<>> ELSE <<Decoded(path)>>
Normalize(report) ==
  LET path == Trim(report.path) IN
  IF path = <<>> \/ report.scheme = "other" \/ Head(path) # Slash THEN <<>>
  ELSE LET trimmed == TrimRight(Decoded(path), Slash)
       IN IF trimmed = <<>> THEN <<<<Slash>>>> ELSE <<trimmed>>

\* The ways a shell may report a directory: as a file:// URI with its blanks
\* escaped or as a plain path, with a trailing slash or without.
Path(dir)    == FoldLeft(LAMBDA p, name : p \o <<Slash, name>>, <<>>, dir)
Escaped(dir) == [i \in DOMAIN dir |-> IF dir[i] = " " THEN "%20" ELSE dir[i]]
Reports(dir) ==
  LET Tails == IF dir = <<>> THEN {<<Slash>>} ELSE {<<>>, <<Slash>>} IN
  {[scheme |-> "file", host |-> h, path |-> Path(Escaped(dir)) \o tail] : h \in {"", "localhost"}, tail \in Tails}
  \union {[scheme |-> "none", host |-> "", path |-> Path(dir) \o tail] : tail \in Tails}
Unusable == {[scheme |-> "file", host |-> "h", path |-> <<>>], [scheme |-> "other", host |-> "", path |-> <<Slash>>]}

-----------------------------------------------------------------------------
(* suggest::History.                                                       *)

Repeats1(entries, e)  == entries # <<>> /\ entries[Len(entries)] = e

\* The store's own rules, and its cap, which drops the oldest.
AppendNewestDropped(entries, e) ==
  IF e.command = <<>> \/ Contains(e.command, Newline) \/ Repeats1(entries, e) \/ Len(entries) = HistoryCap
  THEN entries ELSE Append(entries, e)
Appended(entries, e) ==
  IF e.command = <<>> \/ Contains(e.command, Newline) \/ Repeats1(entries, e) THEN entries
  ELSE LET all == Append(entries, e)
       IN SubSeq(all, Max({1, Len(all) - HistoryCap + 1}), Len(all))

Line(e)       == (IF e.cwd = <<>> THEN <<>> ELSE e.cwd[1]) \o <<Tab>> \o e.command \o <<Newline>>
Text(entries) == FoldLeft(LAMBDA t, e : t \o Line(e), <<>>, entries)

\* A line with no tab is a command with no directory, which the format before
\* this one wrote.
Entry(line) ==
  LET tabs == {i \in DOMAIN line : line[i] = Tab}
  IN IF tabs = {} THEN [command |-> line, cwd |-> <<>>]
     ELSE [command |-> SubSeq(line, Min(tabs) + 1, Len(line)),
           cwd |-> IF Min(tabs) = 1 THEN <<>> ELSE <<SubSeq(line, 1, Min(tabs) - 1)>>]
Lines(text) ==
  FoldLeft(LAMBDA ls, t : IF t = Newline THEN Append(ls, <<>>)
                          ELSE [ls EXCEPT ![Len(ls)] = Append(@, t)], <<<<>>>>, text)
Load(text) ==
  LET ls == SelectSeq(Lines(text), LAMBDA l : l # <<>>) IN [i \in DOMAIN ls |-> Entry(ls[i])]

Matches(entries, input) == {i \in DOMAIN entries : Len(entries[i].command) > Len(input)
                                                   /\ IsPrefix(input, entries[i].command)}
\* The newest made here, or the newest anywhere; nothing for no input.
SuggestHereOnly(entries, input, cwd) ==
  LET here == {i \in Matches(entries, input) : entries[i].cwd = cwd}
  IN IF input = <<>> \/ here = {} THEN <<>> ELSE <<entries[Max(here)].command>>
Suggest(entries, input, cwd) ==
  LET all  == Matches(entries, input)
      here == {i \in all : cwd # <<>> /\ entries[i].cwd = cwd}
  IN IF input = <<>> \/ all = {} THEN <<>>
     ELSE <<entries[Max(IF here = {} THEN all ELSE here)].command>>

\* mind2t_history_load
HistoryLoad ==
  /\ store.phase = "closed"
  /\ store' = [entries |-> Load(disk.file), phase |-> "open", result |-> "loaded", n |-> store.n,
             offered |-> <<>>]
  /\ UNCHANGED <<disk, kept>>

\* mind2t_history_append, up to the save: nothing was added, or a temporary is
\* written, whole or in part.
HistoryAppend(command, report) ==
  /\ store.phase = "open" /\ store.n < MaxAppends
  /\ \E e \in {[command |-> Trim(command), cwd |-> Normalize(report)]} :
     \E entries \in {Appended(store.entries, e)} :
     \E told \in {[store EXCEPT !.entries = entries, !.n = @ + 1, !.offered = <<e>>]} :
       IF Len(entries) = Len(store.entries)
       THEN store' = [told EXCEPT !.result = "Ignored"] /\ UNCHANGED disk
       ELSE /\ store' = [told EXCEPT !.phase = "saving"]
            /\ disk' \in {[disk EXCEPT !.temp = Text(entries)], [disk EXCEPT !.temp = <<>>], disk}
  /\ UNCHANGED kept

\* The file itself is written, and only then is it whole.
SaveInPlace ==
  /\ store.phase = "saving"
  /\ disk' = [disk EXCEPT !.file = IF disk.file = <<>> THEN disk.temp ELSE <<>>]
  /\ \/ store' = [store EXCEPT !.phase = "open", !.result = "SendFailed"] /\ UNCHANGED kept
     \/ /\ disk.file = <<>> /\ disk.temp = Text(store.entries)
        /\ store' = [store EXCEPT !.phase = "open", !.result = "Success"] /\ kept' = store.entries

\* The rename of a temporary that was written whole, or the error.
Save ==
  /\ store.phase = "saving"
  /\ \/ /\ disk.temp = Text(store.entries)
        /\ disk'  = [file |-> disk.temp, temp |-> <<>>]
        /\ store' = [store EXCEPT !.phase = "open", !.result = "Success"]
        /\ kept'  = store.entries
     \/ /\ store' = [store EXCEPT !.phase = "open", !.result = "SendFailed"]
        /\ UNCHANGED <<disk, kept>>

HistorySuggest(input, report) ==
  /\ store.phase = "open"
  /\ \E s \in {Suggest(store.entries, input, Normalize(report))} :
       store' = [store EXCEPT !.result = IF s = <<>> THEN "Ignored" ELSE "Success"]
  /\ UNCHANGED <<disk, kept>>

\* mind2t_history_free, or the process ends, in the middle of a save too.
HistoryGone ==
  /\ store.phase # "closed"
  /\ store' = [store EXCEPT !.entries = <<>>, !.phase = "closed", !.result = "none", !.offered = <<>>]
  /\ UNCHANGED <<disk, kept>>

-----------------------------------------------------------------------------
(* mind2t_host_next_event and the window's drain (external).  An event is  *)
(* the length of its payload, in the order they were pushed.               *)

PumpPushes(size) ==
  /\ events.pushed < MaxEvents
  /\ events' = [events EXCEPT !.pushed = @ + 1, !.waiting = Append(@, <<events.pushed + 1, size>>)]

Queued(pending, waiting) == IF pending = <<>> THEN waiting ELSE pending

\* The sizing call pops, whatever its buffer held.
NextEventPopping(cap) ==
  LET queue == Queued(events.pending, events.waiting) IN
  [events EXCEPT !.waiting = IF events.pending = <<>> THEN <<>> ELSE @,
                 !.pending = IF queue = <<>> THEN queue ELSE Tail(queue),
                 !.got = IF queue = <<>> THEN <<>> ELSE <<Head(queue)>>]

\* The queue is filled only when it is empty; an event whose payload does not fit
\* stays, and its length is told.
NextEvent(cap) ==
  LET queue == Queued(events.pending, events.waiting)
      fits  == queue # <<>> /\ Head(queue)[2] <= cap
  IN [events EXCEPT !.waiting = IF events.pending = <<>> THEN <<>> ELSE @,
                    !.pending = IF fits THEN Tail(queue) ELSE queue,
                    !.got = IF queue = <<>> THEN <<>> ELSE <<Head(queue)>>]

\* drainEvents: sized with no buffer, fetched with one if there is a payload.
DrainSizes ==
  /\ events.got = <<>>
  /\ \E e \in {NextEvent(0)} :
       events' = IF e.got # <<>> /\ e.got[1][2] = 0
                 THEN [e EXCEPT !.drained = Append(@, e.got[1]), !.got = <<>>] ELSE e
DrainFetches ==
  /\ events.got # <<>>
  /\ \E e \in {NextEvent(events.got[1][2])} :
       events' = [e EXCEPT !.drained = Append(@, e.got[1]), !.got = <<>>]

-----------------------------------------------------------------------------
(* wheel::Accumulator, in sub-units of a row; a cell is so many points.    *)

Toward0(n) == IF n >= 0 THEN n \div Row ELSE -((-n) \div Row)

\* The remainder belongs to the event.
RowsForgetting(earned) == [residual |-> earned - Row * Toward0(earned), rows |-> Toward0(earned)]
Rows(earned) ==
  LET all == wheel.residual + earned
  IN [residual |-> all - Row * Toward0(all), rows |-> Toward0(all)]

Wheel(delta, precise, cell) ==
  /\ wheel.n < MaxWheel
  /\ \E earned \in {IF precise THEN delta * (Row \div cell) ELSE delta * Row} :
     \E r \in {Rows(earned)} :
       wheel' = [n |-> wheel.n + 1, residual |-> r.residual, given |-> wheel.given + earned,
                 moved |-> wheel.moved + r.rows]

-----------------------------------------------------------------------------
(* scrollback: which chord scrolls, and how far.                           *)

Action(key, mods) ==
  IF mods \notin {{"shift"}, {"super"}} THEN "none"
  ELSE CASE key = "PageUp" -> "PageUp" [] key = "PageDown" -> "PageDown"
         [] key = "Home" -> "ToTop" [] key = "End" -> "ToBottom"
         [] key = "ArrowUp" /\ mods = {"super"} -> "PrevPrompt"
         [] key = "ArrowDown" /\ mods = {"super"} -> "NextPrompt"
         [] OTHER -> "none"

FullPage(view)  == view
PageRows(view)  == Max({view - 1, 1})
Distance(scroll, view) ==
  CASE scroll = "PageUp" -> PageRows(view) [] scroll = "PageDown" -> -PageRows(view)
    [] scroll = "ToTop" -> Depth [] scroll = "ToBottom" -> -Depth [] OTHER -> 0

\* The pump clamps the offset to the history there is.
Chord(key, mods) ==
  \E scroll \in {Action(key, mods)} :
    page' = [at |-> Max({0, Min({Depth, page.at + Distance(scroll, View)})}), from |-> page.at, scroll |-> scroll]

-----------------------------------------------------------------------------
(* workflow: holes are <<"{{", name, "}}">>.                               *)

Holes(text) ==
  {i \in DOMAIN text : i + 2 <= Len(text) /\ text[i] = "{{" /\ text[i + 2] = "}}"
                       /\ text[i + 1] \notin {"{{", "}}", "-"}}
NamesIn(text) == {text[i + 1] : i \in Holes(text)}

\* Every hole of one name, and what was put in is not looked at again.
PutFirst(text, name, value) ==
  LET at == {i \in Holes(text) : text[i + 1] = name}
  IN IF at = {} THEN text ELSE SubSeq(text, 1, Min(at) - 1) \o value \o SubSeq(text, Min(at) + 3, Len(text))
Put(text, name, value) ==
  LET at   == {i \in Holes(text) : text[i + 1] = name}
      Gone == UNION {{i + 1, i + 2} : i \in at}
  IN FlattenSeq([i \in DOMAIN text |-> IF i \in at THEN value ELSE IF i \in Gone THEN <<>> ELSE <<text[i]>>])

\* One value after the other; a hole that is left is an error.
Render(command, values) ==
  LET out == FoldLeft(LAMBDA text, v : Put(text, v[1], v[2]), command, values)
  IN IF Holes(out) # {} THEN [ok |-> FALSE, text |-> <<>>] ELSE [ok |-> TRUE, text |-> out]

\* mind2t_workflow_render: the blob's empty parts are dropped before it is cut
\* into pairs.
Pairs(values) ==
  LET parts == SelectSeq(FlattenSeq([i \in DOMAIN values |-> <<<<values[i][1]>>, values[i][2]>>]), LAMBDA p : p # <<>>)
  IN [i \in 1..Len(parts) \div 2 |-> <<parts[2 * i - 1][1], parts[2 * i]>>]

\* load_dir: a file is a template, broken, or not a template at all.
LoadDirStopping(files) ==
  IF \E f \in DOMAIN files : files[f] = "broken"
  THEN [workflows |-> {}, errors |-> {CHOOSE f \in DOMAIN files : files[f] = "broken"}]
  ELSE [workflows |-> {f \in DOMAIN files : files[f] = "toml"}, errors |-> {}]
LoadDir(files) ==
  [workflows |-> {f \in DOMAIN files : files[f] = "toml"}, errors |-> {f \in DOMAIN files : files[f] = "broken"}]

WorkflowRender(command, values) ==
  form' = [kind |-> "render", command |-> command, values |-> values, out |-> Render(command, Pairs(values))]
WorkflowsLoad ==
  \E files \in [{"f", "g", "h"} -> {"toml", "broken", "other", "absent"}] :
    form' = [kind |-> "workflows", command |-> files, values |-> <<>>, out |-> LoadDir(files)]

-----------------------------------------------------------------------------
(* Config::load.  A key is absent, good or bad; a theme names its parts.   *)

Default == [size |-> 0, family |-> "none", reports |-> FALSE, palette |-> <<"builtin", "builtin">>]

\* apply_theme, entry by entry.
ApplyThemeAsRead(theme) ==
  [palette |-> [i \in 1..2 |-> IF theme[i] = "good" THEN "theme" ELSE "builtin"],
   ok |-> \A i \in 1..2 : theme[i] # "bad"]
ApplyTheme(theme) ==
  IF \E i \in 1..2 : theme[i] = "bad" THEN [palette |-> Default.palette, ok |-> FALSE]
  ELSE [palette |-> [i \in 1..2 |-> IF theme[i] = "good" THEN "theme" ELSE "builtin"], ok |-> TRUE]

LoadConfig(file) ==
  CASE file.state = "absent" -> [config |-> Default, errors |-> {}]
    [] file.state = "broken" -> [config |-> Default, errors |-> {"file"}]
    [] OTHER ->
       LET theme == ApplyTheme(file.theme) IN
       [config |-> [size    |-> IF file.size = "good" THEN 1 ELSE 0,
                    family  |-> IF file.family = "good" THEN "theirs" ELSE "none",
                    reports |-> file.reports = "good",
                    palette |-> theme.palette],
        errors |-> (IF file.size = "bad" THEN {"size"} ELSE {})
                   \union (IF file.family = "bad" THEN {"family"} ELSE {})
                   \union (IF theme.ok THEN {} ELSE {"theme"})]

Marks == {"none", "good", "bad"}
ConfigLoad ==
  \E state \in {"absent", "broken", "parsed"}, size \in Marks, family \in Marks, reports \in {"none", "good"},
     fore \in Marks, sixteen \in Marks :
    \E file \in {[state |-> state, size |-> size, family |-> family, reports |-> reports, theme |-> <<fore, sixteen>>]} :
      form' = [kind |-> "config", command |-> file, values |-> <<>>, out |-> LoadConfig(file)]

-----------------------------------------------------------------------------
NoForm == [kind |-> "none", command |-> <<>>, values |-> <<>>, out |-> <<>>]
DeskInit ==
  /\ store = [entries |-> <<>>, phase |-> "closed", result |-> "none", n |-> 0, offered |-> <<>>]
  /\ disk = [file |-> <<>>, temp |-> <<>>] /\ kept = <<>>
  /\ events = [pushed |-> 0, waiting |-> <<>>, pending |-> <<>>, got |-> <<>>, drained |-> <<>>]
  /\ wheel = [n |-> 0, residual |-> 0, given |-> 0, moved |-> 0]
  /\ page = [at |-> 0, from |-> 0, scroll |-> "none"]
  /\ form = NoForm

AnyReport == (UNION {Reports(d) : d \in Dirs}) \union Unusable

HistoryNext ==
  /\ \/ HistoryLoad \/ Save \/ HistoryGone
     \/ \E c \in Typed, r \in AnyReport : HistoryAppend(c, r) \/ HistorySuggest(c, r)
  /\ UNCHANGED <<events, wheel, page, form>>
DrainNext ==
  /\ (\E size \in 0..1 : PumpPushes(size)) \/ DrainSizes \/ DrainFetches
  /\ UNCHANGED <<store, disk, kept, wheel, page, form>>
WheelNext ==
  /\ \E d \in Deltas, precise \in BOOLEAN, h \in Cells : Wheel(d, precise, h)
  /\ UNCHANGED <<store, disk, kept, events, page, form>>
PageNext ==
  /\ \E key \in {"PageUp", "PageDown", "Home", "End", "ArrowUp", "ArrowDown", "x"},
        mods \in SUBSET {"shift", "super", "ctrl"} : Chord(key, mods)
  /\ UNCHANGED <<store, disk, kept, events, wheel, form>>
FormNext ==
  /\ form = NoForm
  /\ (\E c \in Templates, vs \in Given : WorkflowRender(c, vs)) \/ WorkflowsLoad \/ ConfigLoad
  /\ UNCHANGED <<store, disk, kept, events, wheel, page>>

-----------------------------------------------------------------------------
(* Properties.                                                             *)

\* "a crash mid-save keeps the old file rather than half a one": the file is what
\* the last save that answered Success held, whenever the process ends.
FileIsASave == disk.file = Text(kept)

\* What a save held is what the next start loads, commands with a tab among them.
HistorySurvives == store.phase = "closed" /\ store'.phase = "open" => store'.entries = kept

\* "the cap drops oldest": a command the rules do not drop is the newest entry from
\* then on, however full the store is, and the store stays within its cap.
NewestIsKept ==
  /\ Len(store.entries) <= HistoryCap
  /\ store.offered # <<>> =>
       LET e == store.offered[1] IN
       e.command # <<>> /\ ~Contains(e.command, Newline) => store.entries[Len(store.entries)] = e

\* "Better no key than a wrong one shared between directories": however a shell
\* reports a directory it has one key, which no other directory has, so what was
\* run here is suggested here; and with nothing run here, what was run anywhere.
\* A report that the trim of cwd.rs:23 cuts short is not whole: the plain path
\* `/d/ ` has the key of `/d`, where `file:///d/%20` has its own.
Whole(report) == Trim(report.path) = report.path
OneKeyEach ==
  \A d, e \in Dirs : \A r \in Reports(d), q \in Reports(e) :
    Whole(r) /\ Whole(q) => (d = e <=> Normalize(r) = Normalize(q))
HereIsSuggested ==
  /\ OneKeyEach
  /\ store.phase = "open" =>
       \A input \in Typed \ {<<>>}, r \in AnyReport :
         \E all \in {{e \in Range(store.entries) : e.command # input /\ IsPrefix(input, e.command)}} :
         \E s \in {Suggest(store.entries, input, Normalize(r))} :
           /\ (s = <<>>) = (all = {})
           /\ s # <<>> => \E e \in all : e.command = s[1]
                         /\ (\E h \in all : h.cwd # <<>> /\ h.cwd = Normalize(r)) => e.cwd = Normalize(r)

\* "exactly-once": what the window drained, what is held for it and what waits at
\* the pump are together what was pushed, in order, though every event takes a
\* sizing call and a fetch and the pump pushes between them.
DrainedExactlyOnce ==
  \E all \in {events.drained \o events.pending \o events.waiting} :
    [i \in DOMAIN all |-> all[i][1]] = [i \in 1..events.pushed |-> i]

\* "the remainder IS the state": the rows delivered and the remainder add up to
\* everything the wheel was given, in either unit and over changes of the cell.
RemainderIsCarried ==
  /\ wheel.moved * Row + wheel.residual = wheel.given
  /\ -Row < wheel.residual /\ wheel.residual < Row

\* "the line you were reading when you pressed the key is gone" when a page leaves
\* no overlap; and a chord that scrolls moves the view unless it is at the end.
PagesOverlap ==
  /\ page.scroll \in {"PageUp", "PageDown"} /\ View > 1 => page.at - page.from \in 1 - View .. View - 1
  /\ page.scroll = "PageUp" /\ page.from < Depth => page.at > page.from
  /\ page.scroll = "PageDown" /\ page.from > 0 => page.at < page.from

\* "a command with a hole left in it must never reach the paste path": with values
\* that are not empty and bring no braces along, a rendering puts every value in
\* every hole of its name at once, and is refused only where a name has none.
RendersAtOnce ==
  form.kind = "render" =>
    LET command == form.command
        Braces(text) == {i \in DOMAIN text : text[i] \in {"{{", "}}"}}
        Of(name) == form.values[Min({i \in DOMAIN form.values : form.values[i][1] = name})][2]
        named    == {form.values[i][1] : i \in DOMAIN form.values}
        inside   == UNION {{i + 1, i + 2} : i \in Holes(command)}
        clean    == /\ \A i \in DOMAIN form.values : form.values[i][2] # <<>> /\ Braces(form.values[i][2]) = {}
                    /\ Braces(command) \subseteq Holes(command) \union inside
    IN /\ form.out.ok => Holes(form.out.text) = {}
       /\ clean /\ form.out.ok =>
            form.out.text = FlattenSeq([i \in DOMAIN command |->
              IF i \in Holes(command) THEN Of(command[i + 1]) ELSE IF i \in inside THEN <<>> ELSE <<command[i]>>])
       /\ clean => form.out.ok = (NamesIn(command) \subseteq named)

\* "one bad template never hides the rest", "never a half-applied theme", "a config
\* that silently half-applies is worse than one that errors".
NothingHalfApplied ==
  /\ form.kind = "workflows" =>
       form.out.workflows \union form.out.errors = {f \in DOMAIN form.command : form.command[f] \in {"toml", "broken"}}
  /\ form.kind = "config" /\ form.command.state = "parsed" =>
       /\ form.out.config.palette # Default.palette => \A i \in 1..2 : form.command.theme[i] # "bad"
       /\ form.out.errors = {} =>
            /\ form.command.size = "good" => form.out.config.size # Default.size
            /\ form.command.family = "good" => form.out.config.family # Default.family
            /\ \A i \in 1..2 : form.command.theme[i] = "good" => form.out.config.palette[i] = "theme"

DeskHolds ==
  /\ [](FileIsASave /\ NewestIsKept /\ HereIsSuggested /\ DrainedExactlyOnce /\ RemainderIsCarried /\ PagesOverlap
        /\ RendersAtOnce /\ NothingHalfApplied)
  /\ [][HistorySurvives]_dvars
=============================================================================
