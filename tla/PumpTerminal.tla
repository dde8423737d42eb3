---------------------------- MODULE PumpTerminal ----------------------------
(***************************************************************************)
(* The terminal as the pump thread drives it: what each kind of output     *)
(* does to the rows, the scrollback and its counter, the synchronized      *)
(* batch (mode 2026) and the queue of host events.  crates/core.           *)
(*                                                                         *)
(* A row is the number of the line of output that made it, 0 a blank row.  *)
(* The cursor only moves down, so the rows under it are blank.  A resize   *)
(* changes the row count: the width decides nothing said here, so no row   *)
(* splits or joins.  The alternate screen is opaque: it has no scrollback. *)
(* Events are numbered; `wiped` is the last one a full reset threw away.   *)
(***************************************************************************)
EXTENDS Naturals, Sequences, SequencesExt

CONSTANTS MaxScrollback,  \* row budget of the primary screen's history
          PromptRows,     \* rows that begin a shell prompt (OSC 133)
          MaxEvents       \* bound of the core's event queue

ASSUME ScrollbackAssumption == MaxScrollback \in Nat /\ MaxEvents \in Nat \ {0}

Newest(s, n) == IF Len(s) > n THEN SubSeq(s, Len(s) - n + 1, Len(s)) ELSE s
Blank(n)     == [y \in 1 .. n |-> 0]

\* State::new.
NewTerminal(rows) ==
  [history |-> <<>>, pushed |-> 0, rows |-> Blank(rows), y |-> 1, alt |-> FALSE,
   sync |-> FALSE, batches |-> 0, lines |-> 0, events |-> <<>>, emitted |-> 0,
   wiped |-> 0]

\* History::push for each of the rows, pruning to the budget.
PushAll(t, rows) ==
  [t EXCEPT !.history = Newest(@ \o rows, MaxScrollback),
            !.pushed  = IF MaxScrollback = 0 THEN @ ELSE @ + Len(rows)]

\* A line of text and its line feed: at the bottom the top row leaves.
WriteLine(t) ==
  IF t.alt THEN t
  ELSE LET line    == t.lines + 1
           written == [t EXCEPT !.lines = line, !.rows[t.y] = line]
       IN  IF t.y < Len(t.rows)
           THEN [written EXCEPT !.y = @ + 1]
           ELSE [PushAll(written, <<Head(written.rows)>>)
                   EXCEPT !.rows = Append(Tail(written.rows), 0)]

\* The cursor keeps its old row number on the new screen.
ResizeKeepsRow(t, rows) ==
  LET all      == t.history \o SubSeq(t.rows, 1, t.y)
      overflow == IF Len(all) > rows THEN Len(all) - rows ELSE 0
      kept     == SubSeq(all, overflow + 1, Len(all))
  IN  [PushAll([t EXCEPT !.history = <<>>], SubSeq(all, 1, overflow))
         EXCEPT !.rows = kept \o Blank(rows - Len(kept)), !.sync = FALSE]

\* State::resize over resize::apply: the scrollback is drained, the rows below
\* the cursor dropped, and everything above the new screen pushed again.
ResizeTo(t, rows) ==
  LET all      == t.history \o SubSeq(t.rows, 1, t.y)
      overflow == IF Len(all) > rows THEN Len(all) - rows ELSE 0
      kept     == SubSeq(all, overflow + 1, Len(all))
  IN  [PushAll([t EXCEPT !.history = <<>>], SubSeq(all, 1, overflow))
         EXCEPT !.rows = kept \o Blank(rows - Len(kept)),
                !.y    = Len(kept),
                !.sync = FALSE]

\* State::deccolm with the child's own grant (mode 40): the other width, the
\* same rows, then the display erased and the cursor home (no prompt stands at
\* the cursor, whose rows the erase would keep).
ChangeColumns(t) ==
  LET resized == ResizeTo(t, Len(t.rows))
  IN  IF t.alt THEN resized
      ELSE [resized EXCEPT !.rows = Blank(Len(t.rows)), !.y = 1]

\* State::full_reset: everything but the embedder's grants and the colours, the
\* events nobody drained yet included.
FullReset(t) ==
  [NewTerminal(Len(t.rows)) EXCEPT !.batches = t.batches, !.lines = t.lines,
                                   !.emitted = t.emitted,
                                   !.wiped = IF t.events = <<>> THEN t.wiped ELSE t.emitted]

\* A full queue refuses the newest event instead of dropping the oldest.
PushEventRefuses(t) ==
  [t EXCEPT !.emitted = @ + 1,
            !.events  = IF Len(@) = MaxEvents THEN @ ELSE Append(@, t.emitted + 1)]

\* push_event: past its bound the queue drops the oldest.
PushEvent(t) ==
  [t EXCEPT !.emitted = @ + 1, !.events = Newest(Append(@, t.emitted + 1), MaxEvents)]

OpenBatch(t) ==
  [t EXCEPT !.sync = TRUE, !.batches = IF t.sync THEN @ ELSE @ + 1]

\* The kinds of output a child writes, as far as the pump can tell them apart.
Outputs ==
  {"line", "bsu", "esu", "alt", "primary", "ed3", "deccolm", "ris", "bell"}

\* The ones that leave no batch open.
Closes == {"esu", "deccolm", "ris"}

\* What one kind of output does.
Effect(t, output) ==
  CASE output = "line"     -> WriteLine(t)
    [] output = "bsu"      -> OpenBatch(t)
    [] output = "esu"      -> [t EXCEPT !.sync = FALSE]
    [] output = "alt"      -> [t EXCEPT !.alt = TRUE]
    [] output = "primary"  -> [t EXCEPT !.alt = FALSE]
    [] output = "ed3"      -> IF t.alt THEN t ELSE [t EXCEPT !.history = <<>>]
    [] output = "deccolm"  -> ChangeColumns(t)
    [] output = "ris"      -> FullReset(t)
    [] output = "bell"     -> PushEvent(t)

\* The terminal after each of the outputs of a read, from none of them on.
After(t, chunk) ==
  LET after[n \in 0 .. Len(chunk)] ==
        IF n = 0 THEN t ELSE Effect(after[n - 1], chunk[n])
  IN  after

\* Terminal::write: one read's worth of output.
Write(t, chunk) == After(t, chunk)[Len(chunk)]

-----------------------------------------------------------------------------
(* What the pump and the publisher ask of it.                              *)

\* terminal.screen().history: the active screen's.
History(t)     == IF t.alt THEN <<>> ELSE t.history
TotalPushed(t) == IF t.alt THEN 0 ELSE t.pushed

\* Offsets counted from zero.
PromptOffsetsFromZero(t) ==
  {Len(History(t)) - i : i \in {j \in DOMAIN History(t) : History(t)[j] \in PromptRows}}

\* History::prompt_offsets: offsets from the end of the rows that begin a prompt.
PromptOffsets(t) ==
  {Len(History(t)) - i + 1 : i \in {j \in DOMAIN History(t) : History(t)[j] \in PromptRows}}

\* prompt_jump_offset: the nearest mark strictly that way, or the offset itself.
JumpOffset(offsets, current, back) ==
  LET way == {o \in offsets : IF back THEN o > current ELSE o < current}
  IN  IF way = {} THEN current ELSE IF back THEN Min(way) ELSE Max(way)

\* The rows a view scrolled `offset` rows up shows (publish_scrolled).
View(t, offset) ==
  LET all == History(t) \o t.rows
      top == Len(History(t)) - offset
  IN  IF t.alt THEN <<>> ELSE SubSeq(all, top + 1, top + Len(t.rows))
=============================================================================
