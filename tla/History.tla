------------------------------- MODULE History -------------------------------
(* The scrollback of one screen (src/crates/core/src/history.rs): a queue of
   pages (page.rs), each of PageRows rows with a style table of its own, and a
   budget counted in rows.  Rows enter one by one as they leave the screen, and
   all at once when a resize lays the screen out again (resize.rs, in its
   Truncate mode: how a line is split anew is Reflow's).

   A row on its way in is [cells, prompt, wrap]; a cell <<text, style>>, its
   style already resolved, because an id means nothing outside its table. *)
EXTENDS Integers, Sequences, FiniteSets, SequencesExt

CONSTANTS PageRows,     \* page.rs PAGE_ROWS, 128 in the code
          MaxStyles,    \* the ids a page's table has: 65536 in the code
          Leaving,      \* the rows the screen pushes
          Widths,       \* the widths of the screen
          RowBudgets,   \* max_scrollback; 0 for the alternate screen
          MaxPushed     \* bound: rows ever pushed

ASSUME PageRowsAssumption == PageRows \in Nat \ {0} /\ MaxStyles \in Nat \ {0}

VARIABLE past  \* History: [pages, cols, max_rows, len, total_pushed]
hvars == <<past>>

PlainStyle == "plain"
Empty == <<"", PlainStyle>>   \* Cell::BLANK
Lowest2(a, b) == IF a < b THEN a ELSE b

\* The cells without the blank ones at the end.
Trim(cells, blank) ==
  LET kept == {i \in DOMAIN cells : cells[i] # blank} IN
  SubSeq(cells, 1, IF kept = {} THEN 0 ELSE CHOOSE i \in kept : \A j \in kept : j <= i)
Slim(row) == [row EXCEPT !.cells = Trim(@, Empty)]

-----------------------------------------------------------------------------
(* A page.  Ids count from 0, the default style's.                          *)

Fresh(cols) == [cols |-> cols, rows |-> <<>>, start |-> 0, table |-> <<PlainStyle>>]

\* A full page is never opened again, even after some of it is pruned.
IsFull(p) == Len(p.rows) >= PageRows
PageLen(p) == Len(p.rows) - p.start

\* The style table takes the row's styles, cell by cell.
Interned(table, cells) ==
  FoldLeft(LAMBDA t, c : IF c[2] \in ToSet(t) \/ Len(t) = MaxStyles THEN t ELSE Append(t, c[2]),
           table, cells)
IdIn(table, style) ==
  IF style \in ToSet(table) THEN (CHOOSE k \in 1..Len(table) : table[k] = style) - 1 ELSE 0
StyleIn(p, id) == IF id < Len(p.table) THEN p.table[id + 1] ELSE PlainStyle

\* The trim looks at what a cell shows, not only at its text.
Stored(p, row, Kept(_)) ==
  LET table  == Interned(p.table, row.cells)
      stored == [i \in DOMAIN row.cells |-> <<row.cells[i][1], IdIn(table, row.cells[i][2])>>]
  IN [p EXCEPT !.table = table, !.rows = Append(@, [row EXCEPT !.cells = Kept(stored)])]
PagePushTextOnly(p, row) ==
  LET n == Len(Trim([i \in DOMAIN row.cells |-> row.cells[i][1]], ""))
  IN Stored(p, row, LAMBDA cells : SubSeq(cells, 1, n))
PagePush(p, row) == Stored(p, row, LAMBDA cells : Trim(cells, <<"", 0>>))

\* The oldest row gives up its cells and keeps its slot.
PopOldest(p) ==
  [p EXCEPT !.rows[p.start + 1] = [cells |-> <<>>, prompt |-> FALSE, wrap |-> FALSE], !.start = @ + 1]

\* Rows of a page count from 1 here: as they were pushed, or at full width.
TakeRow(p, i) ==
  LET r == p.rows[p.start + i] IN
  [r EXCEPT !.cells = [x \in DOMAIN r.cells |-> <<r.cells[x][1], StyleIn(p, r.cells[x][2])>>]]
PageRow(p, i) ==
  LET r == TakeRow(p, i) IN
  [r EXCEPT !.cells = [x \in 1..p.cols |-> IF x \in DOMAIN r.cells THEN r.cells[x] ELSE Empty]]

-----------------------------------------------------------------------------
(* The queue of pages.                                                     *)

NewHistory(cols, max) == [pages |-> <<>>, cols |-> cols, max_rows |-> max, len |-> 0, total_pushed |-> 0]

\* One row at a time from the front; a page goes when its last row does.
PruneOne(h) ==
  LET front == IF PageLen(h.pages[1]) > 0 THEN PopOldest(h.pages[1]) ELSE h.pages[1] IN
  [h EXCEPT !.len = IF PageLen(h.pages[1]) > 0 THEN @ - 1 ELSE @,
            !.pages = IF PageLen(front) = 0 THEN Tail(@) ELSE [@ EXCEPT ![1] = front]]
Prune(h) ==
  FoldLeft(LAMBDA g, k : IF g.len > g.max_rows /\ g.pages # <<>> THEN PruneOne(g) ELSE g,
           h, [k \in 1..(h.len + Len(h.pages)) |-> k])

PushRow(h, row) ==
  LET pages == IF h.pages = <<>> \/ IsFull(Last(h.pages)) THEN Append(h.pages, Fresh(h.cols)) ELSE h.pages
  IN IF h.max_rows = 0 THEN h
     ELSE Prune([h EXCEPT !.pages = [pages EXCEPT ![Len(pages)] = PagePush(@, row)],
                          !.len = @ + 1, !.total_pushed = @ + 1])

ClearHistory(h) == [h EXCEPT !.pages = <<>>, !.len = 0]

\* Every row, oldest first: taken out, or shown.
Rows1(h, Reader(_, _)) ==
  FlattenSeq([k \in DOMAIN h.pages |-> [i \in 1..PageLen(h.pages[k]) |-> Reader(h.pages[k], i)]])
Drained(h) == Rows1(h, TakeRow)
ToRows(h)  == Rows1(h, PageRow)

\* count rows from the one offset rows above the bottom: whole pages are
\* skipped, then rows within the page the window begins in.
RowsFromEnd(h, offset, count) ==
  LET start == h.len - Lowest2(offset, h.len)
      take  == Lowest2(count, h.len - start)
      Page(acc, p) ==
        IF Len(acc.rows) = take THEN acc
        ELSE IF acc.skip >= PageLen(p) THEN [acc EXCEPT !.skip = @ - PageLen(p)]
        ELSE LET n == Lowest2(take - Len(acc.rows), PageLen(p) - acc.skip) IN
             [skip |-> 0, rows |-> acc.rows \o [i \in 1..n |-> PageRow(p, acc.skip + i)]]
  IN FoldLeft(Page, [rows |-> <<>>, skip |-> start], h.pages).rows

\* The prompts, nearest first, in the coordinate RowsFromEnd speaks.
PromptsAbove(h) ==
  LET all == ToRows(h)
      Is(i) == all[i].prompt
  IN Reverse([k \in 1..Len(SelectSeq([i \in DOMAIN all |-> i], Is)) |->
                h.len - (SelectSeq([i \in DOMAIN all |-> i], Is)[k] - 1)])

\* prompt_jump_offset: -1 where there is nowhere to go.
PromptJump(offsets, current, back) ==
  LET on == {o \in ToSet(offsets) : IF back THEN o > current ELSE o < current} IN
  IF on = {} THEN -1
  ELSE IF back THEN CHOOSE o \in on : \A p \in on : o <= p
       ELSE CHOOSE o \in on : \A p \in on : o >= p

-----------------------------------------------------------------------------
(* What the screen does to it.                                             *)

Cut(row, cols) == [row EXCEPT !.cells = SubSeq(@, 1, Lowest2(Len(@), cols))]

HistoryInit == \E c \in Widths, m \in RowBudgets : past = NewHistory(c, m)

\* Screen::scroll_up of a full-height region: the row fits the screen.
ScrollOff(row) ==
  /\ Len(row.cells) <= past.cols /\ past.total_pushed < MaxPushed
  /\ past' = PushRow(past, row)

\* ED 3, and RIS.
EraseScrollback == past' = ClearHistory(past)

\* resize::apply, the width unchanged or the rows truncated: everything is
\* drained, laid out at the new width, and what does not fit the screen goes
\* back.  A taller screen takes n rows, a lower one gives some of its own.
ResizeHistoryLate(cols, n, more) ==
  LET all  == [i \in 1..Len(Drained(past)) |-> Cut(Drained(past)[i], cols)]
      back == SubSeq(all, 1, Len(all) - n) \o more
  IN past' = [FoldLeft(PushRow, ClearHistory(past), back) EXCEPT !.cols = cols]
ResizeHistory(cols, n, more) ==
  LET all  == [i \in 1..Len(Drained(past)) |-> Cut(Drained(past)[i], cols)]
      back == SubSeq(all, 1, Len(all) - n) \o more
  IN past' = FoldLeft(PushRow, [ClearHistory(past) EXCEPT !.cols = cols], back)

HostResizes ==
  \E c \in Widths, n \in 0..2, more \in {<<>>} \union {<<r>> : r \in Leaving} :
    /\ n <= past.len /\ (n = 0 \/ more = <<>>) /\ (\A i \in DOMAIN more : Len(more[i].cells) <= c)
    /\ past.total_pushed + past.len < MaxPushed
    /\ ResizeHistory(c, n, more)

HistoryNext == (\E row \in Leaving : ScrollOff(row)) \/ EraseScrollback \/ HostResizes

-----------------------------------------------------------------------------
(* Properties.                                                             *)

Shown(row, cols) ==
  [row EXCEPT !.cells = [x \in 1..cols |-> IF x \in DOMAIN row.cells THEN row.cells[x] ELSE Empty]]

\* The scrollback reads at the screen's width whatever pages its rows are in,
\* every window of it is a window of that reading, and no page is kept for
\* nothing or grows past its capacity (rows_from_end, Page::row, prune).
ScrollbackReads ==
  LET all  == Drained(past)
      n    == Len(all)
      want == [i \in 1..n |-> Shown(all[i], past.cols)]
  IN /\ ToRows(past) = want /\ past.len = n
     /\ \A o \in 0..(n + 1), c \in 0..(n + 1) :
          RowsFromEnd(past, o, c) =
            SubSeq(want, n - Lowest2(o, n) + 1, n - Lowest2(o, n) + Lowest2(c, Lowest2(o, n)))
     /\ \A k \in DOMAIN past.pages : PageLen(past.pages[k]) > 0 /\ Len(past.pages[k].rows) <= PageRows
     /\ past.pages = <<>> \/ Len(past.pages) * PageRows <= n + 2 * PageRows - 2

\* A jump lands on a prompt beyond the one it left, and skips none.
JumpsLandOnPrompts ==
  \A from \in 0..(past.len + 1), back \in BOOLEAN :
    LET to == PromptJump(PromptsAbove(past), from, back)
        Prompt(o) == RowsFromEnd(past, o, 1)[1].prompt
        Beyond(o) == IF back THEN o > from ELSE o < from
    IN IF to = -1 THEN ~\E o \in 1..past.len : Beyond(o) /\ Prompt(o)
       ELSE /\ Beyond(to) /\ Prompt(to)
            /\ ~\E o \in 1..past.len : Prompt(o) /\ Beyond(o) /\ (IF back THEN o < to ELSE o > to)

Promised == INSTANCE Scrollback WITH rows <- Drained(past), pushed <- past.total_pushed,
              budget <- past.max_rows, Scrolled <- {Slim(r) : r \in Leaving},
              Budgets <- RowBudgets, Narrowed <- LAMBDA r, c : Slim(Cut(r, c))

\* The pages keep the promise of the scrollback: every step enters one row,
\* forgets all, or lays them out again.
KeepsPromise == Promised!Empty /\ [][Promised!ScrollbackNext(Widths)]_(Promised!bvars)
=============================================================================
