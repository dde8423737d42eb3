------------------------------ MODULE Pictures ------------------------------
(***************************************************************************)
(* Two decoders of pictures: sixel data into a bitmap                      *)
(* (crates/core/src/sixel.rs), and a row of placeholder cells into the     *)
(* slices of pictures they show (crates/frame/src/placeholder.rs).         *)
(*                                                                         *)
(* A bitmap is the code's flat buffer: a sequence of Wd * Ht pixels, 0 the *)
(* transparent one.  Data bytes are the set of the bits they plot.         *)
(***************************************************************************)
EXTENDS Integers, Sequences, SequencesExt

CONSTANTS MaxDim,     \* 4096
          Word,       \* 2^32, what a parameter is kept in
          Band,       \* the 6 rows a data byte plots
          Registers,  \* 256
          Digits, Bits, Strokes, \* the parameters, data bytes and steps of a stream
          Openings,   \* what it begins with, that plots nothing
          HolderCells, MaxRow    \* placeholder cells, and cells in a row

ASSUME PicturesAssumption ==
  MaxDim \in Nat \ {0} /\ Word \in Nat \ {0} /\ Band \in Nat \ {0} /\ Registers \in Nat \ {0}

VARIABLES sixel,  \* the decoder
          plotted, \* the pixels plotted, wherever the buffer has them
          holders  \* a row of cells

pvars == <<sixel, plotted, holders>>

-----------------------------------------------------------------------------
(* Sixel.                                                                  *)

NewDecoder ==
  [colors |-> [r \in 0..Registers-1 |-> 1], current |-> 0, x |-> 0, band |-> 0, repeat |-> 1,
   pending |-> "none", params |-> <<>>, width |-> 0, height |-> 0, buf |-> <<>>, dropped |-> FALSE, steps |-> 0]

Greater(m, n) == IF m > n THEN m ELSE n

\* The bitmap grown: the rows are moved to the new stride.
GrowInPlace(d, w, h) ==
  LET wd == Greater(w, d.width)  ht == Greater(h, d.height) IN
  IF w <= d.width /\ h <= d.height THEN d
  ELSE IF w > MaxDim \/ h > MaxDim THEN [d EXCEPT !.dropped = TRUE]
  ELSE [d EXCEPT !.width = wd, !.height = ht,
                 !.buf = [k \in 1..wd*ht |-> IF k <= Len(d.buf) THEN d.buf[k] ELSE 0]]
Ensure(d, w, h) ==
  LET wd == Greater(w, d.width)  ht == Greater(h, d.height) IN
  IF w <= d.width /\ h <= d.height THEN d
  ELSE IF w > MaxDim \/ h > MaxDim THEN [d EXCEPT !.dropped = TRUE]
  ELSE [d EXCEPT !.width = wd, !.height = ht,
                 !.buf = [k \in 1..wd*ht |->
                            LET x == (k - 1) % wd  y == (k - 1) \div wd IN
                            IF x < d.width /\ y < d.height THEN d.buf[y * d.width + x + 1] ELSE 0]]

\* A release build's u32: the product is kept within it, the sum goes round.
Accumulate(slot, digit) ==
  ((IF slot * 10 >= Word THEN Word - 1 ELSE slot * 10) + digit) % Word

\* A colour defined is also selected; a stroke is repeated at least once.
Flush(d) ==
  LET first == d.params[1] % Registers
      done  == [d EXCEPT !.pending = "none"]
  IN CASE d.pending = "none"   -> d
       [] d.pending = "color"  ->
            [done EXCEPT !.current = first,
                         !.colors[first] = IF Len(d.params) >= 5 /\ d.params[2] = 2 THEN d.params[3] + 1 ELSE @]
       [] d.pending = "repeat" ->
            [done EXCEPT !.repeat = IF d.params[1] < 1 THEN 1 ELSE IF d.params[1] > MaxDim THEN MaxDim ELSE d.params[1]]
       [] d.pending = "raster" ->
            IF Len(d.params) < 4 THEN done
            ELSE IF d.params[3] > MaxDim \/ d.params[4] > MaxDim THEN [done EXCEPT !.dropped = TRUE]
            ELSE Ensure(done, Greater(d.params[3], 1), Greater(d.params[4], 1))

Begin(d, what) == [Flush(d) EXCEPT !.pending = what, !.params = <<0>>]

\* A column that plots nothing still takes its width.
Plot(d, bits) ==
  LET e == Ensure(d, d.x + 1, d.band * Band + Band) IN
  IF e.dropped THEN e
  ELSE [e EXCEPT !.buf = [k \in DOMAIN @ |->
          IF \E b \in bits : k = (e.band * Band + b) * e.width + e.x + 1 THEN e.colors[e.current] ELSE @[k]]]

Plots(d, bits, n) ==
  FoldLeft(LAMBDA e, k : [Plot(e, bits) EXCEPT !.x = @ + 1], d, [k \in 1..n |-> k])

SixelPut(d, byte) ==
  CASE byte[1] = "digit" /\ d.pending # "none" ->
         [d EXCEPT !.params[Len(d.params)] = Accumulate(@, byte[2])]
    [] byte[1] = ";" /\ d.pending # "none" -> [d EXCEPT !.params = Append(@, 0)]
    [] byte[1] \in {"color", "repeat", "raster"} -> Begin(d, byte[1])
    [] byte[1] = "$" -> [Flush(d) EXCEPT !.x = 0]
    [] byte[1] = "-" -> LET e == Flush(d) IN [e EXCEPT !.x = 0, !.band = @ + 1]
    [] byte[1] = "data" -> LET e == Flush(d) IN Plots([e EXCEPT !.repeat = 1], byte[2], e.repeat)
    [] OTHER -> d

\* The picture at the end of the string, if it is one.
Finish(d) ==
  LET e == Flush(d) IN
  IF e.dropped \/ e.width = 0 \/ e.height = 0 THEN <<>>
  ELSE <<[width |-> e.width, height |-> e.height, buf |-> e.buf]>>

\* What a data byte plots, where and in which colour.
Plotting(d, byte) ==
  IF byte[1] # "data" \/ d.dropped THEN plotted
  ELSE LET e   == Flush(d)
           new == {<<e.x + k, e.band * Band + b>> : k \in 0..e.repeat-1, b \in byte[2]}
       IN [p \in DOMAIN plotted \union new |-> IF p \in new THEN e.colors[e.current] ELSE plotted[p]]

SixelBytes == {<<"digit", n>> : n \in Digits} \union {<<c>> : c \in {";", "$", "-", "color", "repeat", "raster"}}
              \union {<<"data", b>> : b \in Bits}
Stream ==
  /\ sixel.steps < Strokes /\ holders = <<>>
  /\ \E byte \in SixelBytes :
       /\ sixel' = [IF sixel.dropped THEN sixel ELSE SixelPut(sixel, byte) EXCEPT !.steps = sixel.steps + 1]
       /\ plotted' = Plotting(sixel, byte)
  /\ UNCHANGED holders

-----------------------------------------------------------------------------
(* Placeholders.  A cell is <<>> or [low, place, row, col, high]; a mark   *)
(* that is absent, or not in the table, is -1: the cell before goes on.    *)

ExtendsAnywhere(start, width, next) ==
  /\ start.low = next.low /\ start.place = next.place
  /\ next.row = -1 \/ next.row = start.row
  /\ next.col = -1 \/ next.col = start.col
  /\ next.high = -1 \/ next.high = start.high
CanExtend(start, width, next) ==
  /\ start.low = next.low /\ start.place = next.place
  /\ next.row = -1 \/ next.row = start.row
  /\ next.col = -1 \/ (start.col # -1 /\ next.col = start.col + width)
  /\ next.high = -1 \/ next.high = start.high

\* virtual_runs: [start, at, width] from the left; image 0 is none.
ImageOf(c) == <<c.low, IF c.high = -1 THEN 0 ELSE c.high>>
VirtualRuns(row) ==
  LET Step(acc, x) ==
        CASE row[x] = <<>> -> [acc EXCEPT !.open = FALSE]
          [] row[x] # <<>> /\ acc.open /\ CanExtend(acc.runs[Len(acc.runs)].start, acc.runs[Len(acc.runs)].width, row[x]) ->
               [acc EXCEPT !.runs[Len(acc.runs)].width = @ + 1]
          [] OTHER -> [runs |-> Append(acc.runs, [start |-> row[x], at |-> x, width |-> 1]), open |-> TRUE]
      all == FoldLeft(Step, [runs |-> <<>>, open |-> FALSE], [x \in 1..Len(row) |-> x]).runs
  IN SelectSeq(all, LAMBDA r : ImageOf(r.start) # <<0, 0>>)

Zero(n) == IF n = -1 THEN 0 ELSE n
Shows(run, x) == <<ImageOf(run.start), Zero(run.start.row), Zero(run.start.col) + x - run.at>>

\* The same cell by cell: a cell goes on from the one before unless one of its
\* marks says otherwise, and then shows the next column of the same row.
Reading(row) ==
  LET none == [of |-> <<>>, width |-> 0]
      read[x \in 0..Len(row)] ==
        IF x = 0 \/ row[x] = <<>> THEN none
        ELSE IF read[x - 1].of # <<>>
                /\ LET before == read[x - 1].of[1]
                       agrees(mark, now) == row[x][mark] \in {-1, now}
                   IN /\ row[x].low = before.low /\ row[x].place = before.place
                      /\ agrees("row", before.row) /\ agrees("high", before.high)
                      /\ agrees("col", IF before.col = -1 THEN -1 ELSE before.col + read[x - 1].width)
             THEN [of |-> read[x - 1].of, width |-> read[x - 1].width + 1]
             ELSE [of |-> <<row[x]>>, width |-> 1]
  IN [x \in 1..Len(row) |->
        IF read[x].of = <<>> \/ ImageOf(read[x].of[1]) = <<0, 0>> THEN <<>>
        ELSE <<ImageOf(read[x].of[1]), Zero(read[x].of[1].row), Zero(read[x].of[1].col) + read[x].width - 1>>]

HolderCell ==
  /\ Len(holders) < MaxRow /\ sixel.steps = 0
  /\ \E c \in HolderCells : holders' = Append(holders, c)
  /\ UNCHANGED <<sixel, plotted>>

PicturesInit ==
  /\ \E prefix \in Openings : sixel = FoldLeft(SixelPut, NewDecoder, prefix)
  /\ plotted = <<>> /\ holders = <<>>

PicturesNext == Stream \/ HolderCell

-----------------------------------------------------------------------------
(* Properties.                                                             *)

\* The picture of a sixel string has each pixel where it was plotted, in the last
\* colour plotted there, and is transparent elsewhere, however often and in
\* whichever direction the bitmap grew while it was drawn (SixelDecoder::ensure);
\* each placeholder cell shows the part of the picture its marks, or those of the
\* cells it continues, name (virtual_runs).
PicturesDecode ==
  /\ \A k \in DOMAIN Finish(sixel) :
       LET p == Finish(sixel)[k] IN
       \A x \in 0..p.width-1, y \in 0..p.height-1 :
         p.buf[y * p.width + x + 1] = IF <<x, y>> \in DOMAIN plotted THEN plotted[<<x, y>>] ELSE 0
  /\ LET runs == VirtualRuns(holders) IN
     \A x \in DOMAIN holders :
       LET over == {k \in DOMAIN runs : x >= runs[k].at /\ x < runs[k].at + runs[k].width} IN
       IF Reading(holders)[x] = <<>> THEN over = {}
       ELSE \E k \in over : over = {k} /\ Shows(runs[k], x) = Reading(holders)[x]
=============================================================================
