----------------------------- MODULE PumpProofs -----------------------------
(***************************************************************************)
(* Proofs about the pump thread, for every child and owner (Sessions), any *)
(* screen heights, scrollback, prompts, budget and queue sizes.            *)
(*                                                                         *)
(* First what a read does to the terminal, for every sequence of outputs:  *)
(* it stays well formed, its rows keep the order they were printed in, a   *)
(* row that was in the scrollback moves as far from its end as the counter *)
(* of pushed rows says, and the queued events are the newest ones.  A read *)
(* is a sequence of outputs, so each fact is one about every prefix of it  *)
(* (After), proved for one output and carried along by Climbs.             *)
(*                                                                         *)
(* Then the pump.  Its numbers and sequences have their types, and the     *)
(* offset was computed against the counter the terminal has (PumpInv).     *)
(* With that a read slides the view by as much as the rows it points at    *)
(* moved (WritePlaced), a frame that is current stays so (Current), the    *)
(* two event queues hold what was made in order (Delivered), and the clock *)
(* of a held batch never runs ahead of the batch's own (Clocks).           *)
(***************************************************************************)
EXTENDS PtyPump, Climbing, SequenceTheorems

-----------------------------------------------------------------------------
(* A read, output by output.                                               *)

\* The function After chooses exists: what a read leaves is its outputs' effects
\* one after the other (Terminal::write).
LEMMA AfterSteps ==
  ASSUME NEW t, NEW m \in Nat, NEW chunk, Len(chunk) = m
  PROVE  /\ After(t, chunk)[0] = t
         /\ \A n \in 1 .. m : After(t, chunk)[n] = Effect(After(t, chunk)[n - 1], chunk[n])
<1> DEFINE Built(f, k) ==
             f = [n \in 0 .. k |-> IF n = 0 THEN t ELSE Effect(f[n - 1], chunk[n])]
           Reached == {k \in 0 .. m : \E f : Built(f, k)}
<1>1. 0 \in Reached
  <2>1. Built([n \in 0 .. 0 |-> t], 0)
    OBVIOUS
  <2>2. \E f : Built(f, 0)
    <3> HIDE DEF Built
    <3>1. QED
      BY <2>1
  <2>3. QED
    BY <2>2
<1>2. ASSUME NEW k \in 1 .. m, k - 1 \in Reached
      PROVE  k \in Reached
  <2>1. PICK f : Built(f, k - 1)
    BY <1>2
  <2> DEFINE g == [n \in 0 .. k |-> IF n = k THEN Effect(f[k - 1], chunk[k]) ELSE f[n]]
             h == [n \in 0 .. k |-> IF n = 0 THEN t ELSE Effect(g[n - 1], chunk[n])]
  <2>2. \A n \in 0 .. k - 1 : f[n] = IF n = 0 THEN t ELSE Effect(f[n - 1], chunk[n])
    <3> HIDE DEF g, h
    <3>1. QED
      BY <2>1, Zenon
  <2>3. \A n \in 0 .. k - 1 : g[n] = f[n]
    OBVIOUS
  <2>4. ASSUME NEW n \in 0 .. k PROVE g[n] = h[n]
    <3>1. CASE n = 0
      BY <3>1, <2>2, <2>3
    <3>2. CASE n \in 1 .. k - 1
      <4>1. h[n] = Effect(g[n - 1], chunk[n]) /\ n - 1 \in 0 .. k - 1 /\ n \in 0 .. k - 1
        BY <3>2
      <4>2. QED
        BY <4>1, <2>2, <2>3, <3>2
    <3>3. CASE n = k /\ k > 0
      <4>1. h[n] = Effect(g[k - 1], chunk[k]) /\ g[n] = Effect(f[k - 1], chunk[k])
        BY <3>3
      <4>2. g[k - 1] = f[k - 1]
        BY <2>3
      <4>3. QED
        BY <4>1, <4>2
    <3>4. QED
      BY <3>1, <3>2, <3>3
  <2>5. g = h
    <3>1. DOMAIN g = 0 .. k /\ DOMAIN h = 0 .. k
      OBVIOUS
    <3>2. g = [n \in 0 .. k |-> g[n]] /\ h = [n \in 0 .. k |-> h[n]]
      OBVIOUS
    <3>3. QED
      BY <3>2, <2>4
  <2>6. Built(g, k)
    BY <2>5
  <2>7. \E f2 : Built(f2, k)
    <3> HIDE DEF Built, g
    <3>1. QED
      BY <2>6
  <2>8. QED
    BY <2>7
<1>3. m \in Reached
  <2> HIDE DEF Reached
  <2>1. QED
    BY <1>1, <1>2, Climbs
<1>4. Built(After(t, chunk), m)
  BY <1>3 DEF After
<1>5. QED
  BY <1>4

LEMMA ReadSteps ==
  ASSUME NEW t, NEW chunk \in Seq(Outputs)
  PROVE  /\ Len(chunk) \in Nat
         /\ After(t, chunk)[0] = t
         /\ \A n \in 1 .. Len(chunk) :
              After(t, chunk)[n] = Effect(After(t, chunk)[n - 1], chunk[n])
<1> DEFINE m == Len(chunk)
<1>1. m \in Nat /\ Len(chunk) = m
  OBVIOUS
<1> HIDE DEF m
<1>2. QED
  BY <1>1, AfterSteps

-----------------------------------------------------------------------------
(* Sequences the terminal is built from.                                   *)

\* The newest n of a sequence: a suffix, all of it when it is not longer.
LEMMA NewestProperties ==
  ASSUME NEW S, NEW s \in Seq(S), NEW n \in Nat
  PROVE  /\ Newest(s, n) \in Seq(S)
         /\ Len(Newest(s, n)) = IF Len(s) > n THEN n ELSE Len(s)
         /\ Len(Newest(s, n)) <= n
         /\ Len(Newest(s, n)) <= Len(s)
         /\ \A i \in 1 .. Len(Newest(s, n)) :
              Newest(s, n)[i] = s[i + (Len(s) - Len(Newest(s, n)))]
<1>1. CASE Len(s) > n
  <2> DEFINE from == Len(s) - n + 1
  <2>1. Newest(s, n) = SubSeq(s, from, Len(s))
    BY <1>1 DEF Newest
  <2>2. from \in Int /\ Len(s) \in Int /\ from >= 1
    BY <1>1
  <2>3. \A i \in from .. Len(s) : s[i] \in S
    BY <2>2, ElementOfSeq
  <2>4. /\ SubSeq(s, from, Len(s)) \in Seq(S)
        /\ Len(SubSeq(s, from, Len(s))) = IF from <= Len(s) THEN Len(s) - from + 1 ELSE 0
        /\ \A i \in 1 .. Len(s) - from + 1 : SubSeq(s, from, Len(s))[i] = s[from + i - 1]
    <3> HIDE DEF from
    <3>1. QED
      BY <2>2, <2>3, SubSeqProperties
  <2>5. Len(Newest(s, n)) = n
    BY <2>1, <2>4, <1>1
  <2>6. \A i \in 1 .. n : Newest(s, n)[i] = s[i + (Len(s) - n)]
    BY <2>1, <2>4, <1>1
  <2>7. Newest(s, n) \in Seq(S)
    BY <2>1, <2>4
  <2>8. Len(s) \in Nat /\ n <= Len(s)
    BY <1>1
  <2>9. QED
    BY <1>1, <2>5, <2>6, <2>7, <2>8
<1>2. CASE ~(Len(s) > n)
  <2>1. Newest(s, n) = s
    BY <1>2 DEF Newest
  <2>2. QED
    BY <1>2, <2>1
<1>3. QED
  BY <1>1, <1>2

\* A blank screen holds rows, and only blank ones.
LEMMA BlankProperties ==
  ASSUME NEW n \in Nat
  PROVE  /\ Blank(n) \in Seq(Nat)
         /\ Len(Blank(n)) = n
         /\ \A i \in 1 .. n : Blank(n)[i] = 0
<1>1. Blank(n) \in [1 .. n -> Nat]
  BY DEF Blank
<1>2. Blank(n) \in Seq(Nat)
  BY <1>1
<1>3. QED
  BY <1>1, <1>2 DEF Blank

-----------------------------------------------------------------------------
(* The parts of a terminal, and what leaves them alone.                    *)

Terminals ==
  [history : Seq(Nat), pushed : Nat, rows : Seq(Nat), y : Nat, alt : BOOLEAN,
   sync : BOOLEAN, batches : Nat, lines : Nat, events : Seq(Nat), emitted : Nat,
   wiped : Nat]

SameHistory(u, t) == u.history = t.history /\ u.pushed = t.pushed
SameRows(u, t)    == u.rows = t.rows /\ u.y = t.y
SameLines(u, t)   == u.lines = t.lines /\ u.alt = t.alt
SameBatch(u, t)   == u.sync = t.sync /\ u.batches = t.batches
SameEvents(u, t)  == u.events = t.events /\ u.emitted = t.emitted /\ u.wiped = t.wiped

\* The history is within its budget and the cursor on one of the rows.
WellFormed(t) ==
  /\ t \in Terminals
  /\ Len(t.history) <= MaxScrollback
  /\ t.y \in 1 .. Len(t.rows)

LEMMA NewTerminalWellFormed ==
  ASSUME NEW rows \in Nat \ {0}
  PROVE  /\ WellFormed(NewTerminal(rows))
         /\ Len(NewTerminal(rows).rows) = rows
  BY BlankProperties, ScrollbackAssumption DEF NewTerminal, WellFormed, Terminals

(* A terminal with some of its parts replaced. *)
WithHistory(t, h, p)   == [t EXCEPT !.history = h, !.pushed = p]
WithRows(t, r, y)      == [t EXCEPT !.rows = r, !.y = y]
WithLine(t, n, r)      == [t EXCEPT !.lines = n, !.rows = r]
WithBatch(t, on, n)    == [t EXCEPT !.sync = on, !.batches = n]
WithEvents(t, n, e)    == [t EXCEPT !.emitted = n, !.events = e]
WithScreen(t, on)      == [t EXCEPT !.alt = on]

LEMMA HistorySet ==
  ASSUME NEW t \in Terminals, NEW h \in Seq(Nat), NEW p \in Nat
  PROVE  LET u == WithHistory(t, h, p)
         IN  /\ u \in Terminals /\ u.history = h /\ u.pushed = p
             /\ SameRows(u, t) /\ SameLines(u, t) /\ SameBatch(u, t) /\ SameEvents(u, t)
  BY DEF WithHistory, Terminals, SameRows, SameLines, SameBatch, SameEvents

LEMMA RowsSet ==
  ASSUME NEW t \in Terminals, NEW r \in Seq(Nat), NEW y \in Nat
  PROVE  LET u == WithRows(t, r, y)
         IN  /\ u \in Terminals /\ u.rows = r /\ u.y = y
             /\ SameHistory(u, t) /\ SameLines(u, t) /\ SameBatch(u, t) /\ SameEvents(u, t)
  BY DEF WithRows, Terminals, SameHistory, SameLines, SameBatch, SameEvents

LEMMA LineSet ==
  ASSUME NEW t \in Terminals, NEW n \in Nat, NEW r \in Seq(Nat)
  PROVE  LET u == WithLine(t, n, r)
         IN  /\ u \in Terminals /\ u.lines = n /\ u.rows = r /\ u.y = t.y /\ u.alt = t.alt
             /\ SameHistory(u, t) /\ SameBatch(u, t) /\ SameEvents(u, t)
  BY DEF WithLine, Terminals, SameHistory, SameBatch, SameEvents

LEMMA BatchSet ==
  ASSUME NEW t \in Terminals, NEW on \in BOOLEAN, NEW n \in Nat
  PROVE  LET u == WithBatch(t, on, n)
         IN  /\ u \in Terminals /\ u.sync = on /\ u.batches = n
             /\ SameHistory(u, t) /\ SameRows(u, t) /\ SameLines(u, t) /\ SameEvents(u, t)
  BY DEF WithBatch, Terminals, SameHistory, SameRows, SameLines, SameEvents

LEMMA EventsSet ==
  ASSUME NEW t \in Terminals, NEW n \in Nat, NEW e \in Seq(Nat)
  PROVE  LET u == WithEvents(t, n, e)
         IN  /\ u \in Terminals /\ u.emitted = n /\ u.events = e /\ u.wiped = t.wiped
             /\ SameHistory(u, t) /\ SameRows(u, t) /\ SameLines(u, t) /\ SameBatch(u, t)
  BY DEF WithEvents, Terminals, SameHistory, SameRows, SameLines, SameBatch

LEMMA ScreenSet ==
  ASSUME NEW t \in Terminals, NEW on \in BOOLEAN
  PROVE  LET u == WithScreen(t, on)
         IN  /\ u \in Terminals /\ u.alt = on /\ u.lines = t.lines
             /\ SameHistory(u, t) /\ SameRows(u, t) /\ SameBatch(u, t) /\ SameEvents(u, t)
  BY DEF WithScreen, Terminals, SameHistory, SameRows, SameBatch, SameEvents

-----------------------------------------------------------------------------
(* The terminal stays well formed.                                         *)

\* What pushing rows into the history leaves alone.
LEMMA PushAllProperties ==
  ASSUME NEW t \in Terminals, NEW rows \in Seq(Nat)
  PROVE  LET u == PushAll(t, rows)
         IN  /\ u \in Terminals
             /\ u.history = Newest(t.history \o rows, MaxScrollback)
             /\ u.pushed = IF MaxScrollback = 0 THEN t.pushed ELSE t.pushed + Len(rows)
             /\ SameRows(u, t) /\ SameLines(u, t) /\ SameBatch(u, t) /\ SameEvents(u, t)
             /\ Len(u.history) <= MaxScrollback
<1> DEFINE h == Newest(t.history \o rows, MaxScrollback)
           p == IF MaxScrollback = 0 THEN t.pushed ELSE t.pushed + Len(rows)
<1>1. t.history \o rows \in Seq(Nat) /\ t.pushed \in Nat
  BY ConcatProperties DEF Terminals
<1>2. h \in Seq(Nat) /\ Len(h) <= MaxScrollback
  BY <1>1, NewestProperties, ScrollbackAssumption
<1>3. p \in Nat
  BY <1>1
<1>4. PushAll(t, rows) = WithHistory(t, h, p)
  BY DEF PushAll, WithHistory
<1>5. QED
  <2> HIDE DEF h, p
  <2> DEFINE u == WithHistory(t, h, p)
  <2>1. h \in Seq(Nat)
    BY <1>2
  <2>2. /\ u \in Terminals /\ u.history = h /\ u.pushed = p
        /\ SameRows(u, t) /\ SameLines(u, t) /\ SameBatch(u, t) /\ SameEvents(u, t)
    BY <1>3, <2>1, HistorySet
  <2> HIDE DEF u
  <2>3. PushAll(t, rows) = u
    BY <1>4 DEF u
  <2>4. QED
    BY <1>2, <2>2, <2>3 DEF h, p

\* A line: where it goes, and the row that leaves for the history.
LEMMA WriteLineProperties ==
  ASSUME NEW t, WellFormed(t), ~t.alt
  PROVE  LET u    == WriteLine(t)
             full == [t.rows EXCEPT ![t.y] = t.lines + 1]
         IN  /\ WellFormed(u) /\ Len(u.rows) = Len(t.rows)
             /\ u.lines = t.lines + 1 /\ u.alt = t.alt
             /\ SameBatch(u, t) /\ SameEvents(u, t)
             /\ t.y < Len(t.rows) => u.rows = full /\ u.y = t.y + 1 /\ SameHistory(u, t)
             /\ t.y = Len(t.rows)
                  => /\ u.y = t.y
                     /\ \A i \in 1 .. Len(t.rows) - 1 : u.rows[i] = full[i + 1]
                     /\ u.history = Newest(Append(t.history, full[1]), MaxScrollback)
                     /\ u.pushed = IF MaxScrollback = 0 THEN t.pushed ELSE t.pushed + 1
<1> DEFINE n       == t.lines + 1
           full    == [t.rows EXCEPT ![t.y] = n]
           written == WithLine(t, n, full)
           left    == PushAll(written, <<Head(full)>>)
           next    == t.y + 1
           scrolled == Append(Tail(full), 0)
<1>1. /\ t \in Terminals /\ t.rows \in Seq(Nat) /\ t.history \in Seq(Nat) /\ t.pushed \in Nat
      /\ t.lines \in Nat /\ t.y \in 1 .. Len(t.rows) /\ n \in Nat /\ next \in Nat
      /\ Len(t.rows) \in Nat /\ Len(t.history) <= MaxScrollback
  BY DEF WellFormed, Terminals
<1>2. full \in Seq(Nat) /\ Len(full) = Len(t.rows) /\ full # <<>>
  BY <1>1, ExceptSeq
<1>3. /\ Tail(full) \in Seq(Nat) /\ Len(Tail(full)) = Len(t.rows) - 1
      /\ \A i \in 1 .. Len(t.rows) - 1 : Tail(full)[i] = full[i + 1]
      /\ Head(full) = full[1] /\ full[1] \in Nat
  BY <1>2, HeadTailProperties
<1>4. /\ scrolled \in Seq(Nat) /\ Len(scrolled) = Len(t.rows)
      /\ \A i \in 1 .. Len(t.rows) - 1 : scrolled[i] = full[i + 1]
  BY <1>1, <1>3, AppendProperties
<1>5. /\ <<Head(full)>> \in Seq(Nat) /\ Len(<<Head(full)>>) = 1
      /\ t.history \o <<Head(full)>> = Append(t.history, full[1])
  BY <1>1, <1>3, AppendIsConcat
<1>6. WriteLine(t) = IF t.y < Len(written.rows) THEN [written EXCEPT !.y = written.y + 1]
                     ELSE [PushAll(written, <<Head(written.rows)>>)
                             EXCEPT !.rows = Append(Tail(written.rows), 0)]
  BY DEF WriteLine, WithLine
<1> HIDE DEF n, full, next, scrolled
<1>7. /\ written \in Terminals /\ written.lines = n /\ written.rows = full
      /\ written.y = t.y /\ written.alt = t.alt
      /\ SameHistory(written, t) /\ SameBatch(written, t) /\ SameEvents(written, t)
  <2>1. t \in Terminals /\ n \in Nat /\ full \in Seq(Nat)
    BY <1>1, <1>2
  <2>2. QED
    BY <2>1, LineSet
<1> HIDE DEF written
<1>8. CASE t.y < Len(t.rows)
  <2>1. WriteLine(t) = WithRows(written, full, next)
    <3>1. WriteLine(t) = [written EXCEPT !.y = next]
      BY <1>2, <1>6, <1>7, <1>8 DEF next
    <3>2. [written EXCEPT !.rows = full] = written
      BY <1>7 DEF Terminals
    <3>3. QED
      BY <3>1, <3>2 DEF WithRows
  <2> DEFINE u == WithRows(written, full, next)
  <2>2. /\ u \in Terminals /\ u.rows = full /\ u.y = next
        /\ SameHistory(u, written) /\ SameLines(u, written)
        /\ SameBatch(u, written) /\ SameEvents(u, written)
    <3>1. written \in Terminals /\ full \in Seq(Nat) /\ next \in Nat
      BY <1>1, <1>2, <1>7
    <3>2. QED
      BY <3>1, RowsSet
  <2> HIDE DEF u
  <2>3. /\ u.lines = t.lines + 1 /\ u.alt = t.alt /\ SameHistory(u, t)
        /\ SameBatch(u, t) /\ SameEvents(u, t)
    BY <2>2, <1>7 DEF SameHistory, SameLines, SameBatch, SameEvents, n
  <2>4. WellFormed(u)
    BY <2>2, <2>3, <1>1, <1>2, <1>8 DEF WellFormed, SameHistory, next
  <2>5. QED
    BY <2>1, <2>2, <2>3, <2>4, <1>1, <1>2, <1>8 DEF u, full, next, n
<1>9. CASE t.y = Len(t.rows)
  <2>1. /\ left \in Terminals
        /\ left.history = Newest(written.history \o <<Head(full)>>, MaxScrollback)
        /\ left.pushed = IF MaxScrollback = 0 THEN written.pushed ELSE written.pushed + 1
        /\ SameRows(left, written) /\ SameLines(left, written)
        /\ SameBatch(left, written) /\ SameEvents(left, written)
        /\ Len(left.history) <= MaxScrollback
    BY <1>5, <1>7, PushAllProperties
  <2>2. WriteLine(t) = WithRows(left, scrolled, t.y)
    <3>1. WriteLine(t) = [left EXCEPT !.rows = scrolled]
      BY <1>1, <1>2, <1>6, <1>7, <1>9 DEF scrolled
    <3>2. [left EXCEPT !.rows = scrolled].y = t.y
      BY <2>1, <1>7 DEF SameRows, Terminals
    <3>3. QED
      BY <3>1, <3>2, <2>1, <1>7 DEF SameRows, Terminals, WithRows
  <2> HIDE DEF left
  <2> DEFINE u == WithRows(left, scrolled, t.y)
  <2>3. /\ u \in Terminals /\ u.rows = scrolled /\ u.y = t.y
        /\ SameHistory(u, left) /\ SameLines(u, left)
        /\ SameBatch(u, left) /\ SameEvents(u, left)
    <3>1. left \in Terminals /\ scrolled \in Seq(Nat) /\ t.y \in Nat
      BY <1>1, <1>4, <2>1
    <3>2. QED
      BY <3>1, RowsSet
  <2> HIDE DEF u
  <2>4. /\ u.lines = t.lines + 1 /\ u.alt = t.alt /\ SameBatch(u, t) /\ SameEvents(u, t)
        /\ u.history = Newest(Append(t.history, full[1]), MaxScrollback)
        /\ u.pushed = IF MaxScrollback = 0 THEN t.pushed ELSE t.pushed + 1
        /\ Len(u.history) <= MaxScrollback
    BY <2>1, <2>3, <1>5, <1>7 DEF SameHistory, SameRows, SameLines, SameBatch, SameEvents, n
  <2>5. WellFormed(u)
    BY <2>3, <2>4, <1>1, <1>4, <1>9 DEF WellFormed
  <2>6. QED
    BY <2>2, <2>3, <2>4, <2>5, <1>1, <1>4, <1>9 DEF u, full, n
<1>10. QED
  BY <1>8, <1>9, <1>1

\* The rows a reflow goes over: the history and the screen down to the cursor.
Content(t) == t.history \o SubSeq(t.rows, 1, t.y)

LEMMA ContentProperties ==
  ASSUME NEW t, WellFormed(t)
  PROVE  /\ Content(t) \in Seq(Nat)
         /\ Len(Content(t)) = Len(t.history) + t.y
         /\ \A i \in 1 .. Len(t.history) : Content(t)[i] = t.history[i]
         /\ \A i \in 1 .. t.y : Content(t)[Len(t.history) + i] = t.rows[i]
<1> DEFINE above == SubSeq(t.rows, 1, t.y)
<1>1. /\ t.history \in Seq(Nat) /\ t.rows \in Seq(Nat) /\ t.y \in 1 .. Len(t.rows)
      /\ Len(t.history) \in Nat /\ Len(t.rows) \in Nat
  BY DEF WellFormed, Terminals
<1>2. \A i \in 1 .. t.y : t.rows[i] \in Nat
  BY <1>1
<1>3. /\ above \in Seq(Nat) /\ Len(above) = t.y
      /\ \A i \in 1 .. t.y : above[i] = t.rows[i]
  <2>1. /\ above \in Seq(Nat)
        /\ Len(above) = IF 1 <= t.y THEN t.y - 1 + 1 ELSE 0
        /\ \A i \in 1 .. t.y - 1 + 1 : above[i] = t.rows[1 + i - 1]
    BY <1>1, <1>2, SubSeqProperties
  <2>2. QED
    BY <1>1, <2>1
<1> HIDE DEF above
<1>4. /\ t.history \o above \in Seq(Nat)
      /\ Len(t.history \o above) = Len(t.history) + Len(above)
      /\ \A i \in 1 .. Len(t.history) + Len(above) :
           (t.history \o above)[i] =
              IF i <= Len(t.history) THEN t.history[i] ELSE above[i - Len(t.history)]
  BY <1>1, <1>3, ConcatProperties
<1>5. Content(t) = t.history \o above
  BY DEF Content, above
<1>6. \A i \in 1 .. Len(t.history) : Content(t)[i] = t.history[i]
  BY <1>1, <1>3, <1>4, <1>5
<1>7. ASSUME NEW i \in 1 .. t.y
      PROVE  Content(t)[Len(t.history) + i] = t.rows[i]
  <2> DEFINE h == Len(t.history)
             y == t.y
  <2>1. h \in Nat /\ y \in Nat
    BY <1>1
  <2>2. (t.history \o above)[h + i] = above[h + i - h]
    <3>1. /\ h + i \in 1 .. h + Len(above)
          /\ ~ (h + i <= h)
      BY <1>3, <2>1
    <3>2. QED
      BY <1>4, <3>1
  <2>3. h + i - h = i
    BY <2>1
  <2>4. QED
    BY <1>3, <1>5, <2>2, <2>3
<1>8. QED
  BY <1>1, <1>3, <1>4, <1>5, <1>6, <1>7

\* A reflow keeps the content, or the end of it: the last rows of it on the new
\* screen, the cursor on the last of them, and the rows before those in the
\* history as far as it reaches.
LEMMA ResizeProperties ==
  ASSUME NEW t, WellFormed(t), NEW n \in Nat \ {0}
  PROVE  LET u == ResizeTo(t, n)
             c == Content(t)
         IN  /\ WellFormed(u) /\ Len(u.rows) = n
             /\ u.y <= Len(c)
             /\ \A i \in 1 .. u.y : u.rows[i] = c[i + (Len(c) - u.y)]
             /\ Len(u.history) <= Len(c) - u.y
             /\ \A i \in 1 .. Len(u.history) :
                  u.history[i] = c[i + (Len(c) - u.y - Len(u.history))]
             /\ u.sync = FALSE /\ u.batches = t.batches
             /\ SameLines(u, t) /\ SameEvents(u, t)
<1> DEFINE c        == Content(t)
           overflow == IF Len(c) > n THEN Len(c) - n ELSE 0
           kept     == SubSeq(c, overflow + 1, Len(c))
           gone     == SubSeq(c, 1, overflow)
           blank    == Blank(n - Len(kept))
           empty    == WithHistory(t, <<>>, t.pushed)
           pushed   == PushAll(empty, gone)
           r        == kept \o blank
           placed   == WithRows(pushed, r, Len(kept))
           u        == WithBatch(placed, FALSE, t.batches)
<1>1. /\ t \in Terminals /\ t.pushed \in Nat /\ t.batches \in Nat /\ t.y \in Nat \ {0}
      /\ c \in Seq(Nat) /\ Len(c) \in Nat /\ Len(c) > 0
      /\ \A i \in 1 .. Len(c) : c[i] \in Nat
  <2>1. t \in Terminals /\ t.pushed \in Nat /\ t.batches \in Nat /\ t.y \in Nat \ {0}
        /\ Len(t.history) \in Nat
    BY DEF WellFormed, Terminals
  <2>2. c \in Seq(Nat) /\ Len(c) = Len(t.history) + t.y
    BY ContentProperties
  <2> HIDE DEF c
  <2>3. QED
    BY <2>1, <2>2
<1>2. ResizeTo(t, n) = [PushAll([t EXCEPT !.history = <<>>], gone)
                          EXCEPT !.rows = r, !.y = Len(kept), !.sync = FALSE]
  BY DEF ResizeTo, Content
<1> HIDE DEF c
<1>3. /\ overflow \in Nat /\ overflow < Len(c) /\ Len(c) - overflow <= n
      /\ overflow = 0 \/ Len(c) - overflow = n
  BY <1>1
<1> HIDE DEF overflow
<1>4. /\ kept \in Seq(Nat) /\ Len(kept) = Len(c) - overflow
      /\ \A i \in 1 .. Len(c) - overflow : kept[i] = c[overflow + i]
  <2>1. overflow + 1 \in Int /\ Len(c) \in Int /\ \A i \in overflow + 1 .. Len(c) : c[i] \in Nat
    BY <1>1, <1>3
  <2>2. /\ kept \in Seq(Nat)
        /\ Len(kept) = IF overflow + 1 <= Len(c) THEN Len(c) - (overflow + 1) + 1 ELSE 0
        /\ \A i \in 1 .. Len(c) - (overflow + 1) + 1 : kept[i] = c[(overflow + 1) + i - 1]
    BY <2>1, SubSeqProperties
  <2> HIDE DEF kept
  <2>3. QED
    BY <1>1, <1>3, <2>2
<1>5. /\ gone \in Seq(Nat) /\ Len(gone) = overflow
      /\ \A i \in 1 .. overflow : gone[i] = c[i]
  <2>1. 1 \in Int /\ overflow \in Int /\ \A i \in 1 .. overflow : c[i] \in Nat
    BY <1>1, <1>3
  <2>2. /\ gone \in Seq(Nat)
        /\ Len(gone) = IF 1 <= overflow THEN overflow - 1 + 1 ELSE 0
        /\ \A i \in 1 .. overflow - 1 + 1 : gone[i] = c[1 + i - 1]
    BY <2>1, SubSeqProperties
  <2> HIDE DEF gone
  <2>3. QED
    BY <1>1, <1>3, <2>2
<1> HIDE DEF kept, gone
<1>6. /\ r \in Seq(Nat) /\ Len(r) = n
      /\ \A i \in 1 .. Len(kept) : r[i] = kept[i]
  <2>1. n - Len(kept) \in Nat
    BY <1>1, <1>3, <1>4
  <2>2. blank \in Seq(Nat) /\ Len(blank) = n - Len(kept)
    BY <2>1, BlankProperties
  <2> HIDE DEF blank
  <2>3. /\ kept \o blank \in Seq(Nat)
        /\ Len(kept \o blank) = Len(kept) + Len(blank)
        /\ \A i \in 1 .. Len(kept) + Len(blank) :
             (kept \o blank)[i] = IF i <= Len(kept) THEN kept[i] ELSE blank[i - Len(kept)]
    BY <1>4, <2>2, ConcatProperties
  <2>4. Len(kept) \in Nat
    BY <1>4
  <2>5. QED
    BY <2>1, <2>2, <2>3, <2>4
<1> HIDE DEF blank, r
<1>7. /\ empty \in Terminals /\ empty.history = <<>>
      /\ SameLines(empty, t) /\ SameBatch(empty, t) /\ SameEvents(empty, t)
  <2>1. t \in Terminals /\ <<>> \in Seq(Nat) /\ t.pushed \in Nat
    BY <1>1
  <2>2. QED
    BY <2>1, HistorySet, ZenonT(60)
<1>8. empty = [t EXCEPT !.history = <<>>]
  BY <1>1 DEF Terminals, WithHistory
<1> HIDE DEF empty
<1>9. /\ pushed \in Terminals
      /\ pushed.history = Newest(empty.history \o gone, MaxScrollback)
      /\ SameLines(pushed, empty) /\ SameBatch(pushed, empty) /\ SameEvents(pushed, empty)
      /\ Len(pushed.history) <= MaxScrollback
  <2>1. empty \in Terminals /\ gone \in Seq(Nat)
    BY <1>5, <1>7
  <2>2. QED
    BY <2>1, PushAllProperties
<1>10. pushed.history = Newest(gone, MaxScrollback)
  <2>1. <<>> \o gone = gone
    BY <1>5, ConcatEmptySeq
  <2>2. QED
    BY <1>7, <1>9, <2>1
<1>11. ResizeTo(t, n) = [pushed EXCEPT !.rows = r, !.y = Len(kept), !.sync = FALSE]
  BY <1>2, <1>8
<1> HIDE DEF pushed
<1>12. /\ placed \in Terminals /\ placed.rows = r /\ placed.y = Len(kept)
       /\ SameHistory(placed, pushed) /\ SameLines(placed, pushed)
       /\ SameBatch(placed, pushed) /\ SameEvents(placed, pushed)
  <2>1. pushed \in Terminals /\ r \in Seq(Nat) /\ Len(kept) \in Nat
    BY <1>4, <1>6, <1>9
  <2>2. QED
    BY <2>1, RowsSet
<1>13. /\ u \in Terminals /\ u.sync = FALSE /\ u.batches = t.batches
       /\ SameHistory(u, placed) /\ SameRows(u, placed) /\ SameLines(u, placed)
       /\ SameEvents(u, placed)
  <2>1. placed \in Terminals /\ FALSE \in BOOLEAN /\ t.batches \in Nat
    BY <1>1, <1>12
  <2> HIDE DEF placed
  <2>2. QED
    BY <2>1, BatchSet
<1>14. ResizeTo(t, n) = u
  <2>1. placed = [pushed EXCEPT !.rows = r, !.y = Len(kept)]
    BY DEF WithRows
  <2>2. placed.batches = t.batches
    BY <1>7, <1>9, <1>12 DEF SameBatch
  <2>3. ResizeTo(t, n) = [placed EXCEPT !.sync = FALSE]
    BY <1>11, <2>1
  <2> HIDE DEF placed
  <2>4. QED
    BY <1>12, <2>2, <2>3 DEF WithBatch, Terminals
<1> HIDE DEF u, placed
<1>15. /\ u.rows = r /\ u.y = Len(kept) /\ u.history = Newest(gone, MaxScrollback)
       /\ Len(u.history) <= MaxScrollback
       /\ SameLines(u, t) /\ SameEvents(u, t)
  BY <1>7, <1>9, <1>10, <1>12, <1>13 DEF SameHistory, SameRows, SameLines, SameEvents
<1>16. WellFormed(u)
  <2>1. Len(kept) \in 1 .. n
    BY <1>1, <1>3, <1>4
  <2>2. QED
    BY <1>6, <1>13, <1>15, <2>1 DEF WellFormed
<1>17. /\ Len(u.history) \in Nat /\ Len(u.history) <= overflow
       /\ \A i \in 1 .. Len(u.history) : u.history[i] = c[i + (overflow - Len(u.history))]
  <2>1. /\ Len(u.history) <= overflow /\ Len(u.history) \in Nat
        /\ \A i \in 1 .. Len(u.history) :
             u.history[i] = gone[i + (overflow - Len(u.history))]
    <3> DEFINE kh == Newest(gone, MaxScrollback)
    <3>1. gone \in Seq(Nat) /\ MaxScrollback \in Nat
      BY <1>5, ScrollbackAssumption
    <3>2. /\ kh \in Seq(Nat) /\ Len(kh) <= Len(gone)
          /\ \A i \in 1 .. Len(kh) : kh[i] = gone[i + (Len(gone) - Len(kh))]
      BY <3>1, NewestProperties
    <3> HIDE DEF kh
    <3>3. u.history = kh /\ Len(gone) = overflow /\ Len(kh) \in Nat
      BY <1>5, <1>15, <3>2 DEF kh
    <3>4. QED
      BY <3>2, <3>3
  <2>2. \A i \in 1 .. Len(u.history) : i + (overflow - Len(u.history)) \in 1 .. overflow
    BY <2>1, <1>3
  <2>3. QED
    BY <1>5, <2>1, <2>2
<1>18. Len(u.rows) = n /\ u.y \in Nat /\ u.y = Len(c) - overflow
  BY <1>1, <1>3, <1>4, <1>6, <1>15
<1>19. \A i \in 1 .. u.y : u.rows[i] = c[i + (Len(c) - u.y)]
  <2>1. \A i \in 1 .. Len(kept) : u.rows[i] = c[overflow + i]
    BY <1>4, <1>6, <1>15
  <2>2. Len(c) - u.y = overflow /\ Len(kept) = u.y
    BY <1>1, <1>3, <1>15, <1>18
  <2>3. SUFFICES ASSUME NEW i \in 1 .. u.y
                 PROVE  u.rows[i] = c[i + (Len(c) - u.y)]
    OBVIOUS
  <2>4. i + (Len(c) - u.y) = overflow + i
    BY <1>3, <2>2
  <2>5. QED
    BY <2>1, <2>2, <2>4
<1>20. \A i \in 1 .. Len(u.history) :
         u.history[i] = c[i + (Len(c) - u.y - Len(u.history))]
  <2>1. Len(c) - u.y = overflow
    BY <1>1, <1>3, <1>18
  <2>2. QED
    BY <1>17, <2>1
<1>21. u.y <= Len(c) /\ Len(u.history) <= Len(c) - u.y
  BY <1>1, <1>3, <1>17, <1>18
<1>22. QED
  BY <1>13, <1>14, <1>15, <1>16, <1>18, <1>19, <1>20, <1>21 DEF c

\* A change of the columns is a reflow at the same height; on the primary screen
\* the rows are blanked after it and the cursor is home.
LEMMA ChangeColumnsProperties ==
  ASSUME NEW t, WellFormed(t)
  PROVE  LET u == ChangeColumns(t)
             v == ResizeTo(t, Len(t.rows))
         IN  /\ WellFormed(u) /\ Len(u.rows) = Len(t.rows)
             /\ SameHistory(u, v)
             /\ t.alt => SameRows(u, v)
             /\ ~t.alt => u.y = 1
             /\ u.sync = FALSE /\ u.batches = t.batches
             /\ SameLines(u, t) /\ SameEvents(u, t)
<1> DEFINE n     == Len(t.rows)
           v     == ResizeTo(t, n)
           blank == Blank(n)
           u     == WithRows(v, blank, 1)
<1>1. n \in Nat \ {0}
  BY DEF WellFormed, Terminals
<1> HIDE DEF n
<1>2. /\ WellFormed(v) /\ Len(v.rows) = n /\ v.sync = FALSE /\ v.batches = t.batches
      /\ SameLines(v, t) /\ SameEvents(v, t)
  BY <1>1, ResizeProperties
<1>3. ChangeColumns(t) = IF t.alt THEN v ELSE u
  BY DEF ChangeColumns, WithRows, n
<1>4. blank \in Seq(Nat) /\ Len(blank) = n
  BY <1>1, BlankProperties
<1> HIDE DEF v, blank
<1>5. /\ u \in Terminals /\ u.rows = blank /\ u.y = 1
      /\ SameHistory(u, v) /\ SameLines(u, v) /\ SameBatch(u, v) /\ SameEvents(u, v)
  <2>1. v \in Terminals /\ blank \in Seq(Nat) /\ 1 \in Nat
    BY <1>2, <1>4 DEF WellFormed
  <2>2. QED
    BY <2>1, RowsSet
<1> HIDE DEF u
<1>6. WellFormed(u)
  BY <1>1, <1>2, <1>4, <1>5 DEF WellFormed, SameHistory
<1>7. CASE t.alt
  <2>1. SameHistory(v, v) /\ SameRows(v, v)
    BY DEF SameHistory, SameRows
  <2>2. ChangeColumns(t) = v
    BY <1>3, <1>7
  <2>3. QED
    BY <1>2, <1>7, <2>1, <2>2 DEF v, n
<1>8. CASE ~t.alt
  <2>1. ChangeColumns(t) = u
    BY <1>3, <1>8
  <2>2. u.sync = FALSE /\ u.batches = t.batches /\ SameLines(u, t) /\ SameEvents(u, t)
    BY <1>2, <1>5 DEF SameBatch, SameLines, SameEvents
  <2>3. QED
    BY <1>4, <1>5, <1>6, <1>8, <2>1, <2>2 DEF v, n
<1>9. QED
  BY <1>7, <1>8

\* A full reset keeps the height and the counts nobody resets.
LEMMA FullResetProperties ==
  ASSUME NEW t, WellFormed(t)
  PROVE  LET u == FullReset(t)
         IN  /\ WellFormed(u) /\ Len(u.rows) = Len(t.rows)
             /\ u.history = <<>> /\ u.pushed = 0 /\ u.y = 1
             /\ u.alt = FALSE /\ u.sync = FALSE
             /\ u.batches = t.batches /\ u.lines = t.lines
             /\ u.events = <<>> /\ u.emitted = t.emitted
             /\ u.wiped = IF t.events = <<>> THEN t.wiped ELSE t.emitted
<1> DEFINE n == Len(t.rows)
           b == Blank(n)
           w == IF t.events = <<>> THEN t.wiped ELSE t.emitted
           u == [history |-> <<>>, pushed |-> 0, rows |-> b, y |-> 1, alt |-> FALSE,
                 sync |-> FALSE, batches |-> t.batches, lines |-> t.lines, events |-> <<>>,
                 emitted |-> t.emitted, wiped |-> w]
<1>1. /\ n \in Nat \ {0} /\ t.batches \in Nat /\ t.lines \in Nat /\ t.emitted \in Nat
      /\ w \in Nat
  BY DEF WellFormed, Terminals
<1>2. FullReset(t) = u
  <2> HIDE DEF w
  <2>1. FullReset(t) = [NewTerminal(n) EXCEPT !.batches = t.batches, !.lines = t.lines,
                                              !.emitted = t.emitted, !.wiped = w]
    BY DEF FullReset, w
  <2>2. QED
    BY <2>1 DEF NewTerminal
<1>3. b \in Seq(Nat) /\ Len(b) = n
  BY <1>1, BlankProperties
<1> HIDE DEF n, b
<1>4. u \in Terminals
  BY <1>1, <1>3 DEF Terminals
<1>5. WellFormed(u)
  BY <1>1, <1>3, <1>4, ScrollbackAssumption DEF WellFormed
<1>6. QED
  BY <1>2, <1>3, <1>5 DEF n

\* An event goes to the end of the queue, which keeps its newest.
LEMMA PushEventProperties ==
  ASSUME NEW t, WellFormed(t)
  PROVE  LET u == PushEvent(t)
         IN  /\ WellFormed(u)
             /\ u.emitted = t.emitted + 1 /\ u.wiped = t.wiped
             /\ u.events = Newest(Append(t.events, t.emitted + 1), MaxEvents)
             /\ SameHistory(u, t) /\ SameRows(u, t) /\ SameLines(u, t) /\ SameBatch(u, t)
<1> DEFINE n == t.emitted + 1
           e == Newest(Append(t.events, n), MaxEvents)
           u == WithEvents(t, n, e)
<1>1. t \in Terminals /\ n \in Nat /\ t.events \in Seq(Nat) /\ MaxEvents \in Nat
  BY ScrollbackAssumption DEF WellFormed, Terminals
<1>2. PushEvent(t) = u
  BY DEF PushEvent, WithEvents
<1> HIDE DEF n
<1>3. Append(t.events, n) \in Seq(Nat)
  BY <1>1, AppendProperties
<1>4. e \in Seq(Nat)
  BY <1>1, <1>3, NewestProperties
<1> HIDE DEF e
<1>5. /\ u \in Terminals /\ u.emitted = n /\ u.events = e /\ u.wiped = t.wiped
      /\ SameHistory(u, t) /\ SameRows(u, t) /\ SameLines(u, t) /\ SameBatch(u, t)
  <2>1. t \in Terminals /\ n \in Nat /\ e \in Seq(Nat)
    BY <1>1, <1>4
  <2>2. QED
    BY <2>1, EventsSet
<1> HIDE DEF u
<1>6. WellFormed(u)
  BY <1>5 DEF WellFormed, SameHistory, SameRows
<1>7. QED
  BY <1>2, <1>5, <1>6 DEF n, e

\* Opening or closing a batch touches nothing else.
LEMMA OpenBatchProperties ==
  ASSUME NEW t, WellFormed(t)
  PROVE  LET u == OpenBatch(t)
         IN  /\ WellFormed(u) /\ u.sync = TRUE
             /\ u.batches = IF t.sync THEN t.batches ELSE t.batches + 1
             /\ SameHistory(u, t) /\ SameRows(u, t) /\ SameLines(u, t) /\ SameEvents(u, t)
<1> DEFINE n == IF t.sync THEN t.batches ELSE t.batches + 1
           u == WithBatch(t, TRUE, n)
<1>1. t \in Terminals /\ n \in Nat /\ TRUE \in BOOLEAN
  BY DEF WellFormed, Terminals
<1>2. OpenBatch(t) = u
  BY DEF OpenBatch, WithBatch
<1> HIDE DEF n
<1>3. /\ u \in Terminals /\ u.sync = TRUE /\ u.batches = n
      /\ SameHistory(u, t) /\ SameRows(u, t) /\ SameLines(u, t) /\ SameEvents(u, t)
  BY <1>1, BatchSet
<1> HIDE DEF u
<1>4. WellFormed(u)
  BY <1>3 DEF WellFormed, SameHistory, SameRows
<1>5. QED
  BY <1>2, <1>3, <1>4 DEF n

LEMMA CloseBatchProperties ==
  ASSUME NEW t, WellFormed(t)
  PROVE  LET u == [t EXCEPT !.sync = FALSE]
         IN  /\ WellFormed(u) /\ u.sync = FALSE /\ u.batches = t.batches
             /\ SameHistory(u, t) /\ SameRows(u, t) /\ SameLines(u, t) /\ SameEvents(u, t)
<1> DEFINE u == WithBatch(t, FALSE, t.batches)
<1>1. t \in Terminals /\ t.batches \in Nat /\ FALSE \in BOOLEAN
  BY DEF WellFormed, Terminals
<1>2. [t EXCEPT !.sync = FALSE] = u
  BY <1>1 DEF Terminals, WithBatch
<1>3. /\ u \in Terminals /\ u.sync = FALSE /\ u.batches = t.batches
      /\ SameHistory(u, t) /\ SameRows(u, t) /\ SameLines(u, t) /\ SameEvents(u, t)
  BY <1>1, BatchSet
<1> HIDE DEF u
<1>4. WellFormed(u)
  BY <1>3 DEF WellFormed, SameHistory, SameRows
<1>5. QED
  BY <1>2, <1>3, <1>4

\* Switching screens, or clearing the scrollback, touches nothing else.
LEMMA SwitchScreenProperties ==
  ASSUME NEW t, WellFormed(t), NEW on \in BOOLEAN
  PROVE  LET u == [t EXCEPT !.alt = on]
         IN  /\ WellFormed(u) /\ u.alt = on /\ u.lines = t.lines
             /\ SameHistory(u, t) /\ SameRows(u, t) /\ SameBatch(u, t) /\ SameEvents(u, t)
<1> DEFINE u == WithScreen(t, on)
<1>1. t \in Terminals /\ on \in BOOLEAN
  BY DEF WellFormed
<1>2. [t EXCEPT !.alt = on] = u
  BY DEF WithScreen
<1>3. /\ u \in Terminals /\ u.alt = on /\ u.lines = t.lines
      /\ SameHistory(u, t) /\ SameRows(u, t) /\ SameBatch(u, t) /\ SameEvents(u, t)
  BY <1>1, ScreenSet
<1> HIDE DEF u
<1>4. WellFormed(u)
  BY <1>3 DEF WellFormed, SameHistory, SameRows
<1>5. QED
  BY <1>2, <1>3, <1>4

LEMMA ClearHistoryProperties ==
  ASSUME NEW t, WellFormed(t)
  PROVE  LET u == [t EXCEPT !.history = <<>>]
         IN  /\ WellFormed(u) /\ u.history = <<>> /\ u.pushed = t.pushed
             /\ SameRows(u, t) /\ SameLines(u, t) /\ SameBatch(u, t) /\ SameEvents(u, t)
<1> DEFINE u == WithHistory(t, <<>>, t.pushed)
<1>1. t \in Terminals /\ t.pushed \in Nat /\ <<>> \in Seq(Nat)
  BY DEF WellFormed, Terminals
<1>2. [t EXCEPT !.history = <<>>] = u
  BY <1>1 DEF Terminals, WithHistory
<1>3. /\ u \in Terminals /\ u.history = <<>> /\ u.pushed = t.pushed
      /\ SameRows(u, t) /\ SameLines(u, t) /\ SameBatch(u, t) /\ SameEvents(u, t)
  BY <1>1, HistorySet
<1> HIDE DEF u
<1>4. WellFormed(u)
  BY <1>3, ScrollbackAssumption DEF WellFormed, SameRows
<1>5. QED
  BY <1>2, <1>3, <1>4

\* Every output leaves a well-formed terminal of the same height.
LEMMA EffectWellFormed ==
  ASSUME NEW t, WellFormed(t), NEW o \in Outputs
  PROVE  WellFormed(Effect(t, o)) /\ Len(Effect(t, o).rows) = Len(t.rows)
<1>1. CASE o = "line" /\ ~t.alt
  BY <1>1, WriteLineProperties DEF Effect
<1>2. CASE o = "line" /\ t.alt
  BY <1>2 DEF Effect, WriteLine
<1>3. CASE o = "bsu"
  BY <1>3, OpenBatchProperties DEF Effect, SameRows
<1>4. CASE o = "esu"
  BY <1>4, CloseBatchProperties DEF Effect, SameRows
<1>5. CASE o = "alt"
  <2>1. Effect(t, o) = [t EXCEPT !.alt = TRUE]
    BY <1>5 DEF Effect
  <2>2. QED
    BY <2>1, SwitchScreenProperties DEF SameRows
<1>6. CASE o = "primary"
  <2>1. Effect(t, o) = [t EXCEPT !.alt = FALSE]
    BY <1>6 DEF Effect
  <2>2. QED
    BY <2>1, SwitchScreenProperties DEF SameRows
<1>7. CASE o = "ed3"
  <2>1. Effect(t, o) = IF t.alt THEN t ELSE [t EXCEPT !.history = <<>>]
    BY <1>7 DEF Effect
  <2>2. QED
    BY <2>1, ClearHistoryProperties DEF SameRows
<1>8. CASE o = "deccolm"
  BY <1>8, ChangeColumnsProperties DEF Effect
<1>9. CASE o = "ris"
  BY <1>9, FullResetProperties DEF Effect
<1>10. CASE o = "bell"
  BY <1>10, PushEventProperties DEF Effect, SameRows
<1>11. QED
  BY <1>1, <1>2, <1>3, <1>4, <1>5, <1>6, <1>7, <1>8, <1>9, <1>10 DEF Outputs

\* So does every prefix of a read.
LEMMA AfterWellFormed ==
  ASSUME NEW t, WellFormed(t), NEW chunk \in Seq(Outputs)
  PROVE  \A n \in 0 .. Len(chunk) :
           /\ WellFormed(After(t, chunk)[n])
           /\ Len(After(t, chunk)[n].rows) = Len(t.rows)
<1> DEFINE m    == Len(chunk)
           u(n) == After(t, chunk)[n]
           Good == {n \in 0 .. m : WellFormed(u(n)) /\ Len(u(n).rows) = Len(t.rows)}
<1>1. m \in Nat /\ \A n \in 1 .. m : chunk[n] \in Outputs
  OBVIOUS
<1>2. u(0) = t /\ \A n \in 1 .. m : u(n) = Effect(u(n - 1), chunk[n])
  BY ReadSteps
<1> HIDE DEF m, u
<1>3. 0 \in Good
  BY <1>1, <1>2
<1>4. ASSUME NEW n \in 1 .. m, n - 1 \in Good
      PROVE  n \in Good
  <2>1. WellFormed(u(n - 1)) /\ Len(u(n - 1).rows) = Len(t.rows) /\ chunk[n] \in Outputs
    BY <1>1, <1>4
  <2>2. /\ WellFormed(Effect(u(n - 1), chunk[n]))
        /\ Len(Effect(u(n - 1), chunk[n]).rows) = Len(u(n - 1).rows)
    BY <2>1, EffectWellFormed
  <2>3. u(n) = Effect(u(n - 1), chunk[n])
    BY <1>2
  <2>4. QED
    BY <1>1, <2>1, <2>2, <2>3
<1>5. \A n \in 0 .. m : n \in Good
  <2> HIDE DEF Good
  <2>1. QED
    BY <1>1, <1>3, <1>4, Climbs
<1>6. QED
  BY <1>5 DEF m, u

LEMMA WriteWellFormed ==
  ASSUME NEW t, WellFormed(t), NEW chunk \in Seq(Outputs)
  PROVE  WellFormed(Write(t, chunk)) /\ Len(Write(t, chunk).rows) = Len(t.rows)
<1>1. Len(chunk) \in 0 .. Len(chunk)
  OBVIOUS
<1>2. QED
  BY <1>1, AfterWellFormed DEF Write

-----------------------------------------------------------------------------
(* The events of a read.                                                   *)

Rising(s) == \A i, j \in 1 .. Len(s) : i < j => s[i] < s[j]

\* What the queue of t holds when it was empty in t0: events made since, in
\* order, the newest at its end unless a reset threw it away.
NewEvents(t0, t) ==
  /\ t.emitted >= t0.emitted /\ t.wiped <= t.emitted
  /\ \A i \in 1 .. Len(t.events) : t0.emitted < t.events[i] /\ t.events[i] <= t.emitted
  /\ Rising(t.events)
  /\ t.emitted > t0.emitted /\ t.emitted > t.wiped
       => Len(t.events) > 0 /\ t.events[Len(t.events)] = t.emitted
  /\ t.emitted = t0.emitted => t.wiped = t0.wiped

LEMMA EffectNewEvents ==
  ASSUME NEW t0, WellFormed(t0), NEW t, WellFormed(t), NewEvents(t0, t), NEW o \in Outputs
  PROVE  NewEvents(t0, Effect(t, o))
<1> DEFINE u == Effect(t, o)
<1>1. ASSUME NEW v, SameEvents(v, t)
      PROVE  NewEvents(t0, v)
  BY <1>1 DEF SameEvents, NewEvents
<1>2. SameEvents(t, t)
  BY DEF SameEvents
<1>3. CASE o = "line"
  <2>1. u = WriteLine(t)
    BY <1>3 DEF Effect
  <2>2. SameEvents(WriteLine(t), t)
    <3>1. CASE t.alt
      BY <1>2, <3>1 DEF WriteLine
    <3>2. CASE ~t.alt
      BY <3>2, WriteLineProperties
    <3>3. QED
      BY <3>1, <3>2
  <2>3. QED
    BY <1>1, <2>1, <2>2
<1>4. CASE o \in {"bsu", "esu", "alt", "primary", "ed3", "deccolm"}
  <2>1. CASE o = "bsu"
    BY <1>1, <2>1, OpenBatchProperties DEF Effect
  <2>2. CASE o = "esu"
    BY <1>1, <2>2, CloseBatchProperties DEF Effect
  <2>3. CASE o \in {"alt", "primary"}
    <3>1. \E on \in BOOLEAN : u = [t EXCEPT !.alt = on]
      BY <2>3 DEF Effect
    <3> HIDE DEF u
    <3>2. SameEvents(u, t)
      BY <3>1, SwitchScreenProperties
    <3>3. QED
      BY <1>1, <3>2 DEF u
  <2>4. CASE o = "ed3"
    <3>1. u = t \/ u = [t EXCEPT !.history = <<>>]
      BY <2>4 DEF Effect
    <3> HIDE DEF u
    <3>2. SameEvents(u, t)
      BY <1>2, <3>1, ClearHistoryProperties
    <3>3. QED
      BY <1>1, <3>2 DEF u
  <2>5. CASE o = "deccolm"
    BY <1>1, <2>5, ChangeColumnsProperties DEF Effect
  <2>6. QED
    BY <1>4, <2>1, <2>2, <2>3, <2>4, <2>5
<1>5. CASE o = "ris"
  <2>1. u = FullReset(t)
    BY <1>5 DEF Effect
  <2>2. /\ FullReset(t).events = <<>> /\ FullReset(t).emitted = t.emitted
        /\ FullReset(t).wiped = IF t.events = <<>> THEN t.wiped ELSE t.emitted
    BY FullResetProperties
  <2> HIDE DEF u
  <2>3. /\ t.events \in Seq(Nat) /\ t.emitted \in Nat /\ t.wiped \in Nat /\ t0.emitted \in Nat
        /\ t0.wiped \in Nat
    BY DEF WellFormed, Terminals
  <2>4. t.events # <<>> => Len(t.events) > 0 /\ t.emitted > t0.emitted
    <3>1. t.events # <<>> => Len(t.events) \in Nat \ {0} /\ 1 \in 1 .. Len(t.events)
      BY <2>3, EmptySeq
    <3>2. t.events # <<>> => t.events[1] \in Nat
      BY <2>3, <3>1
    <3>3. QED
      BY <2>3, <3>1, <3>2 DEF NewEvents
  <2>5. CASE t.events = <<>>
    <3>1. ~(t.emitted > t0.emitted /\ t.emitted > t.wiped)
      BY <2>5 DEF NewEvents
    <3>2. Len(<<>>) = 0
      OBVIOUS
    <3>3. u.events = <<>> /\ u.emitted = t.emitted /\ u.wiped = t.wiped
      BY <2>1, <2>2, <2>5
    <3>4. QED
      BY <2>3, <3>1, <3>2, <3>3 DEF NewEvents, Rising, u
  <2>6. CASE t.events # <<>>
    <3>1. u.events = <<>> /\ u.emitted = t.emitted /\ u.wiped = t.emitted
      BY <2>1, <2>2, <2>6
    <3>2. Len(<<>>) = 0
      OBVIOUS
    <3>3. QED
      BY <2>3, <2>4, <2>6, <3>1, <3>2 DEF NewEvents, Rising, u
  <2>7. QED
    BY <2>5, <2>6
<1>6. CASE o = "bell"
  <2> DEFINE n == t.emitted + 1
             a == Append(t.events, n)
             e == Newest(a, MaxEvents)
             d == Len(a) - Len(e)
  <2>1. u = PushEvent(t)
    BY <1>6 DEF Effect
  <2>2. u.emitted = n /\ u.wiped = t.wiped /\ u.events = e
    BY <2>1, PushEventProperties
  <2> HIDE DEF u
  <2>3. /\ t.events \in Seq(Nat) /\ t.emitted \in Nat /\ t.wiped \in Nat /\ t0.emitted \in Nat
        /\ t0.wiped \in Nat /\ n \in Nat /\ Len(t.events) \in Nat
        /\ MaxEvents \in Nat /\ MaxEvents > 0
    <3>1. /\ t.events \in Seq(Nat) /\ t.emitted \in Nat /\ t.wiped \in Nat
          /\ t0.emitted \in Nat /\ t0.wiped \in Nat
      BY DEF WellFormed, Terminals
    <3>2. MaxEvents \in Nat /\ MaxEvents > 0
      BY ScrollbackAssumption
    <3>3. Len(t.events) \in Nat
      BY <3>1
    <3>4. QED
      BY <3>1, <3>2, <3>3
  <2>4. /\ a \in Seq(Nat) /\ Len(a) = Len(t.events) + 1
        /\ \A i \in 1 .. Len(t.events) : a[i] = t.events[i]
        /\ a[Len(a)] = n
    BY <2>3, AppendProperties
  <2> HIDE DEF a
  <2>5. /\ e \in Seq(Nat) /\ Len(e) <= Len(a)
        /\ Len(e) = IF Len(a) > MaxEvents THEN MaxEvents ELSE Len(a)
        /\ \A i \in 1 .. Len(e) : e[i] = a[i + (Len(a) - Len(e))]
    BY <2>3, <2>4, NewestProperties
  <2>6. Len(e) \in Nat /\ Len(e) > 0
    BY <2>3, <2>4, <2>5
  <2> HIDE DEF e
  <2>7. \A i \in 1 .. Len(a) : t0.emitted < a[i] /\ a[i] <= n
    <3>1. ASSUME NEW i \in 1 .. Len(a) PROVE t0.emitted < a[i] /\ a[i] <= n
      <4>1. CASE i = Len(a)
        BY <2>3, <2>4, <4>1 DEF NewEvents
      <4>2. CASE i # Len(a)
        <5>1. i \in 1 .. Len(t.events) /\ a[i] = t.events[i] /\ t.events[i] \in Nat
          <6>1. i \in 1 .. Len(t.events)
            BY <2>3, <2>4, <4>2
          <6>2. QED
            BY <2>3, <2>4, <6>1, ElementOfSeq
        <5>2. t0.emitted < t.events[i] /\ t.events[i] <= t.emitted
          BY <5>1 DEF NewEvents
        <5>3. QED
          BY <2>3, <5>1, <5>2
      <4>3. QED
        BY <4>1, <4>2
    <3>2. QED
      BY <3>1
  <2>8. \A i, j \in 1 .. Len(a) : i < j => a[i] < a[j]
    <3>1. ASSUME NEW i \in 1 .. Len(a), NEW j \in 1 .. Len(a), i < j PROVE a[i] < a[j]
      <4>1. i \in 1 .. Len(t.events) /\ a[i] = t.events[i] /\ t.events[i] \in Nat
        <5>1. i \in 1 .. Len(t.events)
          BY <2>3, <2>4, <3>1
        <5>2. QED
          BY <2>3, <2>4, <5>1, ElementOfSeq
      <4>2. CASE j = Len(a)
        <5>1. t.events[i] <= t.emitted
          BY <4>1 DEF NewEvents
        <5>2. QED
          BY <2>3, <2>4, <4>1, <4>2, <5>1, SMTT(30)
      <4>3. CASE j # Len(a)
        <5>1. j \in 1 .. Len(t.events) /\ a[j] = t.events[j]
          BY <2>3, <2>4, <4>3, SMTT(30)
        <5>2. t.events[i] < t.events[j]
          BY <3>1, <4>1, <5>1 DEF NewEvents, Rising
        <5>3. QED
          BY <4>1, <5>1, <5>2
      <4>4. QED
        BY <4>2, <4>3
    <3>2. QED
      BY <3>1
  <2>9. d \in Nat /\ \A i \in 1 .. Len(e) : e[i] = a[i + d] /\ i + d \in 1 .. Len(a)
    <3>1. Len(a) \in Nat /\ Len(e) \in Nat /\ Len(e) <= Len(a)
      BY <2>3, <2>4, <2>5
    <3>2. d \in Nat /\ \A i \in 1 .. Len(e) : i + d \in 1 .. Len(a)
      BY <3>1
    <3>3. \A i \in 1 .. Len(e) : e[i] = a[i + d]
      BY <2>5
    <3>4. QED
      BY <3>2, <3>3
  <2> HIDE DEF d
  <2>10. \A i \in 1 .. Len(e) : t0.emitted < e[i] /\ e[i] <= n
    BY <2>7, <2>9
  <2>11. Rising(e)
    BY <2>6, <2>8, <2>9 DEF Rising
  <2>12. e[Len(e)] = n
    <3>1. Len(e) + d = Len(a)
      BY <2>4, <2>5, <2>6 DEF d
    <3>2. QED
      BY <2>4, <2>6, <2>9, <3>1
  <2>13. n > t0.emitted /\ t.wiped <= n
    BY <2>3 DEF NewEvents, n
  <2>14. QED
    BY <2>2, <2>3, <2>6, <2>10, <2>11, <2>12, <2>13 DEF NewEvents, u
<1>7. QED
  BY <1>3, <1>4, <1>5, <1>6 DEF Outputs

\* A read leaves new events in order, the newest last.
LEMMA WriteNewEvents ==
  ASSUME NEW t, WellFormed(t), t.events = <<>>, t.wiped <= t.emitted,
         NEW chunk \in Seq(Outputs)
  PROVE  NewEvents(t, Write(t, chunk))
<1> DEFINE m    == Len(chunk)
           u(n) == After(t, chunk)[n]
           Good == {n \in 0 .. m : NewEvents(t, u(n))}
<1>1. m \in Nat /\ \A n \in 1 .. m : chunk[n] \in Outputs
  OBVIOUS
<1>2. u(0) = t /\ \A n \in 1 .. m : u(n) = Effect(u(n - 1), chunk[n])
  BY ReadSteps
<1>3. \A n \in 0 .. m : WellFormed(u(n))
  BY AfterWellFormed
<1> HIDE DEF m, u
<1>4. NewEvents(t, t)
  <2>1. t.emitted \in Nat /\ Len(<<>>) = 0
    BY DEF WellFormed, Terminals
  <2>2. QED
    BY <2>1 DEF NewEvents, Rising
<1>5. 0 \in Good
  BY <1>1, <1>2, <1>4
<1>6. ASSUME NEW n \in 1 .. m, n - 1 \in Good
      PROVE  n \in Good
  <2>1. n - 1 \in 0 .. m /\ NewEvents(t, u(n - 1)) /\ chunk[n] \in Outputs
    BY <1>1, <1>6
  <2>2. NewEvents(t, Effect(u(n - 1), chunk[n]))
    BY <1>3, <2>1, EffectNewEvents
  <2>3. u(n) = Effect(u(n - 1), chunk[n])
    BY <1>2
  <2>4. QED
    BY <1>1, <2>2, <2>3
<1>7. \A n \in 0 .. m : n \in Good
  <2> HIDE DEF Good
  <2>1. QED
    BY <1>1, <1>5, <1>6, Climbs
<1>8. m \in 0 .. m
  BY <1>1
<1>9. QED
  BY <1>7, <1>8 DEF m, u, Write

-----------------------------------------------------------------------------
(* The rows of a read.                                                     *)

\* The rows above the cursor, the history's first, come in the order they were
\* printed in.
Ordered(t) ==
  /\ \A i, j \in 1 .. Len(Content(t)) - 1 : i < j => Content(t)[i] < Content(t)[j]
  /\ \A i \in 1 .. Len(Content(t)) - 1 : Content(t)[i] <= t.lines

\* A terminal whose rows above the cursor are some of those of an ordered one is
\* ordered.
LEMMA OrderedPart ==
  ASSUME NEW t, WellFormed(t), Ordered(t), NEW u, WellFormed(u), u.lines >= t.lines,
         NEW d \in Nat, Len(Content(u)) + d <= Len(Content(t)),
         \A i \in 1 .. Len(Content(u)) - 1 : Content(u)[i] = Content(t)[i + d]
  PROVE  Ordered(u)
<1> DEFINE c == Content(t)
           k == Content(u)
<1>1. /\ c \in Seq(Nat) /\ k \in Seq(Nat) /\ Len(c) \in Nat /\ Len(k) \in Nat
      /\ t.lines \in Nat /\ u.lines \in Nat
  <2>1. c \in Seq(Nat) /\ k \in Seq(Nat)
    BY ContentProperties
  <2>2. t.lines \in Nat /\ u.lines \in Nat
    BY DEF WellFormed, Terminals
  <2> HIDE DEF c, k
  <2>3. QED
    BY <2>1, <2>2
<1>2. /\ \A i, j \in 1 .. Len(c) - 1 : i < j => c[i] < c[j]
      /\ \A i \in 1 .. Len(c) - 1 : c[i] <= t.lines
  BY DEF Ordered
<1> HIDE DEF c, k
<1>3. /\ Len(k) + d <= Len(c)
      /\ \A i \in 1 .. Len(k) - 1 : k[i] = c[i + d]
  BY DEF c, k
<1>4. \A i \in 1 .. Len(k) - 1 : i + d \in 1 .. Len(c) - 1 /\ c[i + d] \in Nat
  <2>1. ASSUME NEW i \in 1 .. Len(k) - 1 PROVE i + d \in 1 .. Len(c) - 1
    <3> DEFINE lc == Len(c)
               lk == Len(k)
    <3>1. lc \in Nat /\ lk \in Nat /\ lk + d <= lc /\ i \in 1 .. lk - 1
      BY <1>1, <1>3
    <3> HIDE DEF lc, lk
    <3>2. i + d \in 1 .. lc - 1
      BY <3>1
    <3>3. QED
      BY <3>2 DEF lc
  <2>2. \A i \in 1 .. Len(c) - 1 : c[i] \in Nat
    BY <1>1
  <2>3. QED
    BY <2>1, <2>2
<1>5. ASSUME NEW i \in 1 .. Len(k) - 1, NEW j \in 1 .. Len(k) - 1, i < j
      PROVE  k[i] < k[j]
  <2>1. i + d < j + d
    BY <1>1, <1>5
  <2>2. c[i + d] < c[j + d]
    BY <1>2, <1>4, <2>1
  <2>3. QED
    BY <1>3, <2>2
<1>6. ASSUME NEW i \in 1 .. Len(k) - 1 PROVE k[i] <= u.lines
  <2>1. c[i + d] <= t.lines /\ c[i + d] \in Nat
    BY <1>2, <1>4
  <2>2. k[i] = c[i + d]
    BY <1>3
  <2>3. t.lines \in Nat /\ u.lines \in Nat /\ t.lines <= u.lines
    BY <1>1
  <2>4. QED
    BY <2>1, <2>2, <2>3
<1>7. QED
  BY <1>5, <1>6 DEF Ordered, k

\* The same history and the same rows are the same content.
LEMMA SameContent ==
  ASSUME NEW t, NEW u, SameHistory(u, t), SameRows(u, t)
  PROVE  Content(u) = Content(t)
  BY DEF SameHistory, SameRows, Content

\* A line takes the cursor's row, and what stays above the cursor is the end of
\* what was there with the line after it.
LEMMA LineContent ==
  ASSUME NEW t, WellFormed(t), ~t.alt
  PROVE  LET u == WriteLine(t)
             c == Content(t)
         IN  \E d \in Nat :
               /\ Len(Content(u)) - 1 + d = Len(c)
               /\ \A i \in 1 .. Len(Content(u)) - 1 :
                    Content(u)[i] = IF i + d = Len(c) THEN t.lines + 1 ELSE c[i + d]
<1> DEFINE u    == WriteLine(t)
           c    == Content(t)
           k    == Content(u)
           n    == t.lines + 1
           full == [t.rows EXCEPT ![t.y] = n]
           h    == Len(t.history)
           y    == t.y
<1>1. /\ WellFormed(u) /\ Len(u.rows) = Len(t.rows)
      /\ y < Len(t.rows) => u.rows = full /\ u.y = y + 1 /\ SameHistory(u, t)
      /\ y = Len(t.rows)
           => /\ u.y = y
              /\ \A i \in 1 .. Len(t.rows) - 1 : u.rows[i] = full[i + 1]
              /\ u.history = Newest(Append(t.history, full[1]), MaxScrollback)
  BY WriteLineProperties
<1>2. /\ t.rows \in Seq(Nat) /\ t.history \in Seq(Nat) /\ y \in 1 .. Len(t.rows)
      /\ Len(t.rows) \in Nat /\ h \in Nat /\ n \in Nat /\ y \in Nat /\ y > 0
  <2>1. /\ t.rows \in Seq(Nat) /\ t.history \in Seq(Nat) /\ y \in 1 .. Len(t.rows)
        /\ t.lines \in Nat
    BY DEF WellFormed, Terminals
  <2>2. Len(t.rows) \in Nat /\ h \in Nat
    BY <2>1
  <2>3. QED
    BY <2>1, <2>2
<1>3. /\ Len(c) = h + y
      /\ \A i \in 1 .. h : c[i] = t.history[i]
      /\ \A i \in 1 .. y : c[h + i] = t.rows[i]
  BY ContentProperties
<1> HIDE DEF u
<1>4. /\ Len(k) = Len(u.history) + u.y
      /\ \A i \in 1 .. Len(u.history) : k[i] = u.history[i]
      /\ \A i \in 1 .. u.y : k[Len(u.history) + i] = u.rows[i]
      /\ Len(u.history) \in Nat /\ u.y \in Nat
  <2>1. Len(u.history) \in Nat /\ u.y \in Nat
    BY <1>1 DEF WellFormed, Terminals
  <2>2. QED
    BY <1>1, <2>1, ContentProperties
<1> HIDE DEF c, k, n, h, y
<1>5. /\ full \in Seq(Nat) /\ Len(full) = Len(t.rows)
      /\ \A i \in 1 .. Len(t.rows) : full[i] = IF i = t.y THEN n ELSE t.rows[i]
  BY <1>2, ExceptSeq DEF y
<1> HIDE DEF full
<1>6. CASE y < Len(t.rows)
  <2>1. u.rows = full /\ u.y = y + 1 /\ u.history = t.history /\ Len(u.history) = h
    BY <1>1, <1>6 DEF SameHistory, h
  <2>2. Len(k) - 1 + 0 = Len(c)
    BY <1>2, <1>3, <1>4, <2>1
  <2>3. ASSUME NEW i \in 1 .. Len(k) - 1
        PROVE  k[i] = IF i + 0 = Len(c) THEN n ELSE c[i + 0]
    <3>1. i \in 1 .. h + y /\ i \in Nat /\ i + 0 = i
      BY <1>2, <1>4, <2>1
    <3>2. CASE i <= h
      <4>1. i \in 1 .. h /\ i # h + y
        BY <1>2, <3>1, <3>2
      <4>2. QED
        BY <1>3, <1>4, <2>1, <3>1, <4>1
    <3>3. CASE i > h
      <4> DEFINE j == i - h
      <4>1. j \in 1 .. y /\ h + j = i /\ j \in 1 .. y + 1 /\ j \in 1 .. Len(t.rows)
        BY <1>2, <3>1, <3>3
      <4>2. i = h + y <=> j = y
        BY <1>2, <3>1
      <4> HIDE DEF j
      <4>3. k[h + j] = full[j] /\ c[h + j] = t.rows[j]
        BY <1>3, <1>4, <2>1, <4>1
      <4>4. full[j] = IF j = y THEN n ELSE t.rows[j]
        BY <1>5, <4>1 DEF y
      <4>5. QED
        BY <1>3, <3>1, <4>1, <4>2, <4>3, <4>4
    <3>4. QED
      BY <1>2, <3>1, <3>2, <3>3
  <2>4. QED
    BY <2>2, <2>3 DEF u, c, k, n
<1>7. CASE y = Len(t.rows)
  <2> DEFINE a == Append(t.history, full[1])
             g == Len(u.history)
             d == h + 1 - g
  <2>1. /\ u.y = y /\ \A i \in 1 .. Len(t.rows) - 1 : u.rows[i] = full[i + 1]
        /\ u.history = Newest(a, MaxScrollback)
    BY <1>1, <1>7
  <2>2. 1 \in 1 .. Len(t.rows) /\ full[1] \in Nat
    BY <1>2, <1>5, ElementOfSeq
  <2>3. /\ a \in Seq(Nat) /\ Len(a) = h + 1
        /\ \A i \in 1 .. h : a[i] = t.history[i]
        /\ a[h + 1] = full[1]
    BY <1>2, <2>2, AppendProperties DEF h
  <2> HIDE DEF a
  <2> DEFINE newest == Newest(a, MaxScrollback)
  <2>4. /\ Len(newest) <= Len(a)
        /\ \A i \in 1 .. Len(newest) : newest[i] = a[i + (Len(a) - Len(newest))]
    BY <2>3, NewestProperties, ScrollbackAssumption
  <2> HIDE DEF newest
  <2>5. u.history = newest /\ g = Len(newest)
    BY <2>1 DEF newest
  <2>6. \A i \in 1 .. g : u.history[i] = a[i + d]
    <3>1. d = Len(a) - Len(newest)
      BY <1>2, <1>4, <2>3, <2>5
    <3>2. \A i \in 1 .. g : newest[i] = a[i + (Len(a) - Len(newest))]
      BY <2>4, <2>5
    <3> HIDE DEF d, g
    <3>3. QED
      BY <2>5, <3>1, <3>2
  <2>7. g \in Nat /\ g <= h + 1 /\ d \in Nat /\ d = h + 1 - g
    BY <1>2, <1>4, <2>3, <2>4, <2>5
  <2>8. g = Len(u.history)
    OBVIOUS
  <2> HIDE DEF g, d
  <2>9. Len(k) = g + y /\ Len(c) = h + y
    BY <1>3, <1>4, <2>1, <2>8
  <2>10. Len(k) - 1 + d = Len(c)
    BY <1>2, <2>7, <2>9
  <2>11. ASSUME NEW i \in 1 .. Len(k) - 1
         PROVE  k[i] = IF i + d = Len(c) THEN n ELSE c[i + d]
    <3>1. i \in Nat /\ i > 0 /\ i <= g + y - 1
      BY <1>2, <2>7, <2>9
    <3>2. CASE i <= g /\ i + d <= h
      <4>1. i \in 1 .. g /\ i + d \in 1 .. h /\ i + d # h + y
        BY <1>2, <2>7, <3>1, <3>2
      <4>2. k[i] = u.history[i]
        BY <1>4, <2>8, <4>1
      <4>3. a[i + d] = t.history[i + d] /\ c[i + d] = t.history[i + d]
        BY <1>3, <2>3, <4>1
      <4>4. QED
        BY <2>6, <2>9, <4>1, <4>2, <4>3
    <3>3. CASE i <= g /\ i + d > h
      <4>1. i \in 1 .. g /\ i + d = h + 1
        BY <1>2, <2>7, <3>1, <3>3
      <4>2. k[i] = full[1]
        BY <1>4, <2>3, <2>6, <2>8, <4>1
      <4>3. h + 1 = h + y <=> 1 = y
        BY <1>2
      <4>4. full[1] = IF 1 = y THEN n ELSE t.rows[1]
        BY <1>5, <2>2 DEF y
      <4>5. 1 \in 1 .. y
        BY <1>2
      <4>6. c[h + 1] = t.rows[1]
        BY <1>3, <4>5
      <4>7. QED
        BY <2>9, <4>1, <4>2, <4>3, <4>4, <4>6
    <3>4. CASE i > g
      <4> DEFINE j == i - g
      <4>1. /\ j \in 1 .. y - 1 /\ g + j = i /\ j + 1 \in 1 .. y /\ i + d = h + (j + 1)
            /\ j \in 1 .. Len(t.rows) - 1 /\ j + 1 \in 1 .. Len(t.rows) /\ j \in 1 .. y
        BY <1>2, <1>7, <2>7, <3>1, <3>4
      <4> HIDE DEF j
      <4>2. k[g + j] = u.rows[j]
        BY <1>4, <2>1, <2>8, <4>1
      <4>3. u.rows[j] = full[j + 1] /\ c[h + (j + 1)] = t.rows[j + 1]
        BY <1>3, <2>1, <4>1
      <4>4. full[j + 1] = IF j + 1 = y THEN n ELSE t.rows[j + 1]
        BY <1>5, <4>1 DEF y
      <4>5. h + (j + 1) = h + y <=> j + 1 = y
        BY <1>2, <4>1
      <4>6. QED
        BY <2>9, <4>1, <4>2, <4>3, <4>4, <4>5
    <3>5. QED
      BY <1>2, <2>7, <3>1, <3>2, <3>3, <3>4
  <2>12. QED
    BY <2>7, <2>10, <2>11 DEF u, c, k, n
<1>8. QED
  BY <1>2, <1>6, <1>7

\* A reflow keeps the rows in the order they were printed in, whether the cursor
\* stays where it left it or is home on a blanked screen.
LEMMA ReflowOrdered ==
  ASSUME NEW t, WellFormed(t), Ordered(t), NEW n \in Nat \ {0}, NEW u, WellFormed(u),
         SameHistory(u, ResizeTo(t, n)), SameRows(u, ResizeTo(t, n)) \/ u.y = 1,
         u.lines = t.lines
  PROVE  Ordered(u)
<1> DEFINE c == Content(t)
           k == Content(u)
           v == ResizeTo(t, n)
<1>2. /\ Len(c) = Len(t.history) + t.y /\ Len(t.history) \in Nat
      /\ Len(c) \in Nat /\ t.lines \in Nat /\ t.y \in Nat /\ t.y > 0
  <2>1. t.lines \in Nat /\ t.y \in Nat /\ t.y > 0 /\ Len(t.history) \in Nat
    <3>1. t.lines \in Nat /\ t.history \in Seq(Nat) /\ t.y \in 1 .. Len(t.rows)
      BY DEF WellFormed, Terminals
    <3>2. QED
      BY <3>1
  <2>2. Len(c) = Len(t.history) + t.y
    BY ContentProperties
  <2>3. QED
    BY <2>1, <2>2
<1>4. /\ WellFormed(v) /\ v.y <= Len(c) /\ Len(v.history) <= Len(c) - v.y
      /\ \A i \in 1 .. v.y : v.rows[i] = c[i + (Len(c) - v.y)]
      /\ \A i \in 1 .. Len(v.history) : v.history[i] = c[i + (Len(c) - v.y - Len(v.history))]
  BY ResizeProperties
<1>5. /\ u.history = v.history
      /\ (u.rows = v.rows /\ u.y = v.y) \/ u.y = 1
  BY DEF SameHistory, SameRows
<1> HIDE DEF v, c, k
<1>6. v.y \in Nat /\ v.y > 0 /\ Len(v.history) \in Nat
  <2>1. v.y \in 1 .. Len(v.rows) /\ v.history \in Seq(Nat)
    BY <1>4 DEF WellFormed, Terminals
  <2>2. QED
    BY <2>1
<1> DEFINE d == Len(c) - v.y - Len(v.history)
<1>7. d \in Nat /\ d = Len(c) - v.y - Len(v.history)
  BY <1>2, <1>4, <1>6
<1>8. /\ Len(k) = Len(v.history) + u.y /\ u.y <= v.y /\ u.y \in Nat
      /\ \A i \in 1 .. Len(v.history) : k[i] = v.history[i]
      /\ \A i \in 1 .. u.y : k[Len(v.history) + i] = u.rows[i]
  <2>2. u.y \in Nat /\ u.y <= v.y
    <3>1. u.y \in Nat
      BY DEF WellFormed, Terminals
    <3>2. u.y = v.y \/ u.y = 1
      BY <1>5
    <3>3. QED
      BY <1>6, <3>1, <3>2
  <2>3. /\ Len(k) = Len(u.history) + u.y
        /\ \A i \in 1 .. Len(u.history) : k[i] = u.history[i]
        /\ \A i \in 1 .. u.y : k[Len(u.history) + i] = u.rows[i]
    BY ContentProperties DEF k
  <2> HIDE DEF k
  <2>4. QED
    BY <1>5, <2>2, <2>3
<1>9. u.lines >= t.lines
  BY <1>2
<1> HIDE DEF d
<1>10. Len(k) + d <= Len(c)
  <2> DEFINE lv == Len(v.history)
             lc == Len(c)
             lk == Len(k)
             uy == u.y
             vy == v.y
  <2>1. /\ lv \in Nat /\ lc \in Nat /\ uy \in Nat /\ vy \in Nat /\ uy <= vy
        /\ lk = lv + uy /\ d = lc - vy - lv
    BY <1>2, <1>6, <1>7, <1>8
  <2> HIDE DEF lv, lc, lk, uy, vy
  <2>2. lk + d <= lc
    BY <2>1
  <2>3. QED
    BY <2>2 DEF lc, lk
<1>11. ASSUME NEW i \in 1 .. Len(k) - 1
       PROVE  k[i] = c[i + d]
  <2>1. i \in Nat /\ i > 0 /\ i < Len(v.history) + u.y
    BY <1>6, <1>8
  <2>2. CASE i <= Len(v.history)
    <3>1. i \in 1 .. Len(v.history)
      BY <1>6, <2>1, <2>2
    <3>2. QED
      BY <1>4, <1>7, <1>8, <3>1
  <2>3. CASE i > Len(v.history)
    <3> DEFINE j == i - Len(v.history)
    <3>1. /\ j \in 1 .. u.y /\ j \in 1 .. v.y /\ Len(v.history) + j = i
          /\ i + d = j + (Len(c) - v.y)
      <4> DEFINE lv == Len(v.history)
                 lc == Len(c)
                 uy == u.y
                 vy == v.y
      <4>1. /\ lv \in Nat /\ lc \in Nat /\ uy \in Nat /\ vy \in Nat /\ uy <= vy
            /\ i \in Nat /\ i > lv /\ i < lv + uy /\ d = lc - vy - lv
        BY <1>2, <1>6, <1>7, <1>8, <2>1, <2>3
      <4> HIDE DEF lv, lc, uy, vy
      <4>2. /\ i - lv \in 1 .. uy /\ i - lv \in 1 .. vy /\ lv + (i - lv) = i
            /\ i + d = (i - lv) + (lc - vy)
        BY <4>1
      <4>3. QED
        BY <4>2 DEF lv, lc, uy, vy
    <3>2. u.rows = v.rows
      BY <1>5, <1>6, <2>1, <2>3
    <3> HIDE DEF j
    <3>3. k[Len(v.history) + j] = v.rows[j]
      BY <1>5, <1>8, <3>1, <3>2
    <3>4. QED
      BY <1>4, <3>1, <3>3
  <2>4. QED
    BY <1>6, <2>1, <2>2, <2>3
<1>12. QED
  BY <1>7, <1>9, <1>10, <1>11, OrderedPart DEF k, c

\* Every output keeps the rows in the order they were printed in.
LEMMA EffectOrdered ==
  ASSUME NEW t, WellFormed(t), Ordered(t), NEW o \in Outputs
  PROVE  Ordered(Effect(t, o))
<1> DEFINE u == Effect(t, o)
           c == Content(t)
           k == Content(u)
<1>1. WellFormed(u)
  BY EffectWellFormed
<1>2. /\ Len(c) = Len(t.history) + t.y /\ Len(t.history) \in Nat
      /\ Len(c) \in Nat /\ t.lines \in Nat /\ t.y \in Nat /\ t.y > 0
  <2>1. t.lines \in Nat /\ t.y \in Nat /\ t.y > 0 /\ Len(t.history) \in Nat
    BY DEF WellFormed, Terminals
  <2>2. Len(c) = Len(t.history) + t.y
    BY ContentProperties
  <2>3. QED
    BY <2>1, <2>2
<1>3. ASSUME NEW v, WellFormed(v), SameHistory(v, t), SameRows(v, t), v.lines = t.lines
      PROVE  Ordered(v)
  <2>1. Content(v) = Content(t)
    BY <1>3, SameContent
  <2>2. QED
    BY <1>3, <2>1 DEF Ordered
<1>4. ASSUME NEW v, WellFormed(v), Len(v.history) = 0, v.y = 1
      PROVE  Ordered(v)
  <2>1. Len(Content(v)) = Len(v.history) + v.y
    BY <1>4, ContentProperties
  <2>2. Len(Content(v)) = 1
    BY <1>4, <2>1
  <2>3. QED
    BY <2>2 DEF Ordered
<1>5. CASE o = "line" /\ ~t.alt
  <2>1. u = WriteLine(t)
    BY <1>5 DEF Effect
  <2>2. u.lines = t.lines + 1
    BY <1>5, <2>1, WriteLineProperties
  <2>3. PICK d \in Nat :
          /\ Len(k) - 1 + d = Len(c)
          /\ \A i \in 1 .. Len(k) - 1 :
               k[i] = IF i + d = Len(c) THEN t.lines + 1 ELSE c[i + d]
    BY <1>5, <2>1, LineContent, ZenonT(60)
  <2>4. Len(k) \in Nat
    <3>1. Content(u) \in Seq(Nat)
      BY <1>1, ContentProperties
    <3>2. QED
      BY <3>1
  <2>5. /\ \A i, j \in 1 .. Len(c) - 1 : i < j => c[i] < c[j]
        /\ \A i \in 1 .. Len(c) - 1 : c[i] <= t.lines
    BY DEF Ordered
  <2>6. \A i \in 1 .. Len(c) - 1 : c[i] \in Nat
    <3>1. c \in Seq(Nat)
      BY ContentProperties
    <3> HIDE DEF c
    <3>2. \A i \in 1 .. Len(c) : c[i] \in Nat
      BY <3>1
    <3>3. QED
      BY <1>2, <3>2
  <2> HIDE DEF u, k, c
  <2>7. ASSUME NEW i \in 1 .. Len(k) - 1
        PROVE  i + d \in 1 .. Len(c) /\ (i + d # Len(c) => i + d \in 1 .. Len(c) - 1)
    <3> DEFINE lk == Len(k)
               lc == Len(c)
    <3>1. lk \in Nat /\ lc \in Nat /\ lk - 1 + d = lc /\ i \in 1 .. lk - 1
      BY <1>2, <2>3, <2>4
    <3> HIDE DEF lk, lc
    <3>2. i + d \in 1 .. lc /\ (i + d # lc => i + d \in 1 .. lc - 1)
      BY <3>1
    <3>3. QED
      BY <3>2 DEF lc
  <2>8. ASSUME NEW i \in 1 .. Len(k) - 1
        PROVE  k[i] <= u.lines
    <3>1. CASE i + d = Len(c)
      BY <1>2, <2>2, <2>3, <3>1
    <3>2. CASE i + d # Len(c)
      <4>1. i + d \in 1 .. Len(c) - 1
        BY <2>7, <3>2
      <4>2. c[i + d] <= t.lines /\ c[i + d] \in Nat /\ k[i] = c[i + d]
        BY <2>3, <2>5, <2>6, <3>2, <4>1
      <4>3. QED
        BY <1>2, <2>2, <4>2
    <3>3. QED
      BY <3>1, <3>2
  <2>9. ASSUME NEW i \in 1 .. Len(k) - 1, NEW j \in 1 .. Len(k) - 1, i < j
        PROVE  k[i] < k[j]
    <3>1. i + d \in 1 .. Len(c) - 1 /\ i + d < j + d
      BY <1>2, <2>3, <2>4, <2>9
    <3>2. k[i] = c[i + d] /\ c[i + d] \in Nat /\ c[i + d] <= t.lines
      <4>1. i + d # Len(c)
        BY <1>2, <3>1
      <4>2. QED
        BY <2>3, <2>5, <2>6, <3>1, <4>1
    <3>3. CASE j + d = Len(c)
      <4>1. k[j] = t.lines + 1
        BY <2>3, <3>3
      <4>2. QED
        BY <1>2, <3>2, <4>1
    <3>4. CASE j + d # Len(c)
      <4>1. j + d \in 1 .. Len(c) - 1 /\ k[j] = c[j + d]
        BY <2>3, <2>7, <3>4
      <4>2. QED
        BY <2>5, <3>1, <3>2, <4>1
    <3>5. QED
      BY <3>3, <3>4
  <2>10. QED
    BY <2>8, <2>9 DEF Ordered, u, k
<1>6. CASE o = "line" /\ t.alt
  <2>1. u = t
    BY <1>6 DEF Effect, WriteLine
  <2>2. QED
    BY <2>1
<1>7. CASE o = "bsu"
  <2>1. u = OpenBatch(t)
    BY <1>7 DEF Effect
  <2>2. SameHistory(u, t) /\ SameRows(u, t) /\ u.lines = t.lines
    BY <2>1, OpenBatchProperties DEF SameLines
  <2>3. QED
    BY <1>1, <1>3, <2>2
<1>8. CASE o = "esu"
  <2>1. u = [t EXCEPT !.sync = FALSE]
    BY <1>8 DEF Effect
  <2> HIDE DEF u
  <2>2. SameHistory(u, t) /\ SameRows(u, t) /\ u.lines = t.lines
    BY <2>1, CloseBatchProperties DEF SameLines
  <2>3. QED
    BY <1>1, <1>3, <2>2 DEF u
<1>9. CASE o \in {"alt", "primary"}
  <2>1. \E on \in BOOLEAN : u = [t EXCEPT !.alt = on]
    BY <1>9 DEF Effect
  <2> HIDE DEF u
  <2>2. SameHistory(u, t) /\ SameRows(u, t) /\ u.lines = t.lines
    BY <2>1, SwitchScreenProperties
  <2>3. QED
    BY <1>1, <1>3, <2>2 DEF u
<1>10. CASE o = "ed3"
  <2>1. u = IF t.alt THEN t ELSE [t EXCEPT !.history = <<>>]
    BY <1>10 DEF Effect
  <2> HIDE DEF u
  <2>2. CASE t.alt
    BY <2>1, <2>2 DEF u
  <2>3. CASE ~t.alt
    <3>1. u.history = <<>> /\ SameRows(u, t) /\ u.lines = t.lines
      BY <2>1, <2>3, ClearHistoryProperties DEF SameLines
    <3>2. /\ Len(k) = t.y
          /\ \A i \in 1 .. t.y : k[i] = t.rows[i]
      <4>1. /\ Len(k) = Len(u.history) + u.y
            /\ \A i \in 1 .. u.y : k[Len(u.history) + i] = u.rows[i]
        BY <1>1, ContentProperties DEF u
      <4>2. Len(u.history) = 0 /\ u.y = t.y /\ u.rows = t.rows
        BY <3>1 DEF SameRows
      <4> HIDE DEF k
      <4>3. \A i \in 1 .. t.y : i \in Nat /\ 0 + i = i
        BY <1>2
      <4>4. QED
        BY <1>2, <4>1, <4>2, <4>3
    <3>3. \A i \in 1 .. t.y : c[Len(t.history) + i] = t.rows[i]
      BY ContentProperties
    <3> HIDE DEF k, c
    <3>4. \A i \in 1 .. Len(k) - 1 : k[i] = c[i + Len(t.history)]
      <4>1. ASSUME NEW i \in 1 .. Len(k) - 1 PROVE k[i] = c[i + Len(t.history)]
        <5>1. i \in 1 .. t.y /\ i + Len(t.history) = Len(t.history) + i
          BY <1>2, <3>2
        <5>2. QED
          BY <3>2, <3>3, <5>1
      <4>2. QED
        BY <4>1
    <3>5. Len(k) + Len(t.history) <= Len(c) /\ u.lines >= t.lines
      BY <1>2, <3>1, <3>2
    <3>6. QED
      BY <1>1, <1>2, <3>4, <3>5, OrderedPart DEF k, c, u
  <2>4. QED
    BY <2>2, <2>3
<1>11. CASE o = "deccolm"
  <2> DEFINE n == Len(t.rows)
  <2>1. u = ChangeColumns(t)
    BY <1>11 DEF Effect
  <2>2. n \in Nat \ {0}
    BY DEF WellFormed, Terminals
  <2>3. /\ SameHistory(u, ResizeTo(t, n)) /\ u.lines = t.lines
        /\ SameRows(u, ResizeTo(t, n)) \/ u.y = 1
    BY <2>1, ChangeColumnsProperties DEF SameLines
  <2> HIDE DEF n, u
  <2>4. QED
    BY <1>1, <2>2, <2>3, ReflowOrdered DEF u
<1>12. CASE o = "ris"
  <2>1. u = FullReset(t)
    BY <1>12 DEF Effect
  <2>2. u.history = <<>> /\ u.y = 1
    BY <2>1, FullResetProperties
  <2> HIDE DEF u
  <2>3. Len(u.history) = 0
    BY <2>2
  <2>4. QED
    BY <1>1, <1>4, <2>2, <2>3 DEF u
<1>13. CASE o = "bell"
  <2>1. u = PushEvent(t)
    BY <1>13 DEF Effect
  <2>2. SameHistory(u, t) /\ SameRows(u, t) /\ u.lines = t.lines
    BY <2>1, PushEventProperties DEF SameLines
  <2>3. QED
    BY <1>1, <1>3, <2>2
<1>14. QED
  BY <1>5, <1>6, <1>7, <1>8, <1>9, <1>10, <1>11, <1>12, <1>13 DEF Outputs

\* So does a read.
LEMMA WriteOrdered ==
  ASSUME NEW t, WellFormed(t), Ordered(t), NEW chunk \in Seq(Outputs)
  PROVE  Ordered(Write(t, chunk))
<1> DEFINE m    == Len(chunk)
           u(n) == After(t, chunk)[n]
           Good == {n \in 0 .. m : Ordered(u(n))}
<1>1. m \in Nat /\ \A n \in 1 .. m : chunk[n] \in Outputs
  OBVIOUS
<1>2. u(0) = t /\ \A n \in 1 .. m : u(n) = Effect(u(n - 1), chunk[n])
  BY ReadSteps
<1>3. \A n \in 0 .. m : WellFormed(u(n))
  BY AfterWellFormed
<1> HIDE DEF m, u
<1>4. 0 \in Good
  BY <1>1, <1>2
<1>5. ASSUME NEW n \in 1 .. m, n - 1 \in Good
      PROVE  n \in Good
  <2>1. n - 1 \in 0 .. m /\ Ordered(u(n - 1)) /\ chunk[n] \in Outputs
    BY <1>1, <1>5
  <2>2. Ordered(Effect(u(n - 1), chunk[n]))
    BY <1>3, <2>1, EffectOrdered
  <2>3. u(n) = Effect(u(n - 1), chunk[n])
    BY <1>2
  <2>4. QED
    BY <1>1, <2>2, <2>3
<1>6. \A n \in 0 .. m : n \in Good
  <2> HIDE DEF Good
  <2>1. QED
    BY <1>1, <1>4, <1>5, Climbs
<1>7. m \in 0 .. m
  BY <1>1
<1>8. QED
  BY <1>6, <1>7 DEF m, u, Write

\* So do a resize and, with nothing printed, a new terminal.
LEMMA ResizeOrdered ==
  ASSUME NEW t, WellFormed(t), Ordered(t), NEW n \in Nat \ {0}
  PROVE  Ordered(ResizeTo(t, n))
<1> DEFINE u == ResizeTo(t, n)
<1>1. WellFormed(u) /\ u.lines = t.lines
  BY ResizeProperties DEF SameLines
<1>2. SameHistory(u, u) /\ SameRows(u, u)
  BY DEF SameHistory, SameRows
<1>3. QED
  BY <1>1, <1>2, ReflowOrdered

LEMMA NewTerminalOrdered ==
  ASSUME NEW rows \in Nat \ {0}
  PROVE  Ordered(NewTerminal(rows))
<1> DEFINE u == NewTerminal(rows)
<1>1. WellFormed(u)
  BY NewTerminalWellFormed
<1>2. u.history = <<>> /\ u.y = 1
  BY DEF NewTerminal
<1> HIDE DEF u
<1>3. Len(Content(u)) = Len(u.history) + u.y
  BY <1>1, ContentProperties
<1>4. Len(Content(u)) = 1
  BY <1>2, <1>3
<1>5. QED
  BY <1>4 DEF Ordered, u

-----------------------------------------------------------------------------
(* A row of the scrollback.                                                *)

\* Where a row x of the scrollback is: its number, counted in all the rows ever
\* pushed, stays n while it is there, and the counter at or above p.
Placed(t, x, n, p) ==
  /\ x <= t.lines
  /\ \A i \in 1 .. t.y - 1 : x < t.rows[i]
  /\ \A i \in 1 .. Len(t.history) :
       t.history[i] = x => t.pushed >= p /\ t.pushed - (Len(t.history) - i) = n

\* A line moves no row of the scrollback but by the one that joins it.
LEMMA LinePlaced ==
  ASSUME NEW t, WellFormed(t), ~t.alt,
         NEW x \in Nat, NEW n \in Int, NEW p \in Nat, Placed(t, x, n, p)
  PROVE  Placed(WriteLine(t), x, n, p)
<1> DEFINE u    == WriteLine(t)
           full == [t.rows EXCEPT ![t.y] = t.lines + 1]
           y    == t.y
           r    == Len(t.rows)
<1>1. /\ WellFormed(u) /\ u.lines = t.lines + 1
      /\ y < r => u.rows = full /\ u.y = y + 1 /\ SameHistory(u, t)
      /\ y = r
           => /\ u.y = y
              /\ \A i \in 1 .. r - 1 : u.rows[i] = full[i + 1]
              /\ u.history = Newest(Append(t.history, full[1]), MaxScrollback)
              /\ u.pushed = IF MaxScrollback = 0 THEN t.pushed ELSE t.pushed + 1
  BY WriteLineProperties
<1>2. /\ t.rows \in Seq(Nat) /\ t.history \in Seq(Nat) /\ y \in 1 .. r
      /\ t.lines \in Nat /\ t.pushed \in Nat
  BY DEF WellFormed, Terminals
<1>3. r \in Nat /\ Len(t.history) \in Nat /\ y \in Nat /\ y > 0 /\ y <= r
  BY <1>2
<1>4. /\ x <= t.lines /\ \A i \in 1 .. y - 1 : x < t.rows[i]
      /\ \A i \in 1 .. Len(t.history) :
           t.history[i] = x => t.pushed >= p /\ t.pushed - (Len(t.history) - i) = n
  BY DEF Placed
<1>5. \A i \in 1 .. r : full[i] = IF i = y THEN t.lines + 1 ELSE t.rows[i]
  BY <1>2, ExceptSeq
<1>6. full \in Seq(Nat) /\ Len(full) = r
  BY <1>2, ExceptSeq
<1> HIDE DEF u, full, y, r
<1>7. ASSUME NEW i \in 1 .. y PROVE x < full[i]
  <2>1. i \in 1 .. r
    BY <1>3
  <2>2. CASE i = y
    BY <1>2, <1>4, <1>5, <2>1, <2>2
  <2>3. CASE i # y
    <3>1. i \in 1 .. y - 1
      BY <1>3, <2>3
    <3>2. QED
      BY <1>4, <1>5, <2>1, <2>3, <3>1
  <2>4. QED
    BY <2>2, <2>3
<1>8. x <= u.lines
  BY <1>1, <1>2, <1>4
<1>9. CASE y < r
  <2>1. \A i \in 1 .. u.y - 1 : x < u.rows[i]
    <3>1. u.rows = full /\ u.y - 1 = y
      BY <1>1, <1>3, <1>9
    <3>2. QED
      BY <1>7, <3>1
  <2>2. u.history = t.history /\ u.pushed = t.pushed
    BY <1>1, <1>9 DEF SameHistory
  <2>3. QED
    BY <1>4, <1>8, <2>1, <2>2 DEF Placed, u
<1>10. CASE y = r
  <2> DEFINE a == Append(t.history, full[1])
             e == Newest(a, MaxScrollback)
  <2>1. /\ u.y = y /\ \A i \in 1 .. r - 1 : u.rows[i] = full[i + 1]
        /\ u.history = e
        /\ u.pushed = IF MaxScrollback = 0 THEN t.pushed ELSE t.pushed + 1
    BY <1>1, <1>10
  <2>2. ASSUME NEW i \in 1 .. u.y - 1 PROVE x < u.rows[i]
    <3>1. i \in 1 .. r - 1 /\ i + 1 \in 1 .. y
      BY <1>3, <1>10, <2>1
    <3>2. QED
      BY <1>7, <2>1, <3>1
  <2>3. 1 \in 1 .. r /\ 1 \in 1 .. y /\ full[1] \in Nat
    BY <1>3, <1>6, ElementOfSeq
  <2>4. /\ a \in Seq(Nat) /\ Len(a) = Len(t.history) + 1
        /\ \A i \in 1 .. Len(t.history) : a[i] = t.history[i]
        /\ a[Len(t.history) + 1] = full[1]
    BY <1>2, <2>3, AppendProperties
  <2> HIDE DEF a
  <2>5. /\ e \in Seq(Nat) /\ Len(e) <= Len(a) /\ Len(e) <= MaxScrollback
        /\ \A i \in 1 .. Len(e) : e[i] = a[i + (Len(a) - Len(e))]
    BY <2>4, NewestProperties, ScrollbackAssumption
  <2> HIDE DEF e
  <2>6. ASSUME NEW i \in 1 .. Len(u.history), u.history[i] = x
        PROVE  u.pushed >= p /\ u.pushed - (Len(u.history) - i) = n
    <3> DEFINE le == Len(e)
               lh == Len(t.history)
               b  == i + (Len(a) - Len(e))
    <3>1. /\ le \in Nat /\ lh \in Nat /\ le <= lh + 1 /\ le <= MaxScrollback
          /\ i \in 1 .. le /\ le = Len(u.history)
      BY <1>3, <2>1, <2>4, <2>5
    <3>2. b = i + (lh + 1 - le) /\ Len(a) = lh + 1
      BY <1>3, <2>4
    <3>3. a[b] = x
      BY <2>1, <2>5, <2>6
    <3> HIDE DEF le, lh, b
    <3>4. b \in 1 .. lh + 1
      BY <3>1, <3>2
    <3>5. b # lh + 1
      <4>1. x < full[1]
        BY <1>7, <2>3
      <4>2. a[lh + 1] = full[1]
        BY <2>4 DEF lh
      <4>3. QED
        BY <2>3, <3>3, <4>1, <4>2
    <3>6. b \in 1 .. lh
      BY <3>1, <3>4, <3>5
    <3>7. t.history[b] = x
      BY <2>4, <3>3, <3>6 DEF lh
    <3>8. t.pushed >= p /\ t.pushed - (lh - b) = n
      BY <1>4, <3>6, <3>7 DEF lh
    <3>9. u.pushed = t.pushed + 1
      BY <2>1, <3>1, ScrollbackAssumption
    <3> DEFINE tp == t.pushed
    <3>10. tp \in Nat /\ tp >= p /\ tp - (lh - b) = n
      BY <1>2, <3>8
    <3> HIDE DEF tp
    <3>11. tp + 1 >= p /\ tp + 1 - (le - i) = n
      BY <3>1, <3>2, <3>10
    <3> DEFINE up == u.pushed
               lu == Len(u.history)
    <3>12. up = tp + 1 /\ lu = le
      BY <3>1, <3>9 DEF tp
    <3> HIDE DEF up, lu
    <3>13. tp \in Nat /\ le \in Nat /\ i \in Nat
      BY <3>1, <3>10
    <3>14. up >= p /\ up - (lu - i) = n
      BY <3>11, <3>12, <3>13
    <3>15. QED
      BY <3>14 DEF up, lu
  <2>7. QED
    BY <1>8, <2>2, <2>6 DEF Placed, u
<1>11. QED
  BY <1>3, <1>9, <1>10

\* Nor does any other output but a change of the columns.
LEMMA EffectPlaced ==
  ASSUME NEW t, WellFormed(t), NEW o \in Outputs \ {"deccolm"},
         NEW x \in Nat, NEW n \in Int, NEW p \in Nat, Placed(t, x, n, p)
  PROVE  Placed(Effect(t, o), x, n, p)
<1> DEFINE u == Effect(t, o)
<1>1. ASSUME NEW v, SameHistory(v, t), SameRows(v, t), v.lines = t.lines
      PROVE  Placed(v, x, n, p)
  BY <1>1 DEF Placed, SameHistory, SameRows
<1>2. CASE o = "line" /\ ~t.alt
  BY <1>2, LinePlaced DEF Effect
<1>3. CASE o = "line" /\ t.alt
  BY <1>3 DEF Effect, WriteLine
<1>4. CASE o = "bsu"
  <2>1. u = OpenBatch(t)
    BY <1>4 DEF Effect
  <2>2. QED
    BY <1>1, <2>1, OpenBatchProperties DEF SameLines
<1>5. CASE o = "esu"
  <2>1. u = [t EXCEPT !.sync = FALSE]
    BY <1>5 DEF Effect
  <2> HIDE DEF u
  <2>2. SameHistory(u, t) /\ SameRows(u, t) /\ u.lines = t.lines
    BY <2>1, CloseBatchProperties DEF SameLines
  <2>3. QED
    BY <1>1, <2>2 DEF u
<1>6. CASE o \in {"alt", "primary"}
  <2>1. \E on \in BOOLEAN : u = [t EXCEPT !.alt = on]
    BY <1>6 DEF Effect
  <2> HIDE DEF u
  <2>2. SameHistory(u, t) /\ SameRows(u, t) /\ u.lines = t.lines
    BY <2>1, SwitchScreenProperties
  <2>3. QED
    BY <1>1, <2>2 DEF u
<1>7. CASE o = "ed3"
  <2>1. u = IF t.alt THEN t ELSE [t EXCEPT !.history = <<>>]
    BY <1>7 DEF Effect
  <2> HIDE DEF u
  <2>2. CASE t.alt
    BY <2>1, <2>2 DEF u
  <2>3. CASE ~t.alt
    <3>1. u.history = <<>> /\ SameRows(u, t) /\ u.lines = t.lines
      BY <2>1, <2>3, ClearHistoryProperties DEF SameLines
    <3>2. Len(u.history) = 0
      BY <3>1
    <3>3. QED
      BY <3>1, <3>2 DEF Placed, SameRows, u
  <2>4. QED
    BY <2>2, <2>3
<1>8. CASE o = "ris"
  <2>1. u = FullReset(t)
    BY <1>8 DEF Effect
  <2>2. u.history = <<>> /\ u.y = 1 /\ u.lines = t.lines
    BY <2>1, FullResetProperties
  <2> HIDE DEF u
  <2>3. Len(u.history) = 0 /\ u.y - 1 = 0
    BY <2>2
  <2>4. QED
    BY <2>2, <2>3 DEF Placed, u
<1>9. CASE o = "bell"
  <2>1. u = PushEvent(t)
    BY <1>9 DEF Effect
  <2>2. QED
    BY <1>1, <2>1, PushEventProperties DEF SameLines
<1>10. QED
  BY <1>2, <1>3, <1>4, <1>5, <1>6, <1>7, <1>8, <1>9 DEF Outputs

\* A read that does not change the columns leaves a row where it was counted to
\* be, if it leaves it at all.
LEMMA WritePlaced ==
  ASSUME NEW t, WellFormed(t), NEW chunk \in Seq(Outputs),
         \A i \in 1 .. Len(chunk) : chunk[i] # "deccolm",
         NEW x \in Nat, NEW n \in Int, NEW p \in Nat, Placed(t, x, n, p)
  PROVE  Placed(Write(t, chunk), x, n, p)
<1> DEFINE m    == Len(chunk)
           u(k) == After(t, chunk)[k]
           Good == {k \in 0 .. m : Placed(u(k), x, n, p)}
<1>1. m \in Nat /\ \A k \in 1 .. m : chunk[k] \in Outputs \ {"deccolm"}
  OBVIOUS
<1>2. u(0) = t /\ \A k \in 1 .. m : u(k) = Effect(u(k - 1), chunk[k])
  BY ReadSteps
<1>3. \A k \in 0 .. m : WellFormed(u(k))
  BY AfterWellFormed
<1> HIDE DEF m, u
<1>4. 0 \in Good
  BY <1>1, <1>2
<1>5. ASSUME NEW k \in 1 .. m, k - 1 \in Good
      PROVE  k \in Good
  <2>1. k - 1 \in 0 .. m /\ Placed(u(k - 1), x, n, p) /\ chunk[k] \in Outputs \ {"deccolm"}
    BY <1>1, <1>5
  <2>2. Placed(Effect(u(k - 1), chunk[k]), x, n, p)
    BY <1>3, <2>1, EffectPlaced
  <2>3. u(k) = Effect(u(k - 1), chunk[k])
    BY <1>2
  <2>4. QED
    BY <1>1, <2>2, <2>3
<1>6. \A k \in 0 .. m : k \in Good
  <2> HIDE DEF Good
  <2>1. QED
    BY <1>1, <1>4, <1>5, Climbs
<1>7. m \in 0 .. m
  BY <1>1
<1>8. QED
  BY <1>6, <1>7 DEF m, u, Write

\* A row of an ordered scrollback is where it is.
LEMMA RowPlaced ==
  ASSUME NEW t, WellFormed(t), Ordered(t), NEW j \in 1 .. Len(t.history)
  PROVE  /\ t.history[j] \in Nat
         /\ Placed(t, t.history[j], t.pushed - (Len(t.history) - j), t.pushed)
<1> DEFINE c == Content(t)
           h == t.history
           l == Len(t.history)
<1>1. t.history \in Seq(Nat) /\ t.y \in 1 .. Len(t.rows) /\ t.rows \in Seq(Nat) /\ t.pushed \in Nat
  BY DEF WellFormed, Terminals
<1>2. l \in Nat /\ t.y \in Nat /\ t.y > 0
  BY <1>1
<1>3. /\ Len(c) = l + t.y
      /\ \A i \in 1 .. l : c[i] = h[i]
      /\ \A i \in 1 .. t.y : c[l + i] = t.rows[i]
  BY ContentProperties
<1>4. /\ \A i, k \in 1 .. Len(c) - 1 : i < k => c[i] < c[k]
      /\ \A i \in 1 .. Len(c) - 1 : c[i] <= t.lines
  BY DEF Ordered
<1>5. \A i \in 1 .. l : h[i] \in Nat
  BY <1>1, ElementOfSeq
<1> HIDE DEF c, h, l
<1>6. j \in 1 .. l /\ j \in 1 .. Len(c) - 1
  <2>1. j \in 1 .. l
    BY DEF l
  <2>2. QED
    BY <1>2, <1>3, <2>1
<1>7. h[j] <= t.lines
  BY <1>3, <1>4, <1>6
<1>8. ASSUME NEW i \in 1 .. t.y - 1 PROVE h[j] < t.rows[i]
  <2>1. i \in 1 .. t.y /\ l + i \in 1 .. Len(c) - 1 /\ j < l + i
    BY <1>2, <1>3, <1>6
  <2>2. QED
    BY <1>3, <1>4, <1>6, <2>1
<1>9. ASSUME NEW i \in 1 .. l, h[i] = h[j] PROVE i = j
  <2>1. i \in 1 .. Len(c) - 1
    BY <1>2, <1>3
  <2>2. c[i] = h[i] /\ c[j] = h[j] /\ h[i] \in Nat
    BY <1>3, <1>5, <1>6
  <2>3. ~(i < j)
    BY <1>4, <1>6, <1>9, <2>1, <2>2
  <2>4. ~(j < i)
    BY <1>4, <1>6, <1>9, <2>1, <2>2
  <2>5. QED
    BY <1>2, <1>6, <2>3, <2>4
<1>10. ASSUME NEW i \in 1 .. l, h[i] = h[j]
       PROVE  t.pushed >= t.pushed /\ t.pushed - (l - i) = t.pushed - (l - j)
  BY <1>1, <1>9, <1>10
<1>11. QED
  BY <1>5, <1>6, <1>7, <1>8, <1>10 DEF Placed, h, l

-----------------------------------------------------------------------------
(* The batch of a read.                                                    *)

\* What an output does to the batch.
LEMMA EffectBatch ==
  ASSUME NEW t, WellFormed(t), NEW o \in Outputs
  PROVE  /\ o = "bsu" => Effect(t, o).batches = IF t.sync THEN t.batches ELSE t.batches + 1
         /\ o = "bsu" => Effect(t, o).sync = TRUE
         /\ o # "bsu" => Effect(t, o).batches = t.batches
         /\ o \in Closes => Effect(t, o).sync = FALSE
         /\ o \notin Closes \union {"bsu"} => Effect(t, o).sync = t.sync
<1> DEFINE u == Effect(t, o)
<1>1. CASE o = "line" /\ ~t.alt
  BY <1>1, WriteLineProperties DEF Effect, SameBatch, Closes
<1>2. CASE o = "line" /\ t.alt
  BY <1>2 DEF Effect, WriteLine, Closes
<1>3. CASE o = "bsu"
  BY <1>3, OpenBatchProperties DEF Effect, Closes
<1>4. CASE o = "esu"
  <2>1. u = [t EXCEPT !.sync = FALSE]
    BY <1>4 DEF Effect
  <2> HIDE DEF u
  <2>2. u.sync = FALSE /\ u.batches = t.batches
    BY <2>1, CloseBatchProperties
  <2>3. QED
    BY <1>4, <2>2 DEF u, Closes
<1>5. CASE o \in {"alt", "primary"}
  <2>1. \E on \in BOOLEAN : u = [t EXCEPT !.alt = on]
    BY <1>5 DEF Effect
  <2> HIDE DEF u
  <2>2. SameBatch(u, t)
    BY <2>1, SwitchScreenProperties
  <2>3. QED
    BY <1>5, <2>2 DEF u, Closes, SameBatch
<1>6. CASE o = "ed3"
  <2>1. u = t \/ u = [t EXCEPT !.history = <<>>]
    BY <1>6 DEF Effect
  <2> HIDE DEF u
  <2>2. SameBatch(u, t)
    BY <2>1, ClearHistoryProperties DEF SameBatch
  <2>3. QED
    BY <1>6, <2>2 DEF u, Closes, SameBatch
<1>7. CASE o = "deccolm"
  BY <1>7, ChangeColumnsProperties DEF Effect, Closes
<1>8. CASE o = "ris"
  BY <1>8, FullResetProperties DEF Effect, Closes
<1>9. CASE o = "bell"
  BY <1>9, PushEventProperties DEF Effect, SameBatch, Closes
<1>10. QED
  BY <1>1, <1>2, <1>3, <1>4, <1>5, <1>6, <1>7, <1>8, <1>9 DEF Outputs

\* A steady read that found a batch open opens no other.
LEMMA WriteBatch ==
  ASSUME NEW t, WellFormed(t), t.sync, NEW chunk \in Seq(Outputs),
         \A i, j \in 1 .. Len(chunk) : i < j /\ chunk[j] = "bsu" => chunk[i] \notin Closes
  PROVE  Write(t, chunk).batches = t.batches
<1> DEFINE m    == Len(chunk)
           u(n) == After(t, chunk)[n]
           Closed(n) == \E i \in 1 .. n : chunk[i] \in Closes
           Good == {n \in 0 .. m : u(n).batches = t.batches /\ (u(n).sync \/ Closed(n))}
<1>1. m \in Nat /\ \A n \in 1 .. m : chunk[n] \in Outputs
  OBVIOUS
<1>2. u(0) = t /\ \A n \in 1 .. m : u(n) = Effect(u(n - 1), chunk[n])
  BY ReadSteps
<1>3. \A n \in 0 .. m : WellFormed(u(n))
  BY AfterWellFormed
<1>4. \A i, j \in 1 .. m : i < j /\ chunk[j] = "bsu" => chunk[i] \notin Closes
  OBVIOUS
<1> HIDE DEF m, u
<1>5. 0 \in Good
  BY <1>1, <1>2
<1>6. ASSUME NEW n \in 1 .. m, n - 1 \in Good
      PROVE  n \in Good
  <2> DEFINE v == u(n - 1)
             o == chunk[n]
  <2>1. n - 1 \in 0 .. m /\ n \in 0 .. m /\ o \in Outputs
    BY <1>1
  <2>2. v.batches = t.batches /\ (v.sync \/ Closed(n - 1)) /\ WellFormed(v)
    BY <1>3, <1>6, <2>1
  <2>3. u(n) = Effect(v, o)
    BY <1>2
  <2> HIDE DEF v, o
  <2>4. /\ o = "bsu" => Effect(v, o).batches = IF v.sync THEN v.batches ELSE v.batches + 1
        /\ o = "bsu" => Effect(v, o).sync = TRUE
        /\ o # "bsu" => Effect(v, o).batches = v.batches
        /\ o \notin Closes \union {"bsu"} => Effect(v, o).sync = v.sync
    BY <2>1, <2>2, EffectBatch
  <2>5. CASE o = "bsu"
    <3>1. ~Closed(n - 1)
      <4>1. ASSUME NEW i \in 1 .. n - 1 PROVE chunk[i] \notin Closes
        <5>1. i \in 1 .. m /\ i < n
          BY <1>1
        <5>2. QED
          BY <1>4, <2>5, <5>1 DEF o
      <4>2. QED
        BY <4>1
    <3>2. u(n).batches = t.batches /\ u(n).sync = TRUE
      BY <2>2, <2>3, <2>5, <2>4, <3>1
    <3>3. QED
      BY <2>1, <3>2
  <2>6. CASE o \in Closes
    <3>1. u(n).batches = t.batches
      <4>1. o # "bsu"
        BY <2>6 DEF Closes
      <4>2. QED
        BY <2>2, <2>3, <2>4, <4>1
    <3>2. Closed(n)
      BY <1>1, <2>6 DEF o
    <3>3. QED
      BY <2>1, <3>1, <3>2
  <2>7. CASE o \notin Closes \union {"bsu"}
    <3>1. Effect(v, o).batches = v.batches /\ Effect(v, o).sync = v.sync
      BY <2>7, <2>4
    <3>2. Closed(n - 1) => Closed(n)
      BY <1>1
    <3>3. QED
      BY <2>1, <2>2, <2>3, <3>1, <3>2
  <2>8. QED
    BY <2>5, <2>6, <2>7
<1>7. \A n \in 0 .. m : n \in Good
  <2> HIDE DEF Good
  <2>1. QED
    BY <1>1, <1>5, <1>6, Climbs
<1>8. m \in 0 .. m
  BY <1>1
<1>9. QED
  BY <1>7, <1>8 DEF m, u, Write

\* A read that opens no batch leaves none open where there was none.
LEMMA WriteNoBatch ==
  ASSUME NEW t, WellFormed(t), ~t.sync, NEW chunk \in Seq(Outputs),
         \A i \in 1 .. Len(chunk) : chunk[i] # "bsu"
  PROVE  ~Write(t, chunk).sync
<1> DEFINE m    == Len(chunk)
           u(n) == After(t, chunk)[n]
           Good == {n \in 0 .. m : ~u(n).sync}
<1>1. m \in Nat /\ \A n \in 1 .. m : chunk[n] \in Outputs /\ chunk[n] # "bsu"
  OBVIOUS
<1>2. u(0) = t /\ \A n \in 1 .. m : u(n) = Effect(u(n - 1), chunk[n])
  BY ReadSteps
<1>3. \A n \in 0 .. m : WellFormed(u(n))
  BY AfterWellFormed
<1> HIDE DEF m, u
<1>4. 0 \in Good
  BY <1>1, <1>2
<1>5. ASSUME NEW n \in 1 .. m, n - 1 \in Good
      PROVE  n \in Good
  <2>1. n - 1 \in 0 .. m /\ ~u(n - 1).sync /\ chunk[n] \in Outputs /\ chunk[n] # "bsu"
    BY <1>1, <1>5
  <2>2. ~Effect(u(n - 1), chunk[n]).sync
    BY <1>3, <2>1, EffectBatch
  <2>3. u(n) = Effect(u(n - 1), chunk[n])
    BY <1>2
  <2>4. QED
    BY <1>1, <2>2, <2>3
<1>6. \A n \in 0 .. m : n \in Good
  <2> HIDE DEF Good
  <2>1. QED
    BY <1>1, <1>4, <1>5, Climbs
<1>7. m \in 0 .. m
  BY <1>1
<1>8. QED
  BY <1>6, <1>7 DEF m, u, Write

-----------------------------------------------------------------------------
(* The pump.                                                               *)

TermOK ==
  /\ WellFormed(term) /\ Ordered(term)
  /\ Len(term.rows) \in Heights /\ term.events = <<>>

\* What the view hangs from: the counter it was computed against is the one now.
ViewOK ==
  /\ offset \in Nat /\ offset <= Len(History(term))
  /\ anchored = TotalPushed(term)

GateOK == held \in BOOLEAN /\ age \in 0 .. Budget /\ batchAge \in 0 .. Budget

\* An owner who may not call has left the mailboxes and the view alone.
BoxesOK ==
  /\ pending \in session.heights \union {0} /\ scroll \in Int /\ jump \in Jumps \union {None}
  /\ calls \in 0 .. session.calls
  /\ session.calls = 0 => offset = 0 /\ pending = 0 /\ scroll = 0 /\ jump = None

IoOK ==
  /\ pc \in {"resize", "scroll", "jump", "poll", "done"}
  /\ queue \in Seq(Nat) /\ Len(queue) <= QueueCap /\ taken \in Seq(Nat)
  /\ session \in Sessions /\ alive \in BOOLEAN /\ reads \in 0 .. session.reads

PumpInv == TermOK /\ ViewOK /\ GateOK /\ BoxesOK /\ IoOK

\* With no batch open the newest frame is the terminal at the pump's offset.
Current == ~term.sync => shown = FrameOf(term, offset, reads)

\* The events out of the terminal, in order, the newest last.
Delivered ==
  LET all == taken \o queue
  IN  /\ Rising(all)
      /\ \A i \in 1 .. Len(all) : all[i] <= term.emitted
      /\ term.wiped <= term.emitted
      /\ term.emitted > term.wiped => Len(all) > 0 /\ all[Len(all)] = term.emitted

\* The gate holds when a batch is open, and its clock is not ahead of the batch's.
Clocks ==
  /\ held = term.sync /\ age <= batchAge
  /\ (\A chunk \in session.chunks : "bsu" \notin Range(chunk)) => ~term.sync

-----------------------------------------------------------------------------
(* Facts about the terminal the pump reads.                                *)

LEMMA SessionFacts ==
  ASSUME session \in Sessions
  PROVE  /\ session.reads \in Nat /\ session.calls \in Nat
         /\ session.heights \subseteq Nat \ {0} /\ session.heights \subseteq Heights
         /\ session.chunks \subseteq Seq(Outputs)
         /\ Budget \in Nat \ {0} /\ QueueCap \in Nat \ {0} /\ Wheel \subseteq Int
         /\ Start \in Heights /\ Heights \subseteq Nat \ {0}
  BY PumpAssumption

\* The active screen's history: none on the alternate one.
LEMMA HistoryFacts ==
  ASSUME NEW t, WellFormed(t)
  PROVE  /\ History(t) \in Seq(Nat) /\ Len(History(t)) \in Nat /\ TotalPushed(t) \in Nat
         /\ t.alt => Len(History(t)) = 0
<1>1. t.history \in Seq(Nat) /\ t.pushed \in Nat
  BY DEF WellFormed, Terminals
<1>2. QED
  BY <1>1 DEF History, TotalPushed

\* What the pump and a frame see of a terminal is in its parts.
LEMMA SameSeen ==
  ASSUME NEW t, NEW u, SameHistory(u, t), SameRows(u, t), u.alt = t.alt
  PROVE  /\ History(u) = History(t) /\ TotalPushed(u) = TotalPushed(t)
         /\ \A off : View(u, off) = View(t, off)
         /\ u.sync = t.sync => \A off, n : FrameOf(u, off, n) = FrameOf(t, off, n)
  BY DEF SameHistory, SameRows, History, TotalPushed, View, FrameOf

\* Draining the events leaves the rest.
LEMMA DrainProperties ==
  ASSUME NEW t, WellFormed(t)
  PROVE  LET u == [t EXCEPT !.events = <<>>]
         IN  /\ WellFormed(u)
             /\ u.emitted = t.emitted /\ u.wiped = t.wiped /\ u.events = <<>>
             /\ SameHistory(u, t) /\ SameRows(u, t) /\ SameLines(u, t) /\ SameBatch(u, t)
<1> DEFINE u == WithEvents(t, t.emitted, <<>>)
<1>1. t \in Terminals /\ t.emitted \in Nat /\ <<>> \in Seq(Nat)
  BY DEF WellFormed, Terminals
<1>2. [t EXCEPT !.events = <<>>] = u
  BY <1>1 DEF Terminals, WithEvents
<1>3. /\ u \in Terminals /\ u.emitted = t.emitted /\ u.events = <<>> /\ u.wiped = t.wiped
      /\ SameHistory(u, t) /\ SameRows(u, t) /\ SameLines(u, t) /\ SameBatch(u, t)
  BY <1>1, EventsSet
<1> HIDE DEF u
<1>4. WellFormed(u)
  BY <1>3 DEF WellFormed, SameHistory, SameRows
<1>5. QED
  BY <1>2, <1>3, <1>4

\* Following the content stays within the history.
LEMMA FollowBounds ==
  ASSUME NEW t, WellFormed(t), offset \in Nat, anchored \in Nat
  PROVE  /\ Follow(t) \in Nat /\ Follow(t) <= Len(History(t))
         /\ offset = 0 => Follow(t) = 0
<1> DEFINE l == Len(History(t))
           p == TotalPushed(t)
           c == Clamp(p - anchored, 0, p)
<1>1. l \in Nat /\ p \in Nat
  BY HistoryFacts
<1>2. Follow(t) = IF offset = 0 THEN 0 ELSE Least(offset + c, l)
  BY DEF Follow
<1> HIDE DEF l, p
<1>3. c \in Nat
  BY <1>1 DEF Clamp
<1> HIDE DEF c
<1>4. QED
  BY <1>1, <1>2, <1>3 DEF Least, l

\* A read's terminal, before and after its events are drained.
LEMMA ReadTerminal ==
  ASSUME PumpInv, NEW chunk \in session.chunks
  PROVE  LET t == Write(term, chunk)
             u == [t EXCEPT !.events = <<>>]
         IN  /\ chunk \in Seq(Outputs)
             /\ WellFormed(t) /\ WellFormed(u) /\ Ordered(u)
             /\ Len(u.rows) = Len(term.rows)
             /\ u.emitted = t.emitted /\ u.wiped = t.wiped /\ u.events = <<>>
             /\ SameHistory(u, t) /\ SameRows(u, t) /\ SameLines(u, t) /\ SameBatch(u, t)
<1> DEFINE t == Write(term, chunk)
           u == [t EXCEPT !.events = <<>>]
<1>1. chunk \in Seq(Outputs) /\ WellFormed(term) /\ Ordered(term)
  BY SessionFacts DEF PumpInv, IoOK, TermOK
<1>2. WellFormed(t) /\ Len(t.rows) = Len(term.rows) /\ Ordered(t)
  BY <1>1, WriteWellFormed, WriteOrdered
<1> HIDE DEF t
<1>3. /\ WellFormed(u)
      /\ u.emitted = t.emitted /\ u.wiped = t.wiped /\ u.events = <<>>
      /\ SameHistory(u, t) /\ SameRows(u, t) /\ SameLines(u, t) /\ SameBatch(u, t)
  BY <1>2, DrainProperties
<1> HIDE DEF u
<1>4. Ordered(u)
  <2>1. Content(u) = Content(t)
    BY <1>3, SameContent
  <2>2. u.lines = t.lines
    BY <1>3 DEF SameLines
  <2>3. QED
    BY <1>2, <2>1, <2>2 DEF Ordered
<1>5. QED
  BY <1>1, <1>2, <1>3, <1>4 DEF t, u, SameRows

-----------------------------------------------------------------------------
(* Prompt jumps.                                                           *)

\* The library's ends of a set are members of it.
LEMMA LeastMember ==
  ASSUME NEW S, S \subseteq Nat, S # {}
  PROVE  Min(S) \in S
  BY HasLeast DEF Min

LEMMA GreatestMember ==
  ASSUME NEW m \in Nat, NEW S, S \subseteq 0 .. m, S # {}
  PROVE  Max(S) \in S
<1>1. PICK x \in S : \A y \in S : y <= x
  BY HasGreatest
<1>2. \A y \in S : x >= y
  BY <1>1
<1>3. QED
  BY <1>2 DEF Max

\* The row at the top of a view scrolled up is that of the history.
LEMMA TopOfView ==
  ASSUME NEW t, WellFormed(t), ~t.alt, NEW off \in 1 .. Len(t.history)
  PROVE  TopRow(t, off) = t.history[Len(t.history) - off + 1]
<1> DEFINE h   == t.history
           l   == Len(h)
           all == h \o t.rows
           r   == Len(t.rows)
           top == l - off
           v   == SubSeq(all, top + 1, top + r)
<1>1. h \in Seq(Nat) /\ t.rows \in Seq(Nat) /\ t.y \in 1 .. Len(t.rows)
  BY DEF WellFormed, Terminals
<1>2. l \in Nat /\ r \in Nat /\ r > 0
  BY <1>1
<1>3. /\ all \in Seq(Nat) /\ Len(all) = l + r
      /\ \A i \in 1 .. l + r : all[i] = IF i <= l THEN h[i] ELSE t.rows[i - l]
  BY <1>1, ConcatProperties
<1>4. TopRow(t, off) = v[1]
  BY DEF TopRow, View, History
<1> HIDE DEF all
<1>5. top \in Nat /\ top + 1 \in 1 .. l /\ top + r <= l + r
  <2>1. off \in 1 .. l
    OBVIOUS
  <2> HIDE DEF l, r
  <2>2. QED
    BY <1>2, <2>1
<1>6. v[1] = all[top + 1]
  <2>1. \A i \in top + 1 .. top + r : all[i] \in Nat
    <3>1. \A i \in 1 .. l + r : all[i] \in Nat
      BY <1>3, ElementOfSeq
    <3> HIDE DEF l, r, top
    <3>2. QED
      BY <1>2, <1>5, <3>1
  <2> DEFINE a == top + 1
             b == top + r
  <2>2. a \in Int /\ b \in Int /\ \A i \in a .. b : all[i] \in Nat
    <3> HIDE DEF l, r, top
    <3>1. QED
      BY <1>2, <1>5, <2>1
  <2>3. 1 \in 1 .. b - a + 1 /\ a + 1 - 1 = top + 1
    <3> HIDE DEF l, r, top
    <3>1. QED
      BY <1>2, <1>5
  <2> HIDE DEF a, b
  <2>4. \A i \in 1 .. b - a + 1 : SubSeq(all, a, b)[i] = all[a + i - 1]
    BY <2>2, SubSeqProperties
  <2>5. SubSeq(all, a, b)[1] = all[top + 1]
    BY <2>3, <2>4
  <2>6. QED
    BY <2>5 DEF a, b
<1>7. all[top + 1] = h[top + 1]
  <2>1. top + 1 \in 1 .. l + r /\ top + 1 <= l
    <3> HIDE DEF l, r, top
    <3>1. QED
      BY <1>2, <1>5
  <2>2. QED
    BY <1>3, <2>1
<1>8. QED
  BY <1>4, <1>6, <1>7

\* A jump that moves goes to a row that begins a prompt, the way it was asked.
LEMMA JumpFacts ==
  ASSUME NEW t, WellFormed(t), ~t.alt, NEW off \in Nat, NEW back \in BOOLEAN,
         JumpOffset(PromptOffsets(t), off, back) # off
  PROVE  LET next == JumpOffset(PromptOffsets(t), off, back)
         IN  /\ next \in 1 .. Len(t.history)
             /\ back <=> next > off
             /\ TopRow(t, next) \in PromptRows
<1> DEFINE h       == t.history
           l       == Len(h)
           offsets == PromptOffsets(t)
           way     == {o \in offsets : IF back THEN o > off ELSE o < off}
           next    == JumpOffset(offsets, off, back)
<1>1. h \in Seq(Nat) /\ l \in Nat /\ DOMAIN h = 1 .. l
  BY DEF WellFormed, Terminals
<1>2. offsets = {l - i + 1 : i \in {j \in 1 .. l : h[j] \in PromptRows}}
  BY <1>1 DEF PromptOffsets, History
<1> HIDE DEF h, l, offsets
<1>3. ASSUME NEW o \in offsets
      PROVE  o \in 1 .. l /\ h[l - o + 1] \in PromptRows
  <2>1. PICK i \in 1 .. l : h[i] \in PromptRows /\ o = l - i + 1
    BY <1>2
  <2>2. l - o + 1 = i /\ o \in 1 .. l
    BY <1>1, <2>1
  <2>3. QED
    BY <2>1, <2>2
<1>4. next = IF way = {} THEN off ELSE IF back THEN Min(way) ELSE Max(way)
  BY DEF JumpOffset
<1>5. next # off
  BY DEF offsets
<1> HIDE DEF next
<1>6. way # {} /\ way \subseteq 0 .. l /\ way \subseteq Nat
  BY <1>1, <1>3, <1>4, <1>5
<1>7. next \in way
  <2> HIDE DEF way
  <2>1. Min(way) \in way
    BY <1>6, LeastMember
  <2>2. Max(way) \in way
    BY <1>1, <1>6, GreatestMember
  <2>3. QED
    BY <1>4, <1>6, <2>1, <2>2
<1>8. next \in 1 .. l /\ h[l - next + 1] \in PromptRows /\ (back <=> next > off)
  BY <1>1, <1>3, <1>7
<1>9. TopRow(t, next) = h[l - next + 1]
  BY <1>8, TopOfView DEF h, l
<1>10. QED
  BY <1>8, <1>9 DEF next, offsets, h, l

-----------------------------------------------------------------------------
(* The pump's state.                                                       *)

LEMMA PumpInit ==
  ASSUME Init
  PROVE  PumpInv
<1>1. Start \in Nat \ {0} /\ Start \in Heights
  BY PumpAssumption
<1>2. WellFormed(term) /\ Len(term.rows) = Start /\ Ordered(term)
  BY <1>1, NewTerminalWellFormed, NewTerminalOrdered DEF Init
<1>3. /\ term.events = <<>> /\ term.history = <<>> /\ term.pushed = 0 /\ term.alt = FALSE
  BY DEF Init, NewTerminal
<1>4. History(term) = <<>> /\ TotalPushed(term) = 0 /\ Len(<<>>) = 0
  BY <1>3 DEF History, TotalPushed
<1>5. TermOK
  BY <1>1, <1>2, <1>3 DEF TermOK
<1>6. ViewOK
  BY <1>4 DEF ViewOK, Init
<1>7. session \in Sessions /\ session.reads \in Nat /\ session.calls \in Nat
      /\ Budget \in Nat /\ QueueCap \in Nat
  BY SessionFacts DEF Init
<1>8. GateOK
  <2>1. 0 \in 0 .. Budget
    BY <1>7
  <2>2. QED
    BY <2>1 DEF GateOK, Init
<1>9. BoxesOK
  BY <1>7 DEF BoxesOK, Init
<1>10. IoOK
  BY <1>4, <1>7 DEF IoOK, Init
<1>11. QED
  BY <1>5, <1>6, <1>8, <1>9, <1>10 DEF PumpInv

\* The owner's calls.
LEMMA OwnerStep ==
  ASSUME PumpInv, Owner
  PROVE  PumpInv'
<1>1. session \in Sessions
  BY DEF PumpInv, IoOK
<1>2. ASSUME Call, UNCHANGED session
      PROVE  calls' \in 0 .. session'.calls /\ session'.calls # 0
  <2>1. calls \in 0 .. session.calls /\ session.calls \in Nat
    BY <1>1, SessionFacts DEF PumpInv, BoxesOK
  <2>2. QED
    BY <1>2, <2>1 DEF Call
<1>3. ASSUME NEW rows \in session.heights, AskResize(rows)
      PROVE  PumpInv'
  <2>1. UNCHANGED session /\ Call
    BY <1>3 DEF AskResize, io
  <2>2. TermOK' /\ ViewOK' /\ GateOK' /\ IoOK'
    BY <1>3 DEF PumpInv, TermOK, ViewOK, GateOK, IoOK, AskResize, view, gate, io
  <2>3. BoxesOK'
    BY <1>1, <1>2, <1>3, <2>1, SessionFacts DEF PumpInv, BoxesOK, AskResize
  <2>4. QED
    BY <2>2, <2>3 DEF PumpInv
<1>4. ASSUME NEW delta \in Wheel, AskScroll(delta)
      PROVE  PumpInv'
  <2>1. UNCHANGED session /\ Call
    BY <1>4 DEF AskScroll, io
  <2>2. TermOK' /\ ViewOK' /\ GateOK' /\ IoOK'
    BY <1>4 DEF PumpInv, TermOK, ViewOK, GateOK, IoOK, AskScroll, view, gate, io
  <2>3. BoxesOK'
    BY <1>1, <1>2, <1>4, <2>1, SessionFacts DEF PumpInv, BoxesOK, AskScroll
  <2>4. QED
    BY <2>2, <2>3 DEF PumpInv
<1>5. ASSUME NEW direction \in Jumps, AskJump(direction)
      PROVE  PumpInv'
  <2>1. UNCHANGED session /\ Call
    BY <1>5 DEF AskJump, io
  <2>2. TermOK' /\ ViewOK' /\ GateOK' /\ IoOK'
    BY <1>5 DEF PumpInv, TermOK, ViewOK, GateOK, IoOK, AskJump, view, gate, io
  <2>3. BoxesOK'
    BY <1>1, <1>2, <1>5, <2>1, SessionFacts DEF PumpInv, BoxesOK, AskJump
  <2>4. QED
    BY <2>2, <2>3 DEF PumpInv
<1>6. ASSUME TakeEvents
      PROVE  PumpInv'
  <2>1. taken' \in Seq(Nat) /\ queue' = <<>> /\ Len(<<>>) = 0 /\ <<>> \in Seq(Nat)
    BY <1>6, ConcatProperties DEF PumpInv, IoOK, TakeEvents
  <2>2. IoOK'
    BY <1>1, <1>6, <2>1, SessionFacts DEF PumpInv, IoOK, TakeEvents
  <2>3. QED
    BY <1>6, <2>2 DEF PumpInv, TermOK, ViewOK, GateOK, BoxesOK, TakeEvents, view, gate, boxes
<1>7. QED
  BY <1>3, <1>4, <1>5, <1>6 DEF Owner

\* A requested geometry.
LEMMA ResizeStep ==
  ASSUME PumpInv, PumpResize
  PROVE  PumpInv'
<1>1. session \in Sessions /\ session' = session
  BY DEF PumpInv, IoOK, PumpResize, io
<1>2. CASE pending = 0
  BY <1>1, <1>2 DEF PumpInv, TermOK, ViewOK, GateOK, BoxesOK, IoOK, PumpResize, view, gate, io
<1>3. CASE pending # 0
  <2>1. /\ pending \in session.heights /\ pending \in Heights /\ pending \in Nat \ {0}
        /\ WellFormed(term) /\ Ordered(term) /\ term.events = <<>>
    BY <1>1, <1>3, SessionFacts DEF PumpInv, BoxesOK, TermOK
  <2>2. /\ term' = ResizeTo(term, pending) /\ offset' = 0 /\ anchored' = TotalPushed(term')
        /\ pending' = 0 /\ pc' = "scroll"
    BY <1>3 DEF PumpResize
  <2>3. /\ WellFormed(ResizeTo(term, pending)) /\ Len(ResizeTo(term, pending).rows) = pending
        /\ SameEvents(ResizeTo(term, pending), term) /\ Ordered(ResizeTo(term, pending))
    BY <2>1, ResizeProperties, ResizeOrdered
  <2>4. TermOK'
    BY <2>1, <2>2, <2>3 DEF TermOK, SameEvents
  <2>5. ViewOK'
    <3>1. WellFormed(term')
      BY <2>2, <2>3
    <3>2. Len(History(term')) \in Nat
      BY <3>1, HistoryFacts
    <3>3. QED
      BY <2>2, <3>2 DEF ViewOK
  <2>6. GateOK' /\ BoxesOK' /\ IoOK'
    BY <1>1, <2>2 DEF PumpInv, GateOK, BoxesOK, IoOK, PumpResize, gate, io
  <2>7. QED
    BY <2>4, <2>5, <2>6 DEF PumpInv
<1>4. QED
  BY <1>2, <1>3

\* Accumulated wheel deltas.
LEMMA ScrollStep ==
  ASSUME PumpInv, PumpScroll
  PROVE  PumpInv'
<1> DEFINE l == Len(History(term))
<1>1. /\ l \in Nat /\ offset \in Nat /\ offset <= l /\ scroll \in Int
      /\ session.calls = 0 => scroll = 0 /\ offset = 0
  BY HistoryFacts DEF PumpInv, TermOK, ViewOK, BoxesOK
<1>2. /\ offset' = (IF scroll = 0 THEN offset ELSE Clamp(offset + scroll, 0, l))
      /\ term' = term /\ anchored' = anchored /\ scroll' = 0 /\ pc' = "jump"
      /\ UNCHANGED <<gate, pending, jump, calls, io>>
  BY DEF PumpScroll
<1> HIDE DEF l
<1>3. offset' \in Nat /\ offset' <= l /\ (session.calls = 0 => offset' = 0)
  BY <1>1, <1>2 DEF Clamp
<1>4. TermOK' /\ GateOK' /\ IoOK'
  BY <1>2 DEF PumpInv, TermOK, GateOK, IoOK, gate, io
<1>5. ViewOK'
  BY <1>2, <1>3 DEF PumpInv, ViewOK, l
<1>6. BoxesOK'
  BY <1>2, <1>3 DEF PumpInv, BoxesOK, io
<1>7. QED
  BY <1>4, <1>5, <1>6 DEF PumpInv

\* A prompt jump.
LEMMA JumpStep ==
  ASSUME PumpInv, PumpJump
  PROVE  PumpInv'
<1> DEFINE next == JumpOffset(PromptOffsets(term), offset, jump = "back")
<1>1. /\ pc' = "poll" /\ jump' = None /\ term' = term
      /\ UNCHANGED <<gate, pending, scroll, calls, io>>
  BY DEF PumpJump, view
<1>2. TermOK' /\ GateOK' /\ IoOK'
  BY <1>1 DEF PumpInv, TermOK, GateOK, IoOK, gate, io
<1>3. CASE jump = None \/ term.alt \/ next = offset
  <2>1. offset' = offset /\ anchored' = anchored
    BY <1>3 DEF PumpJump, view
  <2>2. QED
    BY <1>1, <1>2, <2>1 DEF PumpInv, ViewOK, BoxesOK, io
<1>4. CASE ~(jump = None \/ term.alt \/ next = offset)
  <2>1. offset' = next /\ anchored' = TotalPushed(term)
    BY <1>4 DEF PumpJump
  <2>2. WellFormed(term) /\ ~term.alt /\ offset \in Nat /\ (jump = "back") \in BOOLEAN /\ next # offset
    BY <1>4 DEF PumpInv, TermOK, ViewOK
  <2>3. next \in 1 .. Len(term.history)
    BY <2>2, JumpFacts
  <2>4. session.calls # 0
    BY <1>4 DEF PumpInv, BoxesOK
  <2> HIDE DEF next
  <2>5. ViewOK'
    <3>1. History(term) = term.history /\ Len(term.history) \in Nat
      BY <2>2, HistoryFacts DEF History
    <3>2. QED
      BY <1>1, <2>1, <2>3, <3>1 DEF ViewOK
  <2>6. BoxesOK'
    BY <1>1, <2>4 DEF PumpInv, BoxesOK, io
  <2>7. QED
    BY <1>2, <2>5, <2>6 DEF PumpInv
<1>5. QED
  BY <1>3, <1>4

\* A read.
LEMMA ReadStep ==
  ASSUME PumpInv, NEW chunk \in session.chunks, PumpRead(chunk)
  PROVE  PumpInv'
<1> DEFINE t == Write(term, chunk)
           u == [t EXCEPT !.events = <<>>]
<1>1. /\ WellFormed(t) /\ WellFormed(u) /\ Ordered(u) /\ Len(u.rows) = Len(term.rows)
      /\ u.events = <<>> /\ SameHistory(u, t) /\ SameRows(u, t) /\ SameLines(u, t)
  BY ReadTerminal
<1>2. /\ pc' = "resize" /\ reads' = reads + 1 /\ reads < session.reads
      /\ term' = u /\ queue' = Newest(queue \o t.events, QueueCap)
      /\ offset' = Follow(t) /\ anchored' = TotalPushed(t)
      /\ batchAge' = IF t.batches = term.batches THEN batchAge ELSE 0
      /\ Gate(t)
      /\ UNCHANGED <<boxes, taken, alive, session>>
  BY DEF PumpRead
<1> HIDE DEF u, t
<1>3. TermOK'
  BY <1>1, <1>2 DEF PumpInv, TermOK
<1>4. /\ offset \in Nat /\ anchored \in Nat
      /\ Budget \in Nat /\ 0 \in 0 .. Budget /\ age \in 0 .. Budget /\ batchAge \in 0 .. Budget
      /\ QueueCap \in Nat /\ session \in Sessions
  <2>1. offset \in Nat /\ WellFormed(term) /\ anchored = TotalPushed(term)
        /\ age \in 0 .. Budget /\ batchAge \in 0 .. Budget /\ session \in Sessions
    BY DEF PumpInv, ViewOK, TermOK, GateOK, IoOK
  <2>2. anchored \in Nat
    BY <2>1, HistoryFacts
  <2>3. Budget \in Nat /\ QueueCap \in Nat
    BY PumpAssumption
  <2>4. QED
    BY <2>1, <2>2, <2>3
<1>5. Follow(t) \in Nat /\ Follow(t) <= Len(History(t)) /\ (offset = 0 => Follow(t) = 0)
  BY <1>1, <1>4, FollowBounds
<1>6. ViewOK'
  <2>1. u.alt = t.alt
    BY <1>1 DEF SameLines
  <2>2. History(u) = History(t) /\ TotalPushed(u) = TotalPushed(t)
    BY <1>1, <2>1, SameSeen
  <2>3. QED
    BY <1>2, <1>5, <2>2 DEF ViewOK
<1>7. GateOK'
  <2>1. held' \in BOOLEAN
    BY <1>2 DEF Gate
  <2>2. age' \in 0 .. Budget
    BY <1>2, <1>4 DEF Gate
  <2>3. batchAge' \in 0 .. Budget
    BY <1>2, <1>4
  <2>4. QED
    BY <2>1, <2>2, <2>3 DEF GateOK
<1>8. BoxesOK'
  BY <1>2, <1>5 DEF PumpInv, BoxesOK, boxes
<1>9. IoOK'
  <2>1. queue \in Seq(Nat) /\ t.events \in Seq(Nat)
    BY <1>1 DEF PumpInv, IoOK, WellFormed, Terminals
  <2>2. queue \o t.events \in Seq(Nat)
    BY <2>1, ConcatProperties
  <2>3. queue' \in Seq(Nat) /\ Len(queue') <= QueueCap
    BY <1>2, <1>4, <2>2, NewestProperties
  <2>4. reads' \in 0 .. session.reads
    <3>1. reads \in 0 .. session.reads /\ session.reads \in Nat
      BY <1>4, SessionFacts DEF PumpInv, IoOK
    <3>2. QED
      BY <1>2, <3>1
  <2>5. QED
    BY <1>2, <2>3, <2>4 DEF PumpInv, IoOK
<1>10. QED
  BY <1>3, <1>6, <1>7, <1>8, <1>9 DEF PumpInv

\* A poll that finds no output, the child and the clock.
LEMMA OtherStep ==
  ASSUME PumpInv, PumpTimeout \/ PumpEof \/ PumpInterrupted \/ ChildExits \/ Clock
  PROVE  PumpInv'
<1>1. Budget \in Nat /\ 0 \in 0 .. Budget
  BY PumpAssumption
<1>2. CASE PumpTimeout
  <2>1. /\ pc' = "resize" /\ age' \in {0, age}
        /\ UNCHANGED <<term, offset, anchored, held, batchAge, boxes, io>>
    BY <1>2 DEF PumpTimeout
  <2>2. GateOK'
    BY <1>1, <2>1 DEF PumpInv, GateOK
  <2>3. TermOK' /\ ViewOK' /\ BoxesOK' /\ IoOK'
    BY <2>1 DEF PumpInv, TermOK, ViewOK, BoxesOK, IoOK, boxes, io
  <2>4. QED
    BY <2>2, <2>3 DEF PumpInv
<1>3. CASE PumpEof \/ PumpInterrupted
  <2>1. pc' \in {"resize", "done"} /\ UNCHANGED <<view, gate, boxes, io>>
    BY <1>3 DEF PumpEof, PumpInterrupted
  <2>2. QED
    BY <2>1 DEF PumpInv, TermOK, ViewOK, GateOK, BoxesOK, IoOK, view, gate, boxes, io
<1>4. CASE ChildExits
  BY <1>4 DEF PumpInv, TermOK, ViewOK, GateOK, BoxesOK, IoOK, ChildExits, view, gate, boxes
<1>5. CASE Clock
  <2>1. /\ age' = (IF held THEN Least(age + 1, Budget) ELSE age)
        /\ batchAge' = (IF term.sync THEN Least(batchAge + 1, Budget) ELSE batchAge)
        /\ UNCHANGED <<pc, view, held, boxes, io>>
    BY <1>5 DEF Clock
  <2>2. age' \in 0 .. Budget /\ batchAge' \in 0 .. Budget
    BY <1>1, <2>1 DEF PumpInv, GateOK, Least
  <2>3. TermOK' /\ ViewOK' /\ BoxesOK' /\ IoOK'
    BY <2>1 DEF PumpInv, TermOK, ViewOK, BoxesOK, IoOK, view, boxes, io
  <2>4. QED
    BY <2>1, <2>2, <2>3 DEF PumpInv, GateOK
<1>6. QED
  BY <1>2, <1>3, <1>4, <1>5

LEMMA PumpStep ==
  ASSUME PumpInv, [Next]_vars
  PROVE  PumpInv'
<1>1. CASE UNCHANGED vars
  BY <1>1 DEF vars, PumpInv, TermOK, ViewOK, GateOK, BoxesOK, IoOK
<1>2. CASE Next
  BY <1>2, OwnerStep, ResizeStep, ScrollStep, JumpStep, ReadStep, OtherStep
     DEF Next, Mailboxes, Poll
<1>3. QED
  BY <1>1, <1>2

THEOREM PumpInvariant == Spec => []PumpInv
<1>1. Init => PumpInv
  BY PumpInit
<1>2. PumpInv /\ [Next]_vars => PumpInv'
  BY PumpStep
<1>3. QED
  BY <1>1, <1>2, PTL DEF Spec

\* The pump's types: its terminal is well formed at one of the heights it may
\* have, with no event left in it, and every number is within its bound.
THEOREM PumpTypeCorrect == Spec => []TypeOK
<1>1. PumpInv => TypeOK
  <2>1. SUFFICES ASSUME PumpInv PROVE TypeOK
    OBVIOUS
  <2>2. /\ term.history \in Seq(Nat) /\ Len(term.history) <= MaxScrollback
        /\ Len(term.rows) \in Heights /\ term.events = <<>> /\ term.y \in DOMAIN term.rows
    BY <2>1 DEF PumpInv, TermOK, WellFormed, Terminals
  <2>3. anchored \in Nat
    BY <2>1, HistoryFacts DEF PumpInv, TermOK, ViewOK
  <2>4. pending \in Heights \union {0}
    BY <2>1, SessionFacts DEF PumpInv, BoxesOK, IoOK
  <2>5. QED
    BY <2>1, <2>2, <2>3, <2>4 DEF PumpInv, ViewOK, GateOK, BoxesOK, IoOK, TypeOK
<1>2. QED
  BY <1>1, PumpInvariant, PTL

-----------------------------------------------------------------------------
(* The newest frame.                                                       *)

LEMMA CurrentStep ==
  ASSUME PumpInv, Current, [Next]_vars
  PROVE  Current'
<1>1. ASSUME UNCHANGED <<term, offset, shown, reads>>
      PROVE  Current'
  BY <1>1 DEF Current
<1>2. CASE UNCHANGED vars
  BY <1>1, <1>2 DEF vars
<1>3. CASE Owner
  BY <1>1, <1>3 DEF Owner, AskResize, AskScroll, AskJump, TakeEvents, view, io
<1>4. CASE PumpResize
  <2>1. CASE pending = 0
    BY <1>1, <1>4, <2>1 DEF PumpResize, view, io
  <2>2. CASE pending # 0
    BY <1>4, <2>2 DEF PumpResize, Publish, Current, io
  <2>3. QED
    BY <2>1, <2>2
<1>5. CASE PumpScroll
  <2>1. /\ UNCHANGED <<term, reads>>
        /\ IF offset' # offset THEN Publish(term, offset', reads) ELSE UNCHANGED shown
    BY <1>5 DEF PumpScroll, io
  <2>2. QED
    BY <1>1, <2>1 DEF Publish, Current
<1>6. CASE PumpJump
  <2> DEFINE next == JumpOffset(PromptOffsets(term), offset, jump = "back")
  <2>1. CASE jump = None \/ term.alt \/ next = offset
    BY <1>1, <1>6, <2>1 DEF PumpJump, view, io
  <2>2. CASE ~(jump = None \/ term.alt \/ next = offset)
    <3>1. offset' = next /\ shown' = FrameOf(term, next, reads) /\ UNCHANGED <<term, reads>>
      BY <1>6, <2>2 DEF PumpJump, Publish, io
    <3>2. QED
      BY <3>1 DEF Current
  <2>3. QED
    BY <2>1, <2>2
<1>7. CASE PumpTimeout
  <2>1. UNCHANGED <<term, offset, reads>>
    BY <1>7 DEF PumpTimeout, io
  <2>2. shown' \in {shown, FrameOf(term, offset, reads)}
    BY <1>7 DEF PumpTimeout, Publish
  <2>3. QED
    BY <2>1, <2>2 DEF Current
<1>8. ASSUME NEW chunk \in session.chunks, PumpRead(chunk)
      PROVE  Current'
  <2> DEFINE t == Write(term, chunk)
             u == [t EXCEPT !.events = <<>>]
  <2>1. SameHistory(u, t) /\ SameRows(u, t) /\ SameLines(u, t) /\ SameBatch(u, t)
    BY ReadTerminal
  <2>2. term' = u /\ offset' = Follow(t) /\ reads' = reads + 1 /\ Gate(t)
    BY <1>8 DEF PumpRead
  <2> HIDE DEF u, t
  <2>3. u.sync = t.sync /\ \A off, n : FrameOf(u, off, n) = FrameOf(t, off, n)
    BY <2>1, SameSeen DEF SameLines, SameBatch
  <2>4. ~t.sync => shown' = FrameOf(t, Follow(t), reads + 1)
    BY <2>2 DEF Gate, Publish
  <2>5. QED
    BY <2>2, <2>3, <2>4 DEF Current
<1>9. CASE PumpEof \/ PumpInterrupted \/ ChildExits \/ Clock
  BY <1>1, <1>9 DEF PumpEof, PumpInterrupted, ChildExits, Clock, view, io
<1>10. QED
  BY <1>2, <1>3, <1>4, <1>5, <1>6, <1>7, <1>8, <1>9 DEF Next, Mailboxes, Poll

\* The view never points above the history, and whenever the pump waits with no
\* batch open the newest frame is the terminal at the pump's offset.
THEOREM FramesCurrent == Spec => []FrameIsCurrent
<1>1. Init => Current
  BY DEF Init, Current
<1>2. PumpInv /\ Current /\ [Next]_vars => Current'
  BY CurrentStep
<1>3. PumpInv /\ Current => FrameIsCurrent
  BY DEF PumpInv, ViewOK, Current, FrameIsCurrent
<1>4. QED
  BY <1>1, <1>2, <1>3, PumpInvariant, PTL DEF Spec

-----------------------------------------------------------------------------
(* The events.                                                             *)

\* The newest of a sequence has its last.
LEMMA NewestLast ==
  ASSUME NEW s \in Seq(Nat), NEW n \in Nat \ {0}, Len(s) > 0
  PROVE  LET e == Newest(s, n)
         IN  Len(e) > 0 /\ e[Len(e)] = s[Len(s)]
<1> DEFINE e  == Newest(s, n)
           le == Len(e)
           ls == Len(s)
<1>1. /\ e \in Seq(Nat) /\ le = IF ls > n THEN n ELSE ls
      /\ \A i \in 1 .. le : e[i] = s[i + (ls - le)]
  BY NewestProperties
<1>2. ls \in Nat /\ ls > 0
  OBVIOUS
<1> HIDE DEF e, le, ls
<1>3. le \in Nat /\ le > 0 /\ le \in 1 .. le /\ le + (ls - le) = ls
  BY <1>1, <1>2
<1>4. e[le] = s[ls]
  BY <1>1, <1>3
<1>5. QED
  BY <1>3, <1>4 DEF e, le, ls

\* A queue that followed what was taken still does when newer events join it and
\* its oldest leave.
LEMMA QueueRises ==
  ASSUME NEW a \in Seq(Nat), NEW q \in Seq(Nat), NEW e \in Seq(Nat), NEW m \in Nat, NEW k \in Nat,
         Rising(a \o q), \A i \in 1 .. Len(a \o q) : (a \o q)[i] <= m,
         Rising(e), \A i \in 1 .. Len(e) : m < e[i] /\ e[i] <= k,
         m <= k, NEW n \in Nat
  PROVE  /\ Rising(a \o Newest(q \o e, n))
         /\ \A i \in 1 .. Len(a \o Newest(q \o e, n)) : (a \o Newest(q \o e, n))[i] <= k
<1> DEFINE b  == q \o e
           w  == Newest(b, n)
           s  == a \o w
           la == Len(a)
           lq == Len(q)
           le == Len(e)
           lb == Len(b)
           lw == Len(w)
           d  == lb - lw
           old == a \o q
<1>1. la \in Nat /\ lq \in Nat /\ le \in Nat
  OBVIOUS
<1>2. /\ Len(old) = la + lq
      /\ \A i \in 1 .. la + lq : old[i] = IF i <= la THEN a[i] ELSE q[i - la]
  BY ConcatProperties
<1>3. /\ b \in Seq(Nat) /\ lb = lq + le
      /\ \A i \in 1 .. lq + le : b[i] = IF i <= lq THEN q[i] ELSE e[i - lq]
  BY ConcatProperties
<1> HIDE DEF old, b
<1>4. /\ w \in Seq(Nat) /\ lw <= lb /\ \A i \in 1 .. lw : w[i] = b[i + d]
  <2>1. b \in Seq(Nat) /\ n \in Nat
    BY <1>3
  <2>2. QED
    BY <2>1, NewestProperties
<1>5. lw \in Nat /\ lb \in Nat
  BY <1>3, <1>4
<1> HIDE DEF w
<1>6. /\ Len(s) = la + lw
      /\ \A i \in 1 .. la + lw : s[i] = IF i <= la THEN a[i] ELSE w[i - la]
  BY <1>4, ConcatProperties
<1> HIDE DEF s
<1>7. /\ \A i, j \in 1 .. la + lq : i < j => old[i] < old[j]
      /\ \A i \in 1 .. la + lq : old[i] <= m /\ old[i] \in Nat
      /\ \A i, j \in 1 .. le : i < j => e[i] < e[j]
      /\ \A i \in 1 .. le : m < e[i] /\ e[i] <= k /\ e[i] \in Nat
  <2>1. old \in Seq(Nat)
    BY ConcatProperties DEF old
  <2>2. \A i \in 1 .. la + lq : old[i] \in Nat
    BY <1>2, <2>1, ElementOfSeq
  <2>3. \A i \in 1 .. le : e[i] \in Nat
    BY ElementOfSeq
  <2>4. QED
    BY <1>2, <2>2, <2>3 DEF Rising, old
<1> HIDE DEF la, lq, le, lb, lw
<1>8. d \in Nat /\ d + lw = lq + le
  BY <1>1, <1>3, <1>4, <1>5
<1> HIDE DEF d
\* Where an element of the new sequence comes from: the old one or the events.
<1> DEFINE from(i) == IF i <= la THEN i ELSE i + d
<1>9. ASSUME NEW i \in 1 .. la + lw
      PROVE  /\ from(i) \in 1 .. la + lq + le
             /\ from(i) <= la + lq => s[i] = old[from(i)]
             /\ from(i) > la + lq => from(i) - (la + lq) \in 1 .. le
                                     /\ s[i] = e[from(i) - (la + lq)]
  <2>1. CASE i <= la
    <3>1. i \in 1 .. la + lq /\ i \in 1 .. la + lq + le /\ from(i) = i /\ ~(i > la + lq)
      BY <1>1, <1>5, <2>1
    <3>2. s[i] = a[i] /\ old[i] = a[i]
      BY <1>2, <1>6, <2>1, <3>1
    <3>3. QED
      BY <3>1, <3>2
  <2>2. CASE i > la
    <3> DEFINE j == i - la + d
    <3>1. /\ i - la \in 1 .. lw /\ i - la + d \in 1 .. lq + le /\ from(i) = la + j
          /\ from(i) \in 1 .. la + lq + le /\ ~(i <= la)
      BY <1>1, <1>5, <1>8, <2>2
    <3>2. s[i] = b[j]
      BY <1>4, <1>6, <3>1
    <3>3. b[j] = IF j <= lq THEN q[j] ELSE e[j - lq]
      BY <1>3, <3>1
    <3> DEFINE f == from(i)
    <3>4. j \in 1 .. lq + le /\ j \in Nat /\ f = la + j /\ f \in 1 .. la + lq + le
      BY <3>1
    <3> HIDE DEF j, f
    <3>5. CASE j <= lq
      <4>1. f \in 1 .. la + lq /\ ~(f <= la) /\ f - la = j /\ ~(f > la + lq)
        BY <1>1, <3>4, <3>5
      <4>2. old[f] = q[f - la]
        BY <1>2, <4>1
      <4>3. s[i] = q[j]
        BY <3>2, <3>3, <3>5
      <4>4. QED
        BY <3>4, <4>1, <4>2, <4>3 DEF f
    <3>6. CASE ~(j <= lq)
      <4>1. ~(f <= la + lq) /\ f - (la + lq) = j - lq /\ j - lq \in 1 .. le
        BY <1>1, <3>4, <3>6
      <4>2. s[i] = e[j - lq]
        BY <3>2, <3>3, <3>6
      <4>3. s[i] = e[f - (la + lq)] /\ f - (la + lq) \in 1 .. le
        BY <4>1, <4>2
      <4>4. QED
        BY <3>4, <4>1, <4>3 DEF f
    <3>7. QED
      BY <3>5, <3>6
  <2>3. QED
    BY <1>1, <1>5, <2>1, <2>2
<1>10. ASSUME NEW i \in 1 .. la + lw, NEW j \in 1 .. la + lw, i < j
       PROVE  from(i) < from(j)
  BY <1>1, <1>5, <1>8, <1>10
<1> HIDE DEF from
<1> DEFINE all == la + lq
<1>11. ASSUME NEW i \in 1 .. la + lw PROVE s[i] <= k
  <2>1. CASE from(i) <= la + lq
    <3>1. from(i) \in 1 .. la + lq
      BY <1>1, <1>9, <2>1
    <3>2. s[i] = old[from(i)] /\ old[from(i)] <= m /\ old[from(i)] \in Nat
      BY <1>7, <1>9, <2>1, <3>1
    <3>3. QED
      BY <3>2
  <2>2. CASE ~(from(i) <= la + lq)
    <3>1. from(i) > la + lq
      BY <1>1, <1>9, <2>2
    <3>2. QED
      BY <1>7, <1>9, <3>1
  <2>3. QED
    BY <2>1, <2>2
<1>12. ASSUME NEW i \in 1 .. la + lw, NEW j \in 1 .. la + lw, i < j
       PROVE  s[i] < s[j]
  <2>1. from(i) < from(j) /\ from(i) \in Nat /\ from(j) \in Nat
    BY <1>1, <1>9, <1>10, <1>12
  <2>2. CASE from(j) <= la + lq
    <3>1. from(i) \in 1 .. la + lq /\ from(j) \in 1 .. la + lq /\ from(i) <= la + lq
      BY <1>1, <1>9, <2>1, <2>2
    <3>2. QED
      BY <1>7, <1>9, <2>1, <2>2, <3>1
  <2>3. CASE from(i) <= la + lq /\ ~(from(j) <= la + lq)
    <3>1. from(i) \in 1 .. la + lq /\ from(j) > la + lq
      BY <1>1, <1>9, <2>1, <2>3
    <3>2. s[i] <= m /\ s[i] \in Nat
      BY <1>7, <1>9, <2>3, <3>1
    <3>3. m < s[j] /\ s[j] \in Nat
      BY <1>7, <1>9, <3>1
    <3>4. QED
      BY <3>2, <3>3
  <2>4. CASE ~(from(i) <= la + lq)
    <3>1. from(i) > la + lq /\ from(j) > la + lq
      BY <1>1, <2>1, <2>4
    <3>2. from(i) - (la + lq) < from(j) - (la + lq)
      BY <1>1, <2>1
    <3>3. QED
      BY <1>7, <1>9, <3>1, <3>2
  <2>5. QED
    BY <2>2, <2>3, <2>4
<1>13. QED
  BY <1>6, <1>11, <1>12 DEF Rising, s, w, b

LEMMA ConcatLast ==
  ASSUME NEW a \in Seq(Nat), NEW b \in Seq(Nat), Len(b) > 0
  PROVE  Len(a \o b) > 0 /\ (a \o b)[Len(a \o b)] = b[Len(b)]
<1> DEFINE la == Len(a)
           lb == Len(b)
           s  == a \o b
<1>1. la \in Nat /\ lb \in Nat /\ lb > 0
  OBVIOUS
<1>2. /\ Len(s) = la + lb
      /\ \A i \in 1 .. la + lb : s[i] = IF i <= la THEN a[i] ELSE b[i - la]
  BY ConcatProperties
<1> HIDE DEF la, lb, s
<1> DEFINE n == la + lb
<1>3. n \in 1 .. la + lb /\ ~(n <= la) /\ n - la = lb /\ n > 0 /\ n = Len(s)
  BY <1>1, <1>2
<1> HIDE DEF n
<1>4. s[n] = b[n - la]
  BY <1>2, <1>3
<1>5. Len(s) > 0 /\ s[Len(s)] = b[lb]
  BY <1>3, <1>4
<1>6. QED
  BY <1>5 DEF s, lb

\* A read hands its events to the queue.
LEMMA ReadDelivers ==
  ASSUME PumpInv, Delivered, NEW chunk \in session.chunks, PumpRead(chunk)
  PROVE  Delivered'
<1> DEFINE t   == Write(term, chunk)
           e   == t.events
           all == taken \o queue
           b   == queue \o e
           w   == Newest(b, QueueCap)
<1>1. /\ WellFormed(term) /\ term.events = <<>> /\ chunk \in Seq(Outputs) /\ WellFormed(t)
      /\ [t EXCEPT !.events = <<>>].emitted = t.emitted
      /\ [t EXCEPT !.events = <<>>].wiped = t.wiped
  BY ReadTerminal DEF PumpInv, TermOK
<1>2. /\ Rising(all) /\ \A i \in 1 .. Len(all) : all[i] <= term.emitted
      /\ term.wiped <= term.emitted
      /\ term.emitted > term.wiped => Len(all) > 0 /\ all[Len(all)] = term.emitted
  BY DEF Delivered
<1>3. NewEvents(term, t)
  BY <1>1, <1>2, WriteNewEvents
<1>4. taken' = taken /\ queue' = w /\ term'.emitted = t.emitted /\ term'.wiped = t.wiped
  BY <1>1 DEF PumpRead
<1> HIDE DEF t
<1>5. /\ e \in Seq(Nat) /\ t.emitted \in Nat /\ t.wiped \in Nat
      /\ term.emitted \in Nat /\ term.wiped \in Nat
  BY <1>1 DEF WellFormed, Terminals
<1>6. /\ taken \in Seq(Nat) /\ queue \in Seq(Nat) /\ Len(queue) <= QueueCap
      /\ QueueCap \in Nat \ {0}
  BY PumpAssumption DEF PumpInv, IoOK
<1>7. /\ t.emitted >= term.emitted /\ t.wiped <= t.emitted
      /\ \A i \in 1 .. Len(e) : term.emitted < e[i] /\ e[i] <= t.emitted
      /\ Rising(e)
      /\ t.emitted > term.emitted /\ t.emitted > t.wiped => Len(e) > 0 /\ e[Len(e)] = t.emitted
      /\ t.emitted = term.emitted => t.wiped = term.wiped
  BY <1>3 DEF NewEvents
<1> HIDE DEF e, all
<1>8. b \in Seq(Nat)
  BY <1>5, <1>6, ConcatProperties
<1>9. w \in Seq(Nat)
  <2> HIDE DEF b
  <2>1. b \in Seq(Nat) /\ QueueCap \in Nat
    BY <1>6, <1>8
  <2>2. QED
    BY <2>1, NewestProperties
<1>10. /\ Rising(taken \o w)
       /\ \A i \in 1 .. Len(taken \o w) : (taken \o w)[i] <= t.emitted
  <2> DEFINE m == term.emitted
             k == t.emitted
  <2>1. /\ m \in Nat /\ k \in Nat /\ m <= k /\ QueueCap \in Nat
        /\ \A i \in 1 .. Len(e) : m < e[i] /\ e[i] <= k
        /\ Rising(taken \o queue) /\ \A i \in 1 .. Len(taken \o queue) : (taken \o queue)[i] <= m
    BY <1>2, <1>5, <1>6, <1>7 DEF all
  <2> HIDE DEF m, k
  <2>2. /\ Rising(taken \o Newest(queue \o e, QueueCap))
        /\ \A i \in 1 .. Len(taken \o Newest(queue \o e, QueueCap)) :
             (taken \o Newest(queue \o e, QueueCap))[i] <= k
    BY <1>5, <1>6, <1>7, <2>1, QueueRises
  <2>3. QED
    BY <2>2 DEF k
<1>11. ASSUME t.emitted > t.wiped
       PROVE  Len(taken \o w) > 0 /\ (taken \o w)[Len(taken \o w)] = t.emitted
  <2>1. CASE t.emitted > term.emitted
    <3>1. Len(e) > 0 /\ e[Len(e)] = t.emitted
      BY <1>7, <1>11, <2>1
    <3>2. Len(b) > 0 /\ b[Len(b)] = t.emitted
      BY <1>5, <1>6, <3>1, ConcatLast
    <3> HIDE DEF b
    <3>3. Len(w) > 0 /\ w[Len(w)] = t.emitted
      BY <1>6, <1>8, <3>2, NewestLast
    <3> HIDE DEF w
    <3>4. QED
      BY <1>6, <1>9, <3>3, ConcatLast
  <2>2. CASE t.emitted = term.emitted
    <3>1. e = <<>>
      <4>1. ASSUME Len(e) > 0 PROVE FALSE
        <5>1. 1 \in 1 .. Len(e) /\ e[1] \in Nat
          BY <1>5, <4>1
        <5>2. term.emitted < e[1] /\ e[1] <= t.emitted
          BY <1>7, <5>1
        <5>3. QED
          BY <1>5, <2>2, <5>1, <5>2
      <4>2. Len(e) = 0
        BY <1>5, <4>1
      <4>3. QED
        BY <1>5, <4>2, EmptySeq
    <3>2. b = queue
      BY <1>6, <3>1, ConcatEmptySeq
    <3>3. w = queue
      BY <1>6, <3>2 DEF Newest
    <3>4. term.emitted > term.wiped
      BY <1>7, <1>11, <2>2
    <3>5. QED
      BY <1>2, <2>2, <3>3, <3>4 DEF all
  <2>3. QED
    BY <1>5, <1>7, <2>1, <2>2
<1>12. QED
  BY <1>4, <1>7, <1>10, <1>11 DEF Delivered

LEMMA DeliveredStep ==
  ASSUME PumpInv, Delivered, [Next]_vars
  PROVE  Delivered'
<1>1. ASSUME UNCHANGED <<taken, queue>>, SameEvents(term', term)
      PROVE  Delivered'
  BY <1>1 DEF Delivered, SameEvents
<1>2. ASSUME UNCHANGED <<taken, queue, term>>
      PROVE  Delivered'
  BY <1>2 DEF Delivered
<1>3. CASE UNCHANGED vars
  BY <1>2, <1>3 DEF vars
<1>4. CASE TakeEvents
  <2>1. queue \in Seq(Nat) /\ taken \in Seq(Nat)
    BY DEF PumpInv, IoOK
  <2>2. taken' = taken \o queue /\ queue' = <<>> /\ term' = term
    BY <1>4 DEF TakeEvents, view
  <2>3. taken' \o queue' = taken \o queue
    <3>1. taken \o queue \in Seq(Nat)
      BY <2>1, ConcatProperties
    <3>2. QED
      BY <2>2, <3>1, ConcatEmptySeq
  <2>4. QED
    BY <2>2, <2>3 DEF Delivered
<1>5. CASE Owner /\ ~TakeEvents
  BY <1>2, <1>5 DEF Owner, AskResize, AskScroll, AskJump, view, io
<1>6. CASE PumpResize
  <2>1. CASE pending = 0
    BY <1>2, <1>6, <2>1 DEF PumpResize, view, io
  <2>2. CASE pending # 0
    <3>1. pending \in Nat \ {0} /\ WellFormed(term)
      BY <2>2, SessionFacts DEF PumpInv, BoxesOK, IoOK, TermOK
    <3>2. SameEvents(ResizeTo(term, pending), term)
      BY <3>1, ResizeProperties
    <3>3. term' = ResizeTo(term, pending) /\ UNCHANGED <<taken, queue>>
      BY <1>6, <2>2 DEF PumpResize, io
    <3>4. QED
      BY <1>1, <3>2, <3>3
  <2>3. QED
    BY <2>1, <2>2
<1>7. CASE PumpScroll \/ PumpTimeout
  BY <1>2, <1>7 DEF PumpScroll, PumpTimeout, io
<1>8. CASE PumpJump
  BY <1>2, <1>8 DEF PumpJump, view, io
<1>9. ASSUME NEW chunk \in session.chunks, PumpRead(chunk)
      PROVE  Delivered'
  BY <1>9, ReadDelivers
<1>10. CASE PumpEof \/ PumpInterrupted \/ ChildExits \/ Clock
  BY <1>2, <1>10 DEF PumpEof, PumpInterrupted, ChildExits, Clock, view, io
<1>11. QED
  BY <1>3, <1>4, <1>5, <1>6, <1>7, <1>8, <1>9, <1>10 DEF Next, Mailboxes, Poll

\* Events reach the owner in the order they were made, none twice, and the newest
\* is among them unless a full reset threw it away, whatever the two queues hold.
THEOREM EventsDelivered == Spec => []EventsInOrder
<1>1. Init => Delivered
  <2>1. <<>> \o <<>> = <<>> /\ Len(<<>>) = 0
    OBVIOUS
  <2>2. ASSUME Init PROVE taken = <<>> /\ queue = <<>> /\ term.emitted = 0 /\ term.wiped = 0
    BY <2>2 DEF Init, NewTerminal
  <2>3. QED
    BY <2>1, <2>2 DEF Delivered, Rising
<1>2. PumpInv /\ Delivered /\ [Next]_vars => Delivered'
  BY DeliveredStep
<1>3. PumpInv /\ Delivered => EventsInOrder
  <2> DEFINE all == taken \o queue
  <2>1. SUFFICES ASSUME PumpInv, Delivered PROVE EventsInOrder
    OBVIOUS
  <2>2. all \in Seq(Nat)
    BY <2>1, ConcatProperties DEF PumpInv, IoOK
  <2>3. /\ \A i, j \in 1 .. Len(all) : i < j => all[i] < all[j]
        /\ term.emitted > term.wiped => Len(all) > 0 /\ all[Len(all)] = term.emitted
    BY <2>1 DEF Delivered, Rising
  <2>4. EventsInOrder <=> /\ \A i, j \in DOMAIN all : i < j => all[i] < all[j]
                          /\ term.emitted > term.wiped => all # <<>> /\ Last(all) = term.emitted
    BY DEF EventsInOrder
  <2> HIDE DEF all
  <2>5. DOMAIN all = 1 .. Len(all) /\ (Len(all) > 0 => all # <<>>)
    BY <2>2
  <2>6. QED
    BY <2>3, <2>4, <2>5 DEF Last
<1>4. QED
  BY <1>1, <1>2, <1>3, PumpInvariant, PTL DEF Spec

-----------------------------------------------------------------------------
(* The view.                                                               *)

\* Only the jump itself moves the view while the pump is at the jump's mailbox.
LEMMA JumpLanding ==
  ASSUME PumpInv, [Next]_vars, pc = "jump", offset' # offset
  PROVE  /\ TopRow(term', offset') \in PromptRows
         /\ jump = "back" <=> offset' > offset
<1>1. ~UNCHANGED offset
  OBVIOUS
<1>2. PumpJump
  BY <1>1 DEF vars, Next, Owner, AskResize, AskScroll, AskJump, TakeEvents, Mailboxes, Poll,
              PumpResize, PumpScroll, PumpTimeout, PumpRead, PumpEof, PumpInterrupted,
              ChildExits, Clock, view
<1> DEFINE next == JumpOffset(PromptOffsets(term), offset, jump = "back")
<1>3. /\ offset' = next /\ term' = term /\ next # offset /\ ~term.alt
  BY <1>1, <1>2 DEF PumpJump, view
<1>4. WellFormed(term) /\ offset \in Nat /\ (jump = "back") \in BOOLEAN
  BY DEF PumpInv, TermOK, ViewOK
<1>5. /\ jump = "back" <=> next > offset
      /\ TopRow(term, next) \in PromptRows
  BY <1>3, <1>4, JumpFacts
<1>6. QED
  BY <1>3, <1>5

\* A prompt jump puts a row that begins a prompt at the top of the view or leaves
\* the view alone, and moves the way it was asked to.
THEOREM JumpsLand == Spec => JumpLandsOnPrompt
<1>1. PumpInv /\ [Next]_vars
        => [ pc = "jump" /\ offset' # offset
               => /\ TopRow(term', offset') \in PromptRows
                  /\ jump = "back" <=> offset' > offset ]_vars
  BY JumpLanding
<1>2. QED
  BY <1>1, PumpInvariant, PTL DEF Spec, JumpLandsOnPrompt

\* A row the view hangs from is where the counter says after a read that keeps
\* the columns, so following by the counter keeps it on top.
LEMMA FollowKeepsRow ==
  ASSUME NEW t, WellFormed(t), Ordered(t), ~t.alt, NEW chunk \in Seq(Outputs),
         \A i \in 1 .. Len(chunk) : chunk[i] # "deccolm",
         offset \in 1 .. Len(t.history), anchored = t.pushed,
         ~Write(t, chunk).alt,
         NEW i \in 1 .. Len(Write(t, chunk).history),
         Write(t, chunk).history[i] = t.history[Len(t.history) - offset + 1]
  PROVE  LET u == Write(t, chunk)
         IN  /\ Follow(u) \in 1 .. Len(u.history)
             /\ TopRow(u, Follow(u)) = TopRow(t, offset)
<1> DEFINE u  == Write(t, chunk)
           l  == Len(t.history)
           lu == Len(u.history)
           p  == t.pushed
           pu == u.pushed
           j  == l - offset + 1
           x  == t.history[j]
           n  == p - (l - j)
           off == offset
<1>1. WellFormed(u)
  BY WriteWellFormed
<1>2. l \in Nat /\ p \in Nat /\ offset \in 1 .. l
  <2>1. t.history \in Seq(Nat) /\ p \in Nat
    BY DEF WellFormed, Terminals
  <2>2. QED
    BY <2>1
<1>3. j \in 1 .. l /\ n = p - off + 1 /\ n \in Int
  <2> HIDE DEF l, p
  <2>1. QED
    BY <1>2
<1>4. x \in Nat /\ Placed(t, x, n, p)
  <2>1. j \in 1 .. Len(t.history)
    BY <1>3
  <2> HIDE DEF j
  <2>2. QED
    BY <2>1, RowPlaced
<1> HIDE DEF x, n, p
<1>5. Placed(u, x, n, p)
  BY <1>2, <1>3, <1>4, WritePlaced
<1>6. u.history[i] = x /\ i \in 1 .. lu
  BY DEF x
<1>7. TopRow(t, offset) = x
  BY TopOfView DEF x
<1> HIDE DEF u
<1>8. pu >= p /\ pu - (lu - i) = n
  BY <1>5, <1>6 DEF Placed
<1>9. pu \in Nat /\ lu \in Nat
  <2>1. u.history \in Seq(Nat) /\ pu \in Nat
    BY <1>1 DEF WellFormed, Terminals
  <2>2. QED
    BY <2>1
<1>10. ~u.alt /\ anchored = p
  BY DEF u, p
<1>11. Follow(u) = IF off = 0 THEN 0 ELSE Least(off + Clamp(pu - p, 0, pu), lu)
  BY <1>10 DEF Follow, TotalPushed, History
<1>12. off \in 1 .. l
  BY <1>2
<1> HIDE DEF l, lu, pu, j, off
<1>13. Clamp(pu - p, 0, pu) = pu - p
  BY <1>2, <1>8, <1>9 DEF Clamp
<1>14. off + (pu - p) = lu - i + 1 /\ lu - i + 1 \in 1 .. lu /\ off # 0
  BY <1>2, <1>3, <1>6, <1>8, <1>9, <1>12
<1>15. Follow(u) = lu - i + 1
  BY <1>9, <1>11, <1>13, <1>14 DEF Least
<1>16. Follow(u) \in 1 .. lu /\ lu - Follow(u) + 1 = i
  BY <1>6, <1>9, <1>14, <1>15
<1> DEFINE f == Follow(u)
<1>17. f \in 1 .. Len(u.history) /\ Len(u.history) - f + 1 = i
  BY <1>16 DEF lu
<1> HIDE DEF f
<1>18. TopRow(u, f) = u.history[Len(u.history) - f + 1]
  BY <1>1, <1>10, <1>17, TopOfView
<1>19. TopRow(u, f) = x
  BY <1>6, <1>17, <1>18
<1>20. QED
  BY <1>7, <1>17, <1>19 DEF f, u

LEMMA ReadPinned ==
  ASSUME ColumnsKept, PumpInv, [Next]_vars,
         reads' # reads, offset > 0, TopRow(term, offset) \in Range(History(term'))
  PROVE  offset' > 0 /\ TopRow(term', offset') = TopRow(term, offset)
<1>1. PICK chunk \in session.chunks : PumpRead(chunk)
  BY DEF vars, Next, Owner, AskResize, AskScroll, AskJump, TakeEvents, Mailboxes, Poll,
         PumpResize, PumpScroll, PumpJump, PumpTimeout, PumpEof, PumpInterrupted,
         ChildExits, Clock, io
<1> DEFINE t == Write(term, chunk)
           u == [t EXCEPT !.events = <<>>]
           l == Len(term.history)
<1>2. /\ chunk \in Seq(Outputs) /\ WellFormed(t) /\ WellFormed(u)
      /\ SameHistory(u, t) /\ SameRows(u, t) /\ SameLines(u, t)
  BY ReadTerminal
<1>3. term' = u /\ offset' = Follow(t)
  BY <1>1 DEF PumpRead
<1> HIDE DEF u
<1>4. /\ WellFormed(term) /\ Ordered(term) /\ offset \in Nat /\ offset <= Len(History(term))
      /\ anchored = TotalPushed(term) /\ session \in Sessions
      /\ session.calls \in Nat /\ session.calls # 0
  BY SessionFacts DEF PumpInv, TermOK, ViewOK, BoxesOK, IoOK
<1>5. ~term.alt /\ offset \in 1 .. l /\ anchored = term.pushed
  <2>1. ~term.alt
    BY <1>4, HistoryFacts
  <2>2. QED
    BY <1>4, <2>1 DEF History, TotalPushed
<1>6. \A i \in 1 .. Len(chunk) : chunk[i] # "deccolm"
  <2>1. "deccolm" \notin Range(chunk)
    BY <1>4 DEF ColumnsKept
  <2>2. DOMAIN chunk = 1 .. Len(chunk)
    BY <1>2
  <2>3. QED
    BY <2>1, <2>2 DEF Range
<1>7. TopRow(term, offset) = term.history[l - offset + 1]
  BY <1>4, <1>5, TopOfView
<1>8. u.alt = t.alt /\ History(u) = History(t) /\ \A off : View(u, off) = View(t, off)
  BY <1>2, SameSeen DEF SameLines
<1>9. PICK i \in DOMAIN History(t) : History(t)[i] = TopRow(term, offset)
  <2>1. TopRow(term, offset) \in Range(History(t))
    BY <1>3, <1>8
  <2>2. QED
    BY <2>1 DEF Range
<1> HIDE DEF t
<1>10. ~t.alt /\ i \in 1 .. Len(t.history) /\ t.history[i] = term.history[l - offset + 1]
  <2>1. DOMAIN <<>> = {}
    OBVIOUS
  <2>2. ~t.alt
    BY <1>9, <2>1 DEF History
  <2>3. t.history \in Seq(Nat) /\ History(t) = t.history
    BY <1>2, <2>2 DEF WellFormed, Terminals, History
  <2>4. QED
    BY <1>7, <1>9, <2>2, <2>3
<1>11. /\ Follow(t) \in 1 .. Len(t.history)
       /\ TopRow(t, Follow(t)) = TopRow(term, offset)
  BY <1>2, <1>4, <1>5, <1>6, <1>10, FollowKeepsRow DEF t
<1>12. TopRow(u, Follow(t)) = TopRow(t, Follow(t))
  BY <1>8 DEF TopRow
<1>13. QED
  BY <1>3, <1>11, <1>12

\* A scrolled view stays on its content while the child prints, however rows
\* leave the screen and the scrollback, as long as no read changes the columns.
THEOREM ViewsPinned == ColumnsKept => (Spec => ViewPinned)
<1>1. SUFFICES ASSUME ColumnsKept PROVE Spec => ViewPinned
  OBVIOUS
<1>2. PumpInv /\ [Next]_vars
        => [ reads' # reads /\ offset > 0 /\ TopRow(term, offset) \in Range(History(term'))
               => offset' > 0 /\ TopRow(term', offset') = TopRow(term, offset) ]_vars
  BY <1>1, ReadPinned
<1>3. QED
  BY <1>2, PumpInvariant, PTL DEF Spec, ViewPinned

\* The view moves only where somebody asked.
THEOREM ViewsFollow == ColumnsKept => (Spec => ViewFollows)
  BY ViewsPinned, JumpsLand, PTL DEF ViewFollows

-----------------------------------------------------------------------------
(* The synchronized-output gate.                                           *)

LEMMA ReadBatches ==
  ASSUME BatchesApart, PumpInv, Clocks, NEW chunk \in session.chunks
  PROVE  LET t == Write(term, chunk)
         IN  /\ term.sync => t.batches = term.batches
             /\ (\A c \in session.chunks : "bsu" \notin Range(c)) => ~t.sync
<1>1. WellFormed(term) /\ chunk \in Seq(Outputs) /\ session \in Sessions
  BY ReadTerminal DEF PumpInv, TermOK, IoOK
<1>2. DOMAIN chunk = 1 .. Len(chunk)
  BY <1>1
<1>3. ASSUME term.sync
      PROVE  Write(term, chunk).batches = term.batches
  <2>1. \A i, j \in 1 .. Len(chunk) : i < j /\ chunk[j] = "bsu" => chunk[i] \notin Closes
    BY <1>1, <1>2 DEF BatchesApart, Steady
  <2>2. QED
    BY <1>1, <1>3, <2>1, WriteBatch
<1>4. ASSUME \A c \in session.chunks : "bsu" \notin Range(c)
      PROVE  ~Write(term, chunk).sync
  <2>1. \A i \in 1 .. Len(chunk) : chunk[i] # "bsu"
    BY <1>2, <1>4 DEF Range
  <2>2. ~term.sync
    BY <1>4 DEF Clocks
  <2>3. QED
    BY <1>1, <2>1, <2>2, WriteNoBatch
<1>5. QED
  BY <1>3, <1>4

LEMMA ClocksStep ==
  ASSUME BatchesApart, PumpInv, Clocks, [Next]_vars
  PROVE  Clocks'
<1>1. ASSUME UNCHANGED <<term, held, age, batchAge, session>>
      PROVE  Clocks'
  BY <1>1 DEF Clocks
<1>2. Budget \in Nat /\ age \in Nat /\ batchAge \in Nat /\ age <= batchAge /\ held = term.sync
  BY PumpAssumption DEF PumpInv, GateOK, Clocks
<1>3. CASE UNCHANGED vars
  BY <1>1, <1>3 DEF vars
<1>4. CASE Owner
  BY <1>1, <1>4 DEF Owner, AskResize, AskScroll, AskJump, TakeEvents, view, gate, io
<1>5. CASE PumpResize
  <2>1. CASE pending = 0
    BY <1>1, <1>5, <2>1 DEF PumpResize, view, gate, io
  <2>2. CASE pending # 0
    <3>1. pending \in Nat \ {0} /\ WellFormed(term) /\ session \in Sessions /\ session.heights # {}
      BY <2>2, SessionFacts DEF PumpInv, BoxesOK, IoOK, TermOK
    <3>2. ResizeTo(term, pending).sync = FALSE
      BY <3>1, ResizeProperties
    <3>3. \A chunk \in session.chunks : "bsu" \notin Range(chunk)
      BY <3>1 DEF BatchesApart
    <3>4. ~term.sync
      BY <3>3 DEF Clocks
    <3>5. term' = ResizeTo(term, pending) /\ UNCHANGED <<held, age, batchAge, session>>
      BY <1>5, <2>2 DEF PumpResize, gate, io
    <3>6. term.sync = FALSE
      BY <3>1, <3>4 DEF WellFormed, Terminals
    <3>7. held' = term'.sync /\ ~term'.sync /\ age' <= batchAge'
      BY <1>2, <3>2, <3>5, <3>6
    <3>8. QED
      BY <3>7 DEF Clocks
  <2>3. QED
    BY <2>1, <2>2
<1>6. CASE PumpScroll
  BY <1>1, <1>6 DEF PumpScroll, gate, io
<1>7. CASE PumpJump
  BY <1>1, <1>7 DEF PumpJump, view, gate, io
<1>8. CASE PumpTimeout
  <2>1. UNCHANGED <<term, held, batchAge, session>> /\ age' \in {0, age}
    BY <1>8 DEF PumpTimeout, io
  <2>2. age' <= batchAge
    BY <1>2, <2>1
  <2>3. QED
    BY <2>1, <2>2 DEF Clocks
<1>9. ASSUME NEW chunk \in session.chunks, PumpRead(chunk)
      PROVE  Clocks'
  <2> DEFINE t == Write(term, chunk)
             u == [t EXCEPT !.events = <<>>]
  <2>1. u.sync = t.sync
    BY ReadTerminal DEF SameBatch
  <2>2. /\ term' = u /\ Gate(t) /\ session' = session
        /\ batchAge' = IF t.batches = term.batches THEN batchAge ELSE 0
    BY <1>9 DEF PumpRead
  <2>3. /\ term.sync => t.batches = term.batches
        /\ (\A c \in session.chunks : "bsu" \notin Range(c)) => ~t.sync
    BY ReadBatches
  <2>4. t \in Terminals /\ t.sync \in BOOLEAN /\ u.sync \in BOOLEAN
    BY ReadTerminal DEF WellFormed, Terminals
  <2> HIDE DEF u, t
  <2>5. held' = t.sync
    BY <2>2, <2>4 DEF Gate
  <2>6. age' <= batchAge'
    <3>1. age' = 0 \/ (held /\ age' = age)
      BY <2>2 DEF Gate
    <3>2. batchAge' \in Nat /\ (held => batchAge' = batchAge)
      BY <1>2, <2>2, <2>3
    <3>3. QED
      BY <1>2, <3>1, <3>2
  <2>7. QED
    BY <2>1, <2>2, <2>3, <2>5, <2>6 DEF Clocks
<1>10. CASE PumpEof \/ PumpInterrupted \/ ChildExits
  BY <1>1, <1>10 DEF PumpEof, PumpInterrupted, ChildExits, view, gate, io
<1>11. CASE Clock
  <2>1. /\ age' = (IF held THEN Least(age + 1, Budget) ELSE age)
        /\ batchAge' = (IF term.sync THEN Least(batchAge + 1, Budget) ELSE batchAge)
        /\ UNCHANGED <<term, held, session>>
    BY <1>11 DEF Clock, view, io
  <2>2. age' <= batchAge'
    BY <1>2, <2>1 DEF Least
  <2>3. QED
    BY <2>1, <2>2 DEF Clocks
<1>12. QED
  BY <1>3, <1>4, <1>5, <1>6, <1>7, <1>8, <1>9, <1>10, <1>11 DEF Next, Mailboxes, Poll

LEMMA ShownOnBudget ==
  ASSUME BatchesApart, PumpInv, Clocks, [Next]_vars, pc = "poll", shown' # shown, shown'.open
  PROVE  batchAge' >= Budget
<1>1. ~UNCHANGED shown
  OBVIOUS
<1>2. Budget \in Nat /\ age \in Nat /\ batchAge \in Nat /\ age <= batchAge /\ held = term.sync
  BY PumpAssumption DEF PumpInv, GateOK, Clocks
<1>3. PumpTimeout \/ \E chunk \in session.chunks : PumpRead(chunk)
  BY <1>1 DEF vars, Next, Owner, AskResize, AskScroll, AskJump, TakeEvents, Mailboxes, Poll,
              PumpResize, PumpScroll, PumpJump, PumpEof, PumpInterrupted, ChildExits, Clock, view
<1>4. CASE PumpTimeout
  <2>1. age >= Budget /\ batchAge' = batchAge
    BY <1>1, <1>4 DEF PumpTimeout
  <2>2. QED
    BY <1>2, <2>1
<1>5. ASSUME NEW chunk \in session.chunks, PumpRead(chunk)
      PROVE  batchAge' >= Budget
  <2> DEFINE t == Write(term, chunk)
  <2>1. /\ Gate(t) /\ batchAge' = IF t.batches = term.batches THEN batchAge ELSE 0
    BY <1>5 DEF PumpRead
  <2>2. term.sync => t.batches = term.batches
    BY ReadBatches
  <2> HIDE DEF t
  <2>3. t.sync
    <3>1. ~t.sync => shown'.open = t.sync
      BY <2>1 DEF Gate, Publish, FrameOf
    <3>2. QED
      BY <3>1
  <2>4. held /\ age >= Budget
    BY <1>1, <2>1, <2>3 DEF Gate
  <2>5. QED
    BY <1>2, <2>1, <2>2, <2>4
<1>6. QED
  BY <1>3, <1>4, <1>5

\* A batch is shown half drawn by output only when it has itself been open for
\* the whole budget, where no two batches share the gate's clock.
THEOREM HalfDrawnOnBudget == BatchesApart => (Spec => HalfDrawnOnlyOnBudget)
<1>1. SUFFICES ASSUME BatchesApart PROVE Spec => HalfDrawnOnlyOnBudget
  OBVIOUS
<1>2. ASSUME Init PROVE Clocks
  <2>1. term.sync = FALSE /\ held = FALSE /\ age = 0 /\ batchAge = 0
    BY <1>2 DEF Init, NewTerminal
  <2>2. age <= batchAge
    BY <2>1
  <2>3. held = term.sync /\ ~term.sync
    BY <2>1
  <2>4. QED
    BY <2>2, <2>3 DEF Clocks
<1>3. PumpInv /\ Clocks /\ [Next]_vars => Clocks'
  BY <1>1, ClocksStep
<1>4. PumpInv /\ Clocks /\ [Next]_vars
        => [ pc = "poll" /\ shown' # shown /\ shown'.open => batchAge' >= Budget ]_vars
  BY <1>1, ShownOnBudget
<1>5. QED
  BY <1>2, <1>3, <1>4, PumpInvariant, PTL DEF Spec, HalfDrawnOnlyOnBudget
=============================================================================
