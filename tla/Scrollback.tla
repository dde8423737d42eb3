------------------------------ MODULE Scrollback ------------------------------
(* What the scrollback promises (src/crates/core/src/history.rs, lines 1-15):
   the rows that scrolled off, oldest first, never more than the budget, and how
   many there have ever been.  How they are stored is History's business. *)
EXTENDS Naturals, Sequences, SequencesExt

CONSTANTS Scrolled, \* the rows a screen can push, without their trailing blanks
          Budgets,  \* the row budgets a terminal is made with
          Narrowed(_, _) \* a row at another width

VARIABLES rows, pushed, budget
bvars == <<rows, pushed, budget>>

\* The newest rows of a sequence, as many as the budget allows.
Newest(s, n) == SubSeq(s, Len(s) - (IF Len(s) < n THEN Len(s) ELSE n) + 1, Len(s))

Empty == rows = <<>> /\ pushed = 0 /\ budget \in Budgets

Enters(r) ==
  /\ budget > 0
  /\ rows' = Newest(Append(rows, r), budget) /\ pushed' = pushed + 1 /\ UNCHANGED budget

Forgotten == rows' = <<>> /\ UNCHANGED <<pushed, budget>>

\* A resize lays the rows out again: n of the newest leave for the screen, or
\* some of the screen's enter above it.
Relaid(cols, n, more) ==
  LET kept == [i \in 1..(Len(rows) - n) |-> Narrowed(rows[i], cols)] \o more IN
  /\ n \in 0..Len(rows) /\ (n = 0 \/ more = <<>>)
  /\ rows' = Newest(kept, budget)
  /\ pushed' = pushed + (IF budget = 0 THEN 0 ELSE Len(kept)) /\ UNCHANGED budget

ScrollbackNext(cols) ==
  \/ \E r \in Scrolled : Enters(r)
  \/ Forgotten
  \/ \E n \in 0..Len(rows), c \in cols, more \in {<<>>} \union {<<r>> : r \in Scrolled} : Relaid(c, n, more)
=============================================================================
