----------------------------- MODULE FlagStack -----------------------------
(***************************************************************************)
(* What the kitty keyboard protocol asks of a screen's stack of flags: the *)
(* newest Depth entries, the newest first; below them nothing is set.      *)
(***************************************************************************)
EXTENDS Naturals, Sequences

CONSTANTS Depth,   \* how many entries are kept
          Entries, \* what an entry can be
          None     \* the entry where nothing was pushed

VARIABLE stack

Bottom == [k \in 1..Depth |-> None]

Init == stack = Bottom

Push(e) == stack' = <<e>> \o SubSeq(stack, 1, Depth - 1)
Pop(n)  == stack' = [k \in 1..Depth |-> IF k + n <= Depth THEN stack[k + n] ELSE None]
Set(e)  == stack' = [stack EXCEPT ![1] = e]
Clear   == stack' = Bottom

Next == \/ \E e \in Entries : Push(e) \/ Set(e)
        \/ \E n \in 1..Depth : Pop(n)
        \/ Clear
Spec == Init /\ [][Next]_stack
=============================================================================
