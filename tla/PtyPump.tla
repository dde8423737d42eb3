------------------------------ MODULE PtyPump ------------------------------
(***************************************************************************)
(* The pump thread of a pseudoterminal host and the callers that talk to   *)
(* it (crates/pty/src/host.rs): the mailboxes for resizes, scrolling and   *)
(* prompt jumps, the read of the child's output, the viewport offset and   *)
(* its anchor, the synchronized-output gate with its budget, the event     *)
(* queue and every publish.                                                *)
(*                                                                         *)
(* The loop body is cut where other threads can act: each mailbox swap is  *)
(* atomic, and what the pump does with the value touches only state it     *)
(* owns.  One unit of `age` is a part of the budget; Clock moves it.       *)
(***************************************************************************)
EXTENDS PumpTerminal, Integers

CONSTANTS Sessions,    \* what the child and the owner do: [chunks, heights, reads,
                       \* calls], where a chunk is the sequence of outputs one read
                       \* holds, heights those it may resize to, and reads and calls
                       \* bound how many there are
          Heights,     \* row counts the host may ask for
          Start,       \* rows at spawn
          Wheel,       \* deltas one scroll call may carry; scroll_to_bottom's too
          Jumps,       \* directions jump_to_prompt may be called with
          Budget,      \* Options.sync_budget
          QueueCap     \* bound of the shared event queue

ASSUME PumpAssumption ==
  /\ Start \in Heights /\ Heights \subseteq Nat \ {0}
  /\ Budget \in Nat \ {0} /\ QueueCap \in Nat \ {0}
  /\ \A s \in Sessions : /\ s.reads \in Nat /\ s.calls \in Nat
                         /\ s.heights \subseteq Heights
                         /\ s.chunks \subseteq Seq(Outputs)
  /\ Wheel \subseteq Int
  /\ Jumps \subseteq {"back", "forward"}

VARIABLES
  pc,          \* where the loop stands: "resize", "scroll", "jump", "poll", "done"
  term,        \* the terminal the pump owns
  offset,      \* rows the view is scrolled up
  anchored,    \* the pushed counter `offset` was computed against
  held, age,   \* sync_since: set, and how long ago
  batchAge,    \* how long the open batch has really been open
  shown,       \* the newest published frame
  pending,     \* Host.pending: a height, 0 for none
  scroll,      \* Host.scroll
  jump,        \* Host.jump
  queue,       \* Host.events
  taken,       \* events take_events handed out
  reads,       \* reads so far
  calls,       \* owner calls so far
  alive,       \* the child holds the other side of the pty
  session      \* which of the sessions this is

view  == <<term, offset, anchored, shown>>
gate  == <<held, age, batchAge>>
boxes == <<pending, scroll, jump, calls>>
io    == <<queue, taken, reads, alive, session>>
vars  == <<pc, term, offset, anchored, held, age, batchAge, shown, pending,
           scroll, jump, queue, taken, reads, calls, alive, session>>

None == "none"
Least(a, b) == IF a < b THEN a ELSE b
Clamp(n, low, high) == IF n < low THEN low ELSE IF n > high THEN high ELSE n

\* publish_scrolled: the offset is clamped to the history there is.
FrameOf(t, off, n) ==
  [view |-> View(t, Least(off, Len(History(t)))), open |-> t.sync, upTo |-> n]

Init ==
  /\ pc = "resize"
  /\ term = NewTerminal(Start)
  /\ offset = 0 /\ anchored = 0
  /\ held = FALSE /\ age = 0 /\ batchAge = 0
  /\ shown = FrameOf(NewTerminal(Start), 0, 0)
  /\ pending = 0 /\ scroll = 0 /\ jump = None
  /\ queue = <<>> /\ taken = <<>>
  /\ reads = 0 /\ calls = 0
  /\ alive = TRUE
  /\ session \in Sessions

-----------------------------------------------------------------------------
(* The host's owner, on its own thread.                                    *)

Call == calls < session.calls /\ calls' = calls + 1

\* Host::resize: the mailbox keeps the last geometry only.
AskResize(rows) ==
  /\ Call
  /\ pending' = rows
  /\ UNCHANGED <<pc, view, gate, scroll, jump, io>>

\* Host::scroll and scroll_to_bottom: deltas accumulate.
AskScroll(delta) ==
  /\ Call
  /\ scroll' = scroll + delta
  /\ UNCHANGED <<pc, view, gate, pending, jump, io>>

\* Host::jump_to_prompt: a store, the latest wins.
AskJump(direction) ==
  /\ Call
  /\ jump' = direction
  /\ UNCHANGED <<pc, view, gate, pending, scroll, io>>

\* Host::take_events.
TakeEvents ==
  /\ queue # <<>>
  /\ taken' = taken \o queue
  /\ queue' = <<>>
  /\ UNCHANGED <<pc, view, gate, boxes, reads, alive, session>>

-----------------------------------------------------------------------------
(* The pump.                                                               *)

Publish(t, off, n) == shown' = FrameOf(t, off, n)

\* The new geometry waits for the next output to be published.
PumpResizeQuietly ==
  /\ pc = "resize"
  /\ pc' = "scroll"
  /\ pending' = 0
  /\ IF pending = 0
     THEN UNCHANGED view
     ELSE /\ term'     = ResizeTo(term, pending)
          /\ offset'   = 0
          /\ anchored' = TotalPushed(term')
          /\ UNCHANGED shown
  /\ UNCHANGED <<gate, scroll, jump, calls, io>>

\* A requested geometry: reflow, snap to the live bottom, publish.
PumpResize ==
  /\ pc = "resize"
  /\ pc' = "scroll"
  /\ pending' = 0
  /\ IF pending = 0
     THEN UNCHANGED view
     ELSE /\ term'     = ResizeTo(term, pending)
          /\ offset'   = 0
          /\ anchored' = TotalPushed(term')
          /\ Publish(term', 0, reads)
  /\ UNCHANGED <<gate, scroll, jump, calls, io>>

\* Accumulated wheel deltas, clamped to the history; published if it moved.
PumpScroll ==
  /\ pc = "scroll"
  /\ pc' = "jump"
  /\ scroll' = 0
  /\ offset' = IF scroll = 0 THEN offset
               ELSE Clamp(offset + scroll, 0, Len(History(term)))
  /\ IF offset' # offset THEN Publish(term, offset', reads) ELSE UNCHANGED shown
  /\ UNCHANGED <<term, anchored, gate, pending, jump, calls, io>>

\* A prompt jump; refused on the alternate screen.
PumpJump ==
  LET next == JumpOffset(PromptOffsets(term), offset, jump = "back")
  IN
  /\ pc = "jump"
  /\ pc' = "poll"
  /\ jump' = None
  /\ IF jump = None \/ term.alt \/ next = offset
     THEN UNCHANGED view
     ELSE /\ offset'   = next
          /\ anchored' = TotalPushed(term)
          /\ Publish(term, next, reads)
          /\ UNCHANGED term
  /\ UNCHANGED <<gate, pending, scroll, calls, io>>

\* The budget is looked at only when there is output.
PumpTimeoutWaits ==
  /\ pc = "poll"
  /\ alive
  /\ pc' = "resize"
  /\ UNCHANGED <<view, gate, boxes, io>>

\* A poll without a timeout unless a batch is held.
PumpTimeoutOnlyHeld ==
  /\ pc = "poll"
  /\ alive /\ held
  /\ pc' = "resize"
  /\ IF age >= Budget
     THEN age' = 0 /\ Publish(term, offset, reads)
     ELSE UNCHANGED <<age, shown>>
  /\ UNCHANGED <<term, offset, anchored, held, batchAge, boxes, io>>

\* A tick without output: a held batch past its budget is published.  A pty
\* whose other side is closed is always readable, so it never times out.
PumpTimeout ==
  /\ pc = "poll"
  /\ alive
  /\ pc' = "resize"
  /\ IF held /\ age >= Budget
     THEN age' = 0 /\ Publish(term, offset, reads)
     ELSE UNCHANGED <<age, shown>>
  /\ UNCHANGED <<term, offset, anchored, held, batchAge, boxes, io>>

\* A poll or a read that was interrupted starts the loop over.
PumpInterrupted ==
  /\ pc = "poll"
  /\ pc' = "resize"
  /\ UNCHANGED <<view, gate, boxes, io>>

\* The offset grows past the history it points into.
FollowUnclamped(t) ==
  IF offset = 0 THEN 0
  ELSE offset + Clamp(TotalPushed(t) - anchored, 0, TotalPushed(t))

\* Anchored on the history's length, which stops growing once it is full.
FollowLength(t) ==
  IF offset = 0 THEN 0
  ELSE Clamp(offset + Len(History(t)) - Len(History(term)), 0, Len(History(t)))

\* Rows that entered history slide the offset up with them.
Follow(t) ==
  IF offset = 0 THEN 0
  ELSE Least(offset + Clamp(TotalPushed(t) - anchored, 0, TotalPushed(t)),
             Len(History(t)))

\* Every read is published, batch or not.
GateOpen(t) ==
  /\ held' = t.sync
  /\ age' = 0
  /\ Publish(t, Follow(t), reads + 1)

\* The synchronized-output gate after a read left the terminal at t.
Gate(t) ==
  IF t.sync
  THEN /\ held' = TRUE
       /\ IF held /\ age >= Budget
          THEN age' = 0 /\ Publish(t, Follow(t), reads + 1)
          ELSE age' = (IF held THEN age ELSE 0) /\ UNCHANGED shown
  ELSE held' = FALSE /\ age' = 0 /\ Publish(t, Follow(t), reads + 1)

\* A read: write it, drain the events, follow the content, pass the gate.
PumpRead(chunk) ==
  LET t == Write(term, chunk)
  IN
  /\ pc = "poll"
  /\ reads < session.reads
  /\ pc'       = "resize"
  /\ reads'    = reads + 1
  /\ term'     = [t EXCEPT !.events = <<>>]
  /\ queue'    = Newest(queue \o t.events, QueueCap)
  /\ offset'   = Follow(t)
  /\ anchored' = TotalPushed(t)
  /\ batchAge' = IF t.batches = term.batches THEN batchAge ELSE 0
  /\ Gate(t)
  /\ UNCHANGED <<boxes, taken, alive, session>>

\* EIO or a zero-length read: the child's side is closed and drained.
PumpEof ==
  /\ pc = "poll"
  /\ ~alive
  /\ pc' = "done"
  /\ UNCHANGED <<view, gate, boxes, io>>

-----------------------------------------------------------------------------
(* The child and the clock.                                                *)

ChildExits ==
  /\ alive
  /\ alive' = FALSE
  /\ UNCHANGED <<pc, view, gate, boxes, queue, taken, reads, session>>

Clock ==
  /\ held \/ term.sync
  /\ age < Budget \/ batchAge < Budget
  /\ age'      = IF held THEN Least(age + 1, Budget) ELSE age
  /\ batchAge' = IF term.sync THEN Least(batchAge + 1, Budget) ELSE batchAge
  /\ UNCHANGED <<pc, view, held, boxes, io>>

Owner ==
  \/ \E rows \in session.heights : AskResize(rows)
  \/ \E delta \in Wheel : AskScroll(delta)
  \/ \E direction \in Jumps : AskJump(direction)
  \/ TakeEvents

Mailboxes == PumpResize \/ PumpScroll \/ PumpJump
Poll == PumpTimeout \/ (\E chunk \in session.chunks : PumpRead(chunk)) \/ PumpEof

Next == Owner \/ Mailboxes \/ Poll \/ PumpInterrupted \/ ChildExits \/ Clock

Spec == Init /\ [][Next]_vars

\* The pump thread keeps running, time keeps passing and not every poll is
\* interrupted.  Nothing makes the child speak or exit, or the owner call.
FairSpec == Spec /\ WF_vars(Mailboxes) /\ SF_vars(Poll) /\ WF_vars(Clock)

-----------------------------------------------------------------------------
TypeOK ==
  /\ pc \in {"resize", "scroll", "jump", "poll", "done"}
  /\ term.history \in Seq(Nat) /\ Len(term.history) <= MaxScrollback
  /\ Len(term.rows) \in Heights /\ term.y \in DOMAIN term.rows
  /\ term.events = <<>>
  /\ offset \in Nat /\ anchored \in Nat
  /\ held \in BOOLEAN /\ age \in 0 .. Budget /\ batchAge \in 0 .. Budget
  /\ pending \in Heights \union {0} /\ scroll \in Int /\ jump \in Jumps \union {None}
  /\ Len(queue) <= QueueCap
  /\ session \in Sessions /\ alive \in BOOLEAN
  /\ reads \in 0 .. session.reads /\ calls \in 0 .. session.calls

\* The view never points above the history there is, even when an ED 3, a RIS,
\* a screen switch or a shorter reflow removed the rows under it in mid-loop;
\* and whenever the pump waits for output with no batch open, the newest frame
\* is the terminal at the pump's offset: no mailbox and no read owes a publish.
FrameIsCurrent ==
  /\ offset <= Len(History(term))
  /\ pc = "poll" /\ ~term.sync => shown = FrameOf(term, offset, reads)

\* A scrolled view stays on its content while the child prints: as long as the
\* row at the top of the view is still in the history, a read leaves it there
\* (total_pushed: "two reads of this bracket exactly the rows that scrolled
\* off in between").
TopRow(t, off) == View(t, off)[1]
ViewPinned ==
  [][ reads' # reads /\ offset > 0 /\ TopRow(term, offset) \in Range(History(term'))
        => offset' > 0 /\ TopRow(term', offset') = TopRow(term, offset) ]_vars

\* Where that is meant to hold: an owner who calls has a child that never changes
\* the columns (mode 40), whose reflow counts the rows it keeps as pushed again.
ColumnsKept ==
  \A s \in Sessions : s.calls > 0 => \A chunk \in s.chunks : "deccolm" \notin Range(chunk)

\* A prompt jump puts a row that begins a prompt at the top of the view or
\* leaves the view alone, and it moves the way it was asked to.
JumpLandsOnPrompt ==
  [][ pc = "jump" /\ offset' # offset
        => /\ TopRow(term', offset') \in PromptRows
           /\ jump = "back" <=> offset' > offset ]_vars

\* The view moves only where somebody asked: output leaves it on its content,
\* and a jump takes it to a prompt.
ViewFollows == ViewPinned /\ JumpLandsOnPrompt

\* A batch is shown half drawn by output only when it has itself been open for
\* the whole budget (Options.sync_budget); the owner's own calls show it sooner.
HalfDrawnOnlyOnBudget ==
  [][ pc = "poll" /\ shown' # shown /\ shown'.open => batchAge' >= Budget ]_vars

\* Where that is meant to hold: no read opens a batch after closing another, and
\* no resize closes one the gate holds, for the two would share one sync_since.
Steady(chunk) ==
  \A i, j \in DOMAIN chunk : i < j /\ chunk[j] = "bsu" => chunk[i] \notin Closes
BatchesApart ==
  \A s \in Sessions :
    /\ \A chunk \in s.chunks : Steady(chunk)
    /\ s.heights = {} \/ \A chunk \in s.chunks : "bsu" \notin Range(chunk)

\* Events reach the owner in the order the child made them, none twice, and
\* the newest always among them however small the two bounded queues are,
\* unless a full reset in the read that made it threw it away (full_reset).
EventsInOrder ==
  LET all == taken \o queue
  IN  /\ \A i, j \in DOMAIN all : i < j => all[i] < all[j]
      /\ term.emitted > term.wiped => all # <<>> /\ Last(all) = term.emitted

\* What the child had printed when it left is on the last frame the pump
\* publishes ("rather than freezing the display").
LastOutputShown == pc = "done" => shown.upTo = reads

\* While the pump runs everything it read is shown in the end, a batch the
\* child never closes included.
OutputShown ==
  \A n \in 1 .. Max({s.reads : s \in Sessions}) : (reads >= n) ~> (shown.upTo >= n \/ pc = "done")

\* A requested geometry is worn in the end, unless another took its place: a
\* silent child does not delay it.
ResizeArrives ==
  \A h \in Heights :
    (pending = h) ~> (Len(term.rows) = h \/ pending \notin {0, h} \/ pc = "done")

\* Nothing the pump is given is left lying: what it reads is shown and what it is
\* asked to wear is worn, whatever the child does (pump_loop, sync_budget).
PumpServes == OutputShown /\ ResizeArrives
=============================================================================
