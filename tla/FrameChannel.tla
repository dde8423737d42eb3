---------------------------- MODULE FrameChannel ----------------------------
(***************************************************************************)
(* The seqlock that hands frames from the pump thread to renderers         *)
(* (crates/frame/src/seqlock.rs), at the level of its atomic accesses and  *)
(* under a weak memory.                                                    *)
(*                                                                         *)
(* Memory.  Every word of the shared buffer has one writer, so its         *)
(* modification order is a sequence.  A load may return any entry of that  *)
(* sequence that is not older than what the thread already knows of the    *)
(* word (its view); it need not be the newest.                             *)
(*   - `generation` takes the values 0, 1, 2, ... in that order, so a      *)
(*     value is its own place in the order and a view of it is a number.   *)
(*   - hist[w] is the order of payload word w; entry i carries the view    *)
(*     the writer's last release fence gave it, a generation.  A frame's   *)
(*     content is represented by the place in hist[w] each word came from. *)
(*   - an acquire load that reads a release store takes over the writer's  *)
(*     view (committed); a relaxed load only remembers the view of what it *)
(*     read (pend) until the acquire fence.                                *)
(* Views a relaxed store inherits from earlier publishes are dropped: the  *)
(* readers know less than they would, so the model allows more.            *)
(***************************************************************************)
EXTENDS Naturals, Sequences

CONSTANTS Words,        \* payload words: geometry, cells, stamps, cursor, ...
          Readers,      \* FrameReader clones, one Frame each
          MaxPublish,   \* bound: publishes started
          MaxPanic,     \* bound: publishes whose fill closure panics
          NoFrame       \* a reader holding no frame it may draw

ASSUME BoundsAssumption == MaxPublish \in Nat /\ MaxPanic \in Nat

VARIABLES
  generation,  \* Shared.generation: newest value stored
  hist,        \* modification order of each payload word
  fence,       \* view of the writer's last release fence
  committed,   \* generation |-> how far each word had got when it was stored
  filling,     \* the fill closure is running
  written,     \* words this publish has stored
  started,     \* publishes begun (bounded)
  panics,      \* fills that panicked (bounded)
  rpc,         \* reader: "idle", "copy" or "check"
  before,      \* reader: the generation its attempt started from
  copied,      \* reader: words copied so far in this attempt
  genView,     \* reader: oldest generation it may still read
  view,        \* reader: oldest entry of each word it may still read
  pend,        \* reader: newest generation its relaxed loads are tied to
  fgen,        \* Frame.generation of the reader's own frame
  fword,       \* the frame's content: entry of hist each word was copied from
  last         \* newest generation returned as Fresh to the reader

shared == <<generation, hist, fence, committed, filling, written, started, panics>>
vars   == <<generation, hist, fence, committed, filling, written, started,
            panics, rpc, before, copied, genView, view, pend, fgen, fword, last>>

Odd(n)    == n % 2 = 1
Larger(a, b) == IF a > b THEN a ELSE b

Lengths == [w \in Words |-> Len(hist[w])]

Init ==
  /\ generation = 0
  /\ hist       = [w \in Words |-> <<>>]
  /\ fence      = 0
  /\ committed  = [g \in {0} |-> [w \in Words |-> 0]]
  /\ filling    = FALSE
  /\ written    = {}
  /\ started    = 0
  /\ panics     = 0
  /\ rpc        = [r \in Readers |-> "idle"]
  /\ before     = [r \in Readers |-> 0]
  /\ copied     = [r \in Readers |-> {}]
  /\ genView    = [r \in Readers |-> 0]
  /\ view       = [r \in Readers |-> [w \in Words |-> 0]]
  /\ pend       = [r \in Readers |-> 0]
  /\ fgen       = [r \in Readers |-> 0]
  /\ fword      = [r \in Readers |-> [w \in Words |-> 0]]
  /\ last       = [r \in Readers |-> 0]

-----------------------------------------------------------------------------
(* The writer: FrameWriter::publish, one closure at a time.                *)

\* Always one more, which turns even after a fill that panicked.
InFlightFlips(start) == start + 1

\* `start | 1`: a publish after a panicked one keeps the odd counter.
InFlight(start) == IF Odd(start) THEN start ELSE start + 1

\* Store the odd marker, then fence(Release): what follows carries the marker.
BeginPublish ==
  /\ ~filling
  /\ started < MaxPublish
  /\ generation' = InFlight(generation)
  /\ fence'      = InFlight(generation)
  /\ filling'    = TRUE
  /\ written'    = {}
  /\ started'    = started + 1
  /\ UNCHANGED <<hist, committed, panics, rpc, before, copied, genView, view,
                 pend, fgen, fword, last>>

\* One relaxed store of the fill closure.  A publish need not store every
\* word: row stamps, the whole-frame stamp and table tails keep old values.
StoreWord(w) ==
  /\ filling
  /\ w \notin written
  /\ hist'    = [hist EXCEPT ![w] = Append(@, fence)]
  /\ written' = written \union {w}
  /\ UNCHANGED <<generation, fence, committed, filling, started, panics, rpc,
                 before, copied, genView, view, pend, fgen, fword, last>>

\* The final release store of the even counter.
EndPublish ==
  /\ filling
  /\ generation' = generation + 1
  /\ committed'  = [g \in DOMAIN committed \union {generation + 1} |->
                      IF g = generation + 1 THEN Lengths ELSE committed[g]]
  /\ filling'    = FALSE
  /\ UNCHANGED <<hist, fence, written, started, panics, rpc, before, copied,
                 genView, view, pend, fgen, fword, last>>

\* The fill closure panics: the counter stays odd, the words stay half written.
PanicFill ==
  /\ filling
  /\ panics < MaxPanic
  /\ filling' = FALSE
  /\ panics'  = panics + 1
  /\ UNCHANGED <<generation, hist, fence, committed, written, started, rpc,
                 before, copied, genView, view, pend, fgen, fword, last>>

-----------------------------------------------------------------------------
(* A reader: one FrameReader::read_into call.                              *)

\* Any frame already held is taken for the current one.
ReadBeginKeepsFrame(r) ==
  /\ rpc[r] = "idle"
  /\ \E g \in genView[r] .. generation :
       /\ genView' = [genView EXCEPT ![r] = g]
       /\ IF Odd(g) \/ fgen[r] # 0
          THEN UNCHANGED <<rpc, before, copied, view, pend>>
          ELSE /\ rpc'    = [rpc EXCEPT ![r] = "copy"]
               /\ before' = [before EXCEPT ![r] = g]
               /\ copied' = [copied EXCEPT ![r] = {}]
               /\ view'   = [view EXCEPT ![r] =
                               [w \in Words |-> Larger(@[w], committed[g][w])]]
               /\ pend'   = [pend EXCEPT ![r] = 0]
  /\ UNCHANGED <<shared, fgen, fword, last>>

\* The acquire load of the counter and the two early returns.
ReadBegin(r) ==
  /\ rpc[r] = "idle"
  /\ \E g \in genView[r] .. generation :
       /\ genView' = [genView EXCEPT ![r] = g]
       /\ IF Odd(g) \/ (g = fgen[r] /\ g # 0)
          THEN UNCHANGED <<rpc, before, copied, view, pend>>
          ELSE /\ rpc'    = [rpc EXCEPT ![r] = "copy"]
               /\ before' = [before EXCEPT ![r] = g]
               /\ copied' = [copied EXCEPT ![r] = {}]
               /\ view'   = [view EXCEPT ![r] =
                               [w \in Words |-> Larger(@[w], committed[g][w])]]
               /\ pend'   = [pend EXCEPT ![r] = 0]
  /\ UNCHANGED <<shared, fgen, fword, last>>

\* The view a relaxed load of entry i of word w leaves to be acquired.
EntryView(w, i) == IF i = 0 THEN 0 ELSE hist[w][i]

\* copy_payload: one relaxed load of a payload word into the reader's frame.
ReadWord(r, w) ==
  /\ rpc[r] = "copy"
  /\ w \notin copied[r]
  /\ \E i \in view[r][w] .. Len(hist[w]) :
       /\ fword' = [fword EXCEPT ![r][w] = i]
       /\ view'  = [view EXCEPT ![r][w] = i]
       /\ pend'  = [pend EXCEPT ![r] = Larger(@, EntryView(w, i))]
  /\ copied' = [copied EXCEPT ![r] = @ \union {w}]
  /\ UNCHANGED <<shared, rpc, before, genView, fgen, last>>

\* No fence: the second load of the counter may still return the old value.
AcquireFenceMissing(r) ==
  /\ rpc[r] = "copy"
  /\ copied[r] = Words
  /\ rpc' = [rpc EXCEPT ![r] = "check"]
  /\ UNCHANGED <<shared, before, copied, genView, view, pend, fgen, fword, last>>

\* fence(Acquire): what the copy read is now known to have happened.
AcquireFence(r) ==
  /\ rpc[r] = "copy"
  /\ copied[r] = Words
  /\ rpc'     = [rpc EXCEPT ![r] = "check"]
  /\ genView' = [genView EXCEPT ![r] = Larger(@, pend[r])]
  /\ UNCHANGED <<shared, before, copied, view, pend, fgen, fword, last>>

\* The counter is loaded and not compared.
ReadCheckTrusts(r) ==
  /\ rpc[r] = "check"
  /\ \E g \in genView[r] .. generation :
       /\ genView' = [genView EXCEPT ![r] = g]
       /\ fgen'    = [fgen EXCEPT ![r] = before[r]]
       /\ last'    = [last EXCEPT ![r] = before[r]]
  /\ rpc' = [rpc EXCEPT ![r] = "idle"]
  /\ UNCHANGED <<shared, before, copied, view, pend, fword>>

\* The second load of the counter: accept the frame, or disown it.
ReadCheck(r) ==
  /\ rpc[r] = "check"
  /\ \E g \in genView[r] .. generation :
       /\ genView' = [genView EXCEPT ![r] = g]
       /\ fgen'    = [fgen EXCEPT ![r] = IF g = before[r] THEN g ELSE 0]
       /\ last'    = [last EXCEPT ![r] = IF g = before[r] THEN g ELSE @]
  /\ rpc' = [rpc EXCEPT ![r] = "idle"]
  /\ UNCHANGED <<shared, before, copied, view, pend, fword>>

-----------------------------------------------------------------------------
Writer    == BeginPublish \/ (\E w \in Words : StoreWord(w)) \/ EndPublish \/ PanicFill
Reader(r) == ReadBegin(r) \/ (\E w \in Words : ReadWord(r, w)) \/ AcquireFence(r) \/ ReadCheck(r)

Next == Writer \/ \E r \in Readers : Reader(r)

Spec == Init /\ [][Next]_vars

\* The pump thread keeps running its own publish; a renderer keeps polling;
\* stores become visible: a load does not return an old value for ever.
ReadsNewest(r) == ReadBegin(r) /\ genView'[r] = generation
Fairness ==
  /\ WF_vars(EndPublish)
  /\ \A r \in Readers :
       /\ SF_vars(ReadsNewest(r))
       /\ WF_vars((\E w \in Words : ReadWord(r, w)) \/ AcquireFence(r) \/ ReadCheck(r))

FairSpec == Spec /\ Fairness

-----------------------------------------------------------------------------
Published == {g \in 0 .. generation : ~Odd(g)}

TypeOK ==
  /\ generation \in Nat
  /\ fence \in Nat
  /\ hist \in [Words -> Seq(Nat)]
  /\ committed \in [Published -> [Words -> Nat]]
  /\ filling \in BOOLEAN
  /\ written \in SUBSET Words
  /\ started \in Nat
  /\ panics \in Nat
  /\ rpc \in [Readers -> {"idle", "copy", "check"}]
  /\ before \in [Readers -> Published]
  /\ copied \in [Readers -> SUBSET Words]
  /\ genView \in [Readers -> Nat]
  /\ view \in [Readers -> [Words -> Nat]]
  /\ pend \in [Readers -> Nat]
  /\ fgen \in [Readers -> Published]
  /\ fword \in [Readers -> [Words -> Nat]]
  /\ last \in [Readers -> Published]

\* A frame that claims a generation is word for word the frame of that
\* publish: no mixture of two publishes is ever accepted, even when the reader
\* was overtaken mid-copy, loads returned stale words, or an earlier fill
\* panicked (read_into, and Frame::is_valid as the careless caller's guard).
FramesWhole ==
  \A r \in Readers :
    rpc[r] = "idle" /\ fgen[r] # 0 => fword[r] = committed[fgen[r]]

\* An odd counter is never mistaken for a finished frame: whenever the writer
\* is inside a fill, or died in one, the stored counter is odd, so recovery
\* after a panic cannot invert the parity (finding 17 in publish).
ParityMarksFill ==
  /\ filling => Odd(generation)
  /\ Odd(generation) => filling \/ panics > 0

\* Once the writer rests on a finished publish, every polling reader ends up
\* holding that last frame and keeps it: the final state is never lost even
\* though intermediate frames may be.
LastFrameArrives ==
  \A r \in Readers :
    (<>[](~filling /\ ~Odd(generation) /\ generation > 0))
      => <>[](fgen[r] = generation)

\* The abstract mailbox: frame k is what generation 2k committed.
FrameAt(g) == [gen |-> g, content |-> committed[g]]
Frames     == [k \in 1 .. generation \div 2 |-> FrameAt(2 * k)]
Held       == [r \in Readers |->
                 IF rpc[r] # "idle" \/ fgen[r] = 0 THEN NoFrame
                 ELSE [gen |-> fgen[r], content |-> fword[r]]]
Seen       == [r \in Readers |-> last[r] \div 2]

Mailbox == INSTANCE FrameHandoff WITH
  Content <- [gen : Nat, content : [Words -> Nat]],
  Nothing <- NoFrame,
  frames  <- Frames,
  held    <- Held,
  seen    <- Seen

\* The channel implements the latest-wins mailbox: under every interleaving and
\* every stale load a reader holds nothing or one whole published frame, and an
\* accepted frame is never older than one the same reader accepted before.
HandoffSpec == Mailbox!HSpec
=============================================================================
