---------------------------- MODULE FrameHandoff ----------------------------
(***************************************************************************)
(* What the frame channel promises (crates/frame/src/seqlock.rs, the       *)
(* module header and `ReadOutcome`): a latest-wins mailbox.  The writer    *)
(* appends whole frames and never waits.  A reader holds either nothing it *)
(* may draw or one whole published frame, and the frames it takes never go *)
(* back in time.  A reader may miss frames and an attempt may fail.        *)
(***************************************************************************)
EXTENDS Naturals, Sequences

CONSTANTS Readers,   \* the FrameReader clones
          Content,   \* what a whole frame can carry
          Nothing    \* the reader holds no frame it may draw

VARIABLES frames,    \* every published frame, in publish order
          held,      \* what each reader may draw
          seen       \* index of the newest frame each reader has taken

hvars == <<frames, held, seen>>

HInit ==
  /\ frames = <<>>
  /\ held   = [r \in Readers |-> Nothing]
  /\ seen   = [r \in Readers |-> 0]

\* A publish completes: one whole frame becomes the newest.
Publish ==
  /\ Len(frames') = Len(frames) + 1
  /\ \A i \in 1 .. Len(frames) : frames'[i] = frames[i]
  /\ frames'[Len(frames) + 1] \in Content
  /\ UNCHANGED <<held, seen>>

\* A read attempt takes the frame out of the reader's hands.
Lose(r) ==
  /\ held' = [held EXCEPT ![r] = Nothing]
  /\ UNCHANGED <<frames, seen>>

\* A read attempt succeeds with a frame no older than the last one taken.
Take(r) ==
  \E i \in seen[r] .. Len(frames) :
    /\ i > 0
    /\ held' = [held EXCEPT ![r] = frames[i]]
    /\ seen' = [seen EXCEPT ![r] = i]
    /\ UNCHANGED frames

HNext == Publish \/ \E r \in Readers : Lose(r) \/ Take(r)

HSpec == HInit /\ [][HNext]_hvars
=============================================================================
