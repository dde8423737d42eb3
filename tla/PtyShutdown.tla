---------------------------- MODULE PtyShutdown ----------------------------
(***************************************************************************)
(* Ending a pseudoterminal host (crates/pty/src/host.rs, Host::shutdown):  *)
(* the thread that owns the host, the pump thread, the child and the two   *)
(* bounded queues of the pty between them.                                 *)
(*                                                                         *)
(* The kernel's half is external.  As Host::shutdown describes it, a child *)
(* that exits waits until its output queue drains.  The master is opened   *)
(* blocking, so a write to a full input queue waits for room, or for the   *)
(* last holder of the other side to close it.                              *)
(***************************************************************************)
EXTENDS Naturals

CONSTANTS OutCap,   \* output the tty queues for the pump
          InCap,    \* input the tty queues for the child
          Helpers   \* whether the child may leave a process on the pty

ASSUME ShutdownAssumption ==
  /\ OutCap \in Nat \ {0} /\ InCap \in Nat \ {0}
  /\ Helpers \in BOOLEAN

VARIABLES
  owner,   \* "idle", "sending", then "kill", "reap", "stop", "join", "returned"
  pump,    \* "loop", "poll", "reply", "done"
  stop,    \* Host.stop
  owed,    \* replies the pump has not written yet
  child,   \* "runs", "exits", "gone", "reaped"
  helper,  \* another process holds the other side of the pty
  gaveUp,  \* the grace period ended before the child was reaped
  out,     \* output queued
  asked,   \* queries among it
  inp      \* input queued

tty  == <<out, asked, inp>>
svars == <<owner, pump, stop, owed, child, helper, gaveUp, out, asked, inp>>

ShutdownInit ==
  /\ owner = "idle" /\ pump = "loop" /\ stop = FALSE /\ owed = 0
  /\ child = "runs" /\ helper = FALSE /\ gaveUp = FALSE
  /\ out = 0 /\ asked = 0 /\ inp = 0

Closed == child \in {"gone", "reaped"} /\ ~helper

-----------------------------------------------------------------------------
(* The child and its kernel side.                                          *)

ChildPrints ==
  /\ child = "runs" \/ helper
  /\ out < OutCap
  /\ out' = out + 1
  /\ asked' \in {asked, asked + 1}
  /\ UNCHANGED <<owner, pump, stop, owed, child, helper, gaveUp, inp>>

ChildReads ==
  /\ child = "runs" \/ helper
  /\ inp > 0
  /\ inp' = inp - 1
  /\ UNCHANGED <<owner, pump, stop, owed, child, helper, gaveUp, out, asked>>

ChildForks ==
  /\ child = "runs" /\ Helpers
  /\ helper' = TRUE
  /\ UNCHANGED <<owner, pump, stop, owed, child, gaveUp, tty>>

ChildExits ==
  /\ child = "runs"
  /\ child' = "exits"
  /\ UNCHANGED <<owner, pump, stop, owed, helper, gaveUp, tty>>

\* The exit completes once the output queue is drained.
ChildGone ==
  /\ child = "exits"
  /\ out = 0
  /\ child' = "gone"
  /\ UNCHANGED <<owner, pump, stop, owed, helper, gaveUp, tty>>

-----------------------------------------------------------------------------
(* The pump thread.                                                        *)

\* The loop runs on whatever the owner asked.
PumpIgnoresStop ==
  /\ pump = "loop"
  /\ pump' = "poll"
  /\ UNCHANGED <<owner, stop, owed, child, helper, gaveUp, tty>>

\* while !stop
PumpLoop ==
  /\ pump = "loop"
  /\ pump' = IF stop THEN "done" ELSE "poll"
  /\ UNCHANGED <<owner, stop, owed, child, helper, gaveUp, tty>>

\* A tick passes without output.
PumpTick ==
  /\ pump = "poll"
  /\ out = 0 /\ ~Closed
  /\ pump' = "loop"
  /\ UNCHANGED <<owner, stop, owed, child, helper, gaveUp, tty>>

\* The queries of the last read stay owed.
PumpReadKeepsReplies ==
  /\ pump = "poll"
  /\ out > 0
  /\ out' = 0
  /\ owed' = asked
  /\ pump' = "reply"
  /\ UNCHANGED <<owner, stop, child, helper, gaveUp, inp, asked>>

\* One read takes what is queued; the replies it owes are written next.
PumpRead ==
  /\ pump = "poll"
  /\ out > 0
  /\ out' = 0 /\ asked' = 0
  /\ owed' = asked
  /\ pump' = "reply"
  /\ UNCHANGED <<owner, stop, child, helper, gaveUp, inp>>

PumpEof ==
  /\ pump = "poll"
  /\ out = 0 /\ Closed
  /\ pump' = "done"
  /\ UNCHANGED <<owner, stop, owed, child, helper, gaveUp, tty>>

\* A blocking write of the replies, in as many pieces as there is room for; a
\* closed pty is an error, which drops the rest.
PumpReply ==
  /\ pump = "reply"
  /\ IF owed = 0 \/ Closed
     THEN pump' = "loop" /\ owed' = 0 /\ UNCHANGED inp
     ELSE /\ inp < InCap
          /\ inp' = inp + 1
          /\ owed' = owed - 1
          /\ UNCHANGED pump
  /\ UNCHANGED <<owner, stop, child, helper, gaveUp, out, asked>>

-----------------------------------------------------------------------------
(* The owning thread.                                                      *)

\* Host::send: a blocking write loop on the same descriptor.
OwnerSends ==
  /\ owner = "idle"
  /\ owner' = "sending"
  /\ UNCHANGED <<pump, stop, owed, child, helper, gaveUp, tty>>

OwnerWrites ==
  /\ owner = "sending"
  /\ Closed \/ inp < InCap
  /\ owner' = "idle"
  /\ inp' = IF Closed THEN inp ELSE inp + 1
  /\ UNCHANGED <<pump, stop, owed, child, helper, gaveUp, out, asked>>

OwnerShutsDown ==
  /\ owner = "idle"
  /\ owner' = "kill"
  /\ UNCHANGED <<pump, stop, owed, child, helper, gaveUp, tty>>

\* The order before it was fixed: the pump is told to stop at once.
KillAndStop ==
  /\ owner = "kill"
  /\ owner' = "reap"
  /\ child' = IF child = "runs" THEN "exits" ELSE child
  /\ stop'  = TRUE
  /\ UNCHANGED <<pump, owed, helper, gaveUp, tty>>

\* Kill first and leave the pump draining.
Kill ==
  /\ owner = "kill"
  /\ owner' = "reap"
  /\ child' = IF child = "runs" THEN "exits" ELSE child
  /\ UNCHANGED <<pump, stop, owed, helper, gaveUp, tty>>

\* reap_within: a poll finds the child gone.
Reap ==
  /\ owner = "reap"
  /\ child = "gone"
  /\ child' = "reaped"
  /\ owner' = "stop"
  /\ UNCHANGED <<pump, stop, owed, helper, gaveUp, tty>>

\* reap_within: SHUTDOWN_GRACE has passed; the child is abandoned.
GiveUp ==
  /\ owner = "reap"
  /\ child # "gone"
  /\ gaveUp' = TRUE
  /\ owner'  = "stop"
  /\ UNCHANGED <<pump, stop, owed, child, helper, tty>>

SetStop ==
  /\ owner = "stop"
  /\ stop'  = TRUE
  /\ owner' = "join"
  /\ UNCHANGED <<pump, owed, child, helper, gaveUp, tty>>

Join ==
  /\ owner = "join"
  /\ pump = "done"
  /\ owner' = "returned"
  /\ UNCHANGED <<pump, stop, owed, child, helper, gaveUp, tty>>

Child    == ChildPrints \/ ChildReads \/ ChildForks \/ ChildExits
Pump     == PumpLoop \/ PumpTick \/ PumpRead \/ PumpEof \/ PumpReply
Shutdown == Kill \/ Reap \/ GiveUp \/ SetStop \/ Join

ShutdownNext == Child \/ ChildGone \/ Pump \/ OwnerSends \/ OwnerWrites \/ OwnerShutsDown \/ Shutdown

ShutdownSpec == ShutdownInit /\ [][ShutdownNext]_svars

\* Both threads run and the kernel finishes an exit it can finish; the child
\* need not print, read, fork or exit, and the owner need not call.
ShutdownFairSpec == ShutdownSpec /\ WF_svars(Pump) /\ WF_svars(Shutdown) /\ WF_svars(ChildGone)

-----------------------------------------------------------------------------
ShutdownTypeOK ==
  /\ owner \in {"idle", "sending", "kill", "reap", "stop", "join", "returned"}
  /\ pump \in {"loop", "poll", "reply", "done"}
  /\ stop \in BOOLEAN /\ helper \in BOOLEAN /\ gaveUp \in BOOLEAN
  /\ child \in {"runs", "exits", "gone", "reaped"}
  /\ out \in 0 .. OutCap /\ asked \in 0 .. out
  /\ inp \in 0 .. InCap /\ owed \in 0 .. OutCap

\* "The reader must outlive the child": the pump is still there to drain the
\* output of a child that has not finished exiting, unless it was abandoned.
ReaderOutlivesChild == pump = "done" => child \in {"gone", "reaped"} \/ gaveUp

\* A shutdown returns: "a shutdown that can block forever is a defect whatever
\* the ordering".
ShutdownReturns == owner = "kill" ~> owner = "returned"

\* The pump waits for room for a reply nobody on the other side reads.
StuckInReply == pump = "reply" /\ owed > 0 /\ inp = InCap /\ ~Closed

\* Nothing else can keep a shutdown from returning: not a child that will not
\* die, not a full output queue, not a helper that holds the pty open.
OnlyRepliesBlock == (owner = "kill" ~> owner = "returned") \/ <>[]StuckInReply
=============================================================================
