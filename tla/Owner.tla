------------------------------- MODULE Owner -------------------------------
(***************************************************************************)
(* What the thread that owns the sessions does besides drawing them: it    *)
(* ends one (PtyShutdown), rebuilds its renderer (Rebuild), keeps a canvas *)
(* of them (Panes), starts agents in them (Agents), and serves the window  *)
(* its history, events, wheel, workflows and configuration (Desk).         *)
(*                                                                         *)
(* The parts share the thread and no state: every call of one is complete  *)
(* before the next, so a behaviour stays with one of them.                 *)
(***************************************************************************)
EXTENDS PtyShutdown, Rebuild, Panes, Agents, Desk

VARIABLE part

ovars == <<svars, rvars, pvars, avars, dvars, part>>

Parts == {"shutdown", "rebuild", "panes", "menu", "launch", "history", "drain", "wheel", "page", "form"}

\* The parts a behaviour leaves alone are at the first of their initial states.
OwnerInit ==
  /\ part \in Parts
  /\ ShutdownInit /\ PanesInit /\ DeskInit
  /\ RebuildInit /\ (part # "rebuild" => Untouched)
  /\ AgentsInit /\ (part # "menu" => installed.files = Spots)

OwnerNext ==
  /\ UNCHANGED part
  /\ \/ /\ part = "shutdown" /\ ShutdownNext
        /\ UNCHANGED <<rvars, pvars, avars, dvars>>
     \/ /\ part = "rebuild" /\ RebuildNext
        /\ UNCHANGED <<svars, pvars, avars, dvars>>
     \/ /\ part = "panes" /\ PanesNext
        /\ UNCHANGED <<svars, rvars, avars, dvars>>
     \/ /\ \/ part = "menu" /\ MenuNext
           \/ part = "launch" /\ LaunchNext
        /\ UNCHANGED <<svars, rvars, pvars, dvars>>
     \/ /\ \/ part = "history" /\ HistoryNext
           \/ part = "drain" /\ DrainNext
           \/ part = "wheel" /\ WheelNext
           \/ part = "page" /\ PageNext
           \/ part = "form" /\ FormNext
        /\ UNCHANGED <<svars, rvars, pvars, avars>>

\* The fairness of a shutdown: both threads run and the kernel finishes an exit.
OwnerSpec ==
  /\ OwnerInit /\ [][OwnerNext]_ovars
  /\ WF_svars(part = "shutdown" /\ Pump)
  /\ WF_svars(part = "shutdown" /\ Shutdown)
  /\ WF_svars(part = "shutdown" /\ ChildGone)

-----------------------------------------------------------------------------
OwnerTypeOK ==
  /\ ShutdownTypeOK /\ PanesTypeOK
  /\ RebuildTypeOK

\* Ending a host: the reader outlives the child, and only a reply nobody reads can
\* keep a shutdown from returning.
ShutdownHolds == [](part = "shutdown" => ReaderOutlivesChild) /\ OnlyRepliesBlock

\* Rebuilding a renderer: the theme is kept, what succeeded is in force everywhere,
\* and an answer of the C interface can be believed.
RebuildsHold == PaletteHolds /\ CommittedTogether /\ AbiAnswersHold
=============================================================================
