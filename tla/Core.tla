-------------------------------- MODULE Core --------------------------------
(* The parts of the terminal core (src/crates/core) that keep their state to
   themselves, under one next-state relation: the modes and reports, the style
   table, the pictures, their decoders, the page the selections and the
   rectangles work on, the scrollback, and the C ABI over them all. Terminal
   owns them and one byte stream drives them; no part reads another's state, so
   a behaviour moves the one it was begun in. *)
EXTENDS Modes, Graphics, Pictures, Text, History, Abi

VARIABLE part
cvars == <<part, tvars, svars, gvars, pvars, xvars, hvars, bvars>>

\* A part that does not move stands at one of its beginnings.
CoreInit ==
  /\ part \in {"modes", "styles", "graphics", "pictures", "text", "history", "abi"}
  /\ ModesInit    /\ (part # "modes" => scene = CHOOSE s \in Scenes : TRUE)
  /\ StylesInit
  /\ GraphicsInit /\ (part # "graphics" => album = CHOOSE a \in Albums : TRUE)
  /\ PicturesInit /\ (part # "pictures" => sixel = NewDecoder)
  /\ TextInit     /\ (part # "text" => book = CHOOSE b \in Pages : TRUE)
  /\ HistoryInit  /\ (part # "history" => past = NewHistory(CHOOSE c \in Widths : TRUE, 0))
  /\ AbiInit

CoreNext ==
  /\ UNCHANGED part
  /\ \/ part = "modes"    /\ ModesNext    /\ UNCHANGED <<svars, gvars, pvars, xvars, hvars, bvars>>
     \/ part = "styles"   /\ StylesNext   /\ UNCHANGED <<tvars, gvars, pvars, xvars, hvars, bvars>>
     \/ part = "graphics" /\ GraphicsNext /\ UNCHANGED <<tvars, svars, pvars, xvars, hvars, bvars>>
     \/ part = "pictures" /\ PicturesNext /\ UNCHANGED <<tvars, svars, gvars, xvars, hvars, bvars>>
     \/ part = "text"     /\ Stroke       /\ UNCHANGED <<tvars, svars, gvars, pvars, hvars, bvars>>
     \/ part = "history"  /\ HistoryNext  /\ UNCHANGED <<tvars, svars, gvars, pvars, xvars, bvars>>
     \/ part = "abi"      /\ AbiNext      /\ UNCHANGED <<tvars, svars, gvars, pvars, xvars, hvars>>

CoreSpec == CoreInit /\ [][CoreNext]_cvars

-----------------------------------------------------------------------------
(* Properties: those of the parts, each while its part moves.               *)

\* Cursors, regions and margins stay inside the screen and the stacks inside
\* their caps; the child neither outgrows the frame channel nor reads back what
\* the embedder has not granted (child_resize, reports_enabled).
CoreTypeOK == part = "modes" => ModesTypeOK /\ GrantsHold

\* What the terminal answers is what would make it so again (replies.rs).
AnswersRestore == part = "modes" => ReportsRestore

\* 1049h and 1049l give the shell its screen back (switch_screen).
ScreenComesBack == part = "modes" => ShellComesBack

\* A cell keeps the style it was written with (compact_styles).
StylesKept == part = "styles" => CellsKeepTheirStyle

\* The pictures the embedder holds are the core's, whole and within the budget;
\* what is drawn incrementally is what a full redraw draws; a sixel string and
\* a row of placeholders decode to what they say (graphics_transmit,
\* graphics_finalize, graphics_delete, poll_impl).
PicturesHold ==
  /\ part = "graphics" => BudgetIsTheStore /\ ChunksAssemble /\ PicturesAsFullRedraw
  /\ part = "pictures" => PicturesDecode

\* A word and a line are the same wherever they are clicked, and a rectangle
\* operation stays inside its rectangle (select_word, copy_rect).
TextHolds == [](part = "text" => SelectionsAgree) /\ RectanglesKeepTo

\* However the scrollback is paged, pruned and relaid by a resize, it is the
\* newest rows that left the screen, and its windows and prompts are those of
\* that sequence: it implements Scrollback (History, Page).
HistoryHolds == [](part = "history" => ScrollbackReads /\ JumpsLandOnPrompts) /\ KeepsPromise

\* Through the C ABI a reference reads what it was minted at until the next
\* write, and a reader's snapshot is the core's (exports.rs).
AbiHolds == part = "abi" => ReferencesHold /\ SnapshotsHold
=============================================================================
