# A verification development for mind2t

mind2t is a terminal engine written in Rust: an escape-sequence parser, a terminal core, a
pseudoterminal host, a lock-free frame channel, a renderer, and two surfaces over them (a Rust
`Session` and a C ABI). This directory holds TLA+ modules translated from that source, the TLC
configurations that check them on small instances, and theorems that TLAPS checks for every value
of their constants. `PROJECT.json` ties every definition to the lines it models, every property to
the run that checks it and to a mutation of the code model that breaks it, and every hazard to the
properties that would catch it.

## 1. The system and its parts

Bytes travel one way and calls the other:

    child -> pty -> pump thread: parser -> terminal core -> publisher -> frame channel
                                                                           |
    owner thread: Session / C ABI  <- renderer <- frame  <-- reader -------+
         |  resize, scroll, jump mailboxes; input written straight to the pty
         +------------------------------------------------------> pump thread

The **pump thread** (`crates/pty/src/host.rs`) owns the terminal. The **owner thread** (a GUI)
holds a `Host` handle and a frame reader. They share the frame channel, three atomic mailboxes, a
stop flag, an event queue and an image store, and nothing else.

| Part | State | Operations | What makes it correct |
|---|---|---|---|
| Frame channel, `frame/seqlock.rs` | a generation counter, the payload words | `publish` (a fill that may panic), `read_into` | a reader draws only frames that were published whole, in order, and ends up with the last one |
| Publisher, `frame/publish.rs`, `frame.rs` | last offset, row stamps, the frame's tables | `publish_scrolled`, `row_is_stale`, packing of words | damage outlives the frame that reported it; a refused publish owes its damage; what is packed reads back |
| Renderer repaint, `render/renderer.rs`, `host/session.rs` | the drawn generation, the surface | `poll`, `draw`, selection, resize | painting stale rows shows what a full redraw would |
| Text of a row, `frame/bidi.rs`, `packed.rs`, `frame.rs`, `render/renderer.rs` | none | reorder, mirror, cut into runs, find a caret | every cell is painted once, at the column the columns' maps give it |
| Pixels and windows, `render/canvas.rs`, `gpu.rs`, `present.rs` | a canvas or a log of calls, a swapchain | fill, blend, image, flush, present | both back ends draw alike; a window shows its panes; a lost swapchain loses nothing |
| Pump, `pty/host.rs` | terminal, viewport offset and anchor, synchronized-output clock | mailboxes, read, timeout, publish | the view stays on its content and in the history; held output is shown; a frame owed is published |
| Host lifecycle, `pty/host.rs` | child, stop flag, pump handle | `spawn`, `send`, `resize`, `shutdown` | shutdown returns; the reader outlives the child |
| Renderer rebuild, `host/session.rs`, `host/lib.rs` | grid, font size, palette, ligature switch | `resize`, `set_font_size`, `set_palette`, `set_ligatures` | settings survive a rebuild; an answer says what is in force |
| Terminal core, rows: `core/screen.rs`, `grid.rs`, `reflow.rs`, `resize.rs` | rows, cursor, region, margins | print, edit, scroll, erase, resize | text stays together through wraps and reflows; changes are damaged; bands fence |
| Terminal core, modes: `core/terminal.rs`, `dispatch.rs`, `replies.rs`, `kitty_keys.rs`, `tabs.rs`, `style.rs` | modes, saved modes, pens, colours, titles, links, tabs, key flags | one per control function; reports | what a report says restores it; the shell's screen comes back |
| Terminal core, pictures: `core/graphics.rs`, `sixel.rs`, `frame/placeholder.rs` | images, placements, virtual ones, pending chunks | transmit, place, delete, scroll | the budget is what is stored; what is drawn is what a full redraw of the model would |
| Terminal core, text: `core/selection.rs`, `rect.rs`, `semantic.rs` | none of their own | word, line, all, format; fill, erase, copy; OSC 133 | a rectangle changes nothing outside itself |
| Scrollback, `core/history.rs`, `page.rs` | a queue of pages, each with its styles | push, prune, drain, window, prompts | it reads as one sequence of rows |
| Parser, `vte/lib.rs` | state, parameters, intermediates, OSC buffer, partial character | one per byte class | reads cut anywhere parse alike; no buffer is passed |
| Encoders and pointer, `pty/key.rs`, `mouse.rs`, `paste.rs`, `host/pointer.rs` | buttons down, last cell | keys, buttons, motion, wheel, pastes | what reaches the child reads back as what was done; nothing stays pressed |
| Canvas and layout, `host/canvas.rs`, `layout.rs` | a tree of panes, the focus | split, close, focus, zoom, resize | panes tile the canvas; a pane knows its size; a refused split changes nothing |
| Agents and launching, `host/agent.rs`, `launch.rs` | a cache of what is installed, a job being started | resolve, guard, start, retry | one agent at a time; every child is dressed; what runs has proven itself |
| The desk, `host/suggest.rs`, `workflow.rs`, `config.rs`, `wheel.rs`, `scrollback.rs` | command history and its file, pending events, settings, wheel remainder | append, suggest, save, drain, render, apply | the file is a save; an event is drained once; nothing is half applied |
| Drop-in C ABI, `abi/*`, `ghostty/*`, `snapshot/difference.rs` | a cached view | reads, writes, grid references, comparison | a reference reads the cell it names; equal snapshots differ nowhere |
| Fonts, clipboard, test instruments, markdown, Swift host, web panels | | | not modelled, section 8 |

Hard behaviours, by kind: the seqlock's weak memory and its panicking writer; frames skipped or
torn between two polls while damage accumulates; owner calls at any point of the pump's loop; a
clock that races a closing escape; a child that exits with output unread, or that stops reading
while the pump owes it a reply; a rebuild or a split that fails half way; counters that a screen
switch or a reflow moves; bounded queues in a row; reads that end inside a character or a sequence;
ids that a compaction renumbers while something holds the old ones; a crash between two writes of a
file; an agent that dies while it is being waited for.

## 2. Modules

| Module | Models | Composes with |
|---|---|---|
| `FrameHandoff` | the abstract promise of the frame channel: a mailbox that keeps the newest frame | implemented by `FrameChannel` |
| `FrameChannel` | `frame/seqlock.rs`, every atomic access of both sides, under a weak memory | |
| `FrameRepaint` | core damage, publisher, session and renderer as one pipeline | uses the channel as `FrameHandoff` promises it |
| `Visual` | the words a frame packs, the order a row is read and painted in, underlines, carets | |
| `Surface` | the two back ends, windows, panes on a window, block mosaics | |
| `Drawing` | rows, line and surface | `FrameRepaint`, `Visual`, `Surface` |
| `PumpTerminal` | the terminal core as far as the pump looks at it | used by `PtyPump` |
| `PtyPump` | the pump's loop, the owner's mailboxes, the child, the clock | extends `PumpTerminal` |
| `Reflow` | `core/reflow.rs` and `split.rs`: rows joined into lines and cut at another width | |
| `Screen` | one screen buffer of the core: printing, moving, scrolling, erasing, inserting, deleting, resizing | extends `Reflow` |
| `Parser` | the machine of `vte/lib.rs` over bytes | |
| `Keyboard` | the key encoder in its three protocols, and a child that reads it | |
| `Mouse` | pointer, mouse reports, wheel, and a child that reads them | |
| `Wire` | both directions of the pty, pastes included | `Parser`, `Keyboard`, `Mouse` |
| `Pen` | styles, the pen, the style table and its compaction | |
| `FlagStack` | the abstract stack of key flags | implemented by `Modes` |
| `Modes` | modes, colours, titles, links, tabs, margins, screens, reports | extends `Pen` |
| `Graphics` | kitty pictures from the child to the glass | |
| `Pictures` | the sixel decoder, the placeholder decoder | |
| `Text` | selections, rectangles, prompt marks | |
| `Scrollback` | the abstract scrollback: one sequence of rows | implemented by `History` |
| `History` | pages, their style tables, the budget, resizes, windows, prompt jumps | |
| `Abi` | the C ABI's cached view, references and packing; the comparison of snapshots | |
| `Core` | the core's parts side by side | `Modes`, `Graphics`, `Pictures`, `Text`, `History`, `Abi` |
| `PtyShutdown` | `Host::shutdown`, `send` and the reply path around the tty's two queues | |
| `Rebuild` | the renderer rebuilds of `Session` and of the C ABI | |
| `Panes` | canvas and layout | |
| `Agents` | detection, guard, starting and retrying, dressing a child | |
| `Desk` | command history, events, workflows, configuration, wheel, paging | |
| `Owner` | what the owning thread does | `PtyShutdown`, `Rebuild`, `Panes`, `Agents`, `Desk` |
| `Climbing` | induction over numbers, stated with sets | used by the proofs below |
| `FrameChannelProofs`, `DrawingProofs` | theorems about the channel; the repaint and the back ends | extend `FrameChannel`, `Drawing` |
| `PumpProofs` | what a read does to the terminal; theorems about the pump | extends `PtyPump` |
| `WireProofs` | theorems about the parser and the reads that feed it, pastes, keys and pointer and the child that reads them | extends `Wire` |
| `CoreProofs` | theorems about modes, margins, stacks and the style table | extends `Core` |
| `AbiProofs` | packing and reading back, a reader's snapshot, what a comparison tells; theorems about the C ABI | extends `Core` |
| `OwnerProofs` | what a re-tiling, a split and a close leave; theorems about the owner | extends `Owner` |
| `MC*` | small sets of values for TLC | |

`Drawing`, `Wire`, `Core` and `Owner` put components side by side. Their parts share no state in
the code either (a call into one returns before a call into another begins), so a variable `part`
says which one a behaviour moves, and the product is not explored for nothing. Where components
do interact they are one module: damage, publisher, session and renderer in `FrameRepaint`; the core's
placements, the pump's image store, the frame and the renderer's cache in `Graphics`; owner, pump,
child and clock in `PtyPump`; owner, pump, child and kernel queues in `PtyShutdown`; person, encoder
and child in `Keyboard` and `Mouse`; what is fenced and what the parser then reads in `Wire`.

A definition whose name describes a plausible bug (`EdgeLate`, `SaveInPlace`, `ResetButIgnoring`, ...)
is a mutated form. It is part of no behaviour; it stands before the definition it resembles, and a
property must fail when it takes that definition's place. Section 4 lists which one breaks what.

### FrameChannel

One writer, any number of readers. `hist` is the modification history of every payload word and
`view` what each thread has been shown of it: a relaxed load may return any entry not older than
its view, a release fence publishes the writer's view with the next counter store, an acquire
fence joins it. `BeginPublish`, `StoreWord`, `EndPublish` and `PanicFill` are the steps of
`FrameWriter::publish`; `ReadBegin`, `ReadWord`, `AcquireFence` and `ReadCheck` those of
`FrameReader::read_into`. A payload word is the number of the publish that wrote it, so a frame is
torn exactly when two of its words differ. The counter is unbounded here: the code's `u64` would
wrap after centuries of publishing.

### Drawing: FrameRepaint, Visual, Surface

In `FrameRepaint` publishing and reading are single steps, because `FrameChannel` shows the channel
hands over whole frames in order or nothing. A row is an opaque text; the terminal's handlers are
reduced to what each marks as damaged. `Publish` turns damage into row stamps, `Poll` reads one of:
the newest frame, nothing new, a copy overtaken half way.

`Visual` is one line of cells. A character is the little the code asks of it (its direction, its
width, whether it is ASCII, mirrored or box drawing); segments and their reordering follow `bidi.rs`,
the columns' maps `visual_column` and `logical_column`, runs, plans, paints and carets the renderer.
A word that crosses the channel is the set of its bits that are on, so all 64 keep their places. The
resolution of embedding levels is a library's: the module gives it for the few characters there are. `Surface` has pixels of four bytes: a call on the CPU canvas paints at
once, a call on the GPU canvas is recorded with the bytes it needs and painted at a flush. The
abstract statement is that both show the same (`BackendsAgree`); panes, dividers, a swapchain that is
lost, outdated or of another format are on top of it. The block mosaics are in the module too and
are checked once, with the other statements that do not depend on the line (`OnceHolds`).

### PumpTerminal and PtyPump

A row is the number of the line of output that made it. `PumpTerminal` gives each kind of output
(a line, a batch opened or closed, a screen switch, ED 3, DECCOLM, RIS, an event) its effect on
rows, scrollback, the pushed counter and the batch flag. `PtyPump` cuts the loop body where other
threads can act: `PumpResize`, `PumpScroll`, `PumpJump`, then one of `PumpTimeout`, `PumpRead`,
`PumpEof`, `PumpInterrupted`. `age` is what the code measures (`sync_since`), `batchAge` how long
the open batch has really been open; `Clock` moves both. `wiped` numbers the last event a full reset
threw away with the read that made it. `ColumnsKept` and `BatchesApart` are conditions on a session,
under which the view is meant to stay and a batch to keep its own clock (section 5). Replies are in `PtyShutdown` (they can
block), the image store in `Graphics`.

### Reflow and Screen

A cell is what it shows, the number of the print that put it there or 0, and its part in a
character: narrow, wide, the tail of a wide one, or the spacer head left where a wide one did not
fit. A row is its cells and the two flags that say whether it wraps and whether it continues the
row above. `Reflow` has no state: `ResizeRows` follows `resize_rows`, a fold over the logical lines
that takes the cursor and the saved cursor along, and `Split` is the fold over one line's cells.

In `Screen` the operations of `Screen`, `Grid` and the printing path of `State` are operators from
screen to screen, composed as the code composes them, and each control sequence is an action that
applies one of them. The field `marked` collects the rows an operation damages, from a clean slate
each time. `printed` numbers the characters, `left` is the budget, and `run` is the characters
printed with nothing but resizes in between; these three are the model's own.

### Wire: Parser, Keyboard, Mouse, pastes

`Parser` is fed bytes in reads that end anywhere. Each `Advance...` operator is one `advance_*` of the
code with its whole table; what the performer is called with is the log `out`. A character cut by
the end of a read waits in `partial`. `Keyboard` presses, repeats and releases the keys of a desk
with every set of modifiers; the host's event, the encoder's choice and the child's reading of the
bytes are operators of one step. `Mouse` does the same for buttons, motion, the wheel and their
reports in every format. `PasteEncode` is read back by `Parser` in `PasteStaysInside`.

### Core: Modes with Pen, Graphics, Pictures, Text, History, Abi

Each part has a record of its own state and one alternative of its next-state relation per control
function, called with what the parser would dispatch. `Modes` also answers: what a query returns is
appended to `replies`, and `ReportsRestore` feeds it back as commands. Key flags are a ring in the code; the
module instantiates `FlagStack` once for each screen and shows the ring to be that stack. `History`
keeps pages as the code does and instantiates `Scrollback`, which knows neither pages nor style ids.
`Graphics` follows a picture to the glass: chunks, store, placements with their scrolls and prunes,
the embedder's operations, the frame's slots, the renderer's image cache and its incremental blit.
`Abi` takes the core as external: a write leaves it at any of a few contents.

### Owner: PtyShutdown, Rebuild, Panes, Agents, Desk

`PtyShutdown` has the owner, the pump, the child and its helpers around the tty's output and input
queues. The kernel's half is external: a child that exits waits for its output to be drained, a
write to a full input queue waits for room or for the last holder of the other side to close it.
In `Rebuild` a grid is its column count, a font size the width of a column; each call is one action
whose alternatives are its outcomes in the order the code takes them. `Panes` is the tree with its
rectangles, and what each pane's child, renderer and pointer were told. `Agents` has the machine (what
may be installed, when), the cache with its two lifetimes, and one job that is spawned, watched
through its grace and retried. `Desk` has the history with its file, written beside and renamed, and
a crash between any two of these; the events a window peeks and then takes; templates and settings.

## 3. Runs

| Run | Asks | Bounds |
|---|---|---|
| `channel` | no torn frame, parity of the counter, refinement of `FrameHandoff`, the last frame arrives | 2 words, 1 reader, 3 publishes, 1 panic |
| `drawing` | text and highlight equal a full redraw, damage is owed; carets and highlights follow reordered text, packed words come back; the back ends agree and a window shows what was drawn | 2 rows, 2 texts, history of 1, set-ups that give up height, publishes, history or highlights for one another; lines of 4 cells over 9 inks and 2 looks; 3 pixels, 2 panes, 2 paints, 3 window calls |
| `repaint_caret` | *violated*: the caret equals a full redraw | 2 columns |
| `pump` | the frame is current and its offset in the history, the view stays pinned and jumps land, half-drawn batches only past the budget, events in order, output shown, resizes arrive | heights 1 and 2, history of 3, queues of 2, a budget of 2 ticks; three sessions: 4 reads with 2 owner calls; 4 reads with batches, bells and DECCOLM; 3 reads with batches and 1 call |
| `pump_exit` | *violated*: the child's last output is shown | 3 reads |
| `shutdown_replies` | *violated*: a shutdown returns | queues of 2 |
| `rebuild_ligatures` | *violated*: ligatures survive | 6 grids, 4 sizes, 3 widths, capacity 4 |
| `screen` | text stays together through wraps and reflows, nothing is copied, changes are damaged, both cursors ride with their cell, region and margins fence | 2 or 3 columns and rows, history of 2, counts 1 and 3; 6 prints and 3 resizes, or up to 3 edits among up to 3 prints and 2 resizes |
| `screen_erase` | *violated*: after ED 2 no row of the screen wraps into the next | 3 prints, 1 edit |
| `wire` | reads cut anywhere parse alike, ESC resynchronises, a paste stays inside its fences, keys and reports read back, nothing stays pressed | text of 5 bytes in reads of up to 4, CSI and OSC of 7, APC and DCS of 6; 2 intermediates, 2 parameters up to 255, 2 OSC fields; every key with every modifier, then 3 keys at a time; 2 pane geometries, 4 positions, every mouse mode |
| `core` | reports restore, the shell's screen comes back, cells keep their styles, pictures and their budget, references, key flags are a stack, selections and rectangles, the scrollback is a sequence | scenes and albums of 3 to 5 commands, a picture budget of 16 bytes, 4 sixel strokes, 3 by 3 pages with up to 8 operations, pages of 2 rows, budgets 0 and 3, 6 rows pushed, 7 contents behind the ABI |
| `owner` | shutdown, rebuild, panes, agents and the desk hold | queues of 2 with helpers; 6 grids, 4 sizes; 3 areas, 4 panes, 4 canvas calls; 2 agents that share a binary, a clock of 6, 2 children; a history of 2 with 3 appends, 3 events, 3 wheel turns |

Why the bounds are enough. Two payload words are what a tear needs, and three publishes let a
reader be overtaken during its copy and once more before it checks; one panic leaves the counter
odd once, and the next publish starts from there. Two rows separate a stale one from a fresh one,
three publishes let one be missed between two that are drawn. Four cells hold a wide character with
neighbours on both sides of a change of direction. In the pump a history of three with four reads
prunes, is cleared and grows again under a scrolled view; two owner calls meet in every order at
every point of the loop, and a budget of two ticks separates the held batch, the expired one and the
one just reopened. Queues of two fill, overflow and drain. Wide characters do and do not fit in two
and three columns, a region or a pair of margins can be smaller than three rows or columns and still
hold a scroll, six prints wrap twice and push rows into a history that two rows fill, and three edits
set a region or margins, place the cursor and act. A parser with two intermediates, parameters and
fields is past each of its buffers within the lengths read, and a character of four bytes is cut in
every way. A page of two rows is passed, pruned and crossed by a window; a budget of 16 bytes is
filled by a few pictures of four to eight; four panes are a split of a split beside another. The kinds
of commands in a scene are all those of the component, a scene per group that can interfere. Bounds
on calls, reads and publishes only stop the exploration; no guard of the code depends on them.

Deadlock is checked in `channel`, `repaint_caret` and `rebuild_ligatures`. The others switch it off:
a pump whose child has gone and an owner that has returned rightly stop, and the rest stop when their
budget of operations is spent.

## 4. What a property says and what breaks it

A run's property is often a conjunction of statements about one component, each with a comment at its
definition. Besides the mutation `PROJECT.json` lists for it, every part is broken by a mutated form
of its own:

| Property | Parts | Broken by |
|---|---|---|
| `CaretsHold` | `LineHolds`, `WordsComeBack`, `TablesComeBack`, `HighlightsHold`, `UnderlinesHold`, `MosaicsMeet` | `SkipsAnyBase`, `FloorPast`, `FrameLinkAlways`, `SpanOnUnclamped`, `UnderlineTopBare`, `SextantBare` |
| `PixelsHold` | `BackendsAgree`, `WindowTrue`, `ReadsTrue`, `LogRetired`, `NoCopyBack`, `NothingLost` | `BlitLast`, `ResizedKeepingViews`, `FlushKeepingLog` |
| `DamageIsOwed`, `TextIsFullRedraw` | | `LineFeedMarksBottom`; `WhollyForgetsMove`, `RowChangedLast` |
| `FrameIsCurrent` | the offset is in the history, the frame is the terminal's | `PumpResizeQuietly` |
| `ViewFollows` | `ViewPinned`, `JumpLandsOnPrompt` | `PromptOffsetsFromZero` |
| `PumpServes` | `OutputShown`, `ResizeArrives` | `PumpTimeoutOnlyHeld` |
| `EditsKeepTo` | `NothingCopied`, `BandFence` | `ShiftRowsWhole`, `WrapLineFirstColumn` |
| `ResizeKeeps` | `ResizeKeepsText`, `AnchorsRide` | `IsBlankTails` |
| `DamageCoversChange` | | `ShiftRowsMarksBlank` |
| `BytesReadOnce` | `ReadsAgree`, `EscapeResynchronises` | `ResetButIgnoring` |
| `InputTold` | `KeysReadBack`, `NoKeyStuck`, `NoButtonStuck`, `MotionIsTold` | `KittyReleasesAll`, `DropsOutside`, `RepeatsColumn` |
| `CoreTypeOK`, `AnswersRestore` | `ModesTypeOK`, `GrantsHold`; `ReportsRestore` | `SetScrollRegionPast`; `SgrReportShort` |
| `PicturesHold` | `BudgetIsTheStore`, `ChunksAssemble`, `PicturesAsFullRedraw`, `PicturesDecode` | `DeleteUnmarked`, `ContinuesAny`, `ExtendsAnywhere`, `GrowInPlace` |
| `TextHolds` | `SelectionsAgree`, `RectanglesKeepTo` | `SelectWordThroughBreaks` |
| `HistoryHolds` | `ScrollbackReads`, `JumpsLandOnPrompts`, `KeepsPromise` | `PagePushTextOnly` |
| `AbiHolds` | `ReferencesHold`, `SnapshotsHold` | `TerminalResizeLazy`, `DiffColorsNamed` |
| `ShutdownHolds` | `ReaderOutlivesChild`, `OnlyRepliesBlock` | `PumpIgnoresStop` |
| `RebuildsHold` | `PaletteHolds`, `CommittedTogether`, `AbiAnswersHold` | `SetFontSizeKeepsGrid`, `AbiResizeSkipsSame` |
| `PanesHold` | `EveryPixelOnce`, `PaneKnowsItsSize`, `RefusedSplitKeeps`, `ExitedAreClosed` | `SplitMovingFirst`, `ListedForward` |
| `LaunchesHold` | `OneAgentAtATime`, `GuardIsExact`, `EveryChildDressed`, `NoneLeft`, `RunningIsProven`, `ResolveIsRecent` | `ScreenOneWord`, `ApplyCwdFirst`, `VerdictHasty`, `RetryKeeping` |
| `DeskHolds` | `FileIsASave`, `NewestIsKept`, `HereIsSuggested`, `DrainedExactlyOnce`, `RemainderIsCarried`, `PagesOverlap`, `RendersAtOnce`, `NothingHalfApplied`, `HistorySurvives` | `SaveInPlace`, `AppendNewestDropped`, `SuggestHereOnly`, `NextEventPopping`, `RowsForgetting`, `FullPage`, `PutFirst`, `ApplyThemeAsRead`, `LoadDirStopping` |

Refinements: `FrameChannel` implements `FrameHandoff` (`HandoffSpec`), the key-flag rings of `Modes`
implement `FlagStack` twice (`KeyFlagsStack`), `History` implements `Scrollback` (`KeepsPromise`, its
initial state and steps), the logged back end draws what the immediate one does (`BackendsAgree`), and
the incremental repaint what a full one does (`TextIsFullRedraw`, `PicturesAsFullRedraw`).

### Fairness

- `FrameChannel`: the writer finishes a publish it began, and a reader keeps polling. A caller that
  never polls sees nothing, as in the code. Nothing makes the writer publish.
- `PtyPump`: weak fairness of the mailbox steps and of the clock (a runnable thread runs, time
  passes), strong fairness of the poll's outcomes, because an interrupted `poll` or `read` restarts
  the loop and only infinitely many interruptions in a row could keep it from ever completing.
  Nothing makes the child print or exit, or the owner call.
- `PtyShutdown` and `Owner`: weak fairness of the two threads of a shutdown and of the kernel's
  completion of an exit it can complete. The child need not read: that is the point of
  `shutdown_replies`, and what `OnlyRepliesBlock` leaves as the one excuse.

The other components are driven by calls; nothing in them must happen by itself.

## 5. What is proved

`FrameChannelProofs`, for any number of readers, words, publishes and panics:

- `TypeCorrect`: the type invariant.
- `ChannelInvariant`: the inductive invariant. It says what a copied word can be at each point of
  the copy: the entry the committed publish wrote, or an entry of a later publish, in which case
  the reader's view already holds, or its acquire fence will bring, a counter value newer than the
  one it began with. The type invariant and "the frame is whole" are not inductive: nothing in them
  says why a reader that met a new word must then fail its check.
- `NoTornFrame`: a frame a reader may draw is word for word one published frame.
- `ParityTheorem`: an even counter always means a finished publish, panicking fills included.
- `ImplementsHandoff`: `FrameChannel` implements `FrameHandoff` step by step.

`DrawingProofs`, for any texts, heights, channel capacities, histories, highlights and number of
frames, over the specification the `drawing` run checks:

- `RepaintInvariant`: the inductive invariant, three statements and the types. `DamageIsOwed`: a row
  the terminal has not marked says what the newest frame says. `HeldFrameAges`: a row whose stamp is
  not newer than the frame the session holds says in the newest frame what it said in that one.
  `CanvasAges`: nor does what is painted of it differ. None is inductive alone: a publish leaves a
  row unstamped because of the first, a torn or missed frame is survived because of the second, a
  poll paints stale rows only because of the third.
- `TypesHold`, `DamageTheorem`, `RedrawTheorem`: the type invariant, and that painting stale rows shows
  the text and the highlight a full redraw would.
- `SurfaceInvariant`, `PixelsAlwaysHold`, for any surface, calls, windows, layouts and colours: the two back
  ends draw alike and a window shows what was drawn. "They agree when flushed" is not inductive; that the
  pixels kept, the log and its bytes stand for the canvas's picture is, with every operation's bytes inside
  the buffer. A call behind it moves no byte of it, and an image begins on a whole word, or its texels would
  be read across two. A present flushes first, so what it blits is the canvas's; which pane a pixel shows is
  the last that covers it, which a fold over panes computes and `LastWins` says.

`PumpProofs`, for any sessions (what the child prints in a read, how often the owner
calls), screen heights, scrollback, prompts, wheel steps, time budget and queue lengths:

- `PumpInvariant` and `PumpTypeCorrect`: the types, the offset within the history, and what neither the
  types nor the offset say: the terminal's rows rise, and the pump computed its offset against the counter
  of pushed rows the terminal has now (`ViewOK`). Without the last a read could slide the view by rows it
  had counted already.
- `FramesCurrent`: whenever the pump waits outside a batch the newest frame is the terminal at the pump's
  offset. `EventsDelivered`: order, no duplicates, the newest kept. The inductive form speaks of the two
  queues as one sequence together with what the terminal still holds (`Delivered`).
- `JumpsLand`: a prompt jump lands on a prompt, in its direction, or does nothing.
- `ViewsPinned`, `ViewsFollow`: a scrolled view stays on its content, if `ColumnsKept`: DECCOLM pushes the
  drained rows again, `total_pushed` counts them twice, and the view does move (section 7).
- `HalfDrawnOnBudget`: output shows a batch half drawn only when the batch has been open for the whole
  budget, if `BatchesApart`: no read closes one batch and opens another, and no resize ends one, because the
  two would share `sync_since` (section 7). The invariant is that the gate's clock is never ahead of the
  batch's (`Clocks`).

The sessions the `pump` run checks meet both conditions; they hold of a child that leaves mode 40 alone
and opens one batch a frame, which is what the mode is for.

A read is a fold over outputs whose number is not bounded. What it keeps is proved for one output and
carried over every prefix (`After`) by `Climbs`, which is induction stated with a set of numbers where
the library's is stated with an operator. The same is done for a re-tiling (`Moved`), for the panes a
closing loop lists and closes (`Listed`, `ClosedInTurn`), and for lists of modes and colours (below).

`OwnerProofs`, for any grids, sizes, themes, queue lengths, areas, fonts, gutter, number
of panes, registry of agents, argument vectors and times:

- `RebuildsAlwaysHold`: the theme outlives every rebuild, a successful rebuild leaves pty, session and
  renderer agreed, the C ABI's answers can be believed. With the types of the renderer it is inductive:
  the types carry that a fitted grid is within the capacity the pty accepts.
- `ShutdownInvariant` and `ReaderAlwaysOutlives`: the pump drains the child until it is gone or given
  up. The inductive part is why: the pump leaves its loop only after it saw the pty closed or was told
  to stop, and it is told only after the child was reaped or abandoned.
- `PanesInvariant` and `PanesAlwaysHold`: the invariant is that there is one sound pane for every cell, with
  an id of its own, that every running child is in one of them, and that after a layout call that answered
  ok each pane is where the layout has it. That every pixel is in one pane or one divider follows by axes:
  the columns' spans and the gutters between them cut the width, the rows' the height, and a cell is a pair
  of spans. A refused split keeps the canvas because every floor is asked before anything moves, and the exited
  panes are closed from the last on because a close renumbers what stands behind it.
- `AgentsInvariant` and `LaunchesAlwaysHold`: at each phase of a launch, which children it has shut (all
  while it backs off, all but the one it watches otherwise), and what its notes of that one mean (noted
  output was output, and not earlier); a remembered answer was true when it was noted; a refused vector
  is one the guard names. From these: one agent of a launch at a time, none left by a failed one, a
  success proven by its child, an exact guard, every child dressed, resolves no older than promised.
- `OwnerTypesCorrect`: the types of all three.

`CoreProofs`, for any screens, commands, sizes, parameter lists and caps:

- `ModesInvariant`, `ModesTypesCorrect`, `ShellHasItsScreen`: the types of the modes, margins, stacks,
  palettes and hyperlinks hold through every command, and the shell's screen comes back. Inductive with the
  types is `Behind`: a screen left by `CSI ? 1049 h` either waits or is back, whatever the application did
  to margins, cursor and modes meanwhile; and what a report may answer is the embedder's grant.
- `KeyFlagsImplement`: the ring of `keyboard.rs` implements a bounded stack of flags, step by step, its
  index wrapping at any depth.
- `CellsShowTheirStyle`: under `TableHasRoom`, and until a wrapped blank goes stale, every cell shows the
  style it was written with. The inductive part: every cell's id is in the table and is its meant style's.
  A compaction renames ids while it drops those no cell holds; the lemmas say that it renames them one to
  one and that the table then has room for a style per cell. `TableHasRoom` says that the ids outnumber the cells by two: with
  `u16` ids a grid of 65535 cells or more has none to spare, and there the exhaustion `style.rs:43` calls
  unreachable in practice can be reached (section 7).

`WireProofs`, for any bytes in any reads, any sizes of the parser's buffers, any desks (layouts, modifiers, key
tables), key flags and modes, buttons, cells and geometries:

- `ParserInvariant`: the parser's state has the shape its next byte needs: counts that agree with the parameters kept, no
  sequence and no OSC begun in the ground state, a character cut short only there and with nothing left to read.
  And, until a character's end is tangled with the byte after it, it is a state of the one read of everything so far
  (`OneRead`).
- `BytesAlwaysReadOnce`: the inductive step is two parsers side by side. Two are *alike* when they differ only in
  what is left to read and in what was performed before; a lemma for each operation of the machine, then for each state's table,
  says that alike parsers with the same next byte do the same and stay alike. Text is where it is hard: what a
  read leaves of a character must be the beginning of what the next read completes, whatever its length and validity
  (`Utf8Extends`, `ValidSays`), and the bytes a resumed character takes must be those a single read would
  have taken (`ResumeRight`). From it follows that a run on the bytes after the last ESC is alike to the run on
  all of them once each has taken the ESC, since ESC resets what a sequence collected (`EscapeAlone`).
- `PastesStayInside`: byte by byte through the fence, then the text up to the next ESC, which is the closing fence
  because `Strip` holds ESC; it needs `MaxParam > 200`, as any `u16` gives (`WireAssumption`).
- `WireTypesCorrect`: the types of all three parts, the bounds of the buffers of `vte/lib.rs` and `params.rs` among them.
- `InputInvariant` and `InputAlwaysTold`: what the child takes for held is held, or the release was lost where
  the code sends none (`HeldOK`): without the flag that reports events the child is told of presses alone, and Enter, Tab
  and Backspace keep their legacy form. That the child reads a key as what it was goes through every field of
  the encoding: the key's number against the layout's, the modifiers' sum of powers of two read back bit by bit,
  the event's digit left out when it is a press. For the pointer the invariant ties the last cell told, the
  buttons the child holds down and the mode that lets a motion through.

`AbiProofs`, for any contents of the core, any hash of a style and any limits:

- `AbiInvariant`: the cache is empty or the core's snapshot of this moment, and a live reference stands
  where the cache has the cell and the row it was minted at. That no answer is from before a write is
  not inductive by itself: a read that fills the cache again would wake what a write left behind, so a
  write must kill every reference, and it does, also when what it writes changes nothing.
- `AbiReadsTrue`: what a reference reads is what it was minted at, and what a reader puts together is
  the core's own snapshot. A field is read by a division and a remainder, so the proof is that the fields
  below it are less than what it is a multiple of (`Divides`), bottom up; that the style id fits its field
  is why it is one more than a remainder of one less than the span. The rows a reader asks for are the
  scrollback's and then the screen's (`RowsAt`), each read cell by cell, a cluster in as many tries as its
  length needs. A comparison without a difference means equal snapshots path by path, rows as lists
  (`RowsTell`, `GridsTell`), given that the two were taken of contents as wide as the core (`AbiAssumption`).

Each proof splits the next-state relation into its actions and, under each, the conjuncts the action
can disturb; facts used twice are lemmas. The assumptions are the named `ASSUME`s of the modules
(`GeometryAssumption`, `RebuildAssumption`, `PumpAssumption`, `PanesAssumption`, `AgentsAssumption`,
`ParserAssumption`, `KeyboardAssumption`, `MouseAssumption`, `AbiAssumption`, those of `FrameChannel`, ...), which TLC evaluates in the runs of the modules that extend them. They say what a
value is, never what an operation does with it. One stands in for arithmetic the provers lack: the waits
between two tries, `Base * 2^n`, are numbers.

Only model-checked: every liveness property (`LastFrameArrives`, `PumpServes`, `OnlyRepliesBlock`) and
what rests on ENABLED, which are out of this prover's reach; `Screen`, `Reflow`, `History` and
`Pictures`, whose steps are nested folds over lines and cells; and so far `Visual`,
`Graphics`, `Text`, `Desk` and `AnswersRestore`, which folds SGR parameters and checksums with powers of 16.

## 6. Findings

Each is shown by a run that TLC finds violated, against a sentence of the repository.

1. `repaint_caret`: a cursor that moves within its row or is hidden marks nothing, so the old caret
   stays painted.
2. `pump_exit`: a child that exits with a batch open takes its last output along.
3. `shutdown_replies`: the pump can block in writing a reply, and `shutdown` joins it without bound.
4. `rebuild_ligatures`: `Session::resize` puts the palette back and not the ligature switch.
5. `screen_erase`: ED 2 clears cells and leaves the rows' wrap flags, because the erase that spares
   protected cells goes cell by cell even where none is protected; text printed afterwards on rows
   that once wrapped is joined at the next resize. ED 0, ED 1 and EL leave the flags the same way.

## 7. Met on the way

What the code does that a reader might not expect. A property that would meet one of these excepts
it by name or by its bounds; the comment at the property says so.

Pump and host:

- A scroll or a prompt jump publishes an open batch half drawn (`host.rs:562`).
- `sync_since` is cleared only by a read that ends outside a batch, so a batch reopened in the same
  read, or opened after a resize ended the last one, inherits its age (`host.rs:678`).
- DECCOLM pushes the drained scrollback again, `total_pushed` counts those rows too, and a scrolled
  view leaves its content.
- A RIS drops the events, replies and image operations of its own read, and never tells the embedder
  to clear its pictures.
- After a failed build, `Session::set_font_size` answers `Ok(None)` for the same size and
  `Session::resize` answers `Ok(())` for the old grid; the font size and the cell size then disagree.

Rows and reflow:

- A resize that keeps the width, or one without autowrap, drops the spacer head at the end of a
  wrapped row and pads with an ordinary blank; a later widening shows it inside the text.
- SU by more rows than its region holds copies rows below the region into the scrollback while they
  stay on the screen; a count past `i16::MAX` turns negative.
- Printing over half of a wide character leaves the other half, and a reflow then takes the next
  cell for its tail.
- A character inserted (IRM) from right of the margins that wraps into them shifts cells past the
  right margin. A cursor on a spacer head a reflow drops goes to the top.
- A copy loses the blanks at a soft wrap (`selection.rs:275`); a word selected from the last cell of a
  row that does not wrap runs into the next row.
- A page's style table is never compacted; once full, cells are kept in the default style. A grid of
  65535 cells or more can fill the live table too: over 65536 the threshold that compacts it lies above
  the last id (`grid.rs`, `style.rs:43`).

Modes and reports:

- The pen saved by DECSC is one for both screens while the saved cursor is per screen. DECSTR and
  DECRST 69 on the alternate screen reset only its margins. `column_132` stays set after a resize by
  the host. ISO protection is reported as 0. A pop of a window title pushed alone clears the icon title.
- A blank cell kept for erasing holds a style id across a compaction that renumbered it
  (`terminal.rs:578-632`, `grid.rs:147-148`).
- A place command that moves the cursor clears neither the pending wrap nor the last printed character.

Pictures:

- `Renderer::evict_image` has no caller: an id transmitted anew draws the old pixels. The incremental
  path blends every placement over rows it has not repainted.
- The sixel decoder's result is not held to the budget, and a wrapped sixel id never pays back what it
  replaces. A chunk that fails to decode leaves the transfer pending. `I` deletes an image and leaves
  its placements. Reverse index, IL, DL and a clear by scrolling do not move placements; a scroll of a
  region leaves parts of a picture of several rows on the glass.

Bytes and input:

- `advance_partial_utf8` can swallow the character after a cut one (`vte/lib.rs:713-725`;
  `crates/ghostty/tests/oracle.rs:167-168` knows). `sixel.rs:69` and `decode_image` rely on
  saturation and on widths that fit.
- `mind2t_host_wheel`'s comment puts mouse mode before alternate scroll; `pointer.rs` asks them the
  other way round. The pointer remembers its cell before it knows whether a report is sent, and an X10
  release past column 223 is refused.

Drawing and C ABI:

- The session's `cell_at`, `select_*` and `link_at` take the pointer's screen column for a logical one,
  and highlights tint logical columns, in rows that read both ways (`frame.rs:535-538` names the map).
  A caret on a spacer tail is drawn one column to the right. A wide character gives one character to
  `visible_text`. The frame cuts a link over 248 bytes at a byte (`seqlock.rs:297-306`).
- `present` returns `Ok` for a lost swapchain and the window is stale until the next one. Attaching
  resets the window's origin; a refused attach keeps the old window.
- A grid reference that a write has killed reads the new view once another read has filled it
  (`exports.rs:56-60`); rows past 65535 have no reference; a style's id is a hash of 16 bits; title and
  directory strings handed out are dropped by a resize.

Canvas, agents, desk:

- A canvas resize that fails half way leaves some panes resized, and a split refused after the canvas
  grew leaves it grown (`canvas.rs:179-184`).
- `into_pane` fails the spawn for a missing directory the C ABI ignores, and a child dressed for a
  directory it cannot enter keeps `PWD` of the one before.
- `history_append` at its cap answers ignored and does not save (`host/lib.rs:907-911`). A directory
  with a tab or a newline breaks the lines of the history file. `percent_decode` takes `%+4` and
  refuses a path with `%` before a character of several bytes. A workflow value that is itself a hole is
  filled by a later one.
- A plain path is keyed without the blanks it ends in: `normalize` trims the whole report before it
  decodes it (`cwd.rs:23`), so the plain report `/d/ ` has the key `/d`, which is another directory's,
  and `file:///d/%20` has the key `/d/ ` - against "Better no key than a wrong one shared between
  directories" (`cwd.rs:38`). `Normalize` does the same, and `OneKeyEach` speaks of the reports the
  trim leaves whole; the instance has both directories.

## 8. Not modelled, and plan

Not modelled: `vte/src/ansi.rs` (2458 lines), which sits behind a feature the fork's manifest does not
declare and is never compiled; fonts, shaping, rasterising and the glyph atlas, which are libraries and
caches of their results; the platform's key tables and clipboard; the differential harness and the
reference renderer; markdown; the Swift host the repository calls gone; the web panels. They hold no
protocol of their own. `Screen` leaves out REP, CNL, CPL and LNM's effect on a line feed; `Abi` the
second names of `native.rs`.

Next, in order of importance:

1. `Screen`'s damage composed with `FrameRepaint`'s publisher in place of its abstract rows.
2. Theorems about `Desk` (the file is a save, an event is drained once, nothing is half applied) and about
   carets in `Drawing`.
3. The ranges of `Screen`'s cursor and region, which a resize clamps whatever the reflow returns.
4. REP, CNL, CPL and LNM in `Screen`; the atlas with its eviction if it comes to hold more than a cache.
