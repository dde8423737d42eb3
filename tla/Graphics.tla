------------------------------ MODULE Graphics ------------------------------
(***************************************************************************)
(* Kitty pictures from the child to the glass (crates/core/src/graphics.rs *)
(* and the scrolls of screen.rs, the pump's image store in                 *)
(* crates/pty/src/host.rs, the frame's placements in                       *)
(* crates/frame/src/publish.rs, poll_impl in crates/host/src/lib.rs and    *)
(* the image half of crates/render/src/renderer.rs).                       *)
(*                                                                         *)
(* The pixels of a picture are the chunks that brought them: a token and a *)
(* length in bytes each.  A row of text is a label, -1 a blank row.  A     *)
(* cell is a pixel, pictures are opaque and of one column.                 *)
(***************************************************************************)
EXTENDS Integers, Sequences, SequencesExt, FiniteSetsExt

CONSTANTS H,           \* rows of the screen
          Budget,      \* BUDGET_BYTES, 128 MiB
          ChunkLimit,  \* 32 * APC_CEILING
          SixelBase,   \* the ids of sixel pictures, and how many there are
          SixelIds,
          Slots,       \* PLACEMENT_SLOTS
          UnderGround, \* FramePlacement::BELOW_BACKGROUND
          Gone,        \* 256: how far above the top a placement is kept
          Albums       \* [commands, max, reuse]: may the child use an id again

ASSUME GraphicsAssumption ==
  H \in Nat \ {0} /\ Budget \in Nat /\ SixelIds \in Nat \ {0} /\ Slots \in Nat /\ UnderGround < 0

VARIABLES gfx,     \* the core: images, placements, rows
          store,   \* the pump's images, that the embedder reads
          frame,   \* the published frame
          glass,   \* the renderer: what is on each row, scaled pictures, the frame drawn
          album, gsteps,
          sent     \* the chunks that came: [id, token, more], more: to be continued

gvars == <<gfx, store, frame, glass, album, gsteps, sent>>

Screens == {"primary", "alternate"}
Lines   == 0..H-1

-----------------------------------------------------------------------------
(* The core.                                                               *)

NewGraphics ==
  [images |-> <<>>, budget |-> 0, ops |-> <<>>, pending |-> <<>>, virtuals |-> <<>>, sixels |-> 0,
   placements |-> [s \in Screens |-> <<>>], active |-> "primary", y |-> 0, top |-> 0, bottom |-> H - 1,
   text |-> [s \in Screens |-> [y \in Lines |-> -1]], holders |-> [s \in Screens |-> [y \in Lines |-> <<>>]],
   dirty |-> {}, replies |-> <<>>]

Size(data)  == FoldLeft(LAMBDA n, c : n + c.bytes, 0, data)
Cost(image) == image.w * image.h * 4
Spent(images) == MapThenSumSet(LAMBDA id : Cost(images[id]), DOMAIN images)
With(f, id, v) == [k \in DOMAIN f \union {id} |-> IF k = id THEN v ELSE f[k]]
Without(f, id) == [k \in DOMAIN f \ {id} |-> f[k]]

\* quiet 2: no answer; 1: none that all is well.
Answer(g, keys, message) ==
  IF keys.quiet = 2 \/ (keys.quiet = 1 /\ message = "OK") THEN g
  ELSE [g EXCEPT !.replies = Append(@, <<keys.id, message>>)]
AllDirty(g) == [g EXCEPT !.dirty = Lines]

\* decode_image: <<picture>>, or <<>> and a message to the child.
Decoded(p) ==
  LET image == [w |-> p.w, h |-> p.h, data |-> p.data] IN
  CASE p.format \in {32, 24} ->
         IF p.w = 0 \/ p.h = 0 \/ Size(p.data) # p.w * p.h * (p.format \div 8) THEN <<>> ELSE <<image>>
    [] p.format = 100 -> IF Len(p.data) = 1 /\ p.data[1].png # <<>>
                         THEN <<[image EXCEPT !.w = p.data[1].png[1], !.h = p.data[1].png[2]]>> ELSE <<>>
    [] OTHER -> <<>>

\* With its cell size the damage is the rows it spans, else the whole frame.
PlaceAtCursor(g, keys) ==
  LET placement == [image |-> keys.id, row |-> g.y, rows |-> keys.rows, z |-> keys.z]
      placed    == [g EXCEPT !.placements[g.active] = Append(@, placement)]
  IN IF keys.rows > 0
     THEN [placed EXCEPT !.dirty = @ \union {y \in Lines : y >= g.y /\ y < g.y + keys.rows}]
     ELSE AllDirty(placed)
PlaceVirtual(g, keys) ==
  AllDirty([g EXCEPT !.virtuals = Append(SelectSeq(@, LAMBDA v : v.image # keys.id),
                                         [image |-> keys.id, rows |-> keys.rows])])
PlaceImage(g, keys) == IF keys.virtual THEN PlaceVirtual(g, keys) ELSE PlaceAtCursor(g, keys)

\* The new picture is paid for before the one it replaces is paid back.
InsertKeepingCost(g, id, image) ==
  [g EXCEPT !.images = With(@, id, image), !.budget = @ + Cost(image), !.ops = Append(@, <<"add", id, image>>)]
Insert(g, id, image) ==
  [g EXCEPT !.images = With(@, id, image), !.ops = Append(@, <<"add", id, image>>),
            !.budget = @ + Cost(image) - (IF id \in DOMAIN g.images THEN Cost(g.images[id]) ELSE 0)]

Finalize(g, p) ==
  IF Decoded(p) = <<>> THEN Answer(g, p, "EINVAL")
  ELSE LET image == Decoded(p)[1] IN
       IF g.budget + Cost(image) > Budget THEN Answer(g, p, "ENOMEM")
       ELSE LET kept == Answer(Insert(g, p.id, image), p, "OK") IN
            IF p.display THEN PlaceImage(kept, p) ELSE kept

\* The first chunk's keys hold for the rest; a chunk of another picture ends it.
ContinuesAny(g, keys) == g.pending # <<>>
Continues(g, keys) == g.pending # <<>> /\ (g.pending[1].id = keys.id \/ keys.id = 0)
Transmit(g, keys, chunk) ==
  LET p    == IF Continues(g, keys) THEN g.pending[1] ELSE keys @@ [data |-> <<>>]
      more == [p EXCEPT !.data = Append(@, chunk)]
      free == [g EXCEPT !.pending = <<>>]
  IN CASE keys.medium # "direct" -> Answer(g, keys, "ENOTSUPPORTED")
       [] keys.medium = "direct" /\ ~chunk.valid -> Answer(g, keys, "EINVAL")
       [] keys.medium = "direct" /\ chunk.valid /\ Size(more.data) > ChunkLimit -> Answer(free, keys, "ENOMEM")
       [] OTHER -> IF keys.more THEN [g EXCEPT !.pending = <<more>>] ELSE Finalize(free, more)

\* a=q: a picture that would be good, not kept.
Query(g, keys, chunk) ==
  CASE keys.medium # "direct" -> Answer(g, keys, "ENOTSUPPORTED")
    [] keys.medium = "direct" /\ chunk.valid /\ Decoded(keys @@ [data |-> <<chunk>>]) # <<>> -> Answer(g, keys, "OK")
    [] OTHER -> Answer(g, keys, "EINVAL")
Put(g, keys) ==
  IF keys.id \notin DOMAIN g.images THEN Answer(g, keys, "ENOENT") ELSE Answer(PlaceImage(g, keys), keys, "OK")

\* What the two kinds of deletion take.
RemoveAll(g) ==
  [g EXCEPT !.images = <<>>, !.budget = 0,
            !.ops = @ \o [k \in DOMAIN SetToSeq(DOMAIN g.images) |-> <<"remove", SetToSeq(DOMAIN g.images)[k]>>]]
RemoveOne(g, id) ==
  IF id \notin DOMAIN g.images THEN g
  ELSE [g EXCEPT !.images = Without(@, id), !.budget = @ - Cost(g.images[id]), !.ops = Append(@, <<"remove", id>>)]
Cleared(g, what, id) ==
  CASE what \in {"a", "A"} -> [g EXCEPT !.placements[g.active] = <<>>]
    [] what \in {"i", "I"} -> [g EXCEPT !.placements[g.active] = SelectSeq(@, LAMBDA p : p.image # id)]
DeleteUnmarked(g, keys, what) ==
  IF what \in {"a", "i"} THEN Cleared(g, what, keys.id) ELSE Answer(g, keys, "ENOTSUPPORTED")

\* The capitals free the pictures too; the placements of this screen only.
Delete(g, keys, what) ==
  CASE what = "A" -> AllDirty(RemoveAll(Cleared(g, what, keys.id)))
    [] what = "I" -> AllDirty(RemoveOne(Cleared(g, what, keys.id), keys.id))
    [] what \in {"a", "i"} -> AllDirty(Cleared(g, what, keys.id))
    [] OTHER -> Answer(g, keys, "ENOTSUPPORTED")

\* A sixel picture: an id of its own, the same store, no budget asked.
Sixel(g, image) ==
  LET n  == (g.sixels + 1) % SixelIds
      id == SixelBase + n
      in == [g EXCEPT !.sixels = n, !.images = With(@, id, image), !.budget = @ + Cost(image),
                      !.ops = Append(@, <<"add", id, image>>)]
  IN PlaceAtCursor(in, [id |-> id, rows |-> 0, z |-> 0])

-----------------------------------------------------------------------------
(* Text under the pictures.                                                *)

Line(g, y, label) ==
  [g EXCEPT !.text[g.active][y] = label, !.dirty = @ \union {y}]
PrintText(g, label) == [Line(g, g.y, label) EXCEPT !.holders[g.active][g.y] = <<>>]
\* A placeholder cell: the picture and the row of it that it shows.
PrintHolder(g, id, row) == [Line(g, g.y, -1) EXCEPT !.holders[g.active][g.y] = <<id, row>>]
CursorTo(g, y) == [g EXCEPT !.y = y, !.dirty = @ \union {g.y, y}]
SetRegion(g, top, bottom) == [CursorTo(g, 0) EXCEPT !.top = top, !.bottom = bottom]

\* Rows top..bottom moved by n, up when n > 0.
Shifted(f, top, bottom, n, blank) ==
  [y \in Lines |-> IF y \notin top..bottom THEN f[y]
                   ELSE IF y + n \in top..bottom THEN f[y + n] ELSE blank]
Scrolled(g, top, bottom, n) ==
  [g EXCEPT !.text[g.active] = Shifted(@, top, bottom, n, -1), !.holders[g.active] = Shifted(@, top, bottom, n, <<>>),
            !.dirty = @ \union top..bottom]

\* A region from the top lets an anchor go negative; another drops what leaves it.
Raised(g, p, n) ==
  CASE g.top = 0 /\ p.row < 0 -> [p EXCEPT !.row = @ - n]
    [] ~(g.top = 0 /\ p.row < 0) /\ p.row \notin g.top..g.bottom -> p
    [] OTHER -> [p EXCEPT !.row = @ - n]
Stays(g, p, n) ==
  LET row == Raised(g, p, n).row IN
  CASE g.top = 0 /\ p.row < 0 -> row > -Gone
    [] ~(g.top = 0 /\ p.row < 0) /\ p.row \notin g.top..g.bottom -> TRUE
    [] OTHER -> IF g.top = 0 THEN row > -Gone ELSE row >= g.top
ScrollPlacementsUp(g, n) ==
  LET kept == SelectSeq(g.placements[g.active], LAMBDA p : Stays(g, p, n)) IN
  [g EXCEPT !.placements[g.active] = [k \in DOMAIN kept |-> Raised(g, kept[k], n)]]
ScrollUp(g, n)   == ScrollPlacementsUp(Scrolled(g, g.top, g.bottom, n), n)
ScrollDown(g, n) ==
  LET In(p)  == p.row \in g.top..g.bottom
      kept   == SelectSeq(g.placements[g.active], LAMBDA p : In(p) => p.row + n <= g.bottom)
  IN [Scrolled(g, g.top, g.bottom, -n) EXCEPT
        !.placements[g.active] = [k \in DOMAIN kept |-> IF In(kept[k]) THEN [kept[k] EXCEPT !.row = @ + n] ELSE kept[k]]]

\* Reverse index and the insertion and deletion of lines move the text only.
ReverseIndex(g) == IF g.y = g.top THEN Scrolled(g, g.top, g.bottom, -1)
                   ELSE IF g.y = 0 THEN g ELSE CursorTo(g, g.y - 1)
InsertLines(g)  == IF g.y \in g.top..g.bottom THEN Scrolled(g, g.y, g.bottom, -1) ELSE g
DeleteLines(g)  == IF g.y \in g.top..g.bottom THEN Scrolled(g, g.y, g.bottom, 1) ELSE g

Switch(g) == AllDirty([g EXCEPT !.active = IF @ = "primary" THEN "alternate" ELSE "primary"])

\* The store is emptied and not told of; neither are the replies still owed.
Reset(g) == AllDirty(NewGraphics)

Obey(g, c) ==
  CASE c[1] = "transmit" -> Transmit(g, c[2], c[3])
    [] c[1] = "query"    -> Query(g, c[2], c[3])
    [] c[1] = "put"      -> Put(g, c[2])
    [] c[1] = "delete"   -> Delete(g, c[2], c[3])
    [] c[1] = "other"    -> Answer(g, c[2], "ENOTSUPPORTED")
    [] c[1] = "sixel"    -> Sixel(g, c[2])
    [] c[1] = "print"    -> PrintText(g, c[2])
    [] c[1] = "holder"   -> PrintHolder(g, c[2], c[3])
    [] c[1] = "cup"      -> CursorTo(g, c[2])
    [] c[1] = "stbm"     -> SetRegion(g, c[2], c[3])
    [] c[1] = "su"       -> ScrollUp(g, c[2])
    [] c[1] = "sd"       -> ScrollDown(g, c[2])
    [] c[1] = "ri"       -> ReverseIndex(g)
    [] c[1] = "il"       -> InsertLines(g)
    [] c[1] = "dl"       -> DeleteLines(g)
    [] c[1] = "switch"   -> Switch(g)
    [] c[1] = "ris"      -> Reset(g)

-----------------------------------------------------------------------------
(* The pump and the frame.                                                 *)

Applied(images, ops) ==
  FoldLeft(LAMBDA s, op : CASE op[1] = "add"    -> With(s, op[2], op[3])
                            [] op[1] = "remove" -> Without(s, op[2])
                            [] op[1] = "clear"  -> <<>>, images, ops)

\* By z, then image, then as the child made them.
DrawOrder(placements) ==
  SortSeq([k \in DOMAIN placements |-> placements[k] @@ [at |-> k]],
          LAMBDA a, b : \/ a.z < b.z
                        \/ a.z = b.z /\ a.image < b.image
                        \/ a.z = b.z /\ a.image = b.image /\ a.at < b.at)
Bounded(seq) == SubSeq(seq, 1, IF Len(seq) < Slots THEN Len(seq) ELSE Slots)

Published(g, f) ==
  [gen |-> f.gen + 1, placements |-> Bounded(DrawOrder(g.placements[g.active])), virtuals |-> Bounded(g.virtuals),
   text |-> g.text[g.active], holders |-> g.holders[g.active],
   stamp |-> [y \in Lines |-> IF y \in g.dirty THEN f.gen + 1 ELSE f.stamp[y]]]

-----------------------------------------------------------------------------
(* The renderer.                                                           *)

\* ScaledCache: the pixels first scaled for an id and a box serve it for good.
Box(p, image) == IF p.rows > 0 THEN p.rows ELSE image.h
Scaled(cache, id, image, rows) ==
  IF <<id, rows>> \in DOMAIN cache THEN cache[<<id, rows>>] ELSE image.data
Layer(p) == IF p.z < UnderGround THEN 0 ELSE IF p.z < 0 THEN 1 ELSE 2

\* blit_placement and draw_images: nothing where the picture is gone.
Blit(d, p) ==
  IF p.image \notin DOMAIN store THEN d
  ELSE LET image == store[p.image]
           rows  == Box(p, image)
           data  == Scaled(d.cache, p.image, image, rows)
       IN [canvas |-> [y \in Lines |-> IF y >= p.row /\ y < p.row + rows
                                       THEN Append(d.canvas[y], <<"picture", data, y - p.row, rows>>) ELSE d.canvas[y]],
           cache  |-> With(d.cache, <<p.image, rows>>, data)]
BlitAll(d, placements) == FoldLeft(Blit, d, placements)

PaintRows(d, rows, how) ==
  [d EXCEPT !.canvas = [y \in Lines |-> IF y \in rows THEN how[y] ELSE @[y]]]
Over(d, part) == [d EXCEPT !.canvas = [y \in Lines |-> Append(@[y], <<part, frame.text[y]>>)]]

\* draw_layered: the whole frame, three bands of pictures about ground and ink.
Layered(d) ==
  LET OfLayer(n) == SelectSeq(frame.placements, LAMBDA p : Layer(p) = n)
      bare    == PaintRows(d, Lines, [y \in Lines |-> <<>>])
  IN BlitAll(Over(BlitAll(Over(BlitAll(bare, OfLayer(0)), "ground"), OfLayer(1)), "ink"), OfLayer(2))

\* draw and draw_images: stale rows, then every placement.
Incremental(d, drawn) ==
  LET stale == {y \in Lines : drawn = 0 \/ frame.stamp[y] > drawn}
      row   == [y \in Lines |-> <<<<"ground", frame.text[y]>>, <<"ink", frame.text[y]>>>>]
  IN BlitAll(PaintRows(d, stale, row), frame.placements)

\* draw_placeholders: a cell's slice of its picture.
Declared(id, image) ==
  LET v == SelectSeq(frame.virtuals, LAMBDA e : e.image = id) IN
  IF v # <<>> /\ v[1].rows > 0 THEN v[1].rows ELSE image.h
HoldRow(d, y) ==
  LET held == frame.holders[y] IN
  IF held = <<>> \/ held[1] \notin DOMAIN store THEN d
  ELSE LET image == store[held[1]]
           rows  == Declared(held[1], image)
           data  == Scaled(d.cache, held[1], image, rows)
       IN IF held[2] >= rows THEN d
          ELSE [canvas |-> [d.canvas EXCEPT ![y] = Append(@, <<"picture", data, held[2], rows>>)],
                cache  |-> With(d.cache, <<held[1], rows>>, data)]
Holders(d) == IF frame.virtuals = <<>> THEN d ELSE FoldLeft(HoldRow, d, [k \in 1..H |-> k - 1])

Drawn(d, drawn) ==
  Holders(IF \E k \in DOMAIN frame.placements : frame.placements[k].z < 0 THEN Layered(d) ELSE Incremental(d, drawn))

\* Opaque pictures: of what is painted twice the last counts.
Seen(row) ==
  LET Latest(acc, e) == Append(SelectSeq(acc, LAMBDA x : x # e), e) IN FoldLeft(Latest, <<>>, row)

-----------------------------------------------------------------------------
(* Behaviour.                                                              *)

GraphicsInit ==
  /\ album \in Albums /\ gsteps = 0 /\ sent = <<>>
  /\ gfx = NewGraphics /\ store = <<>>
  /\ frame = [gen |-> 0, placements |-> <<>>, virtuals |-> <<>>, text |-> NewGraphics.text.primary,
              holders |-> NewGraphics.holders.primary, stamp |-> [y \in Lines |-> 0]]
  /\ glass = [canvas |-> [y \in Lines |-> <<>>], cache |-> <<>>, drawn |-> 0]

\* A chunk is known by the step that brought it.
Stamped(c) == IF c[1] = "transmit" THEN <<c[1], c[2], [c[3] EXCEPT !.token = gsteps]>> ELSE c

\* A read: the core, and before any frame the store.
Read ==
  /\ gsteps < album.max
  /\ \E c \in {d \in album.commands : d[1] = "transmit" /\ ~album.reuse => \A k \in DOMAIN sent : sent[k].id # d[2].id} :
     \E g \in {Obey([gfx EXCEPT !.replies = <<>>], Stamped(c))} :
       /\ gfx'   = [g EXCEPT !.ops = <<>>]
       /\ store' = Applied(store, g.ops)
       /\ sent'  = IF c[1] = "transmit" /\ c[2].medium = "direct" /\ c[3].valid
                   THEN Append(sent, [id |-> c[2].id, token |-> gsteps, more |-> g.pending # <<>>]) ELSE sent
  /\ gsteps' = gsteps + 1
  /\ UNCHANGED <<frame, glass, album>>

Publish ==
  /\ gfx.dirty # {} \/ frame.gen = 0
  /\ frame' = Published(gfx, frame)
  /\ gfx' = [gfx EXCEPT !.dirty = {}]
  /\ UNCHANGED <<store, glass, album, gsteps, sent>>

\* poll_impl, of a frame newer than the drawn one.
Poll ==
  /\ frame.gen > glass.drawn
  /\ glass' = [drawn |-> frame.gen] @@ Drawn([canvas |-> glass.canvas, cache |-> glass.cache], glass.drawn)
  /\ UNCHANGED <<gfx, store, frame, album, gsteps, sent>>

GraphicsNext == Read \/ Publish \/ Poll

-----------------------------------------------------------------------------
(* Properties.                                                             *)

\* The bytes counted are those of the pictures kept, the kitty pictures are
\* within the budget (sixel pictures are not asked), and the
\* embedder's store holds the same pictures the core holds, at every moment it
\* can look, through transmissions, replacements, refusals and deletions
\* (graphics_finalize, graphics_delete, the pump's drain).
BudgetIsTheStore ==
  /\ gfx.budget = Spent(gfx.images)
  /\ Spent([id \in {k \in DOMAIN gfx.images : k < SixelBase} |-> gfx.images[id]]) <= Budget
  /\ store = gfx.images

\* A picture is the chunks of one transmission, all of them and in their order,
\* whatever other transmissions were begun and given up between
\* (graphics_transmit's pending).
ChunksAssemble ==
  \A id \in {i \in DOMAIN gfx.images : i < SixelBase} :
    LET data  == gfx.images[id].data
        n     == Len(data)
        first == CHOOSE k \in DOMAIN sent : sent[k].token = data[1].token
    IN /\ \A k \in 1..n : sent[first + k - 1].token = data[k].token
       /\ sent[first].id = id
       /\ \A k \in 1..n-1 : sent[first + k - 1].more /\ sent[first + k].id \in {id, 0}
       /\ ~sent[first + n - 1].more
       /\ first > 1 => ~(sent[first - 1].more /\ id \in {sent[first - 1].id, 0})

\* What an embedder that draws only the stale rows has on the glass is what a
\* redraw of the whole frame would give, pictures over, under and in the text
\* included (poll_impl, draw_layered; the damage the core owes).
PicturesAsFullRedraw ==
  glass.drawn = frame.gen /\ frame.gen > 0 /\ gfx.dirty = {} =>
    \E full \in {Drawn([canvas |-> [y \in Lines |-> <<>>], cache |-> <<>>], 0)} :
      \A y \in Lines : Seen(glass.canvas[y]) = full.canvas[y] \/ Seen(glass.canvas[y]) = Seen(full.canvas[y])
=============================================================================
