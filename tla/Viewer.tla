------------------------------- MODULE Viewer -------------------------------
(***************************************************************************)
(* The application's viewer on the UI thread, with the render service it   *)
(* shares between two surfaces: the page canvas and the thumbnail rail,    *)
(* each with a tile cache of its own (opdf-app: viewer.rs, scheduler.rs,   *)
(* tiles/, panels/canvas.rs, panels/thumbnail_rail.rs; app.rs, draw and    *)
(* resnapshot).                                                            *)
(*                                                                         *)
(* A frame is three steps of the UI thread, between which the worker runs: *)
(* the exchange with the service, the rail and the canvas. User actions    *)
(* come between frames. The document is short: every page of it is visible *)
(* on both surfaces. A scale stands for the scale and the view rotation a  *)
(* request carries together.                                               *)
(***************************************************************************)
EXTENDS RenderService

CONSTANTS
  RailScale,       \* the scale of the rail's thumbnails
  CanvasBudget,    \* the canvas cache's budget, in bytes
  FrameRequests,   \* MAX_SUBMISSIONS_PER_FRAME, 8 in the code
  MaxActs          \* bound: edits of the document and changes of zoom, together

ASSUME ViewerAssumption ==
  /\ RailScale \in Scales
  /\ CanvasBudget \in Nat
  /\ FrameRequests \in Nat \ {0}
  /\ MaxActs \in 0..(RevisionModulus - 1)

VARIABLES
  frame,    \* the UI thread's place in OpdfApp::draw
  document, \* the open document, which is also the snapshot drawn
  scale,    \* the canvas's render scale
  canvas,   \* the canvas's tile cache
  rail,     \* the rail's tile cache
  acts      \* edits and changes of zoom so far

viewerVars == <<phase, dropped, inbox, backlog, snapshot, tiles, replies, outbox,
                frame, document, scale, canvas, rail, acts>>

-----------------------------------------------------------------------------
\* A surface's tile cache: entries, least recently used first, and the requests
\* that wait for an answer or were refused one.

Empty == [entries |-> <<>>, pending |-> {}, failed |-> {}]

\* TileCache::wants
Wants(cache, r) ==
  /\ ~Cached(cache.entries, r)
  /\ r \notin cache.pending
  /\ r \notin cache.failed

\* TileCache::mark_pending, of all the requests in rs that are wanted.
Marked(cache, rs) ==
  [cache EXCEPT !.pending = @ \cup {r \in rs : Wants(cache, r)}]

\* The entries of the other requests; a request has one entry at most.
Others(c, r) == IF Cached(c, r) THEN RemoveAt(c, CachedAt(c, r)) ELSE c

\* TileCache::insert: replaces what was cached for the request.
Stored(cache, r, t) ==
  [entries |-> Append(Others(cache.entries, r), [request |-> r, tile |-> t]),
   pending |-> cache.pending \ {r},
   failed |-> cache.failed \ {r}]

\* Faulty variant: a refused request is cleared and not remembered.
RefusedForgotten(cache, r) == [cache EXCEPT !.pending = @ \ {r}]

\* TileCache::note_failed
Refused(cache, r) ==
  [cache EXCEPT !.pending = @ \ {r}, !.failed = @ \cup {r}]

\* Faulty variant: requests in flight survive the edit that superseded them.
RetainedPending(cache, revision) ==
  [entries |-> OfRevision(cache.entries, revision),
   pending |-> cache.pending,
   failed |-> {r \in cache.failed : r.revision = revision}]

\* TileCache::retain_revision
Retained(cache, revision) ==
  [entries |-> OfRevision(cache.entries, revision),
   pending |-> {r \in cache.pending : r.revision = revision},
   failed |-> {r \in cache.failed : r.revision = revision}]

\* TileCache::evict_to_budget: entries go, oldest first, until the cache is
\* within budget; those among the newest n, used since the frame began, stay.
Evicted(cache, n) ==
  LET size == Len(cache.entries)
      Left(k) == SubSeq(cache.entries, k + 1, size)
      k == CHOOSE k \in 0..(size - n) :
             /\ CachedBytes(Left(k)) <= CanvasBudget \/ k = size - n
             /\ \A j \in 0..(k - 1) : CachedBytes(Left(j)) > CanvasBudget
  IN  [cache EXCEPT !.entries = Left(k)]

-----------------------------------------------------------------------------
\* absorb_responses_routed, one response after the other

\* The cache a response was routed to, once it is filed there: a response to an
\* older document only stops being waited for.
Filed(cache, response) ==
  LET r == response.request
  IN  CASE r.revision # document.revision -> [cache EXCEPT !.pending = @ \ {r}]
        [] r.revision = document.revision /\ response.answer = "ready" ->
             Stored(cache, r, response.tile)
        [] OTHER -> Refused(cache, r)

\* One response goes to the cache that waits for it, the canvas before the rail,
\* and to the canvas if none does. fresh counts the tiles it stored there.
Absorbed(state, response) ==
  LET r == response.request
      toRail == r \notin state.canvas.pending /\ r \in state.rail.pending
      kept == r.revision = document.revision /\ response.answer = "ready"
  IN  IF toRail
      THEN [state EXCEPT !.rail = Filed(@, response)]
      ELSE [state EXCEPT !.canvas = Filed(@, response), !.fresh = @ + (IF kept THEN 1 ELSE 0)]

AbsorbedAll(responses) ==
  LET after[n \in 0..Len(responses)] ==
        IF n = 0
        THEN [canvas |-> canvas, rail |-> rail, fresh |-> 0]
        ELSE Absorbed(after[n - 1], responses[n])
  IN  after[Len(responses)]

-----------------------------------------------------------------------------
\* Requests, always built from the document drawn

PagesShown == {document.slots[i].id : i \in DOMAIN document.slots}

RequestFor(p, s) == [page |-> p, revision |-> document.revision, scale |-> s]
RequestsAt(s) == {RequestFor(p, s) : p \in PagesShown}

\* The requests a frame wants from the canvas's cache.
Wanted(cache) == {r \in RequestsAt(scale) : Wants(cache, r)}

\* What plan_render_requests may choose: as many wanted requests as a frame may
\* submit, in an order that follows the scroll position.
Plans(wanted) ==
  LET n == IF Cardinality(wanted) < FrameRequests THEN Cardinality(wanted) ELSE FrameRequests
  IN  UNION {SetToSeqs(chosen) : chosen \in {c \in SUBSET wanted : Cardinality(c) = n}}

\* The elements of s that are in S, in their order.
Among(s, S) ==
  LET kept[n \in 0..Len(s)] ==
        IF n = 0 THEN <<>>
        ELSE IF s[n] \in S THEN Append(kept[n - 1], s[n])
        ELSE kept[n - 1]
  IN  kept[Len(s)]

Rendering(rs) == [i \in DOMAIN rs |-> [kind |-> "render", request |-> rs[i]]]

-----------------------------------------------------------------------------
\* Actions

\* PdfiumRenderService::open returns once the worker is ready; the application
\* then shows the document it was opened with.
ViewerInit ==
  /\ document \in {Opened(r) : r \in [1..FilePages -> Rotations]}
  /\ InitService(document, "accepting")
  /\ frame = "between"
  /\ scale \in Scales
  /\ canvas = Empty
  /\ rail = Empty
  /\ acts = 0

\* step_render_service: poll, absorb, evict the canvas, submit what it wants.
StepRenderService ==
  /\ frame = "between"
  /\ LET absorbed == AbsorbedAll(Collected)
         spared == Evicted(absorbed.canvas, absorbed.fresh)
     IN  /\ \E plan \in Plans(Wanted(spared)) :
              /\ canvas' = Marked(spared, ToSet(plan))
              /\ inbox' = inbox \o Rendering(plan)
         /\ rail' = absorbed.rail
  /\ outbox' = <<>>
  /\ replies' = <<>>
  /\ frame' = "rail"
  /\ UNCHANGED <<phase, dropped, backlog, snapshot, tiles, document, scale, acts>>

\* The entries of a cache after its thumbnails or pages are drawn from these
\* entries, in this order.
Drawn(cache, rs) ==
  LET drawn[n \in 0..Len(rs)] ==
        IF n = 0 THEN cache.entries ELSE Touched(drawn[n - 1], rs[n])
  IN  [cache EXCEPT !.entries = drawn[Len(rs)]]

\* show_thumbnail_rail: every thumbnail it does not wait for is asked for, those
\* that are there are drawn. Every entry of the rail's cache is a thumbnail on
\* show, so its eviction finds nothing that is not in use.
ShowThumbnailRail ==
  /\ frame = "rail"
  /\ LET asked == {r \in RequestsAt(RailScale) : Wants(rail, r)}
         there == {r \in RequestsAt(RailScale) : Cached(rail.entries, r)}
         thumbnails ==
           [i \in DOMAIN document.slots |-> RequestFor(document.slots[i].id, RailScale)]
     IN  /\ rail' = Drawn(Marked(rail, asked), Among(thumbnails, there))
         /\ inbox' = inbox \o Rendering(Among(thumbnails, asked))
  /\ frame' = "canvas"
  /\ UNCHANGED <<phase, dropped, backlog, snapshot, tiles, replies, outbox, document,
                 scale, canvas, acts>>

Distance(s, t) == IF s > t THEN s - t ELSE t - s

\* The entry show_canvas draws page p from: the exact one, or the one of the
\* nearest scale (TileCache::find_nearest_scale).
Nearest(p) ==
  LET ofPage == {r \in {canvas.entries[i].request : i \in DOMAIN canvas.entries} :
                   r.page = p /\ r.revision = document.revision}
  IN  {r \in ofPage : \A q \in ofPage : Distance(r.scale, scale) <= Distance(q.scale, scale)}

\* show_canvas: each page that has any tile is drawn from it.
ShowCanvas ==
  /\ frame = "canvas"
  /\ LET pages == [i \in DOMAIN document.slots |-> document.slots[i].id]
         shown == Among(pages, {p \in PagesShown : Nearest(p) # {}})
     IN  canvas' = Drawn(canvas, [i \in DOMAIN shown |-> CHOOSE r \in Nearest(shown[i]) : TRUE])
  /\ frame' = "between"
  /\ UNCHANGED <<phase, dropped, inbox, backlog, snapshot, tiles, replies, outbox, document,
                 scale, rail, acts>>

\* The user acts between frames.
Act == frame = "between" /\ acts < MaxActs /\ acts' = acts + 1

\* An edit, and the snapshot the viewer replaces (ViewerState::replace_snapshot).
\* The service is not told: nothing in the application calls rebind.
EditDocument ==
  /\ Act
  /\ \E p \in KnownIds(document) :
       \/ CanRemove(document, p) /\ document' = RemovePage(document, p)
       \/ \E at \in 0..FilePages :
            CanRestore(document, p, at) /\ document' = RestorePage(document, p, at)
       \/ \E r \in Rotations : CanRotate(document, p) /\ document' = SetRotation(document, p, r)
  /\ canvas' = Retained(canvas, document'.revision)
  /\ rail' = Retained(rail, document'.revision)
  /\ UNCHANGED <<serviceVars, frame, scale>>

\* A zoom that crosses a step of the render ladder.
Zoom ==
  /\ Act
  /\ scale' \in Scales \ {scale}
  /\ UNCHANGED <<serviceVars, frame, document, canvas, rail>>

WorkerRuns == Worker /\ UNCHANGED <<frame, document, scale, canvas, rail, acts>>

UserActs == EditDocument \/ Zoom

ViewerNext ==
  \/ StepRenderService
  \/ ShowThumbnailRail
  \/ ShowCanvas
  \/ EditDocument
  \/ Zoom
  \/ WorkerRuns

ViewerSpec == ViewerInit /\ [][ViewerNext]_viewerVars

\* A frame asks for the next one while a request is in flight or did not fit.
RepaintRequested ==
  canvas.pending \cup rail.pending # {} \/ Wanted(canvas) # {}

FirstFrame == canvas = Empty /\ rail = Empty

\* Leaving one place of OpdfApp::draw for the next: the one step that does is
\* always possible there.
Passes(place, next) == frame = place /\ frame' = next

\* The worker thread runs whenever it can; a frame that was asked for begins, as
\* does the first; a frame that has begun is finished.
FairViewerSpec ==
  /\ ViewerSpec
  /\ WF_serviceVars(Worker)
  /\ WF_frame((RepaintRequested \/ FirstFrame) /\ Passes("between", "rail"))
  /\ WF_frame(Passes("rail", "canvas"))
  /\ WF_frame(Passes("canvas", "between"))

-----------------------------------------------------------------------------
\* Properties

Cache ==
  [entries : Seq([request : Request, tile : Tile]),
   pending : SUBSET Request,
   failed : SUBSET Request]

\* Types of the service's, the document's and the two caches' variables.
ViewerTypeOK ==
  /\ ServiceTypeOK
  /\ frame \in {"between", "rail", "canvas"}
  /\ document \in Document
  /\ scale \in Scales
  /\ canvas \in Cache
  /\ rail \in Cache
  /\ acts \in 0..MaxActs

\* "a tile rasterized before a structural change" never stays in a cache, nor
\* does a request or a refusal of it, whichever answers arrive after the edit;
\* and a request is at most one of cached, in flight and refused.
CachesFollowSnapshot ==
  /\ ViewerTypeOK
  /\ \A cache \in {canvas, rail} :
       /\ \A i \in DOMAIN cache.entries : cache.entries[i].request.revision = document.revision
       /\ \A r \in cache.pending \cup cache.failed : r.revision = document.revision
       /\ cache.pending \cap cache.failed = {}
       /\ \A r \in cache.pending \cup cache.failed : ~Cached(cache.entries, r)

\* Request r was submitted and its answer has not been collected.
UnderWay(r) ==
  \/ [kind |-> "render", request |-> r] \in ToSet(inbox)
  \/ r \in ToSet(backlog)
  \/ \E i \in DOMAIN Collected : Collected[i].request = r

\* Every request the canvas waits for is still under way, so that a page it has
\* asked for is never blank forever ("a request marked while planning but
\* skipped for budget could never be cleared", step_render_service).
CanvasAwaitsLiveRequests == \A r \in canvas.pending : UnderWay(r)

\* Page p has its exact tile, or is known to have none.
Settled(p) == Cached(canvas.entries, RequestFor(p, scale)) \/ RequestFor(p, scale) \in canvas.failed

\* Once the user stops editing and zooming, every page of the canvas is drawn
\* from its exact tile or known to be refused, for good (plan_render_requests
\* leaves out what does not fit, absorb_responses_routed files what arrives).
CanvasSettles ==
  \/ []<><<UserActs>>_viewerVars
  \/ <>[](\A p \in PagesShown : Settled(p))

\* What worker.rs says of its geometry: it "comes from the *current* snapshot,
\* so an unsaved rotation shows immediately".
RotationShows ==
  \A i \in DOMAIN canvas.entries :
    LET r == canvas.entries[i].request
    IN  r.page \in PagesShown =>
          canvas.entries[i].tile.rotation = document.slots[IndexOf(document, r.page)].rotation
=============================================================================
