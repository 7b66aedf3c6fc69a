--------------------------- MODULE RenderService ---------------------------
(***************************************************************************)
(* One PdfiumRenderService: the handle the user interface holds, the two   *)
(* channels, and the worker thread that owns Pdfium, the file it opened,   *)
(* the backlog of pending requests and the tile cache                      *)
(* (opdf-render: service.rs, worker.rs, backlog.rs, cache.rs).             *)
(*                                                                         *)
(* The module has the service's actions and no next-state relation: what a *)
(* caller may submit is the business of the modules that extend it.        *)
(*                                                                         *)
(* A request carries the page, the revision and the scale of the code's    *)
(* RenderRequest. Its document identity is left out: one service serves    *)
(* one document. A scale is numbered by the bytes its tile takes. A tile   *)
(* keeps what two pictures of a page can differ by: the place in the file  *)
(* its content was read from and the rotation it was drawn with.           *)
(***************************************************************************)
EXTENDS PageMap

CONSTANTS
  FilePages,   \* pages of the file the worker opened
  Damaged,     \* pages Pdfium refuses, or whose tile would be too large
  Scales,      \* scales a caller may ask for
  Capacity,    \* Backlog::capacity, 64 in the worker
  CacheBudget  \* TileCache::budget_bytes, 256 MiB in the worker

ASSUME RenderServiceAssumption ==
  /\ FilePages \in Nat \ {0}
  /\ Damaged \subseteq Nat
  /\ Scales \subseteq Nat \ {0}
  /\ Capacity \in Nat \ {0}
  /\ CacheBudget \in Nat

VARIABLES
  phase,     \* the worker's place in run_worker: "opening" until Pdfium has
             \* read the file, "accepting" and "serving" inside serve_requests,
             \* "failing" inside fail_every_request, "gone" once it returned
  dropped,   \* whether the handle was dropped
  inbox,     \* the request channel
  backlog,   \* pending requests, oldest first
  snapshot,  \* the document the worker resolves pages against
  tiles,     \* the tile cache, least recently used first
  replies,   \* the response channel
  outbox     \* answers the handle made up itself

serviceVars == <<phase, dropped, inbox, backlog, snapshot, tiles, replies, outbox>>

-----------------------------------------------------------------------------
\* Messages

Request == [page : PageId, revision : Revision, scale : Scales]
Tile == [place : Nat, rotation : Rotations]
Response ==
  [answer : {"ready"}, request : Request, tile : Tile]
    \cup [answer : {"failed"}, request : Request]
Snapshot == [revision : Revision, pages : Seq(Slot)]
Message ==
  [kind : {"render"}, request : Request]
    \cup [kind : {"rebind"}, snapshot : Snapshot]
    \cup [kind : {"shutdown"}]

Ready(r, t) == [answer |-> "ready", request |-> r, tile |-> t]
Failed(r) == [answer |-> "failed", request |-> r]
SnapshotOf(d) == [revision |-> d.revision, pages |-> d.slots]

-----------------------------------------------------------------------------
\* The tile cache

CachedBytes(c) ==
  LET bytes[n \in 0..Len(c)] == IF n = 0 THEN 0 ELSE bytes[n - 1] + c[n].request.scale
  IN  bytes[Len(c)]

Cached(c, r) == \E i \in DOMAIN c : c[i].request = r
CachedAt(c, r) == CHOOSE i \in DOMAIN c : c[i].request = r

\* TileCache::get of a request that is cached: its entry becomes the newest.
Touched(c, r) == Append(RemoveAt(c, CachedAt(c, r)), c[CachedAt(c, r)])

\* The newest entries of c that leave room for n bytes more.
Trimmed(c, n) ==
  LET Fits(k) == CachedBytes(SubSeq(c, k + 1, Len(c))) + n <= CacheBudget
      k == CHOOSE k \in 0..Len(c) : Fits(k) /\ \A j \in 0..(k - 1) : ~Fits(j)
  IN  SubSeq(c, k + 1, Len(c))

\* TileCache::insert of a request that is not cached.
Inserted(c, r, t) ==
  IF r.scale > CacheBudget
  THEN c
  ELSE Append(Trimmed(c, r.scale), [request |-> r, tile |-> t])

\* TileCache::retain_revision: the entries of that revision, in their order.
OfRevision(c, revision) ==
  LET kept[n \in 0..Len(c)] ==
        IF n = 0 THEN <<>>
        ELSE IF c[n].request.revision = revision THEN Append(kept[n - 1], c[n])
        ELSE kept[n - 1]
  IN  kept[Len(c)]

-----------------------------------------------------------------------------
\* The handle

\* A service spawned for document d, its worker at the given place.
InitService(d, place) ==
  /\ phase = place
  /\ dropped = FALSE
  /\ inbox = <<>>
  /\ backlog = <<>>
  /\ snapshot = SnapshotOf(d)
  /\ tiles = <<>>
  /\ replies = <<>>
  /\ outbox = <<>>

\* RenderService::submit. Once the worker is gone its channel is closed and the
\* handle answers by itself.
Submit(r) ==
  /\ ~dropped
  /\ IF phase = "gone"
     THEN outbox' = Append(outbox, Failed(r)) /\ UNCHANGED inbox
     ELSE inbox' = Append(inbox, [kind |-> "render", request |-> r]) /\ UNCHANGED outbox
  /\ UNCHANGED <<phase, dropped, backlog, snapshot, tiles, replies>>

\* PdfiumRenderService::rebind.
Rebind(d) ==
  /\ ~dropped
  /\ inbox' = IF phase = "gone"
              THEN inbox
              ELSE Append(inbox, [kind |-> "rebind", snapshot |-> SnapshotOf(d)])
  /\ UNCHANGED <<phase, dropped, backlog, snapshot, tiles, replies, outbox>>

\* What RenderService::poll hands over: the handle's own answers first.
Collected == outbox \o replies

Poll ==
  /\ ~dropped
  /\ Collected # <<>>
  /\ outbox' = <<>>
  /\ replies' = <<>>
  /\ UNCHANGED <<phase, dropped, inbox, backlog, snapshot, tiles>>

\* Dropping the handle asks the worker to stop and waits for nothing. Nobody can
\* read the response channel any more.
DropHandle ==
  /\ ~dropped
  /\ dropped' = TRUE
  /\ inbox' = IF phase = "gone" THEN inbox ELSE Append(inbox, [kind |-> "shutdown"])
  /\ replies' = <<>>
  /\ outbox' = <<>>
  /\ UNCHANGED <<phase, backlog, snapshot, tiles>>

-----------------------------------------------------------------------------
\* The worker thread

\* The worker's end: the file is closed and both channels are lost to it.
\* Answers sent before stay readable.
Exit ==
  /\ phase' = "gone"
  /\ inbox' = <<>>
  /\ backlog' = <<>>
  /\ tiles' = <<>>
  /\ UNCHANGED <<dropped, snapshot, outbox>>

\* run_worker up to the readiness report: Pdfium is bound and the file read, or
\* every request will fail. A service from open_deferred is used all the while;
\* one from open exists only once the worker is accepting.
OpenFile ==
  /\ phase = "opening"
  /\ phase' \in {"accepting", "failing"}
  /\ UNCHANGED <<dropped, inbox, backlog, snapshot, tiles, replies, outbox>>

\* map_file_indices, taken once from the order the file was opened with: page p
\* of a freshly opened document sits at place p + 1.
FileIndex(p) == p + 1

\* What accept_message sends back; nobody reads it once the handle is dropped.
Send(answers) == IF dropped THEN replies ELSE replies \o answers

\* Backlog::push: a request already queued is coalesced with it, one too many
\* supersedes the oldest.
Pushed(b, r) == IF r \in ToSet(b) THEN b ELSE Append(b, r)

\* Faulty variant: the superseded request is dropped without an answer.
SupersededSilently(b) == <<>>

Superseded(b) == IF Len(b) > Capacity THEN <<Failed(Head(b))>> ELSE <<>>

Bounded(b) == IF Len(b) > Capacity THEN Tail(b) ELSE b

\* Receiving from the channel, blocking (recv, when the backlog is empty) or
\* not (try_iter), until the channel is empty; then accept_message.
Receive(kind) ==
  /\ phase = "accepting"
  /\ inbox # <<>>
  /\ Head(inbox).kind = kind

AcceptRender ==
  /\ Receive("render")
  /\ LET queued == Pushed(backlog, Head(inbox).request)
     IN  /\ backlog' = Bounded(queued)
         /\ replies' = Send(Superseded(queued))
  /\ inbox' = Tail(inbox)
  /\ UNCHANGED <<phase, dropped, snapshot, tiles, outbox>>

\* Faulty variant: a rebind leaves the backlog to be answered under the new
\* snapshot.
AcceptRebindKeepsBacklog ==
  /\ Receive("rebind")
  /\ snapshot' = Head(inbox).snapshot
  /\ tiles' = OfRevision(tiles, snapshot'.revision)
  /\ inbox' = Tail(inbox)
  /\ UNCHANGED <<phase, dropped, backlog, replies, outbox>>

\* A rebind answers the whole backlog before the snapshot moves, newest first.
AcceptRebind ==
  /\ Receive("rebind")
  /\ replies' = Send([i \in DOMAIN backlog |-> Failed(Reverse(backlog)[i])])
  /\ backlog' = <<>>
  /\ snapshot' = Head(inbox).snapshot
  /\ tiles' = OfRevision(tiles, snapshot'.revision)
  /\ inbox' = Tail(inbox)
  /\ UNCHANGED <<phase, dropped, outbox>>

\* A shutdown is the last message its channel carries, so the rest of the loop
\* finds nothing to accept and returns.
AcceptShutdown == Receive("shutdown") /\ Exit /\ UNCHANGED replies

\* Faulty variant: the last pending request is left for later.
StopAcceptingLeavesOne ==
  /\ phase = "accepting"
  /\ inbox = <<>>
  /\ Len(backlog) > 1
  /\ phase' = "serving"
  /\ UNCHANGED <<dropped, inbox, backlog, snapshot, tiles, replies, outbox>>

\* The channel is drained and something is pending.
StopAccepting ==
  /\ phase = "accepting"
  /\ inbox = <<>>
  /\ backlog # <<>>
  /\ phase' = "serving"
  /\ UNCHANGED <<dropped, inbox, backlog, snapshot, tiles, replies, outbox>>

\* answer_request succeeds: the snapshot still has the page, the file has it too
\* and Pdfium draws it.
Renderable(r) ==
  /\ \E i \in DOMAIN snapshot.pages : snapshot.pages[i].id = r.page
  /\ FileIndex(r.page) \in 1..FilePages
  /\ r.page \notin Damaged

\* The content comes from the file, the geometry from the current snapshot.
Rasterized(r) ==
  [place |-> FileIndex(r.page),
   rotation |-> snapshot.pages[IndexOf([slots |-> snapshot.pages], r.page)].rotation]

\* The newest request is answered, from the cache or by rasterizing it.
Answer(r, response) ==
  /\ phase = "serving"
  /\ ~dropped
  /\ r = Last(backlog)
  /\ replies' = Append(replies, response)
  /\ backlog' = Front(backlog)
  /\ phase' = "accepting"
  /\ UNCHANGED <<dropped, inbox, snapshot, outbox>>

ServeCached ==
  \E r \in ToSet(backlog) :
    /\ Cached(tiles, r)
    /\ Answer(r, Ready(r, tiles[CachedAt(tiles, r)].tile))
    /\ tiles' = Touched(tiles, r)

ServeRasterized ==
  \E r \in ToSet(backlog) :
    /\ ~Cached(tiles, r)
    /\ Renderable(r)
    /\ Answer(r, Ready(r, Rasterized(r)))
    /\ tiles' = Inserted(tiles, r, Rasterized(r))

ServeRefused ==
  \E r \in ToSet(backlog) :
    /\ ~Cached(tiles, r)
    /\ ~Renderable(r)
    /\ Answer(r, Failed(r))
    /\ UNCHANGED tiles

\* With the handle dropped the answer cannot be sent and the worker returns.
ServeNobody == phase = "serving" /\ dropped /\ Exit /\ UNCHANGED replies

\* fail_every_request: a file that never opened is reported request by request,
\* until nobody is left to report it to.
FailRequest ==
  /\ phase = "failing"
  /\ inbox # <<>>
  /\ Head(inbox).kind = "render"
  /\ ~dropped
  /\ replies' = Append(replies, Failed(Head(inbox).request))
  /\ inbox' = Tail(inbox)
  /\ UNCHANGED <<phase, dropped, backlog, snapshot, tiles, outbox>>

FailRebind ==
  /\ phase = "failing"
  /\ inbox # <<>>
  /\ Head(inbox).kind = "rebind"
  /\ inbox' = Tail(inbox)
  /\ UNCHANGED <<phase, dropped, backlog, snapshot, tiles, replies, outbox>>

FailExit ==
  /\ phase = "failing"
  /\ inbox # <<>>
  /\ dropped
  /\ Head(inbox).kind \in {"render", "shutdown"}
  /\ Exit
  /\ UNCHANGED replies

Worker ==
  \/ OpenFile
  \/ AcceptRender
  \/ AcceptRebind
  \/ AcceptShutdown
  \/ StopAccepting
  \/ ServeCached
  \/ ServeRasterized
  \/ ServeRefused
  \/ ServeNobody
  \/ FailRequest
  \/ FailRebind
  \/ FailExit

\* The worker dies of a panic; the handle notices at the next submit.
Panic == phase \in {"accepting", "serving"} /\ Exit /\ UNCHANGED replies

-----------------------------------------------------------------------------
\* The types of the service's variables.
ServiceTypeOK ==
  /\ phase \in {"opening", "accepting", "serving", "failing", "gone"}
  /\ dropped \in BOOLEAN
  /\ inbox \in Seq(Message)
  /\ backlog \in Seq(Request)
  /\ snapshot \in Snapshot
  /\ tiles \in Seq([request : Request, tile : Tile])
  /\ replies \in Seq(Response)
  /\ outbox \in Seq(Response)
=============================================================================
