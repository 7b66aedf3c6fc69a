--------------------------- MODULE RenderSession ---------------------------
(***************************************************************************)
(* A render service used the way its documentation asks: the caller edits  *)
(* its document, rebinds the service to the new snapshot, and submits      *)
(* requests at the revision it rebound to last. (The application does not: *)
(* see Viewer.)                                                            *)
(*                                                                         *)
(* versions is an auxiliary variable that no action reads: the page lists  *)
(* the document went through, by revision.                                 *)
(***************************************************************************)
EXTENDS RenderService

CONSTANTS
  MaxEdits,       \* bound: edits of the document
  MaxOutstanding  \* bound: requests under way, answers not yet polled included

ASSUME RenderSessionAssumption ==
  /\ MaxEdits \in 0..(RevisionModulus - 1)
  /\ MaxOutstanding \in Nat

VARIABLES doc, versions

vars == <<phase, dropped, inbox, backlog, snapshot, tiles, replies, outbox, doc, versions>>

-----------------------------------------------------------------------------
Outstanding == Len(inbox) + Len(backlog) + Len(Collected)

\* Pages a caller may name: the file's, and one that was inserted later.
NamedPages == 0..FilePages

Init ==
  /\ doc \in {Opened(r) : r \in [1..FilePages -> Rotations]}
  /\ versions = <<doc.slots>>
  /\ InitService(doc, "opening")

Edited ==
  {RemovePage(doc, p) : p \in {q \in KnownIds(doc) : CanRemove(doc, q)}}
    \cup {MovePage(doc, p, 0) : p \in {q \in KnownIds(doc) : CanMove(doc, q, 0)}}
    \cup {SetRotation(doc, p, r) : p \in {q \in KnownIds(doc) : CanRotate(doc, q)},
                                   r \in Rotations}
    \cup {InsertPage(doc, at) : at \in {n \in {0} : doc.next \in NamedPages}}

\* The document changes and the service is told.
Edit ==
  /\ doc.revision < MaxEdits
  /\ \E d \in Edited :
       /\ doc' = d
       /\ versions' = Append(versions, d.slots)
       /\ Rebind(d)

\* A request for a page at the revision the service was rebound to last. The
\* page may be one that was removed since: a request is not validated.
Ask ==
  /\ Outstanding < MaxOutstanding
  /\ \E p \in NamedPages, s \in Scales :
       Submit([page |-> p, revision |-> doc.revision, scale |-> s])
  /\ UNCHANGED <<doc, versions>>

Collect == Poll /\ UNCHANGED <<doc, versions>>
Drop == DropHandle /\ UNCHANGED <<doc, versions>>
Work == Worker /\ UNCHANGED <<doc, versions>>
Die == Panic /\ UNCHANGED <<doc, versions>>

Next ==
  \/ Edit
  \/ Ask
  \/ Collect
  \/ Drop
  \/ Work
  \/ Die

Spec == Init /\ [][Next]_vars

\* The worker is a thread of its own: it keeps running whenever it can. Nothing
\* makes the caller submit, poll or drop anything.
FairSpec == Spec /\ WF_vars(Work)

-----------------------------------------------------------------------------
\* Properties

\* Types of the service's and of the caller's variables; nothing is queued twice
\* and neither store of the worker outgrows its bound.
TypeOK ==
  /\ ServiceTypeOK
  /\ doc \in Document
  /\ versions \in Seq(Seq(Slot))
  /\ Len(versions) = doc.revision + 1
  /\ IsInjective(backlog)
  /\ Len(backlog) <= Capacity
  /\ CachedBytes(tiles) <= CacheBudget

\* The picture a request asks for: the page's own content from the file, turned
\* as the document had it at the request's revision.
Pictured(r) ==
  LET pages == [slots |-> versions[r.revision + 1]]
  IN  [place |-> r.page + 1, rotation |-> pages.slots[IndexOf(pages, r.page)].rotation]

\* No tile, cached or on its way, shows another page's content or another
\* revision's geometry than its request names, however edits, rebinds, cache
\* hits and queued requests interleave (accept_message, "A rebind supersedes
\* the backlog"; map_file_indices; TileCache::retain_revision): what is queued or
\* cached always belongs to the worker's snapshot.
TilesMatchRequests ==
  /\ \A i \in DOMAIN backlog : backlog[i].revision = snapshot.revision
  /\ \A i \in DOMAIN tiles : tiles[i].request.revision = snapshot.revision
  /\ \A i \in DOMAIN tiles : tiles[i].tile = Pictured(tiles[i].request)
  /\ \A i \in DOMAIN replies :
       replies[i].answer = "ready" => replies[i].tile = Pictured(replies[i].request)

\* What the contract's variables are here: what was submitted and is still queued,
\* what the next poll will hand over, whether anybody is at either end.
Requests == [page : NamedPages, revision : 0..MaxEdits, scale : Scales]

CountIn(s, T) == Cardinality({i \in 1..Len(s) : s[i] \in T})

Waiting(r) ==
  CountIn(inbox, {[kind |-> "render", request |-> r]}) + CountIn(backlog, {r})

AnswersTo(r) == {a \in Response : a.request = r}

WaitingNow == [r \in Requests |-> IF dropped THEN 0 ELSE Waiting(r)]
AnsweredNow == [r \in Requests |-> CountIn(Collected, AnswersTo(r))]
Serving == phase # "gone" /\ ~dropped

Contract == INSTANCE RenderContract
  WITH Request <- Requests, waiting <- WaitingNow, answered <- AnsweredNow,
       serving <- Serving

\* The service keeps its contract: every answer answers a submission, once, and
\* no submission is lost, across coalescing, eviction, rebinds, a file that
\* never opened and a dead worker (RenderService::submit and poll).
KeepsContract == Contract!Spec

\* A caller that stops submitting and does not edit gets an answer to all it asked,
\* unless the worker dies or the handle is dropped first. (While submissions
\* keep coming, a newest-first queue may keep an old request waiting.)
QuietCallerAnswered ==
  \/ []<><<Ask \/ Edit>>_vars
  \/ <>[](inbox = <<>> /\ backlog = <<>>)

\* A worker whose handle is dropped ends, and with it its hold on the file,
\* whether it was opening, accepting, rasterizing or failing requests.
DroppedWorkerEnds == dropped ~> phase = "gone"

\* Neither end of the channel is left waiting: a caller that has gone quiet is
\* answered, and a worker that has been abandoned ends.
NobodyWaitsForever == QuietCallerAnswered /\ DroppedWorkerEnds
=============================================================================
