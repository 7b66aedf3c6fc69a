---------------------------- MODULE PdfiumLibrary ----------------------------
(***************************************************************************)
(* Several PdfiumRenderServices in one process (opdf-render/src/library.rs,*)
(* worker.rs, service.rs). Pdfium is loaded once and makes no promise about*)
(* threads, so every call into it is made under one process-wide lock: by  *)
(* the worker of each service when it opens its document, rasterizes a page*)
(* and closes the document, and by any other thread through with_pdfium.   *)
(*                                                                         *)
(* A request is answered here one at a time and in order; what a service   *)
(* makes of its queue and of edits is RenderService's.                     *)
(***************************************************************************)
EXTENDS TileGeometry

CONSTANTS
  Service,    \* the services, and their worker threads
  Guest,      \* the threads that call with_pdfium
  None,
  Pages,      \* the pages of the document they all open: [id, size, rotation]
  FileTurns,  \* the rotations the pages may have in the file
  Damaged,    \* the pages Pdfium cannot give or draw
  Request     \* what may be asked: [document, page, revision, scale, rotation]

ASSUME PdfiumLibraryAssumption ==
  /\ None \notin Service \cup Guest
  /\ Service \cap Guest = {}
  /\ \A i, j \in DOMAIN Pages : Pages[i].id = Pages[j].id => i = j
  /\ \A i \in DOMAIN Pages : Pages[i].rotation \in 0..3
  /\ \A i \in DOMAIN Pages : Pages[i].size \in [width : Int, height : Int]
  /\ FileTurns \subseteq 0..3
  /\ \A r \in Request : r.rotation \in 0..3 /\ r.scale \in Int

VARIABLES
  library,   \* PDFIUM: "unset", "loading", or how loading ended: "bound" or "missing"
  lock,      \* PDFIUM_LOCK: the thread that holds it, or None
  at,        \* where each thread is
  errand,    \* what each worker needs the lock for
  caller,    \* the service the thread that owns them all waits for in open, or None
  handle,    \* of each service: "none", "waiting", "held", "dropped"
  ready,     \* what its worker reported of the open: None, "ok" or "error"
  inbox,     \* its requests, not yet taken
  replies    \* its answers, not yet collected

libraryVars == <<library, lock, at, errand, caller, handle, ready, inbox, replies>>

Thread == Service \cup Guest

\* What a thread goes through. "calling", "loading" and "unwinding" are inside
\* of Pdfium.
Place == {"idle", "binding", "loading", "locking", "calling",
          "serving", "failing", "unwinding", "gone"}

Response(request, outcome) == [request |-> request, outcome |-> outcome]

InitLibrary ==
  /\ library = "unset"
  /\ lock = None
  /\ at = [t \in Thread |-> "idle"]
  /\ errand = [s \in Service |-> "open"]
  /\ caller = None
  /\ handle = [s \in Service |-> "none"]
  /\ ready = [s \in Service |-> None]
  /\ inbox = [s \in Service |-> <<>>]
  /\ replies = [s \in Service |-> <<>>]

-----------------------------------------------------------------------------
\* The owner's thread. It does nothing else while it waits in open.

\* PdfiumRenderService::open_deferred, and the first half of open
Build(s, waits) ==
  /\ caller = None
  /\ handle[s] = "none"
  /\ handle' = [handle EXCEPT ![s] = IF waits THEN "waiting" ELSE "held"]
  /\ caller' = IF waits THEN s ELSE caller
  /\ at' = [at EXCEPT ![s] = "binding"]
  /\ UNCHANGED <<library, lock, errand, ready, inbox, replies>>

\* The second half: the worker reported, or is gone without a report. On an
\* error the service is dropped on the spot.
OpenReturns(s) ==
  /\ caller = s
  /\ ready[s] # None \/ at[s] = "gone"
  /\ caller' = None
  /\ handle' = [handle EXCEPT ![s] = IF ready[s] = "ok" THEN "held" ELSE "dropped"]
  /\ UNCHANGED <<library, lock, at, errand, ready, inbox, replies>>

\* submit: a request for a dead worker is answered by the handle.
Submit(s, r) ==
  /\ caller = None
  /\ handle[s] = "held"
  /\ IF at[s] = "gone"
     THEN /\ replies' = [replies EXCEPT ![s] = Append(@, Response(r, Failed("no worker")))]
          /\ UNCHANGED inbox
     ELSE /\ inbox' = [inbox EXCEPT ![s] = Append(@, r)]
          /\ UNCHANGED replies
  /\ UNCHANGED <<library, lock, at, errand, caller, handle, ready>>

\* poll: whatever has been answered.
Poll(s) ==
  /\ caller = None
  /\ handle[s] = "held"
  /\ replies' = [replies EXCEPT ![s] = <<>>]
  /\ UNCHANGED <<library, lock, at, errand, caller, handle, ready, inbox>>

\* PdfiumRenderService::drop returns without waiting for the worker. Answers
\* are not collected any more.
DropHandle(s) ==
  /\ caller = None
  /\ handle[s] = "held"
  /\ handle' = [handle EXCEPT ![s] = "dropped"]
  /\ replies' = [replies EXCEPT ![s] = <<>>]
  /\ UNCHANGED <<library, lock, at, errand, caller, ready, inbox>>

-----------------------------------------------------------------------------
\* bind_pdfium: the first thread to ask loads the library, the others wait
\* for it, and what came of it is kept for good.

BeginLoading(t) ==
  /\ at[t] = "binding" /\ library = "unset"
  /\ library' = "loading"
  /\ at' = [at EXCEPT ![t] = "loading"]
  /\ UNCHANGED <<lock, errand, caller, handle, ready, inbox, replies>>

FinishLoading(t) ==
  /\ at[t] = "loading"
  /\ library' \in {"bound", "missing"}
  /\ at' = [at EXCEPT ![t] = "binding"]
  /\ UNCHANGED <<lock, errand, caller, handle, ready, inbox, replies>>

Bind(t) ==
  /\ at[t] = "binding" /\ library = "bound"
  /\ at' = [at EXCEPT ![t] = "locking"]
  /\ UNCHANGED <<library, lock, errand, caller, handle, ready, inbox, replies>>

\* lock_pdfium: a lock that a panic has poisoned is taken all the same.
Lock(t) ==
  /\ at[t] = "locking" /\ lock = None
  /\ lock' = t
  /\ at' = [at EXCEPT ![t] = "calling"]
  /\ UNCHANGED <<library, errand, caller, handle, ready, inbox, replies>>

-----------------------------------------------------------------------------
\* with_pdfium, on a thread of its own

Visit(g) ==
  /\ at[g] = "idle"
  /\ at' = [at EXCEPT ![g] = "binding"]
  /\ UNCHANGED <<library, lock, errand, caller, handle, ready, inbox, replies>>

Refused(g) ==
  /\ at[g] = "binding" /\ library = "missing"
  /\ at' = [at EXCEPT ![g] = "idle"]
  /\ UNCHANGED <<library, lock, errand, caller, handle, ready, inbox, replies>>

\* The guard goes when the closure has returned, or has panicked.
Leave(g) ==
  /\ at[g] = "calling"
  /\ lock' = None
  /\ at' = [at EXCEPT ![g] = "idle"]
  /\ UNCHANGED <<library, errand, caller, handle, ready, inbox, replies>>

-----------------------------------------------------------------------------
\* run_worker

\* What the worker was sent and has not taken ends with it.
Ends(s) ==
  /\ at' = [at EXCEPT ![s] = "gone"]
  /\ inbox' = [inbox EXCEPT ![s] = <<>>]

\* There is no library: every request is failed with the reason.
FailToBind(s) ==
  /\ at[s] = "binding" /\ library = "missing"
  /\ at' = [at EXCEPT ![s] = "failing"]
  /\ ready' = [ready EXCEPT ![s] = "error"]
  /\ UNCHANGED <<library, lock, errand, caller, handle, inbox, replies>>

Calls(s, what) == at[s] = "calling" /\ errand[s] = what

OpenFile(s) ==
  /\ Calls(s, "open")
  /\ lock' = None
  /\ at' = [at EXCEPT ![s] = "serving"]
  /\ ready' = [ready EXCEPT ![s] = "ok"]
  /\ UNCHANGED <<library, errand, caller, handle, inbox, replies>>

\* Faulty variant: the guard is held for as long as requests are failed.
FailToOpenUnderTheLock(s) ==
  /\ Calls(s, "open")
  /\ at' = [at EXCEPT ![s] = "failing"]
  /\ ready' = [ready EXCEPT ![s] = "error"]
  /\ UNCHANGED <<library, lock, errand, caller, handle, inbox, replies>>

\* The file does not open: the guard is dropped before requests are failed.
FailToOpen(s) ==
  /\ Calls(s, "open")
  /\ lock' = None
  /\ at' = [at EXCEPT ![s] = "failing"]
  /\ ready' = [ready EXCEPT ![s] = "error"]
  /\ UNCHANGED <<library, errand, caller, handle, inbox, replies>>

\* fail_every_request, until there is nobody to answer.
FailRequest(s) ==
  /\ at[s] = "failing" /\ handle[s] # "dropped" /\ inbox[s] # <<>>
  /\ inbox' = [inbox EXCEPT ![s] = Tail(@)]
  /\ replies' = [replies EXCEPT ![s] = Append(@, Response(Head(inbox[s]), Failed("not open")))]
  /\ UNCHANGED <<library, lock, at, errand, caller, handle, ready>>

StopFailing(s) ==
  /\ at[s] = "failing" /\ handle[s] = "dropped"
  /\ Ends(s)
  /\ UNCHANGED <<library, lock, errand, caller, handle, ready, replies>>

-----------------------------------------------------------------------------
\* serve_requests

Ids == {Pages[i].id : i \in DOMAIN Pages}
PageOf(p) == Pages[CHOOSE i \in DOMAIN Pages : Pages[i].id = p]

\* answer_request, before it takes the lock: the page is not in the snapshot,
\* or its tile is out of bounds.
Geometry(r) ==
  IF r.page \in Ids THEN ComputeTileGeometry(PageOf(r.page), r) ELSE Failed("unknown page")

\* The answer to a handle that was dropped meanwhile goes nowhere.
AnswerWith(s, outcome) ==
  /\ inbox' = [inbox EXCEPT ![s] = Tail(@)]
  /\ replies' = IF handle[s] = "dropped" THEN replies
                ELSE [replies EXCEPT ![s] = Append(@, Response(Head(inbox[s]), outcome))]

Serves(s) == at[s] = "serving" /\ handle[s] # "dropped" /\ inbox[s] # <<>>

RefuseRequest(s) ==
  /\ Serves(s)
  /\ Geometry(Head(inbox[s])).kind = "failed"
  /\ AnswerWith(s, Geometry(Head(inbox[s])))
  /\ UNCHANGED <<library, lock, at, errand, caller, handle, ready>>

BeginRender(s) ==
  /\ Serves(s)
  /\ Geometry(Head(inbox[s])).kind = "ready"
  /\ at' = [at EXCEPT ![s] = "locking"]
  /\ errand' = [errand EXCEPT ![s] = "render"]
  /\ UNCHANGED <<library, lock, caller, handle, ready, inbox, replies>>

\* The page may be turned in the file otherwise than in the snapshot.
Render(s) ==
  /\ Calls(s, "render")
  /\ IF Head(inbox[s]).page \in Damaged
     THEN AnswerWith(s, Failed("damaged"))
     ELSE \E turn \in FileTurns :
            AnswerWith(s, RasterizePage(Geometry(Head(inbox[s])), turn))
  /\ lock' = None
  /\ at' = [at EXCEPT ![s] = "serving"]
  /\ UNCHANGED <<library, errand, caller, handle, ready>>

\* Faulty variant: the document goes where it goes out of scope.
BeginCloseUnlocked(s) ==
  /\ at[s] = "serving" /\ handle[s] = "dropped"
  /\ at' = [at EXCEPT ![s] = "calling"]
  /\ errand' = [errand EXCEPT ![s] = "close"]
  /\ UNCHANGED <<library, lock, caller, handle, ready, inbox, replies>>

\* The handle was dropped: what is left in the queue stays unanswered, and the
\* document is closed under the lock (close_document).
BeginClose(s) ==
  /\ at[s] = "serving" /\ handle[s] = "dropped"
  /\ at' = [at EXCEPT ![s] = "locking"]
  /\ errand' = [errand EXCEPT ![s] = "close"]
  /\ UNCHANGED <<library, lock, caller, handle, ready, inbox, replies>>

Close(s) ==
  /\ Calls(s, "close")
  /\ lock' = IF lock = s THEN None ELSE lock
  /\ Ends(s)
  /\ UNCHANGED <<library, errand, caller, handle, ready, replies>>

-----------------------------------------------------------------------------
\* A panic in one of these calls. The guard of the call goes first; if the
\* document is open, it is dropped further up, by run_worker's own unwinding:
\* a call into Pdfium that holds no lock.
PanicInCall(s) ==
  /\ at[s] = "calling"
  /\ lock' = IF lock = s THEN None ELSE lock
  /\ IF errand[s] = "render"
     THEN at' = [at EXCEPT ![s] = "unwinding"] /\ UNCHANGED inbox
     ELSE Ends(s)
  /\ UNCHANGED <<library, errand, caller, handle, ready, replies>>

FinishUnwinding(s) ==
  /\ at[s] = "unwinding"
  /\ Ends(s)
  /\ UNCHANGED <<library, lock, errand, caller, handle, ready, replies>>

-----------------------------------------------------------------------------
Enters(t) == BeginLoading(t) \/ FinishLoading(t) \/ Bind(t) \/ Lock(t)

Worker(s) ==
  \/ Enters(s)
  \/ FailToBind(s) \/ OpenFile(s) \/ FailToOpen(s) \/ FailRequest(s) \/ StopFailing(s)
  \/ RefuseRequest(s) \/ BeginRender(s) \/ Render(s) \/ BeginClose(s) \/ Close(s)
  \/ PanicInCall(s) \/ FinishUnwinding(s)

Visitor(g) == Visit(g) \/ Enters(g) \/ Refused(g) \/ Leave(g)

-----------------------------------------------------------------------------
\* Properties

InPdfium(t) == at[t] \in {"loading", "calling", "unwinding"}

\* "Every call into Pdfium must hold [the lock] -- including the drops that
\* close a document" (lock_pdfium), and the call that loads it is made before
\* any other can be: no two threads are ever inside of Pdfium at once. The
\* exception is a worker that unwinds, whose document is closed unlocked.
CallsDoNotOverlap ==
  /\ \A t \in Thread : at[t] = "calling" => lock = t
  /\ \A s, t \in Thread : InPdfium(s) /\ InPdfium(t) /\ s # t =>
       "unwinding" \in {at[s], at[t]}

\* What a thread waits for is coming, whoever else loads, renders, fails or
\* panics meanwhile: open returns, and a dropped worker ends, its document
\* closed. The one excuse is a lock that keeps being taken: a std Mutex is not
\* fair, and does not promise a thread that waits that its turn will come.
NobodyHangs ==
  \/ \E t \in Thread : []<><<Lock(t)>>_libraryVars
  \/ /\ caller # None ~> caller = None
     /\ \A s \in Service : handle[s] = "dropped" ~> at[s] = "gone"
=============================================================================
