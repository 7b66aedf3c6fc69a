-------------------------- MODULE RenderTwinsProofs --------------------------
(***************************************************************************)
(* For any number of services and guests, any pages and requests, and any  *)
(* limits: no two threads are inside of Pdfium at once, the Pdfium         *)
(* renderer answers as the fake one would, and both pass the render        *)
(* contract suite: an answer is what the suite asks for because it agrees  *)
(* with the fake's, and each request is answered once because what is      *)
(* asked of a service and what it has under way change together.           *)
(***************************************************************************)
EXTENDS RenderTwins, SequenceTheorems, FunctionTheorems, FiniteSetTheorems, TLAPS

-----------------------------------------------------------------------------
\* Calls into Pdfium

PlacesTyped ==
  /\ at \in [Thread -> Place]
  /\ library \in {"unset", "loading", "bound", "missing"}

\* Loading is over before anything else can be called, and is done once.
OneLoads ==
  /\ \A t \in Thread : at[t] = "loading" => library = "loading"
  /\ \A s, t \in Thread : at[s] = "loading" /\ at[t] = "loading" => s = t
  /\ \A t \in Thread :
       at[t] \in {"locking", "calling", "serving", "unwinding"} => library = "bound"

CallerHoldsLock == \A t \in Thread : at[t] = "calling" => lock = t

LockInvariant == PlacesTyped /\ OneLoads /\ CallerHoldsLock

LEMMA LockInitially == Init => LockInvariant
BY DEF Init, InitLibrary, LockInvariant, PlacesTyped, OneLoads, CallerHoldsLock, Place

\* The place of one thread changes.
LEMMA PlaceChanges ==
  ASSUME PlacesTyped, NEW t \in Thread, NEW place \in Place,
         at' = [at EXCEPT ![t] = place]
  PROVE  /\ at' \in [Thread -> Place]
         /\ at'[t] = place
         /\ \A u \in Thread : u # t => at'[u] = at[u]
BY DEF PlacesTyped

LEMMA OwnerKeepsLock ==
  ASSUME LockInvariant, Owner
  PROVE  LockInvariant'
<1>1. Service \subseteq Thread
  BY DEF Thread
<1>2. CASE UNCHANGED <<at, library, lock>>
  BY <1>2 DEF LockInvariant, PlacesTyped, OneLoads, CallerHoldsLock
<1>3. CASE \E s \in Service, waits \in BOOLEAN : Build(s, waits)
  <2>1. PICK s \in Service : /\ at' = [at EXCEPT ![s] = "binding"]
                             /\ library' = library /\ lock' = lock
    BY <1>3 DEF Build
  <2>2. PlacesTyped /\ s \in Thread /\ "binding" \in Place
    BY <1>1 DEF LockInvariant, Place
  <2>3. QED
    BY <2>1, <2>2, PlaceChanges
    DEF LockInvariant, PlacesTyped, OneLoads, CallerHoldsLock
<1>4. QED
  BY <1>2, <1>3
  DEF Owner, OpenReturns, Forget, DropHandle, Ask, Submit, Collect, Poll

LEMMA EnteringKeepsLock ==
  ASSUME LockInvariant, NEW t \in Thread, Enters(t)
  PROVE  LockInvariant'
<1>1. /\ PlacesTyped
      /\ {"loading", "binding", "locking", "calling"} \subseteq Place
  BY DEF LockInvariant, Place
<1>2. CASE BeginLoading(t)
  BY <1>1, <1>2, PlaceChanges
  DEF BeginLoading, LockInvariant, PlacesTyped, OneLoads, CallerHoldsLock
<1>3. CASE FinishLoading(t)
  BY <1>1, <1>3, PlaceChanges
  DEF FinishLoading, LockInvariant, PlacesTyped, OneLoads, CallerHoldsLock
<1>4. CASE Bind(t)
  BY <1>1, <1>4, PlaceChanges
  DEF Bind, LockInvariant, PlacesTyped, OneLoads, CallerHoldsLock
<1>5. CASE Lock(t)
  <2>1. \A u \in Thread : at[u] # "calling"
    BY <1>5, PdfiumLibraryAssumption DEF Lock, LockInvariant, CallerHoldsLock, Thread
  <2>2. QED
    BY <1>1, <1>5, <2>1, PlaceChanges
    DEF Lock, LockInvariant, PlacesTyped, OneLoads, CallerHoldsLock
<1>6. QED BY <1>2, <1>3, <1>4, <1>5 DEF Enters

\* A thread leaves the library, or moves outside of it: it takes no lock, and
\* gives up only its own.
LEMMA LeavingKeepsLock ==
  ASSUME LockInvariant, NEW t \in Thread,
         NEW place \in {"idle", "failing", "gone", "serving", "unwinding", "locking"},
         at' = [at EXCEPT ![t] = place],
         library' = library,
         lock' = lock \/ (at[t] = "calling" /\ lock' = None),
         place \in {"serving", "unwinding", "locking"} => library = "bound"
  PROVE  LockInvariant'
<1>1. PlacesTyped /\ place \in Place /\ place \notin {"loading", "calling"}
  BY DEF LockInvariant, Place
<1>2. CallerHoldsLock'
  <2>1. ASSUME NEW u \in Thread, at'[u] = "calling" PROVE lock' = u
    <3>1. u # t /\ at[u] = "calling"
      BY <1>1, <2>1, PlaceChanges
    <3>2. QED BY <3>1 DEF LockInvariant, CallerHoldsLock
  <2>2. QED BY <2>1 DEF CallerHoldsLock
<1>3. QED
  BY <1>1, <1>2, PlaceChanges DEF LockInvariant, PlacesTyped, OneLoads

LEMMA WorkerKeepsLock ==
  ASSUME LockInvariant, NEW s \in Service, Worker(s)
  PROVE  LockInvariant'
<1>1. s \in Thread
  BY DEF Thread
<1>2. CASE Enters(s)
  BY <1>1, <1>2, EnteringKeepsLock
<1>3. CASE FailRequest(s) \/ RefuseRequest(s)
  BY <1>3
  DEF FailRequest, RefuseRequest, LockInvariant, PlacesTyped, OneLoads, CallerHoldsLock
<1>4. CASE FailToBind(s) \/ StopFailing(s) \/ FinishUnwinding(s)
  BY <1>1, <1>4, LeavingKeepsLock
  DEF FailToBind, StopFailing, FinishUnwinding, Ends
<1>5. CASE OpenFile(s) \/ FailToOpen(s) \/ Close(s) \/ PanicInCall(s) \/ Render(s)
  <2>1. at[s] = "calling" /\ lock = s /\ library = "bound"
    BY <1>1, <1>5
    DEF OpenFile, FailToOpen, Close, PanicInCall, Render, Calls,
        LockInvariant, CallerHoldsLock, OneLoads
  <2>2. CASE OpenFile(s) \/ Render(s)
    BY <1>1, <2>1, <2>2, LeavingKeepsLock DEF OpenFile, Render
  <2>3. CASE FailToOpen(s) \/ Close(s)
    BY <1>1, <2>1, <2>3, LeavingKeepsLock DEF FailToOpen, Close, Ends
  <2>4. CASE PanicInCall(s)
    BY <1>1, <2>1, <2>4, LeavingKeepsLock DEF PanicInCall, Ends
  <2>5. QED BY <1>5, <2>2, <2>3, <2>4
<1>6. CASE BeginRender(s) \/ BeginClose(s)
  <2>1. at[s] = "serving" /\ library = "bound"
    BY <1>1, <1>6 DEF BeginRender, BeginClose, Serves, LockInvariant, OneLoads
  <2>2. QED BY <1>1, <1>6, <2>1, LeavingKeepsLock DEF BeginRender, BeginClose
<1>7. QED BY <1>2, <1>3, <1>4, <1>5, <1>6 DEF Worker

LEMMA VisitorKeepsLock ==
  ASSUME LockInvariant, NEW g \in Guest, Visitor(g)
  PROVE  LockInvariant'
<1>1. g \in Thread
  BY DEF Thread
<1>2. CASE Enters(g)
  BY <1>1, <1>2, EnteringKeepsLock
<1>3. CASE Refused(g) \/ Leave(g)
  BY <1>1, <1>3, LeavingKeepsLock DEF Refused, Leave
<1>4. CASE Visit(g)
  BY SMTT(30), <1>1, <1>4, PlaceChanges
  DEF Visit, LockInvariant, PlacesTyped, OneLoads, CallerHoldsLock, Place
<1>5. QED BY <1>2, <1>3, <1>4 DEF Visitor

LEMMA LockInvariantHolds == Spec => []LockInvariant
<1>1. LockInvariant /\ [Next]_vars => LockInvariant'
  <2> SUFFICES ASSUME LockInvariant, [Next]_vars PROVE LockInvariant'
    OBVIOUS
  <2>1. CASE UNCHANGED vars
    BY <2>1
    DEF vars, libraryVars, LockInvariant, PlacesTyped, OneLoads, CallerHoldsLock
  <2>2. CASE Next
    BY <2>2, OwnerKeepsLock, WorkerKeepsLock, VisitorKeepsLock DEF Next
  <2>3. QED BY <2>1, <2>2
<1>2. QED BY <1>1, LockInitially, PTL DEF Spec

\* No two threads are ever inside of Pdfium at once, however many services and
\* other threads there are; only the document of a worker that panicked is
\* closed beside another's call.
THEOREM PdfiumCallsNeverOverlap == Spec => []CallsDoNotOverlap
<1>1. LockInvariant => CallsDoNotOverlap
  BY DEF LockInvariant, OneLoads, CallerHoldsLock, CallsDoNotOverlap, InPdfium
<1>2. QED BY <1>1, LockInvariantHolds, PTL
-----------------------------------------------------------------------------
\* The answers

\* The outcomes a request may have, and the answers a service may give.
Reasons == {"edge too long", "damaged", "not open", "no worker"}
Agreeing(r) ==
  {o \in {FakeOutcome(r)} \cup {Failed(reason) : reason \in Reasons} :
     o = FakeOutcome(r) \/ MayDiffer(o, FakeOutcome(r), r.page)}
Answers == UNION {{Response(r, o) : o \in Agreeing(r)} : r \in Request}

AnswersAgree ==
  /\ replies \in [Service -> Seq(Answers)]
  /\ inbox \in [Service -> Seq(Request)]

\* A worker that needs the lock for a request has one that can be drawn: it has
\* opened its document before, so it is past the start for good.
Starting == {"idle", "binding", "loading"}
Prepared(s) ==
  /\ handle[s] = "none" => at[s] = "idle"
  /\ at[s] \in Starting => errand[s] = "open"
  /\ at[s] \in {"locking", "calling"} /\ errand[s] = "render" =>
       inbox[s] # <<>> /\ Geometry(Head(inbox[s])).kind = "ready"

AskedForDrawable ==
  /\ at \in [Thread -> Place]
  /\ errand \in [Service -> {"open", "render", "close"}]
  /\ DOMAIN handle = Service
  /\ \A s \in Service : Prepared(s)

AnswerInvariant == AnswersAgree /\ AskedForDrawable

LEMMA AnswersGrow ==
  ASSUME AnswersAgree, NEW s \in Service, NEW r \in Request, NEW o \in Agreeing(r)
  PROVE  [replies EXCEPT ![s] = Append(@, Response(r, o))] \in [Service -> Seq(Answers)]
<1>1. Response(r, o) \in Answers
  BY DEF Answers
<1>2. Append(replies[s], Response(r, o)) \in Seq(Answers)
  BY <1>1, AppendProperties DEF AnswersAgree
<1>3. QED BY <1>2 DEF AnswersAgree

LEMMA FailuresAgree ==
  ASSUME NEW r \in Request
  PROVE  Failed("not open") \in Agreeing(r) /\ Failed("no worker") \in Agreeing(r)
BY DEF Agreeing, Reasons, MayDiffer

LEMMA TurnedTheSame ==
  ASSUME NEW total \in 0..3, NEW turn \in 0..3
  PROVE  RotatedBy(turn, ResidualRotation(total, turn)) = total
BY DEF RotatedBy, ResidualRotation

\* What a request is refused for, the fake refuses it for too, or its tile has
\* an edge the fake has no limit for.
LEMMA RefusalAgrees ==
  ASSUME NEW r \in Request, Geometry(r).kind = "failed"
  PROVE  Geometry(r) \in Agreeing(r)
<1>1. CASE r.page \notin Ids
  BY <1>1 DEF Geometry, FakeOutcome, Agreeing
<1>2. CASE r.page \in Ids
  BY <1>2
  DEF Geometry, FakeOutcome, Agreeing, ComputeTileGeometry, RenderFlatTile,
      Ready, Failed, Reasons, MayDiffer
<1>3. QED BY <1>1, <1>2

\* What is drawn is the fake's tile, however the page is turned in the file.
LEMMA DrawingAgrees ==
  ASSUME NEW r \in Request, Geometry(r).kind = "ready", NEW turn \in FileTurns
  PROVE  RasterizePage(Geometry(r), turn) \in Agreeing(r)
<1>1. r.page \in Ids
  BY DEF Geometry, Failed
<1>2. PageOf(r.page).rotation \in 0..3
  BY <1>1, PdfiumLibraryAssumption DEF Ids, PageOf
<1>3. Geometry(r) = FakeOutcome(r)
  BY <1>1
  DEF Geometry, FakeOutcome, ComputeTileGeometry, RenderFlatTile, Ready, Failed
<1>4. Geometry(r).turned \in 0..3
  <2>1. Geometry(r).turned = RotatedBy(PageOf(r.page).rotation, r.rotation)
    BY <1>1 DEF Geometry, ComputeTileGeometry, Ready, Failed
  <2>2. r.rotation \in 0..3
    BY PdfiumLibraryAssumption
  <2>3. QED BY <1>2, <2>1, <2>2 DEF RotatedBy
<1>5. turn \in 0..3
  BY PdfiumLibraryAssumption
<1>6. Geometry(r) = Ready(Geometry(r).width, Geometry(r).height, Geometry(r).turned)
  BY <1>1 DEF Geometry, ComputeTileGeometry, Ready, Failed
<1>7. RasterizePage(Geometry(r), turn) = Geometry(r)
  BY <1>4, <1>5, <1>6, TurnedTheSame DEF RasterizePage
<1>8. QED BY <1>3, <1>7 DEF Agreeing

LEMMA DamageAgrees ==
  ASSUME NEW r \in Request, r.page \in Damaged
  PROVE  Failed("damaged") \in Agreeing(r)
BY DEF Agreeing, Reasons, MayDiffer

LEMMA AnswersInitially == Init => AnswerInvariant
<1> SUFFICES ASSUME Init PROVE AnswerInvariant
  OBVIOUS
<1>1. <<>> \in Seq(Answers) /\ <<>> \in Seq(Request)
  BY EmptySeq
<1>2. AnswersAgree
  BY <1>1 DEF Init, InitLibrary, AnswersAgree
<1>3. AskedForDrawable
  BY DEF Init, InitLibrary, AskedForDrawable, Prepared, Place, Thread, Starting
<1>4. QED BY <1>2, <1>3 DEF AnswerInvariant

\* A step of one worker, or for one service, concerns no other.
LEMMA OneIsConcerned ==
  ASSUME AskedForDrawable, NEW s \in Service, Prepared(s)',
         NEW place \in Place, at' \in {at, [at EXCEPT ![s] = place]},
         NEW what \in {"open", "render", "close"},
         errand' \in {errand, [errand EXCEPT ![s] = what]},
         DOMAIN handle' = Service,
         \A u \in Service \ {s} : handle'[u] = handle[u] /\ inbox'[u] = inbox[u]
  PROVE  AskedForDrawable'
<1>1. at' \in [Thread -> Place] /\ errand' \in [Service -> {"open", "render", "close"}]
  BY DEF AskedForDrawable
<1>2. ASSUME NEW u \in Service \ {s} PROVE at'[u] = at[u] /\ errand'[u] = errand[u]
  <2>1. at'[u] = at[u]
    BY DEF AskedForDrawable, Thread
  <2>2. errand'[u] = errand[u]
    BY DEF AskedForDrawable
  <2>3. QED BY <2>1, <2>2
<1>3. ASSUME NEW u \in Service \ {s} PROVE Prepared(u)'
  <2>1. Prepared(u)
    BY DEF AskedForDrawable
  <2>2. QED BY <1>2, <2>1 DEF Prepared
<1>4. QED BY <1>1, <1>3 DEF AskedForDrawable

LEMMA OwnerKeepsAnswers ==
  ASSUME AnswerInvariant, Owner
  PROVE  AnswerInvariant'
<1> USE DEF AnswerInvariant
<1>1. /\ AnswersAgree /\ AskedForDrawable
      /\ <<>> \in Seq(Answers)
      /\ {"binding", "idle"} \subseteq Place
  BY EmptySeq DEF Place
<1>2. ASSUME NEW s \in Service
      PROVE  /\ Prepared(s) /\ s \in Thread /\ at[s] \in Place
             /\ errand[s] \in {"open", "render", "close"}
  BY <1>1 DEF AskedForDrawable, Thread
<1>3. ASSUME NEW s \in Service, NEW waits \in BOOLEAN, Build(s, waits)
      PROVE  AnswerInvariant'
  <2>1. Prepared(s)'
    BY <1>1, <1>2, <1>3 DEF Build, AskedForDrawable, Prepared, Starting
  <2>2. AskedForDrawable'
    BY <1>1, <1>3, <2>1, OneIsConcerned DEF Build, AskedForDrawable
  <2>3. QED BY <1>1, <1>3, <2>2 DEF Build, AnswersAgree
<1>4. ASSUME NEW s \in Service, OpenReturns(s) \/ DropHandle(s) \/ Poll(s)
      PROVE  AnswerInvariant'
  <2>1. /\ UNCHANGED <<at, errand, inbox>>
        /\ DOMAIN handle' = Service
        /\ \A u \in Service : handle'[u] = "none" => handle[u] = "none"
    <3>1. CASE Poll(s)
      BY <1>1, <3>1 DEF Poll, AskedForDrawable
    <3>2. CASE OpenReturns(s) \/ DropHandle(s)
      <4>1. PICK next \in {"held", "dropped"} : handle' = [handle EXCEPT ![s] = next]
        BY <3>2 DEF OpenReturns, DropHandle
      <4>2. QED BY <1>1, <3>2, <4>1 DEF OpenReturns, DropHandle, AskedForDrawable
    <3>3. QED BY <1>4, <3>1, <3>2
  <2>2. AskedForDrawable'
    BY <1>1, <2>1 DEF AskedForDrawable, Prepared
  <2>3. AnswersAgree'
    BY <1>1, <1>4, <2>1 DEF OpenReturns, DropHandle, Poll, AnswersAgree
  <2>4. QED BY <2>2, <2>3
<1>5. ASSUME NEW s \in Service, NEW r \in Request, Submit(s, r)
      PROVE  AnswerInvariant'
  <2>1. CASE at[s] = "gone"
    <3>1. replies' \in [Service -> Seq(Answers)]
      <4>1. Failed("no worker") \in Agreeing(r)
        BY FailuresAgree
      <4>2. replies' = [replies EXCEPT ![s] = Append(@, Response(r, Failed("no worker")))]
        BY <1>5, <2>1 DEF Submit
      <4>3. QED BY <1>1, <4>1, <4>2, AnswersGrow
    <3>2. QED
      BY <1>1, <1>5, <2>1, <3>1
      DEF Submit, AnswersAgree, AskedForDrawable, Prepared
  <2>2. CASE at[s] # "gone"
    <3>1. inbox[s] \in Seq(Request)
      BY <1>1 DEF AnswersAgree
    <3>2. /\ Append(inbox[s], r) \in Seq(Request)
          /\ Append(inbox[s], r) # <<>>
          /\ inbox[s] # <<>> => Head(Append(inbox[s], r)) = Head(inbox[s])
      BY <3>1, AppendProperties, HeadTailAppend
    <3>3. /\ inbox' = [inbox EXCEPT ![s] = Append(inbox[s], r)]
          /\ UNCHANGED <<at, errand, handle, replies>>
      BY <1>5, <2>2 DEF Submit
    <3>4. inbox'[s] = Append(inbox[s], r) /\ \A u \in Service \ {s} : inbox'[u] = inbox[u]
      BY <1>1, <3>3 DEF AnswersAgree
    <3>5. Prepared(s)'
      BY <1>2, <3>2, <3>3, <3>4 DEF Prepared
    <3>6. AskedForDrawable'
      BY <1>1, <1>2, <3>3, <3>4, <3>5, OneIsConcerned DEF AskedForDrawable
    <3>7. AnswersAgree'
      BY <1>1, <3>2, <3>3 DEF AnswersAgree
    <3>8. QED BY <3>6, <3>7
  <2>3. QED BY <2>1, <2>2
<1>6. QED BY <1>3, <1>4, <1>5 DEF Owner, Forget, Ask, Collect

LEMMA EnteringKeepsAnswers ==
  ASSUME AnswerInvariant, NEW t \in Thread, Enters(t)
  PROVE  AnswerInvariant'
<1>1. /\ AnswersAgree' 
      /\ UNCHANGED <<errand, handle, inbox>>
  BY DEF AnswerInvariant, AnswersAgree, Enters, BeginLoading, FinishLoading, Bind, Lock
<1>2. /\ at' \in [Thread -> Place]
      /\ \A u \in Thread : u # t => at'[u] = at[u]
      /\ at'[t] \in Starting => at[t] \in Starting
      /\ at'[t] # "idle" /\ at[t] # "idle"
      /\ at'[t] \in {"locking", "calling"} => at[t] \in {"locking"} \cup Starting
  BY DEF AnswerInvariant, AskedForDrawable, Enters, BeginLoading, FinishLoading,
         Bind, Lock, Place, Starting
<1>3. ASSUME NEW u \in Service PROVE Prepared(u)'
  <2>1. Prepared(u) /\ u \in Thread
    BY DEF AnswerInvariant, AskedForDrawable, Thread
  <2>2. QED BY <1>1, <1>2, <2>1 DEF Prepared
<1>4. AskedForDrawable'
  BY <1>1, <1>2, <1>3 DEF AnswerInvariant, AskedForDrawable
<1>5. QED BY <1>1, <1>4 DEF AnswerInvariant

LEMMA VisitorKeepsAnswers ==
  ASSUME AnswerInvariant, NEW g \in Guest, Visitor(g)
  PROVE  AnswerInvariant'
<1>1. g \in Thread /\ g \notin Service
  BY PdfiumLibraryAssumption DEF Thread
<1>2. CASE Enters(g)
  BY <1>1, <1>2, EnteringKeepsAnswers
<1>3. CASE Visit(g) \/ Refused(g) \/ Leave(g)
  <2>1. /\ UNCHANGED <<errand, handle, inbox, replies>>
        /\ at' \in [Thread -> Place]
        /\ \A u \in Service : at'[u] = at[u]
    BY <1>1, <1>3
    DEF Visit, Refused, Leave, AnswerInvariant, AskedForDrawable, Place, Thread
  <2>2. QED BY <2>1 DEF AnswerInvariant, AnswersAgree, AskedForDrawable, Prepared
<1>4. QED BY <1>2, <1>3 DEF Visitor

\* A request is answered, or given up.
LEMMA AnsweringAgrees ==
  ASSUME AnswersAgree, NEW s \in Service, inbox[s] # <<>>,
         NEW o \in Agreeing(Head(inbox[s])), AnswerWith(s, o)
  PROVE  AnswersAgree'
<1>1. /\ inbox[s] \in Seq(Request)
      /\ Head(inbox[s]) \in Request /\ Tail(inbox[s]) \in Seq(Request)
  BY HeadTailProperties DEF AnswersAgree
<1>2. [replies EXCEPT ![s] = Append(@, Response(Head(inbox[s]), o))] \in [Service -> Seq(Answers)]
  BY <1>1, AnswersGrow
<1>3. QED BY <1>1, <1>2 DEF AnswerWith, AnswersAgree

LEMMA WorkerKeepsAnswers ==
  ASSUME AnswerInvariant, NEW s \in Service, Worker(s)
  PROVE  AnswerInvariant'
<1>1. /\ AnswersAgree /\ AskedForDrawable /\ s \in Thread
      /\ <<>> \in Seq(Request)
      /\ inbox[s] \in Seq(Request)
      /\ inbox[s] # <<>> => Head(inbox[s]) \in Request
  BY EmptySeq, HeadTailProperties DEF AnswerInvariant, AnswersAgree, Thread
<1>2. CASE Enters(s)
  BY <1>1, <1>2, EnteringKeepsAnswers
<1>3. CASE FailToBind(s) \/ OpenFile(s) \/ FailToOpen(s)
  <2>1. PICK place \in {"failing", "serving"} :
          /\ at' = [at EXCEPT ![s] = place] /\ at[s] # "idle"
          /\ UNCHANGED <<errand, handle, inbox, replies>>
    BY <1>3 DEF FailToBind, OpenFile, FailToOpen, Calls
  <2>2. Prepared(s)'
    BY <1>1, <2>1 DEF AskedForDrawable, Prepared, Starting
  <2>3. AskedForDrawable'
    BY <1>1, <2>1, <2>2, OneIsConcerned DEF AskedForDrawable, Place
  <2>4. QED BY <1>1, <2>1, <2>3 DEF AnswerInvariant, AnswersAgree
<1>4. CASE StopFailing(s) \/ Close(s) \/ FinishUnwinding(s) \/ PanicInCall(s)
  <2>1. PICK place \in {"gone", "unwinding"} :
          /\ at' = [at EXCEPT ![s] = place] /\ at[s] # "idle"
          /\ inbox' \in {inbox, [inbox EXCEPT ![s] = <<>>]}
          /\ UNCHANGED <<errand, handle, replies>>
    BY <1>4 DEF StopFailing, Close, FinishUnwinding, PanicInCall, Calls, Ends
  <2>2. Prepared(s)'
    BY <1>1, <2>1 DEF AskedForDrawable, Prepared, Starting
  <2>3. AskedForDrawable'
    <3>1. \A u \in Service \ {s} : inbox'[u] = inbox[u]
      BY <1>1, <2>1 DEF AnswersAgree
    <3>2. QED BY <1>1, <2>1, <2>2, <3>1, OneIsConcerned DEF AskedForDrawable, Place
  <2>4. QED BY <1>1, <2>1, <2>3 DEF AnswerInvariant, AnswersAgree
<1>5. CASE FailRequest(s)
  <2>1. inbox[s] # <<>> /\ Failed("not open") \in Agreeing(Head(inbox[s]))
    BY <1>1, <1>5, FailuresAgree DEF FailRequest
  <2>2. AnswersAgree'
    <3>1. Tail(inbox[s]) \in Seq(Request)
      BY <1>1, <2>1, HeadTailProperties
    <3>2. replies' \in [Service -> Seq(Answers)]
      BY <1>1, <1>5, <2>1, AnswersGrow DEF FailRequest
    <3>3. QED BY <1>1, <1>5, <3>1, <3>2 DEF FailRequest, AnswersAgree
  <2>3. AskedForDrawable'
    <3>1. /\ at[s] = "failing"
          /\ UNCHANGED <<at, errand, handle>>
          /\ \A u \in Service \ {s} : inbox'[u] = inbox[u]
      BY <1>1, <1>5 DEF FailRequest, AnswersAgree
    <3>2. Prepared(s)'
      BY <1>1, <3>1 DEF AskedForDrawable, Prepared, Starting
    <3>3. QED BY <1>1, <3>1, <3>2, OneIsConcerned DEF AskedForDrawable
  <2>4. QED BY <2>2, <2>3 DEF AnswerInvariant
<1>6. CASE RefuseRequest(s)
  <2>1. inbox[s] # <<>> /\ Geometry(Head(inbox[s])) \in Agreeing(Head(inbox[s]))
    BY <1>1, <1>6, RefusalAgrees DEF RefuseRequest, Serves
  <2>2. AnswersAgree'
    BY <1>1, <1>6, <2>1, AnsweringAgrees DEF RefuseRequest
  <2>3. AskedForDrawable'
    <3>1. /\ at[s] = "serving"
          /\ UNCHANGED <<at, errand, handle>>
          /\ \A u \in Service \ {s} : inbox'[u] = inbox[u]
      BY <1>1, <1>6 DEF RefuseRequest, Serves, AnswerWith, AnswersAgree
    <3>2. Prepared(s)'
      BY <1>1, <3>1 DEF AskedForDrawable, Prepared, Starting
    <3>3. QED BY <1>1, <3>1, <3>2, OneIsConcerned DEF AskedForDrawable
  <2>4. QED BY <2>2, <2>3 DEF AnswerInvariant
<1>7. CASE BeginRender(s) \/ BeginClose(s)
  <2>1. PICK what \in {"render", "close"} :
          /\ at[s] = "serving" /\ at' = [at EXCEPT ![s] = "locking"]
          /\ errand' = [errand EXCEPT ![s] = what]
          /\ what = "render" => inbox[s] # <<>> /\ Geometry(Head(inbox[s])).kind = "ready"
          /\ UNCHANGED <<handle, inbox, replies>>
    BY <1>7 DEF BeginRender, BeginClose, Serves
  <2>2. Prepared(s)'
    BY <1>1, <2>1 DEF AskedForDrawable, Prepared, Starting
  <2>3. AskedForDrawable'
    BY <1>1, <2>1, <2>2, OneIsConcerned DEF AskedForDrawable, Place
  <2>4. QED BY <1>1, <2>1, <2>3 DEF AnswerInvariant, AnswersAgree
<1>8. CASE Render(s)
  <2>1. /\ inbox[s] # <<>> /\ Head(inbox[s]) \in Request
        /\ Geometry(Head(inbox[s])).kind = "ready"
    BY <1>1, <1>8 DEF Render, Calls, AskedForDrawable, Prepared
  <2>2. PICK o \in Agreeing(Head(inbox[s])) : AnswerWith(s, o)
    BY <1>8, <2>1, DamageAgrees, DrawingAgrees DEF Render
  <2>3. AnswersAgree'
    BY <1>1, <2>1, <2>2, AnsweringAgrees
  <2>4. AskedForDrawable'
    <3>1. /\ at[s] = "calling" /\ at' = [at EXCEPT ![s] = "serving"]
          /\ UNCHANGED <<errand, handle>>
          /\ \A u \in Service \ {s} : inbox'[u] = inbox[u]
      BY <1>1, <1>8, <2>2 DEF Render, Calls, AnswerWith, AnswersAgree
    <3>2. Prepared(s)'
      BY <1>1, <3>1 DEF AskedForDrawable, Prepared, Starting
    <3>3. QED BY <1>1, <3>1, <3>2, OneIsConcerned DEF AskedForDrawable, Place
  <2>5. QED BY <2>3, <2>4 DEF AnswerInvariant
<1>9. QED BY <1>2, <1>3, <1>4, <1>5, <1>6, <1>7, <1>8 DEF Worker

LEMMA AnswerInvariantHolds == Spec => []AnswerInvariant
<1>1. AnswerInvariant /\ [Next]_vars => AnswerInvariant'
  <2> SUFFICES ASSUME AnswerInvariant, [Next]_vars PROVE AnswerInvariant'
    OBVIOUS
  <2>1. CASE UNCHANGED vars
    BY <2>1 DEF vars, libraryVars, AnswerInvariant, AnswersAgree, AskedForDrawable, Prepared
  <2>2. CASE Next
    BY <2>2, OwnerKeepsAnswers, WorkerKeepsAnswers, VisitorKeepsAnswers DEF Next
  <2>3. QED BY <2>1, <2>2
<1>2. QED BY <1>1, AnswersInitially, PTL DEF Spec

\* Whatever page, scale and rotation are asked for, and however the page is
\* turned in its file, the Pdfium renderer answers as the fake does, or for one
\* of the reasons the fake does not know.
THEOREM PdfiumAnswersAsTheFake == Spec => []RenderersAgree
<1>1. AnswerInvariant => RenderersAgree
  <2> SUFFICES ASSUME AnswerInvariant, NEW s \in Service, NEW answer \in Range(replies[s])
               PROVE  LET fake == FakeOutcome(answer.request)
                      IN  answer.outcome = fake
                            \/ MayDiffer(answer.outcome, fake, answer.request.page)
    BY DEF RenderersAgree
  <2>1. answer \in Answers
    <3>1. replies[s] \in Seq(Answers)
      BY DEF AnswerInvariant, AnswersAgree
    <3>2. PICK i \in DOMAIN replies[s] : answer = replies[s][i]
      BY DEF Range
    <3>3. QED BY <3>1, <3>2
  <2>2. QED BY <2>1 DEF Answers, Agreeing, Response
<1>2. QED BY <1>1, AnswerInvariantHolds, PTL

-----------------------------------------------------------------------------
\* The suite, of one answer

Fits(answer) ==
  UnknownPagesFail(answer) /\ DimensionsFollowScale(answer)
    /\ ForeignRequestsAreAnswered(answer)

LEMMA Division ==
  ASSUME NEW x \in Int, NEW d \in Nat \ {0}
  PROVE  LET q == x \div d IN q \in Int /\ q * d <= x /\ x < q * d + d
OBVIOUS

\* Halving before the division rounds to the nearest pixel.
LEMMA PixelsAreNearest ==
  ASSUME NEW points \in Int, NEW scale \in Int
  PROVE  LET p == Pixels(points, scale)
         IN  p \in Int /\ p >= 1 /\ Nearest(p, points, scale)
<1> DEFINE exact == points * scale
           x == 2 * points * scale + Unit
           q == x \div (2 * Unit)
           p == IF q < 1 THEN 1 ELSE q
<1>1. Unit \in Nat /\ Unit > 0 /\ 2 * Unit \in Nat \ {0}
  BY TileGeometryAssumption
<1>2. exact \in Int /\ x \in Int /\ x = 2 * exact + Unit
  BY <1>1
<1>3. q \in Int /\ q * (2 * Unit) <= x /\ x < q * (2 * Unit) + 2 * Unit
  <2> HIDE DEF x
  <2>1. QED BY <1>1, <1>2, Division
<1>4. q * (2 * Unit) = 2 * q * Unit /\ 2 * q * Unit \in Int
  BY <1>1, <1>3
<1> HIDE DEF exact, x, q
<1>5. CASE q >= 1
  <2>1. p = q
    BY <1>3, <1>5
  <2>2. 2 * q * Unit - Unit <= 2 * exact /\ 2 * exact < 2 * q * Unit + Unit
    <3> DEFINE w == 2 * q * Unit
    <3>1. w \in Int /\ w <= x /\ x < w + 2 * Unit
      BY <1>3, <1>4
    <3> HIDE DEF w
    <3>2. w - Unit <= 2 * exact /\ 2 * exact < w + Unit
      BY <1>1, <1>2, <3>1
    <3>3. QED BY <3>2 DEF w
  <2>3. p \in Int /\ p >= 1
    BY <1>3, <1>5, <2>1
  <2>4. QED BY <2>1, <2>2, <2>3 DEF Pixels, Nearest, exact, x, q
<1>6. CASE ~(q >= 1)
  <2>1. p = 1
    BY <1>3, <1>6
  <2>2. q * (2 * Unit) <= 0
    BY <1>1, <1>3, <1>6
  <2>3. x < 2 * Unit
    <3> DEFINE w == q * (2 * Unit)
    <3>1. w \in Int /\ w <= 0 /\ x < w + 2 * Unit
      BY <1>3, <1>4, <2>2
    <3> HIDE DEF w
    <3>2. QED BY <1>1, <1>2, <3>1
  <2>4. 2 * exact < Unit
    BY <1>1, <1>2, <2>3
  <2>5. QED BY <2>1, <2>4 DEF Pixels, Nearest, exact, x, q
<1>7. QED BY <1>5, <1>6

LEMMA FailuresAreNotOk ==
  ASSUME NEW given, NEW reason, given.outcome = Failed(reason)
  PROVE  ~Ok(given)
<1>1. Failed(reason).kind = "failed"
  BY DEF Failed
<1>2. given.outcome.kind = "failed"
  BY <1>1
<1>3. QED BY <1>2 DEF Ok

\* What the fake answers is what the suite asks of it.
LEMMA FakeFits ==
  ASSUME NEW r \in Request
  PROVE  Fits(Response(r, FakeOutcome(r)))
<1> DEFINE given == Response(r, FakeOutcome(r))
           page == PageOf(r.page)
           turned == RotatedBy(page.rotation, r.rotation)
           shown == DisplaySize(page.size, turned)
           width == Pixels(shown.width, r.scale)
           height == Pixels(shown.height, r.scale)
<1>1. given.request = r /\ given.outcome = FakeOutcome(r)
  BY DEF Response
<1> HIDE DEF given
<1>2. CASE r.page \notin Ids
  <2>1. ~Ok(given)
    BY <1>1, <1>2, FailuresAreNotOk DEF FakeOutcome
  <2>2. QED
    BY <1>1, <1>2, <2>1
    DEF given, Fits, UnknownPagesFail, DimensionsFollowScale, ForeignRequestsAreAnswered
<1>3. CASE r.page \in Ids
  <2>1. FakeOutcome(r) = IF width * height > MaxTilePixels THEN Failed("too many pixels")
                         ELSE Ready(width, height, turned)
    BY <1>3 DEF FakeOutcome, RenderFlatTile
  <2>2. shown.width \in Int /\ shown.height \in Int /\ r.scale \in Int
    <3>1. page.size \in [width : Int, height : Int]
      BY <1>3, PdfiumLibraryAssumption DEF Ids, PageOf
    <3>2. QED BY <3>1, PdfiumLibraryAssumption DEF DisplaySize
  <2>3. Shown(r) = shown
    BY DEF Shown
  <2> HIDE DEF shown, turned, page
  <2>4. /\ Nearest(width, shown.width, r.scale) /\ width >= 1
        /\ Nearest(height, shown.height, r.scale) /\ height >= 1
    BY <2>2, PixelsAreNearest
  <2> HIDE DEF width, height
  <2>5. CASE width * height > MaxTilePixels
    <3>1. given.outcome = Failed("too many pixels") /\ ~Ok(given)
      BY <1>1, <2>1, <2>5, FailuresAreNotOk
    <3>2. Undrawable(given)
      BY <3>1 DEF Undrawable
    <3>3. QED
      BY <1>1, <1>3, <3>1, <3>2
      DEF given, Fits, UnknownPagesFail, DimensionsFollowScale, ForeignRequestsAreAnswered
  <2>6. CASE ~(width * height > MaxTilePixels)
    <3>1. given.outcome = Ready(width, height, turned)
      BY <1>1, <2>1, <2>6
    <3>2. Ok(given) /\ given.outcome.width = width /\ given.outcome.height = height
      BY <3>1 DEF Ready, Ok
    <3>3. UnknownPagesFail(given) /\ ForeignRequestsAreAnswered(given)
      BY <1>1, <1>3, <3>2 DEF UnknownPagesFail, ForeignRequestsAreAnswered
    <3>4. DimensionsFollowScale(given)
      BY <1>1, <2>3, <2>4, <3>2 DEF DimensionsFollowScale
    <3>5. QED BY <3>3, <3>4 DEF Fits, given
  <2>7. QED BY <2>5, <2>6
<1>4. QED BY <1>2, <1>3

\* And so is whatever agrees with it.
LEMMA AgreeingFits ==
  ASSUME NEW r \in Request, NEW o \in Agreeing(r)
  PROVE  Fits(Response(r, o))
<1>1. CASE o = FakeOutcome(r)
  BY <1>1, FakeFits
<1>2. CASE o # FakeOutcome(r)
  <2> DEFINE given == Response(r, o)
  <2>1. given.request = r /\ given.outcome = o
    BY DEF Response
  <2> HIDE DEF given
  <2>2. \/ o \in {Failed("edge too long"), Failed("not open"), Failed("no worker")}
        \/ o = Failed("damaged") /\ r.page \in Damaged
    BY <1>2 DEF Agreeing, MayDiffer
  <2>3. ~Ok(given) /\ Undrawable(given)
    BY <2>1, <2>2, FailuresAreNotOk DEF Undrawable
  <2>4. QED
    BY <2>3
    DEF given, Fits, UnknownPagesFail, DimensionsFollowScale, ForeignRequestsAreAnswered
<1>3. QED BY <1>1, <1>2

-----------------------------------------------------------------------------
\* Counting requests in a queue

Ones(p) == IF p THEN 1 ELSE 0

LEMMA OccurrencesAreNatural ==
  ASSUME NEW S, NEW s \in Seq(S), NEW r
  PROVE  /\ IsFiniteSet({i \in DOMAIN s : s[i] = r})
         /\ Occurrences(r, s) \in Nat
<1> DEFINE A == {i \in DOMAIN s : s[i] = r}
<1>1. IsFiniteSet(DOMAIN s)
  <2>1. DOMAIN s = 1..Len(s) /\ Len(s) \in Int /\ 1 \in Int
    BY LenProperties
  <2>2. QED BY <2>1, FS_Interval
<1>2. A \in SUBSET (DOMAIN s)
  OBVIOUS
<1>3. IsFiniteSet(A)
  BY <1>1, <1>2, FS_Subset
<1>4. QED BY <1>3, FS_CardinalityType DEF Occurrences

LEMMA NothingOccurs ==
  ASSUME NEW r
  PROVE  Occurrences(r, <<>>) = 0
<1>1. {i \in DOMAIN <<>> : <<>>[i] = r} = {}
  OBVIOUS
<1>2. QED BY <1>1, FS_EmptySet DEF Occurrences

LEMMA OccurrencesAppend ==
  ASSUME NEW S, NEW s \in Seq(S), NEW e \in S, NEW r
  PROVE  Occurrences(r, Append(s, e)) = Occurrences(r, s) + Ones(e = r)
<1> DEFINE c == Append(s, e)
           A == {i \in DOMAIN s : s[i] = r}
           B == {i \in DOMAIN c : c[i] = r}
           n == Len(s) + 1
<1>1. /\ DOMAIN s = 1..Len(s) /\ DOMAIN c = 1..n /\ Len(s) \in Nat
      /\ \A i \in 1..Len(s) : c[i] = s[i]
      /\ c[n] = e
  BY AppendProperties, LenProperties
<1> HIDE DEF c
<1>2. \A i : i \in DOMAIN c <=> i \in DOMAIN s \/ i = n
  BY <1>1
<1>3. n \notin DOMAIN s
  BY <1>1
<1>4. IsFiniteSet(A) /\ Cardinality(A) \in Nat
  BY OccurrencesAreNatural DEF Occurrences
<1>5. CASE e = r
  <2>1. B = A \cup {n}
    BY <1>1, <1>2, <1>5
  <2>2. n \notin A
    BY <1>3
  <2> HIDE DEF A, B, n
  <2>3. Cardinality(B) = Cardinality(A) + 1
    BY <1>4, <2>1, <2>2, FS_AddElement
  <2>4. QED BY <1>5, <2>3 DEF Occurrences, Ones, A, B, c
<1>6. CASE e # r
  <2>1. B = A
    BY <1>1, <1>2, <1>6
  <2>2. Cardinality(A) + 0 = Cardinality(A)
    BY <1>4
  <2>3. QED BY <1>6, <2>1, <2>2 DEF Occurrences, Ones, c
<1>7. QED BY <1>5, <1>6

\* What is behind the head moves up by one place.
LEMMA OccurrencesTail ==
  ASSUME NEW S, NEW s \in Seq(S), s # <<>>, NEW r
  PROVE  Occurrences(r, s) = Occurrences(r, Tail(s)) + Ones(Head(s) = r)
<1> DEFINE t == Tail(s)
           n == Len(s)
           A == {i \in DOMAIN s : s[i] = r}
           B == {i \in DOMAIN t : t[i] = r}
           C == {i \in A : i # 1}
           up == [i \in B |-> i + 1]
<1>1. /\ n \in Nat /\ n >= 1 /\ DOMAIN s = 1..n /\ DOMAIN t = 1..(n - 1)
      /\ t \in Seq(S) /\ Head(s) = s[1]
      /\ \A i \in 1..(n - 1) : t[i] = s[i + 1]
  BY HeadTailProperties, LenProperties, EmptySeq
<1>2. IsFiniteSet(B) /\ Cardinality(B) \in Nat
  BY <1>1, OccurrencesAreNatural DEF Occurrences
<1> HIDE DEF t, n
<1>3. up \in Bijection(B, C)
  <2>1. ASSUME NEW i \in B PROVE i + 1 \in C
    BY <1>1
  <2>2. ASSUME NEW j \in C PROVE \E i \in B : up[i] = j
    <3>1. j - 1 \in B /\ (j - 1) + 1 = j
      BY <1>1
    <3>2. QED BY <3>1
  <2>3. up \in [B -> C] /\ \A i, j \in B : up[i] = up[j] => i = j
    BY <1>1, <2>1
  <2> HIDE DEF B, C, up
  <2>4. QED BY <2>2, <2>3, Fun_IsBij
<1>4. IsFiniteSet(C) /\ Cardinality(C) = Cardinality(B)
  <2>1. ExistsBijection(B, C)
    BY <1>3, Fun_ExistsBij
  <2> HIDE DEF B, C
  <2>2. QED BY <1>2, <2>1, FS_Bijection
<1>5. CASE Head(s) = r
  <2>1. A = C \cup {1} /\ 1 \notin C
    BY <1>1, <1>5
  <2> HIDE DEF A, B, C
  <2>2. Cardinality(A) = Cardinality(B) + 1
    BY <1>4, <2>1, FS_AddElement
  <2>3. QED BY <1>5, <2>2 DEF Occurrences, Ones, A, B, t
<1>6. CASE Head(s) # r
  <2>1. A = C
    BY <1>1, <1>6
  <2> HIDE DEF A, B, C
  <2>2. Cardinality(A) = Cardinality(B) + 0
    BY <1>2, <1>4, <2>1
  <2>3. QED BY <1>6, <2>2 DEF Occurrences, Ones, A, B, t
<1>7. QED BY <1>5, <1>6

\* How often request r is under way in a service whose answers are a and whose
\* queue is q.
Coming(a, q, r) == Occurrences(r, Requests(a)) + Occurrences(r, q)

LEMMA RequestsOf ==
  ASSUME NEW a \in Seq(Answers)
  PROVE  Requests(a) \in Seq(Request)
<1>1. DOMAIN a = 1..Len(a) /\ Len(a) \in Nat
  BY LenProperties
<1>2. ASSUME NEW i \in 1..Len(a) PROVE a[i].request \in Request
  <2>1. a[i] \in Answers
    BY <1>2, ElementOfSeq
  <2>2. QED BY <2>1 DEF Answers, Response
<1>3. Requests(a) = [i \in 1..Len(a) |-> a[i].request]
  BY <1>1 DEF Requests
<1> DEFINE n == Len(a)
           f == [i \in 1..n |-> a[i].request]
<1>4. f \in [1..n -> Request]
  BY <1>2
<1>5. n \in Nat
  BY <1>1
<1> HIDE DEF n, f
<1>6. f \in Seq(Request)
  BY <1>4, <1>5, SeqDef
<1>7. QED BY <1>3, <1>6 DEF n, f

LEMMA RequestsAppend ==
  ASSUME NEW a \in Seq(Answers), NEW q \in Request, NEW o \in Agreeing(q)
  PROVE  /\ Append(a, Response(q, o)) \in Seq(Answers)
         /\ Requests(Append(a, Response(q, o))) = Append(Requests(a), q)
<1> DEFINE e == Response(q, o)
           c == Append(a, e)
           n == Len(a)
<1>1. e \in Answers /\ e.request = q
  BY DEF Answers, Response
<1> HIDE DEF e
<1>2. /\ c \in Seq(Answers) /\ n \in Nat /\ DOMAIN a = 1..n /\ DOMAIN c = 1..(n + 1)
      /\ \A i \in 1..n : c[i] = a[i]
      /\ c[n + 1] = e
  BY <1>1, AppendProperties, LenProperties
<1> DEFINE b == Requests(a)
           d == Append(b, q)
<1>3. b \in Seq(Request) /\ DOMAIN b = 1..n /\ \A i \in 1..n : b[i] = a[i].request
  BY <1>2, RequestsOf DEF Requests
<1>4. Len(b) = n
  <2>1. DOMAIN b = 1..Len(b) /\ Len(b) \in Nat
    BY <1>3, LenProperties
  <2> HIDE DEF b
  <2>2. QED BY <1>2, <1>3, <2>1
<1> HIDE DEF b, n
<1>5. /\ d \in Seq(Request) /\ DOMAIN d = 1..(n + 1)
      /\ \A i \in 1..n : d[i] = b[i]
      /\ d[n + 1] = q
  <2>1. /\ d \in Seq(Request) /\ Len(d) = Len(b) + 1
        /\ \A i \in 1..Len(b) : d[i] = b[i]
        /\ d[Len(b) + 1] = q
    BY <1>3, AppendProperties
  <2>2. DOMAIN d = 1..Len(d)
    BY <2>1, LenProperties
  <2>3. QED BY <1>4, <2>1, <2>2
<1> HIDE DEF c, d
<1>6. \A i \in 1..(n + 1) : c[i].request = d[i]
  <2>1. \A i \in 1..(n + 1) : i \in 1..n \/ i = n + 1
    BY <1>2
  <2>2. QED BY <1>1, <1>2, <1>3, <1>5, <2>1
<1>7. Requests(c) = d
  <2>1. DOMAIN d = 1..(n + 1) /\ d = [i \in 1..(n + 1) |-> d[i]]
    <3>1. d = [i \in 1..Len(d) |-> d[i]] /\ DOMAIN d = 1..Len(d)
      BY <1>5, LenProperties
    <3>2. QED BY <1>5, <3>1
  <2>2. QED BY <1>2, <1>6, <2>1 DEF Requests
<1>8. QED BY <1>2, <1>7 DEF b, c, d, e

LEMMA ComingIsNatural ==
  ASSUME NEW a \in Seq(Answers), NEW q \in Seq(Request), NEW r
  PROVE  /\ Occurrences(r, Requests(a)) \in Nat /\ Occurrences(r, q) \in Nat
         /\ Coming(a, q, r) \in Nat
<1>1. Occurrences(r, Requests(a)) \in Nat /\ Occurrences(r, q) \in Nat
  BY RequestsOf, OccurrencesAreNatural
<1>2. QED BY <1>1 DEF Coming

LEMMA ComingAsked ==
  ASSUME NEW a \in Seq(Answers), NEW q \in Seq(Request), NEW e \in Request, NEW r
  PROVE  Coming(a, Append(q, e), r) = Coming(a, q, r) + Ones(e = r)
<1> DEFINE x == Occurrences(r, Requests(a))
           y == Occurrences(r, q)
           z == Occurrences(r, Append(q, e))
           one == Ones(e = r)
<1>1. z = y + one
  BY OccurrencesAppend
<1>2. x \in Nat /\ y \in Nat /\ one \in Nat
  BY ComingIsNatural DEF Ones
<1>3. Coming(a, Append(q, e), r) = x + z /\ Coming(a, q, r) = x + y
  BY DEF Coming
<1> HIDE DEF x, y, z, one
<1>4. x + z = (x + y) + one
  BY <1>1, <1>2
<1>5. QED BY <1>3, <1>4 DEF one

LEMMA ComingAnswered ==
  ASSUME NEW a \in Seq(Answers), NEW q \in Seq(Request), NEW r,
         NEW e \in Request, NEW o \in Agreeing(e)
  PROVE  Coming(Append(a, Response(e, o)), q, r) = Coming(a, q, r) + Ones(e = r)
<1> DEFINE x == Occurrences(r, Requests(a))
           y == Occurrences(r, q)
           z == Occurrences(r, Requests(Append(a, Response(e, o))))
           one == Ones(e = r)
<1>1. z = x + one
  <2>1. Requests(a) \in Seq(Request)
          /\ Requests(Append(a, Response(e, o))) = Append(Requests(a), e)
    BY RequestsOf, RequestsAppend
  <2>2. QED BY <2>1, OccurrencesAppend
<1>2. x \in Nat /\ y \in Nat /\ one \in Nat
  BY ComingIsNatural DEF Ones
<1>3. /\ Coming(Append(a, Response(e, o)), q, r) = z + y
      /\ Coming(a, q, r) = x + y
  BY DEF Coming
<1> HIDE DEF x, y, z, one
<1>4. z + y = (x + y) + one
  BY <1>1, <1>2
<1>5. QED BY <1>3, <1>4 DEF one

LEMMA ComingMoved ==
  ASSUME NEW a \in Seq(Answers), NEW q \in Seq(Request), q # <<>>, NEW r,
         NEW o \in Agreeing(Head(q))
  PROVE  Coming(Append(a, Response(Head(q), o)), Tail(q), r) = Coming(a, q, r)
<1>1. Head(q) \in Request /\ Tail(q) \in Seq(Request)
  BY HeadTailProperties
<1> DEFINE x == Occurrences(r, Requests(a))
           y == Occurrences(r, q)
           z == Occurrences(r, Tail(q))
           one == Ones(Head(q) = r)
<1>2. y = z + one
  BY OccurrencesTail
<1>3. Coming(Append(a, Response(Head(q), o)), Tail(q), r) = Coming(a, Tail(q), r) + one
  <2> DEFINE e == Head(q)
             t == Tail(q)
  <2>1. e \in Request /\ t \in Seq(Request) /\ o \in Agreeing(e)
    BY <1>1
  <2> HIDE DEF e, t
  <2>2. Coming(Append(a, Response(e, o)), t, r) = Coming(a, t, r) + Ones(e = r)
    BY <2>1, ComingAnswered
  <2>3. QED BY <2>2 DEF e, t
<1>4. x \in Nat /\ z \in Nat /\ one \in Nat
  BY <1>1, ComingIsNatural DEF Ones
<1>5. Coming(a, Tail(q), r) = x + z /\ Coming(a, q, r) = x + y
  BY DEF Coming
<1> HIDE DEF x, y, z, one
<1>6. (x + z) + one = x + y
  BY <1>2, <1>4
<1>7. QED BY <1>3, <1>5, <1>6

LEMMA ComingCut ==
  ASSUME NEW a \in Seq(Answers), NEW q \in Seq(Request), NEW r
  PROVE  Coming(a, <<>>, r) <= Coming(a, q, r)
<1>1. Occurrences(r, <<>>) = 0
  BY NothingOccurs
<1>2. QED BY <1>1, ComingIsNatural DEF Coming

LEMMA ComingCollected ==
  ASSUME NEW a \in Seq(Answers), NEW q \in Seq(Request), NEW r
  PROVE  Coming(<<>>, q, r) = Coming(a, q, r) - Occurrences(r, Requests(a))
<1>1. Occurrences(r, Requests(<<>>)) = 0
  <2>1. Requests(<<>>) = <<>>
    BY DEF Requests
  <2>2. QED BY <2>1, NothingOccurs
<1>2. QED BY <1>1, ComingIsNatural DEF Coming

-----------------------------------------------------------------------------
\* Every request is answered once

\* What service and owner make of request r: its handle h, its worker's place p,
\* how often it is asked (b), its answers and its queue.
Settled(h, p, b, a, q, r) ==
  h # "dropped" =>
    Coming(a, q, r) <= b[r] /\ (p # "gone" => Coming(a, q, r) = b[r])

CountsMatch(s) ==
  \A r \in Request : Settled(handle[s], at[s], asked[s], replies[s], inbox[s], r)

AskedTyped ==
  /\ asked \in [Service -> [Request -> Int]]
  /\ pending \in [Service -> Seq(Request)]

\* The owner waits in open for a service whose handle it has not got yet.
CallerWaits == \A s \in Service : caller = s => handle[s] = "waiting"

CountInvariant ==
  AnswerInvariant /\ AskedTyped /\ CallerWaits /\ \A s \in Service : CountsMatch(s)

LEMMA CountsInitially == Init => CountInvariant
<1> SUFFICES ASSUME Init PROVE CountInvariant
  OBVIOUS
<1>1. AnswerInvariant
  BY AnswersInitially
<1>2. AskedTyped /\ CallerWaits
  BY EmptySeq, PdfiumLibraryAssumption DEF Init, InitLibrary, AskedTyped, CallerWaits
<1>3. ASSUME NEW s \in Service, NEW r \in Request
      PROVE  Settled(handle[s], at[s], asked[s], replies[s], inbox[s], r)
  <2>1. asked[s][r] = 0 /\ replies[s] = <<>> /\ inbox[s] = <<>>
    BY <1>3 DEF Init, InitLibrary
  <2>2. Occurrences(r, <<>>) = 0 /\ Requests(<<>>) = <<>>
    BY NothingOccurs DEF Requests
  <2>3. Coming(<<>>, <<>>, r) = 0
    BY <2>2 DEF Coming
  <2>4. QED BY <2>1, <2>3 DEF Settled
<1>4. QED BY <1>1, <1>2, <1>3 DEF CountInvariant, CountsMatch

LEMMA TypesForCounts ==
  ASSUME AnswerInvariant, NEW s \in Service
  PROVE  /\ replies[s] \in Seq(Answers) /\ inbox[s] \in Seq(Request)
         /\ s \in Thread /\ at[s] \in Place
         /\ DOMAIN replies = Service /\ DOMAIN inbox = Service
         /\ DOMAIN handle = Service /\ DOMAIN at = Thread
         /\ handle[s] = "none" => at[s] = "idle"
BY DEF AnswerInvariant, AnswersAgree, AskedForDrawable, Prepared, Thread

\* A service whose requests do not move: its handle is not taken back, and its
\* worker does not return from where it has gone.
LEMMA MatchesStill ==
  ASSUME NEW s \in Service, CountsMatch(s),
         handle[s] = "dropped" => handle'[s] = "dropped",
         at[s] = "gone" => at'[s] = "gone",
         asked'[s] = asked[s], replies'[s] = replies[s], inbox'[s] = inbox[s]
  PROVE  CountsMatch(s)'
<1>1. ASSUME NEW r \in Request
      PROVE  Settled(handle'[s], at'[s], asked'[s], replies'[s], inbox'[s], r)
  <2>1. Settled(handle[s], at[s], asked[s], replies[s], inbox[s], r)
    BY DEF CountsMatch
  <2>2. QED BY <2>1 DEF Settled
<1>2. QED BY <1>1 DEF CountsMatch

\* What is asked and what is under way change by the same number.
LEMMA SettledMoves ==
  ASSUME NEW h, NEW p, NEW b, NEW c, NEW a, NEW q, NEW x, NEW y, NEW r, NEW k \in Int,
         Settled(h, p, b, a, q, r), b[r] \in Int, Coming(a, q, r) \in Int,
         Coming(x, y, r) = Coming(a, q, r) + k, c[r] = b[r] + k
  PROVE  Settled(h, p, c, x, y, r)
<1> DEFINE m == Coming(a, q, r)
           n == Coming(x, y, r)
           u == b[r]
           v == c[r]
<1>1. m \in Int /\ u \in Int /\ n = m + k /\ v = u + k
  OBVIOUS
<1>2. h # "dropped" => m <= u /\ (p # "gone" => m = u)
  BY DEF Settled
<1> HIDE DEF m, n, u, v
<1>3. h # "dropped" => n <= v /\ (p # "gone" => n = v)
  BY <1>1, <1>2
<1>4. QED BY <1>3 DEF Settled, n, v

LEMMA OwnerKeepsCounts ==
  ASSUME CountInvariant, Owner
  PROVE  AskedTyped' /\ CallerWaits' /\ \A s \in Service : CountsMatch(s)'
<1>1. AnswerInvariant /\ AskedTyped /\ CallerWaits /\ \A s \in Service : CountsMatch(s)
  BY DEF CountInvariant
<1> DEFINE Goal == AskedTyped' /\ CallerWaits' /\ \A s \in Service : CountsMatch(s)'
<1>2. ASSUME NEW s \in Service, NEW waits \in BOOLEAN, Build(s, waits), Elsewhere
      PROVE  Goal
  <2>1. AskedTyped' /\ UNCHANGED <<asked, replies, inbox>>
    BY <1>1, <1>2 DEF Elsewhere, AskedTyped, Build
  <2>2. handle[s] = "none" /\ at[s] = "idle" /\ caller = None
    BY <1>1, <1>2, TypesForCounts DEF Build
  <2>3. ASSUME NEW u \in Service
        PROVE  CountsMatch(u)' /\ (caller' = u => handle'[u] = "waiting")
    <3>1. CountsMatch(u) /\ u \in Thread /\ DOMAIN handle = Service /\ DOMAIN at = Thread
      BY <1>1, TypesForCounts
    <3>2. /\ handle[u] = "dropped" => handle'[u] = "dropped"
          /\ at[u] = "gone" => at'[u] = "gone"
      BY <1>2, <2>2, <3>1 DEF Build
    <3>3. caller' = u => handle'[u] = "waiting"
      BY <1>2, <2>2, <3>1, PdfiumLibraryAssumption DEF Build
    <3>4. CountsMatch(u)'
      BY <2>1, <3>1, <3>2, MatchesStill
    <3>5. QED BY <3>3, <3>4
  <2>4. QED BY <2>1, <2>3 DEF CallerWaits
<1>3. ASSUME NEW s \in Service, OpenReturns(s), Elsewhere
      PROVE  Goal
  <2>1. AskedTyped' /\ UNCHANGED <<asked, replies, inbox, at>>
    BY <1>1, <1>3 DEF Elsewhere, AskedTyped, OpenReturns
  <2>2. handle[s] = "waiting" /\ caller' = None
    BY <1>1, <1>3 DEF OpenReturns, CallerWaits
  <2>3. ASSUME NEW u \in Service PROVE CountsMatch(u)'
    <3>1. CountsMatch(u) /\ DOMAIN handle = Service
      BY <1>1, TypesForCounts
    <3>2. handle[u] = "dropped" => handle'[u] = "dropped"
      BY <1>3, <2>2, <3>1 DEF OpenReturns
    <3>3. QED BY <2>1, <3>1, <3>2, MatchesStill
  <2>4. QED BY <2>1, <2>2, <2>3, PdfiumLibraryAssumption DEF CallerWaits
<1>4. ASSUME NEW s \in Service, Forget(s)
      PROVE  Goal
  <2>1. AskedTyped'
    BY <1>1, <1>4, EmptySeq DEF Forget, AskedTyped
  <2>2. caller = None /\ caller' = None /\ UNCHANGED <<at, inbox>>
    BY <1>4 DEF Forget, DropHandle
  <2>3. ASSUME NEW u \in Service PROVE CountsMatch(u)'
    <3>1. CountsMatch(u) /\ DOMAIN handle = Service /\ DOMAIN replies = Service
      BY <1>1, TypesForCounts
    <3>2. CASE u = s
      <4>1. handle'[u] = "dropped"
        BY <1>4, <3>1, <3>2 DEF Forget, DropHandle
      <4>2. QED BY <4>1 DEF CountsMatch, Settled
    <3>3. CASE u # s
      <4>1. handle'[u] = handle[u] /\ replies'[u] = replies[u] /\ asked'[u] = asked[u]
        BY <1>1, <1>4, <3>1, <3>3 DEF Forget, DropHandle, AskedTyped
      <4>2. QED BY <2>2, <3>1, <4>1, MatchesStill
    <3>4. QED BY <3>2, <3>3
  <2>4. QED BY <2>1, <2>2, <2>3, PdfiumLibraryAssumption DEF CallerWaits
<1>5. ASSUME NEW s \in Service, NEW e \in Request, Ask(s, e)
      PROVE  Goal
  <2>1. /\ asked' = [asked EXCEPT ![s][e] = @ + 1]
        /\ pending' = [pending EXCEPT ![s] = Append(@, e)]
        /\ Submit(s, e)
    BY <1>5 DEF Ask
  <2>2. AskedTyped'
    <3>1. Append(pending[s], e) \in Seq(Request)
      BY <1>1, AppendProperties DEF AskedTyped
    <3>2. QED BY <1>1, <2>1, <3>1 DEF AskedTyped
  <2>3. UNCHANGED <<caller, handle, at>>
    BY <2>1 DEF Submit
  <2>4. ASSUME NEW u \in Service PROVE CountsMatch(u)'
    <3>1. /\ CountsMatch(u) /\ DOMAIN replies = Service /\ DOMAIN inbox = Service
          /\ replies[u] \in Seq(Answers) /\ inbox[u] \in Seq(Request)
      BY <1>1, TypesForCounts
    <3>2. CASE u = s
      <4>1. ASSUME NEW r \in Request
            PROVE  Settled(handle'[u], at'[u], asked'[u], replies'[u], inbox'[u], r)
        <5>1. asked'[u][r] = asked[u][r] + Ones(e = r) /\ asked[u][r] \in Int
          BY <1>1, <2>1, <3>2, <4>1 DEF AskedTyped, Ones
        <5>2. Coming(replies'[u], inbox'[u], r)
                = Coming(replies[u], inbox[u], r) + Ones(e = r)
          <6>1. CASE at[s] = "gone"
            <7>1. /\ replies'[u] = Append(replies[u], Response(e, Failed("no worker")))
                  /\ inbox'[u] = inbox[u]
              BY <2>1, <3>1, <3>2, <6>1 DEF Submit
            <7>2. Failed("no worker") \in Agreeing(e)
              BY FailuresAgree
            <7> DEFINE a == replies[u]
                       q == inbox[u]
                       o == Failed("no worker")
            <7>3. a \in Seq(Answers) /\ q \in Seq(Request) /\ o \in Agreeing(e)
              BY <3>1, <7>2
            <7> HIDE DEF a, q, o
            <7>4. Coming(Append(a, Response(e, o)), q, r) = Coming(a, q, r) + Ones(e = r)
              BY <7>3, ComingAnswered
            <7>5. QED BY <7>1, <7>4 DEF a, q, o
          <6>2. CASE at[s] # "gone"
            <7>1. replies'[u] = replies[u] /\ inbox'[u] = Append(inbox[u], e)
              BY <2>1, <3>1, <3>2, <6>2 DEF Submit
            <7>2. QED BY <3>1, <7>1, ComingAsked
          <6>3. QED BY <6>1, <6>2
        <5>3. Ones(e = r) \in Int /\ Coming(replies[u], inbox[u], r) \in Int
          BY <3>1, ComingIsNatural DEF Ones
        <5>4. Settled(handle[u], at[u], asked[u], replies[u], inbox[u], r)
          BY <3>1 DEF CountsMatch
        <5>5. QED BY <2>3, <5>1, <5>2, <5>3, <5>4, SettledMoves
      <4>2. QED BY <4>1 DEF CountsMatch
    <3>3. CASE u # s
      <4>1. inbox'[u] = inbox[u] /\ replies'[u] = replies[u] /\ asked'[u] = asked[u]
        BY <1>1, <2>1, <3>1, <3>3 DEF Submit, AskedTyped
      <4>2. QED BY <2>3, <3>1, <4>1, MatchesStill
    <3>4. QED BY <3>2, <3>3
  <2>5. QED BY <1>1, <2>2, <2>3, <2>4 DEF CallerWaits
<1>6. ASSUME NEW s \in Service, Collect(s)
      PROVE  Goal
  <2>1. /\ asked' = [asked EXCEPT ![s] =
             [r \in Request |-> asked[s][r] - Occurrences(r, Requests(replies[s]))]]
        /\ pending' = [pending EXCEPT ![s] = <<>>]
        /\ replies' = [replies EXCEPT ![s] = <<>>]
        /\ UNCHANGED <<caller, handle, at, inbox>>
    BY <1>6 DEF Collect, Poll
  <2>2. AskedTyped'
    <3>1. <<>> \in Seq(Request)
      BY EmptySeq
    <3>2. [r \in Request |-> asked[s][r] - Occurrences(r, Requests(replies[s]))]
            \in [Request -> Int]
      BY <1>1, TypesForCounts, ComingIsNatural DEF AskedTyped
    <3>3. QED BY <1>1, <2>1, <3>1, <3>2 DEF AskedTyped
  <2>3. ASSUME NEW u \in Service PROVE CountsMatch(u)'
    <3>1. /\ CountsMatch(u) /\ DOMAIN replies = Service
          /\ replies[u] \in Seq(Answers) /\ inbox[u] \in Seq(Request)
      BY <1>1, TypesForCounts
    <3>2. CASE u = s
      <4>1. ASSUME NEW r \in Request
            PROVE  Settled(handle'[u], at'[u], asked'[u], replies'[u], inbox'[u], r)
        <5> DEFINE n == Occurrences(r, Requests(replies[u]))
                   m == Coming(replies[u], inbox[u], r)
        <5>1. n \in Nat /\ m \in Nat /\ asked[u][r] \in Int
          BY <1>1, <3>1, ComingIsNatural DEF AskedTyped
        <5>2. asked'[u][r] = asked[u][r] - n
          BY <1>1, <2>1, <3>2 DEF AskedTyped
        <5>3. replies'[u] = <<>> /\ inbox'[u] = inbox[u]
          BY <2>1, <3>1, <3>2
        <5>4. Coming(replies'[u], inbox'[u], r) = m - n
          BY <3>1, <5>3, ComingCollected
        <5>5. Settled(handle[u], at[u], asked[u], replies[u], inbox[u], r)
          BY <3>1 DEF CountsMatch
        <5> HIDE DEF n
        <5>6. 0 - n \in Int /\ asked'[u][r] = asked[u][r] + (0 - n)
          BY <5>1, <5>2
        <5>7. Coming(replies'[u], inbox'[u], r) = Coming(replies[u], inbox[u], r) + (0 - n)
          <6> HIDE DEF m
          <6>1. m - n = m + (0 - n)
            BY <5>1
          <6>2. QED BY <5>4, <6>1 DEF m
        <5>8. Coming(replies[u], inbox[u], r) \in Int
          BY <5>1
        <5>9. QED BY <2>1, <5>1, <5>5, <5>6, <5>7, <5>8, SettledMoves
      <4>2. QED BY <4>1 DEF CountsMatch
    <3>3. CASE u # s
      <4>1. inbox'[u] = inbox[u] /\ replies'[u] = replies[u] /\ asked'[u] = asked[u]
        BY <1>1, <2>1, <3>1, <3>3 DEF AskedTyped
      <4>2. QED BY <2>1, <3>1, <4>1, MatchesStill
    <3>4. QED BY <3>2, <3>3
  <2>4. QED BY <1>1, <2>1, <2>2, <2>3 DEF CallerWaits
<1>7. QED BY <1>2, <1>3, <1>4, <1>5, <1>6 DEF Owner

\* A worker answers the first request it was sent, or, if the handle was dropped,
\* its answer goes nowhere.
LEMMA AnsweringKeepsCounts ==
  ASSUME CountInvariant, NEW s \in Service, inbox[s] # <<>>,
         NEW o \in Agreeing(Head(inbox[s])),
         AnswerWith(s, o) \/ (/\ inbox' = [inbox EXCEPT ![s] = Tail(@)]
                              /\ replies' = [replies EXCEPT ![s] =
                                   Append(@, Response(Head(inbox[s]), o))]),
         \A u \in Service : at[u] = "gone" => at'[u] = "gone",
         UNCHANGED <<handle, asked>>
  PROVE  \A u \in Service : CountsMatch(u)'
<1>1. AnswerInvariant /\ AskedTyped
  BY DEF CountInvariant
<1>2. ASSUME NEW u \in Service PROVE CountsMatch(u)'
  <2>1. /\ CountsMatch(u) /\ DOMAIN replies = Service /\ DOMAIN inbox = Service
        /\ replies[u] \in Seq(Answers) /\ inbox[u] \in Seq(Request)
    BY <1>1, TypesForCounts DEF CountInvariant
  <2>2. CASE u # s
    <3>1. inbox'[u] = inbox[u] /\ replies'[u] = replies[u]
      BY <2>1, <2>2 DEF AnswerWith
    <3>2. QED BY <2>1, <3>1, MatchesStill
  <2>3. CASE u = s /\ handle[u] = "dropped"
    BY <2>3 DEF CountsMatch, Settled
  <2>4. CASE u = s /\ handle[u] # "dropped"
    <3>1. /\ inbox'[u] = Tail(inbox[u])
          /\ replies'[u] = Append(replies[u], Response(Head(inbox[u]), o))
      BY <2>1, <2>4 DEF AnswerWith
    <3>2. ASSUME NEW r \in Request
          PROVE  Settled(handle'[u], at'[u], asked'[u], replies'[u], inbox'[u], r)
      <4>1. Coming(replies'[u], inbox'[u], r) = Coming(replies[u], inbox[u], r)
        <5> DEFINE a == replies[u]
                   q == inbox[u]
        <5>1. /\ a \in Seq(Answers) /\ q \in Seq(Request) /\ q # <<>>
              /\ o \in Agreeing(Head(q))
          BY <2>1, <2>4
        <5> HIDE DEF a, q
        <5>2. Coming(Append(a, Response(Head(q), o)), Tail(q), r) = Coming(a, q, r)
          BY ZenonT(60), <5>1, ComingMoved
        <5>3. QED BY <3>1, <5>2 DEF a, q
      <4>2. Settled(handle[u], at[u], asked[u], replies[u], inbox[u], r)
        BY <2>1 DEF CountsMatch
      <4>3. QED BY <4>1, <4>2 DEF Settled
    <3>3. QED BY <3>2 DEF CountsMatch
  <2>5. QED BY <2>2, <2>3, <2>4
<1>3. QED BY <1>2

\* A worker that ends loses what it was sent.
LEMMA EndingKeepsCounts ==
  ASSUME CountInvariant, NEW s \in Service, Ends(s), UNCHANGED <<handle, asked, replies>>
  PROVE  \A u \in Service : CountsMatch(u)'
<1>1. AnswerInvariant /\ AskedTyped
  BY DEF CountInvariant
<1>2. ASSUME NEW u \in Service PROVE CountsMatch(u)'
  <2>1. /\ CountsMatch(u) /\ DOMAIN inbox = Service /\ DOMAIN at = Thread /\ u \in Thread
        /\ replies[u] \in Seq(Answers) /\ inbox[u] \in Seq(Request)
    BY <1>1, TypesForCounts DEF CountInvariant
  <2>2. CASE u # s
    <3>1. inbox'[u] = inbox[u] /\ at'[u] = at[u]
      BY <2>1, <2>2 DEF Ends
    <3>2. QED BY <2>1, <3>1, MatchesStill
  <2>3. CASE u = s
    <3>1. inbox'[u] = <<>> /\ at'[u] = "gone"
      BY <2>1, <2>3 DEF Ends
    <3>2. ASSUME NEW r \in Request
          PROVE  Settled(handle'[u], at'[u], asked'[u], replies'[u], inbox'[u], r)
      <4>1. Coming(replies[u], <<>>, r) <= Coming(replies[u], inbox[u], r)
        BY <2>1, ComingCut
      <4>2. Settled(handle[u], at[u], asked[u], replies[u], inbox[u], r)
        BY <2>1 DEF CountsMatch
      <4>3. /\ Coming(replies[u], inbox[u], r) \in Nat /\ Coming(replies[u], <<>>, r) \in Nat
            /\ asked[u][r] \in Int
        BY <1>1, <2>1, EmptySeq, ComingIsNatural DEF AskedTyped
      <4>4. handle[u] # "dropped" => Coming(replies[u], <<>>, r) <= asked[u][r]
        <5>1. handle[u] # "dropped" => Coming(replies[u], inbox[u], r) <= asked[u][r]
          BY <4>2 DEF Settled
        <5>2. QED BY <4>1, <4>3, <5>1
      <4>5. QED BY <3>1, <4>4 DEF Settled
    <3>3. QED BY <3>2 DEF CountsMatch
  <2>4. QED BY <2>2, <2>3
<1>3. QED BY <1>2

\* The other steps of a thread leave requests and answers where they are.
LEMMA MovingKeepsCounts ==
  ASSUME CountInvariant, NEW t \in Thread, at[t] # "gone" \/ at' = at,
         \A u \in Thread : u # t => at'[u] = at[u],
         UNCHANGED <<handle, asked, replies, inbox>>
  PROVE  \A u \in Service : CountsMatch(u)'
<1>1. ASSUME NEW u \in Service PROVE CountsMatch(u)'
  <2>1. CountsMatch(u) /\ u \in Thread
    BY DEF CountInvariant, Thread
  <2>2. at[u] = "gone" => at'[u] = "gone"
    BY <2>1
  <2>3. QED BY <2>1, <2>2, MatchesStill
<1>2. QED BY <1>1

LEMMA WorkerKeepsCounts ==
  ASSUME CountInvariant, NEW s \in Service, Worker(s), Elsewhere
  PROVE  AskedTyped' /\ CallerWaits' /\ \A u \in Service : CountsMatch(u)'
<1>1. /\ AnswerInvariant /\ AskedTyped /\ CallerWaits /\ s \in Thread
      /\ inbox[s] \in Seq(Request) /\ DOMAIN at = Thread
      /\ inbox[s] # <<>> => Head(inbox[s]) \in Request
  BY TypesForCounts, HeadTailProperties DEF CountInvariant
<1>2. UNCHANGED <<caller, handle, asked, pending>>
  BY DEF Worker, Elsewhere, Enters, BeginLoading, FinishLoading, Bind, Lock, FailToBind,
         OpenFile, FailToOpen, FailRequest, StopFailing, RefuseRequest, BeginRender,
         Render, BeginClose, Close, PanicInCall, FinishUnwinding
<1>3. AskedTyped' /\ CallerWaits'
  BY <1>1, <1>2 DEF AskedTyped, CallerWaits
<1>4. CASE Enters(s) \/ FailToBind(s) \/ OpenFile(s) \/ FailToOpen(s)
             \/ BeginRender(s) \/ BeginClose(s)
  <2>1. /\ at[s] # "gone" /\ (\A u \in Thread : u # s => at'[u] = at[u])
        /\ UNCHANGED <<replies, inbox>>
    BY <1>1, <1>4
    DEF Enters, BeginLoading, FinishLoading, Bind, Lock, FailToBind, OpenFile,
        FailToOpen, BeginRender, BeginClose, Calls, Serves
  <2>2. QED BY <1>1, <1>2, <1>3, <2>1, MovingKeepsCounts
<1>5. CASE StopFailing(s) \/ Close(s) \/ FinishUnwinding(s)
  <2>1. Ends(s) /\ replies' = replies
    BY <1>5 DEF StopFailing, Close, FinishUnwinding
  <2>2. QED BY <1>2, <1>3, <2>1, EndingKeepsCounts
<1>6. CASE PanicInCall(s)
  <2>1. CASE errand[s] = "render"
    <3>1. /\ at[s] # "gone" /\ (\A u \in Thread : u # s => at'[u] = at[u])
          /\ UNCHANGED <<replies, inbox>>
      BY <1>1, <1>6, <2>1 DEF PanicInCall
    <3>2. QED BY <1>1, <1>2, <1>3, <3>1, MovingKeepsCounts
  <2>2. CASE errand[s] # "render"
    <3>1. Ends(s) /\ replies' = replies
      BY <1>6, <2>2 DEF PanicInCall
    <3>2. QED BY <1>2, <1>3, <3>1, EndingKeepsCounts
  <2>3. QED BY <2>1, <2>2
<1>7. CASE FailRequest(s)
  <2>1. inbox[s] # <<>> /\ Failed("not open") \in Agreeing(Head(inbox[s]))
    BY <1>1, <1>7, FailuresAgree DEF FailRequest
  <2>2. /\ inbox' = [inbox EXCEPT ![s] = Tail(@)]
        /\ replies' = [replies EXCEPT ![s] = Append(@, Response(Head(inbox[s]), Failed("not open")))]
        /\ at' = at
    BY <1>7 DEF FailRequest
  <2>3. QED BY <1>2, <1>3, <2>1, <2>2, AnsweringKeepsCounts
<1>8. CASE RefuseRequest(s)
  <2>1. /\ inbox[s] # <<>> /\ Geometry(Head(inbox[s])) \in Agreeing(Head(inbox[s]))
        /\ AnswerWith(s, Geometry(Head(inbox[s]))) /\ at' = at
    BY <1>1, <1>8, RefusalAgrees DEF RefuseRequest, Serves
  <2>2. QED BY <1>2, <1>3, <2>1, AnsweringKeepsCounts
<1>9. CASE Render(s)
  <2>1. /\ inbox[s] # <<>> /\ Head(inbox[s]) \in Request
        /\ Geometry(Head(inbox[s])).kind = "ready"
    BY <1>1, <1>9 DEF Render, Calls, AnswerInvariant, AskedForDrawable, Prepared
  <2>2. PICK o \in Agreeing(Head(inbox[s])) : AnswerWith(s, o)
    BY <1>9, <2>1, DamageAgrees, DrawingAgrees DEF Render
  <2>3. \A u \in Service : at[u] = "gone" => at'[u] = "gone"
    <3>1. Service \subseteq Thread
      BY DEF Thread
    <3>2. at[s] = "calling" /\ at' = [at EXCEPT ![s] = "serving"]
      BY <1>9 DEF Render, Calls
    <3>3. QED BY <1>1, <3>1, <3>2
  <2>4. QED BY <1>2, <1>3, <2>1, <2>2, <2>3, AnsweringKeepsCounts
<1>10. QED BY <1>4, <1>5, <1>6, <1>7, <1>8, <1>9 DEF Worker

LEMMA VisitorKeepsCounts ==
  ASSUME CountInvariant, NEW g \in Guest, Visitor(g), Elsewhere
  PROVE  AskedTyped' /\ CallerWaits' /\ \A u \in Service : CountsMatch(u)'
<1>1. AnswerInvariant /\ AskedTyped /\ CallerWaits /\ g \in Thread
  BY DEF CountInvariant, Thread
<1>2. UNCHANGED <<caller, handle, asked, pending, replies, inbox>>
  BY DEF Visitor, Elsewhere, Enters, BeginLoading, FinishLoading, Bind, Lock, Visit,
         Refused, Leave
<1>3. at \in [Thread -> Place]
  BY <1>1 DEF AnswerInvariant, AskedForDrawable
<1>4. at[g] # "gone" /\ \A u \in Thread : u # g => at'[u] = at[u]
  BY <1>1, <1>3
  DEF Visitor, Enters, BeginLoading, FinishLoading, Bind, Lock, Visit, Refused, Leave
<1>5. \A u \in Service : CountsMatch(u)'
  BY <1>1, <1>2, <1>4, MovingKeepsCounts
<1>6. QED BY <1>1, <1>2, <1>5 DEF AskedTyped, CallerWaits

LEMMA CountInvariantHolds == Spec => []CountInvariant
<1>1. CountInvariant /\ AnswerInvariant' /\ [Next]_vars => CountInvariant'
  <2> SUFFICES ASSUME CountInvariant, AnswerInvariant', [Next]_vars PROVE CountInvariant'
    OBVIOUS
  <2>1. CASE UNCHANGED vars
    <3>1. UNCHANGED <<caller, handle, asked, pending, replies, inbox, at>>
      BY <2>1 DEF vars, libraryVars
    <3>2. AskedTyped' /\ CallerWaits'
      BY <3>1 DEF CountInvariant, AskedTyped, CallerWaits
    <3>3. \A s \in Service : CountsMatch(s)'
      BY <3>1, MatchesStill DEF CountInvariant
    <3>4. QED BY <3>2, <3>3 DEF CountInvariant
  <2>2. CASE Next
    <3>1. AskedTyped' /\ CallerWaits' /\ \A s \in Service : CountsMatch(s)'
      BY <2>2, OwnerKeepsCounts, WorkerKeepsCounts, VisitorKeepsCounts DEF Next
    <3>2. QED BY <3>1 DEF CountInvariant
  <2>3. QED BY <2>1, <2>2
<1>2. QED BY <1>1, CountsInitially, AnswerInvariantHolds, PTL DEF Spec

\* The contract suite of the render services holds of everything the fake and the
\* real one answer, for any pages, sizes, scales, limits and requests: each request
\* is answered once, unknown pages fail, tiles have the size of the page as it is
\* shown, to the nearest pixel, and a page the service has is drawn whatever
\* revision is named (opdf-core/src/contract/render.rs).
THEOREM SuiteHolds == Spec => []SuitePasses
<1>1. CountInvariant => SuitePasses
  <2> SUFFICES ASSUME CountInvariant PROVE SuitePasses
    OBVIOUS
  <2>1. EveryRequestIsAnsweredOnce
    BY DEF CountInvariant, CountsMatch, Settled, Coming, EveryRequestIsAnsweredOnce
  <2>2. ASSUME NEW s \in Service, NEW given \in Range(replies[s])
        PROVE  Fits(given)
    <3>1. replies[s] \in Seq(Answers)
      BY TypesForCounts DEF CountInvariant
    <3>2. PICK i \in DOMAIN replies[s] : given = replies[s][i]
      BY <2>2 DEF Range
    <3>3. given \in Answers
      BY <3>1, <3>2
    <3>4. PICK r \in Request : \E o \in Agreeing(r) : given = Response(r, o)
      BY <3>3 DEF Answers
    <3>5. QED BY <3>4, AgreeingFits
  <2>3. ASSUME NEW s \in Service, NEW given \in Range(FakeReplies(s))
        PROVE  Fits(given)
    <3>1. pending[s] \in Seq(Request)
      BY DEF CountInvariant, AskedTyped
    <3>2. PICK i \in DOMAIN pending[s] :
            given = Response(pending[s][i], FakeOutcome(pending[s][i]))
      BY <2>3 DEF Range, FakeReplies
    <3>3. pending[s][i] \in Request
      BY <3>1, <3>2
    <3>4. QED BY <3>2, <3>3, FakeFits
  <2>4. QED BY <2>1, <2>2, <2>3 DEF SuitePasses, Fits
<1>2. QED BY <1>1, CountInvariantHolds, PTL
=============================================================================
