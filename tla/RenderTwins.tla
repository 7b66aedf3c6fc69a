----------------------------- MODULE RenderTwins -----------------------------
(***************************************************************************)
(* Several render services over one file, each beside a FakeRenderService  *)
(* (opdf-core/src/fakes/fake_render_service.rs) over the same pages. Their *)
(* owner puts every request to a service and to its twin, and collects what*)
(* either has answered. The render contract suite                          *)
(* (opdf-core/src/contract/render.rs) is stated of all the answers, where  *)
(* the suite asks one request of a service it has just built; the workers  *)
(* share Pdfium meanwhile with each other and with other threads.          *)
(***************************************************************************)
EXTENDS PdfiumLibrary, FiniteSets, Functions

CONSTANT
  MaxPending   \* bound: requests to a service its owner waits for

ASSUME RenderTwinsAssumption == MaxPending \in Nat

VARIABLES
  asked,     \* how often each service was asked what its owner has no answer to
  pending    \* what its twin was asked and has not answered, in order

vars == <<libraryVars, asked, pending>>

\* Faulty variant: a request of another revision is refused.
FakeOutcomeValidated(r) ==
  IF r.page \in Ids /\ r.revision = 0
  THEN RenderFlatTile(PageOf(r.page), r)
  ELSE Failed("unknown page")

\* The fake finds the page by its identity and draws it, whatever document and
\* revision the request names.
FakeOutcome(r) ==
  IF r.page \in Ids THEN RenderFlatTile(PageOf(r.page), r) ELSE Failed("unknown page")

Init ==
  /\ InitLibrary
  /\ asked = [s \in Service |-> [r \in Request |-> 0]]
  /\ pending = [s \in Service |-> <<>>]

Ask(s, r) ==
  /\ SumFunction(asked[s]) < MaxPending
  /\ Submit(s, r)
  /\ asked' = [asked EXCEPT ![s][r] = @ + 1]
  /\ pending' = [pending EXCEPT ![s] = Append(@, r)]

Occurrences(r, requests) == Cardinality({i \in DOMAIN requests : requests[i] = r})
Requests(responses) == [i \in DOMAIN responses |-> responses[i].request]

\* What the fake answers when it is polled: everything pending, in order.
FakeReplies(s) ==
  [i \in DOMAIN pending[s] |-> Response(pending[s][i], FakeOutcome(pending[s][i]))]

\* Both are polled.
Collect(s) ==
  /\ Poll(s)
  /\ asked' = [asked EXCEPT ![s] =
       [r \in Request |-> asked[s][r] - Occurrences(r, Requests(replies[s]))]]
  /\ pending' = [pending EXCEPT ![s] = <<>>]

Forget(s) ==
  /\ DropHandle(s)
  /\ asked' = [asked EXCEPT ![s] = [r \in Request |-> 0]]
  /\ pending' = [pending EXCEPT ![s] = <<>>]

Elsewhere == UNCHANGED <<asked, pending>>

Owner ==
  \E s \in Service :
    \/ (\E waits \in BOOLEAN : Build(s, waits)) /\ Elsewhere
    \/ OpenReturns(s) /\ Elsewhere
    \/ Forget(s)
    \/ \E r \in Request : Ask(s, r)
    \/ Collect(s)

Next ==
  \/ Owner
  \/ \E s \in Service : Worker(s) /\ Elsewhere
  \/ \E g \in Guest : Visitor(g) /\ Elsewhere

Spec == Init /\ [][Next]_vars

\* Threads run, open is left once there is a report, and a guest that came goes
\* through with its visit. Nothing makes the owner ask, collect or drop.
Fairness ==
  /\ \A s \in Service : WF_libraryVars(Worker(s)) /\ WF_libraryVars(OpenReturns(s))
  /\ \A g \in Guest : WF_libraryVars(Enters(g) \/ Refused(g) \/ Leave(g))

FairSpec == Spec /\ Fairness

-----------------------------------------------------------------------------
\* The contract suite, of the answers.
Ok(answer) == answer.outcome.kind = "ready"
Shown(r) == LET page == PageOf(r.page)
            IN  DisplaySize(page.size, RotatedBy(page.rotation, r.rotation))

\* To the nearest pixel, with a floor of one: in fixed point.
Nearest(pixels, points, scale) ==
  LET exact == points * scale
  IN  \/ 2 * pixels * Unit - Unit <= 2 * exact /\ 2 * exact < 2 * pixels * Unit + Unit
      \/ pixels = 1 /\ 2 * exact < Unit

\* What the owner of a service has no answer to is on its way, as often as it
\* was asked: nothing is lost, answered twice, or answered without having been
\* asked. (A worker that is gone under its owner's hands panicked, and what it
\* had taken is lost: Viewer's tile caches then wait for it.)
EveryRequestIsAnsweredOnce ==
  \A s \in Service, r \in Request :
    handle[s] = "held" =>
      LET due == asked[s][r]
          coming == Occurrences(r, Requests(replies[s])) + Occurrences(r, inbox[s])
      IN  coming <= due /\ (at[s] # "gone" => coming = due)

UnknownPagesFail(answer) == answer.request.page \notin Ids => ~Ok(answer)

\* Rounded to nearest, at least a pixel, of the page as turned by its own
\* rotation and the view's: an odd number of quarter turns swaps the axes.
DimensionsFollowScale(answer) ==
  Ok(answer) =>
    /\ Nearest(answer.outcome.width, Shown(answer.request).width, answer.request.scale)
    /\ Nearest(answer.outcome.height, Shown(answer.request).height, answer.request.scale)
    /\ answer.outcome.width >= 1 /\ answer.outcome.height >= 1

\* What is never drawn: a tile past a limit, a page that is damaged, and nothing
\* at all without a file.
Undrawable(answer) ==
  \/ answer.outcome \in {Failed(reason) : reason \in
       {"edge too long", "too many pixels", "not open", "no worker"}}
  \/ answer.outcome = Failed("damaged") /\ answer.request.page \in Damaged

\* A page the service has is drawn, whatever document and revision are named.
ForeignRequestsAreAnswered(answer) ==
  answer.request.page \in Ids => Ok(answer) \/ Undrawable(answer)

-----------------------------------------------------------------------------
\* The suite's requirements hold of all answers of the fake and of the Pdfium
\* service, however many requests, repeated or foreign, wait meanwhile, and
\* however the worker fares.
SuitePasses ==
  /\ EveryRequestIsAnsweredOnce
  /\ \A s \in Service :
       \A answer \in Range(replies[s]) \cup Range(FakeReplies(s)) :
         /\ UnknownPagesFail(answer)
         /\ DimensionsFollowScale(answer)
         /\ ForeignRequestsAreAnswered(answer)

\* Where a real answer may differ from the fake's to the same request: an edge
\* past a limit the fake does not have (geometry.rs, "The two renderers do not
\* fail identically"), a page that is damaged, and a worker whose file did not
\* open, or that is gone.
MayDiffer(outcome, fake, page) ==
  \/ /\ outcome = Failed("edge too long")
     /\ fake.kind = "ready" => fake.width > MaxTileEdge \/ fake.height > MaxTileEdge
  \/ outcome = Failed("damaged") /\ page \in Damaged
  \/ outcome \in {Failed("not open"), Failed("no worker")}

\* Developed against the fake, the interface meets the same tiles with Pdfium,
\* turned the same way whatever rotation the file already has.
RenderersAgree ==
  \A s \in Service :
    \A answer \in Range(replies[s]) :
      LET fake == FakeOutcome(answer.request)
      IN  answer.outcome = fake \/ MayDiffer(answer.outcome, fake, answer.request.page)
=============================================================================
