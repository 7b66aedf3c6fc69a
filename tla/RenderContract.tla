-------------------------- MODULE RenderContract --------------------------
(***************************************************************************)
(* What a RenderService promises its caller (opdf-core/src/render.rs):     *)
(* every request is answered; identical pending requests may be answered   *)
(* by a single response; a poll hands over what has been answered since    *)
(* the last one. Nothing is promised about the order of the answers, and a *)
(* service that dies answers nothing more than what it is asked afterwards.*)
(***************************************************************************)
EXTENDS Naturals

CONSTANT Request

VARIABLES
  waiting,   \* how many submissions of each request still wait for an answer
  answered,  \* how many answers to each request the next poll hands over
  serving    \* whether the service lives and somebody listens to it

contractVars == <<waiting, answered, serving>>

None == [r \in Request |-> 0]
One(r) == [s \in Request |-> IF s = r THEN 1 ELSE 0]
Sum(f, g) == [r \in Request |-> f[r] + g[r]]
Diff(f, g) == [r \in Request |-> f[r] - g[r]]

Init == waiting = None /\ answered = None /\ serving = TRUE

Ask(r) ==
  /\ serving
  /\ waiting' = Sum(waiting, One(r))
  /\ UNCHANGED <<answered, serving>>

\* One of several identical requests that wait is merged into the others.
Merge(r) ==
  /\ waiting[r] > 1
  /\ waiting' = Diff(waiting, One(r))
  /\ UNCHANGED <<answered, serving>>

\* A batch of requests is answered, each of them once.
Answer(batch) ==
  /\ \A r \in batch : waiting[r] > 0
  /\ waiting' = [r \in Request |-> IF r \in batch THEN waiting[r] - 1 ELSE waiting[r]]
  /\ answered' = [r \in Request |-> IF r \in batch THEN answered[r] + 1 ELSE answered[r]]
  /\ UNCHANGED serving

Collect == answered' = None /\ UNCHANGED <<waiting, serving>>

\* The service dies, or its caller drops it: what waits is given up.
Stop ==
  /\ serving' = FALSE
  /\ waiting' = None
  /\ answered' \in {answered, None}

\* Asked when it is dead, the service answers at once.
Reject(r) ==
  /\ ~serving
  /\ answered' = Sum(answered, One(r))
  /\ UNCHANGED <<waiting, serving>>

Next ==
  \/ \E r \in Request : Ask(r) \/ Merge(r) \/ Reject(r)
  \/ \E batch \in SUBSET Request : Answer(batch)
  \/ Collect
  \/ Stop

Spec == Init /\ [][Next]_contractVars
=============================================================================
