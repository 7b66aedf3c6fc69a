------------------------- MODULE CompositeCommands -------------------------
(***************************************************************************)
(* The composite commands of opdf-ops over several open documents: a       *)
(* Sequence with its rollback, the selections built on it, pages brought   *)
(* in from another document (ImportPages, Merge, extract_range), a split   *)
(* of one document into two, and the inverses all of them hand back, the   *)
(* ones tied to a document (BoundInverse) included.                        *)
(*                                                                         *)
(* A Sequence runs command by command, so that a failure can be met with   *)
(* any number of steps done; nothing else runs meanwhile. Which commands a *)
(* caller put in it is chosen as it runs.                                  *)
(***************************************************************************)
EXTENDS Commands

CONSTANTS
  Docs,         \* the open documents
  PageCounts,   \* their page counts when they are opened
  Turns,        \* how their pages may be turned when they are opened
  MaxIds,       \* bound: identities one document may allocate
  MaxSteps,     \* bound: commands of a caller's Sequence that are accepted
  MaxChanges    \* bound: calls other than those that apply a kept inverse

ASSUME CompositeAssumption ==
  /\ Docs # {}
  /\ PageCounts \subseteq Nat
  /\ Turns \subseteq Rotations
  /\ MaxIds \in Nat
  /\ MaxSteps \in Nat
  /\ MaxChanges \in Nat

VARIABLES
  docs,      \* the documents
  changes,   \* how many calls changed one, those that apply a kept inverse left out
  phase,     \* what the current Sequence is doing, or how the last call ended
  target,    \* the document it is applied to
  binding,   \* the documents it may be applied to
  todo,      \* its commands that are still to come
  inverses,  \* the inverses it has collected, most recent first
  before,    \* auxiliary: the pages of target when it began
  kept       \* at most one: the inverse of the last change of a document

call == <<phase, target, binding, todo, inverses, before>>
vars == <<docs, changes, call, kept>>

Running == phase \in {"choosing", "applying", "rollingBack"}

\* A caller told of a failed rollback has to reload, and makes no more calls.
Idle == phase \in {"ok", "error"}

\* A caller begins to change a document.
Change == Idle /\ changes < MaxChanges /\ changes' = changes + 1

\* An inverse a caller holds, with the documents it applies to (all of them
\* unless it is a BoundInverse) and, auxiliary, the document it was collected from
\* and the pages it should bring back.
KeptInverse ==
  [home : Docs, binding : SUBSET Docs, commands : Seq(Inversion), pages : Seq(Slot)]

-----------------------------------------------------------------------------
\* Sequence

Init ==
  /\ docs \in [Docs -> {Opened(r) : r \in UNION {[1..n -> Turns] : n \in PageCounts}}]
  /\ phase = "ok"
  /\ target = CHOOSE d \in Docs : TRUE
  /\ binding = Docs
  /\ todo = <<>>
  /\ inverses = <<>>
  /\ before = <<>>
  /\ kept = {}
  /\ changes = 0

\* Sequence::apply is entered for document d.
Begin(d, mode, commands, bound) ==
  /\ phase' = mode
  /\ target' = d
  /\ binding' = bound
  /\ todo' = commands
  /\ inverses' = <<>>
  /\ before' = docs'[d].slots

\* The call returns; what it ran with is gone, its target included.
Return(how) ==
  /\ phase' = how
  /\ target' = CHOOSE d \in Docs : TRUE
  /\ binding' = Docs
  /\ todo' = <<>>
  /\ inverses' = <<>>
  /\ before' = <<>>

\* Faulty variant: the inverses are replayed oldest first.
CollectedInOrder(inverse) == Append(inverses, inverse)

Collected(inverse) == <<inverse>> \o inverses

\* One command of the sequence: it is applied and its inverse collected, or the
\* document refuses it and the rollback begins.
Perform(c) ==
  IF Accepts(c, docs[target])
  THEN /\ docs' = [docs EXCEPT ![target] = Applied(c, @)]
       /\ inverses' = Collected(InverseOf(c, docs[target]))
       /\ UNCHANGED phase
  ELSE /\ phase' = "rollingBack"
       /\ UNCHANGED <<docs, inverses>>

AnyCommand ==
  LET ids == 0..(MaxIds - 1)
      at == 0..(MaxIds - 1)
  IN  [op : {"remove"}, page : ids]
      \cup [op : {"restore"}, page : ids, at : at]
      \cup [op : {"rotate"}, page : ids, rotation : Rotations]
      \cup [op : {"move"}, page : ids, to : at]
      \cup (IF docs[target].next < MaxIds THEN [op : {"insert"}, at : at] ELSE {})

ApplyNext ==
  /\ UNCHANGED <<target, binding, before, kept, changes>>
  /\ \/ /\ phase = "choosing"
        /\ \E c \in AnyCommand :
             /\ Accepts(c, docs[target]) => Len(inverses) < MaxSteps
             /\ Perform(c)
        /\ UNCHANGED todo
     \/ /\ phase = "applying"
        /\ todo # <<>>
        /\ Perform(Head(todo))
        /\ todo' = Tail(todo)

\* Every command is done: the inverses, most recent first, are the inverse. A
\* sequence that changed nothing leaves the caller what it had (UndoStack::apply).
Finish ==
  /\ phase = "choosing" \/ (phase = "applying" /\ todo = <<>>)
  /\ kept' =
       IF inverses = <<>> THEN kept
       ELSE {[home |-> target, binding |-> binding, commands |-> inverses, pages |-> before]}
  /\ Return("ok")
  /\ UNCHANGED <<docs, changes>>

\* Faulty variant: a failed sequence leaves what it had done in place.
RollBackNothing ==
  /\ phase = "rollingBack"
  /\ UNCHANGED <<docs, kept, changes>>
  /\ Return("error")

\* roll_back: the collected inverses, most recent first, until one is refused.
RollBack ==
  /\ phase = "rollingBack"
  /\ UNCHANGED <<kept, changes>>
  /\ IF inverses = <<>>
     THEN Return("error") /\ UNCHANGED docs
     ELSE IF Accepts(Head(inverses), docs[target])
     THEN /\ docs' = [docs EXCEPT ![target] = Applied(Head(inverses), @)]
          /\ inverses' = Tail(inverses)
          /\ UNCHANGED <<phase, target, binding, todo, before>>
     ELSE Return("rollbackFailed") /\ UNCHANGED docs

-----------------------------------------------------------------------------
\* Calls. One that is refused before it changes anything is no step.

\* A Sequence of the caller's commands. delete_selection and rotate_selection
\* are two of them, with any page named, live or not, once or twice.
ApplySequence ==
  /\ Change
  /\ UNCHANGED <<docs, kept>>
  /\ \E d \in Docs : Begin(d, "choosing", <<>>, Docs)

\* Faulty variant: any document will do.
MayApplyToAny(inverse, d) == TRUE

\* BoundInverse::apply asks this first; an inverse without a binding does not.
MayApplyTo(inverse, d) == d \in inverse.binding

\* The kept inverse is applied, as an undo the first time and a redo the next.
\* A bound one may also be handed the wrong document; the others are held by
\* the undo stack of theirs.
ApplyKept ==
  /\ Idle
  /\ UNCHANGED <<docs, kept, changes>>
  /\ \E d \in Docs, inverse \in kept :
       /\ d = inverse.home \/ inverse.binding # Docs
       /\ MayApplyTo(inverse, d)
       /\ Begin(d, "applying", inverse.commands, inverse.binding)

Removals(ids) == [i \in DOMAIN ids |-> [op |-> "remove", page |-> ids[i]]]

PageIds(d) == [i \in DOMAIN d.slots |-> d.slots[i].id]

\* Pages were copied into document d, which became imported; its caller is handed
\* the commands that take them out again. An empty import counts: it advances the
\* revision too, so UndoStack::apply records it.
Import(d, imported, undoing, bound) ==
  /\ imported.next <= MaxIds
  /\ docs' = [docs EXCEPT ![d] = imported]
  /\ kept' = {[home |-> d, binding |-> bound, commands |-> undoing, pages |-> docs[d].slots]}
  /\ Return("ok")

\* ImportPages::apply, whose inverse removes the copies first to last.
ImportSelection ==
  /\ Change
  /\ \E d \in Docs : \E source \in Docs \ {d}, at \in 0..(MaxIds - 1) :
       \E p, q \in KnownIds(docs[source]) : \E ids \in {<<>>, <<p>>, <<p, q>>} :
         /\ CanImport(docs[d], docs[source], ids, at)
         /\ Import(d, ImportPages(docs[d], docs[source], ids, at),
                   Removals(FreshIds(docs[d], Len(ids))), Docs)

\* All pages of a source, appended.
WithAllPagesOf(d, source) == ImportPages(d, source, PageIds(source), PageCount(d))

\* Merge::apply of one source or of two opened from one file. Its inverse removes
\* the copies last to first. No source is ever refused, as it is asked for its
\* own pages, so its rollback has no step.
Merge ==
  /\ Change
  /\ \E d \in Docs : \E source \in Docs \ {d}, count \in 1..2 :
       LET once == WithAllPagesOf(docs[d], docs[source])
           merged == IF count = 1 THEN once ELSE WithAllPagesOf(once, docs[source])
           copies == FreshIds(docs[d], count * PageCount(docs[source]))
       IN  Import(d, merged, Removals(Reverse(copies)), Docs)

\* extract_range of the pages from start to end, into the end of another
\* document; its inverse is bound to that document.
ExtractRange ==
  /\ Change
  /\ \E d \in Docs : \E source \in Docs \ {d}, start, end \in 0..MaxIds :
       LET ids == SubSeq(PageIds(docs[source]), start + 1, end)
       IN  /\ start <= end /\ end <= PageCount(docs[source])
           /\ Import(d, ImportPages(docs[d], docs[source], ids, PageCount(docs[d])),
                     Removals(FreshIds(docs[d], Len(ids))), {d})

\* split_at: the pages from boundary on are copied to the end of target and
\* then removed from document, in one Sequence whose inverse is bound to it.
SplitAt ==
  /\ Change
  /\ \E document \in Docs :
     \E receiver \in Docs \ {document}, boundary \in 0..PageCount(docs[document]) :
       LET tail == SubSeq(PageIds(docs[document]), boundary + 1, PageCount(docs[document]))
       IN  /\ docs[receiver].next + Len(tail) <= MaxIds
           /\ docs' = [docs EXCEPT ![receiver] =
                         ImportPages(@, docs[document], tail, PageCount(@))]
           /\ kept' = {}
           /\ Begin(document, "applying", Removals(tail), {document})

Next ==
  \/ ApplyNext
  \/ Finish
  \/ RollBack
  \/ ApplySequence
  \/ ApplyKept
  \/ ImportSelection
  \/ Merge
  \/ ExtractRange
  \/ SplitAt

Spec == Init /\ [][Next]_vars

-----------------------------------------------------------------------------
\* Properties

\* Types of the documents, of the running sequence and of the kept inverses.
\* Pages copied between documents, whose identities all count from 0, never
\* share an identity with a page that was there (PageMap::insert_slot).
TypeOK ==
  /\ docs \in [Docs -> Document]
  /\ \A d \in Docs : WellFormed(docs[d])
  /\ changes \in 0..MaxChanges
  /\ Running \/ Idle \/ phase = "rollbackFailed"
  /\ target \in Docs
  /\ binding \subseteq Docs
  /\ todo \in Seq(Inversion)
  /\ inverses \in Seq(Inversion)
  /\ before \in Seq(Slot)
  /\ kept \subseteq KeptInverse
  /\ Cardinality(kept) <= 1

\* A Sequence takes effect as a whole or leaves the pages, their order and
\* rotations as they were, wherever it failed: "a failing step rolls back every
\* step already applied", and no rollback is ever refused.
AllOrNothing ==
  [][Running /\ ~Running' =>
      \/ phase' = "ok"
      \/ phase' = "error" /\ docs'[target].slots = before]_vars

\* Replaying these commands on document d is never refused and ends with these
\* pages.
Replays(commands, d, pages) ==
  LET after[i \in 0..Len(commands)] ==
        IF i = 0 THEN d ELSE Applied(commands[i], after[i - 1])
  IN  /\ \A i \in 1..Len(commands) : Accepts(commands[i], after[i - 1])
      /\ after[Len(commands)].slots = pages

\* Undoing a composite command, whichever it was, and redoing it, brings back
\* every page of the document in its place: "undoing a composite command is
\* atomic the same way applying it is".
KeptInverseRestores ==
  \A inverse \in kept :
    \/ Running /\ inverse.home = target
    \/ Replays(inverse.commands, docs[inverse.home], inverse.pages)

\* "The command it hands back in turn carries the same binding": the inverse of
\* an extraction or a split, and the redo of that, never changes another document
\* than the one it names pages of, whichever it is handed.
InverseStaysHome ==
  [][\A d \in Docs :
      Running /\ docs'[d] # docs[d] => d = target /\ d \in binding]_vars
=============================================================================
