---------------------------- MODULE EditHistory ----------------------------
(***************************************************************************)
(* An open document together with its undo stack: the commands of opdf-ops *)
(* that edit one page, UndoStack::apply, undo, redo and clear, and the two *)
(* moments the application empties the history, a compacting save and the  *)
(* arrival of another document.                                            *)
(*                                                                         *)
(* timeline is an auxiliary variable that no action reads: the documents   *)
(* the history can still walk to, oldest first. The document in front of   *)
(* the user is entry Len(undo) + 1. Undo and redo replay stored inverse    *)
(* commands; the timeline says what they should have produced.             *)
(***************************************************************************)
EXTENDS Commands

CONSTANTS
  Limit,        \* UndoStack::limit, 100 by default
  PageCounts,   \* page counts of the documents that may be opened
  MaxIds        \* bound: identities one document may allocate

ASSUME EditHistoryAssumption ==
  /\ Limit \in Nat \ {0}
  /\ PageCounts \subseteq Nat
  /\ MaxIds \in Nat

VARIABLES doc, undo, redo, timeline

vars == <<doc, undo, redo, timeline>>

-----------------------------------------------------------------------------
\* Initial states and actions

Position == 0..MaxIds

\* The documents a parser may hand over.
OpenedDocuments == {Opened(r) : r \in UNION {[1..n -> Rotations] : n \in PageCounts}}

Init ==
  /\ doc \in OpenedDocuments
  /\ undo = <<>>
  /\ redo = <<>>
  /\ timeline = <<doc>>

\* Faulty variant: the limit is compared after the append, one entry too late.
NewestLate(s, n) == IF Len(s) > n + 1 THEN Tail(s) ELSE s

\* The n newest entries of a list that just grew past n by at most one.
Newest(s, n) == IF Len(s) > n THEN Tail(s) ELSE s

\* Faulty variant: a new edit leaves the redo stack in place.
ApplyKeepsRedo(c) ==
  /\ Accepts(c, doc)
  /\ doc' = Applied(c, doc)
  /\ undo' = Newest(Append(undo, InverseOf(c, doc)), Limit)
  /\ redo' = redo
  /\ timeline' = Newest(Append(SubSeq(timeline, 1, Len(undo) + 1), doc'), Limit + 1)

\* UndoStack::apply of a command the document accepts. The inverse is recorded
\* only if the revision moved; recording drops the oldest entry beyond the
\* limit and the whole redo stack.
Apply(c) ==
  /\ Accepts(c, doc)
  /\ doc' = Applied(c, doc)
  /\ IF doc'.revision = doc.revision
     THEN UNCHANGED <<undo, redo, timeline>>
     ELSE /\ undo' = Newest(Append(undo, InverseOf(c, doc)), Limit)
          /\ redo' = <<>>
          /\ timeline' = Newest(Append(SubSeq(timeline, 1, Len(undo) + 1), doc'),
                                Limit + 1)

\* UndoStack::undo. An entry the document refuses is pushed back and nothing
\* changes, so the step needs no action of its own.
Undo ==
  /\ undo # <<>>
  /\ Accepts(Last(undo), doc)
  /\ doc' = Applied(Last(undo), doc)
  /\ undo' = Front(undo)
  /\ redo' = Append(redo, InverseOf(Last(undo), doc))
  /\ timeline' = [timeline EXCEPT ![Len(undo)] = doc']

\* UndoStack::redo.
Redo ==
  /\ redo # <<>>
  /\ Accepts(Last(redo), doc)
  /\ doc' = Applied(Last(redo), doc)
  /\ redo' = Front(redo)
  /\ undo' = Append(undo, InverseOf(Last(redo), doc))
  /\ timeline' = [timeline EXCEPT ![Len(undo) + 2] = doc']

\* Faulty variant: compaction purges the trash and keeps the history.
CompactKeepsHistory ==
  /\ PageCount(doc) > 0
  /\ doc' = PurgeTrash(doc)
  /\ UNCHANGED <<undo, redo>>
  /\ timeline' = [timeline EXCEPT ![Len(undo) + 1] = doc']

\* OpdfApp::confirm_compaction, when the write succeeds: the save purges the
\* trash and the application clears the history. A document without pages is
\* refused by the save.
Compact ==
  /\ PageCount(doc) > 0
  /\ doc' = PurgeTrash(doc)
  /\ undo' = <<>>
  /\ redo' = <<>>
  /\ timeline' = <<doc'>>

\* OpdfApp::install_document: another document arrives, whose identities start
\* from 0 again, and the history of the previous one is cleared.
InstallDocument ==
  /\ doc' \in OpenedDocuments
  /\ undo' = <<>>
  /\ redo' = <<>>
  /\ timeline' = <<doc'>>

ApplyRemove == \E p \in KnownIds(doc) : Apply([op |-> "remove", page |-> p])
ApplyRestore ==
  \E p \in KnownIds(doc), at \in Position :
    Apply([op |-> "restore", page |-> p, at |-> at])
ApplyRotate ==
  \E p \in KnownIds(doc), r \in Rotations :
    Apply([op |-> "rotate", page |-> p, rotation |-> r])
ApplyMove ==
  \E p \in KnownIds(doc), to \in Position :
    Apply([op |-> "move", page |-> p, to |-> to])
ApplyInsert ==
  /\ doc.next < MaxIds
  /\ \E at \in Position : Apply([op |-> "insert", at |-> at])

Next ==
  \/ ApplyRemove
  \/ ApplyRestore
  \/ ApplyRotate
  \/ ApplyMove
  \/ ApplyInsert
  \/ Undo
  \/ Redo
  \/ Compact
  \/ InstallDocument

Spec == Init /\ [][Next]_vars

-----------------------------------------------------------------------------
\* Properties

\* Types of the document, of the two stacks and of the auxiliary timeline.
TypeOK ==
  /\ doc \in Document
  /\ undo \in Seq(Inversion)
  /\ redo \in Seq(Inversion)
  /\ timeline \in Seq(Document)
  /\ Len(timeline) = Len(undo) + Len(redo) + 1

\* No identity ever names two pages, on the page list and in the trash
\* together, and the allocator never hands out one that is still known
\* (PageMap::remove_slot, restore_slot, insert_slot), in the document shown and
\* in every document undo and redo can still walk to.
PageIdentity ==
  /\ WellFormed(doc)
  /\ \A i \in DOMAIN timeline : WellFormed(timeline[i])

\* "entries only ever move between the two stacks, so the two together never
\* hold more than the limit" (UndoStack).
HistoryWithinLimit == Len(undo) + Len(redo) <= Limit

\* The two lists are as they should be, also when the limit is reached in the
\* middle of a walk: they divide a line of documents between them, and none of
\* undo, redo and apply makes them outgrow the limit together.
HistoryOK == TypeOK /\ HistoryWithinLimit

\* Whatever was edited, undone, redone, restored by hand, compacted or opened
\* in between, the entry undo or redo would apply next is never refused.
NextEntryApplies ==
  /\ undo # <<>> => Accepts(Last(undo), doc)
  /\ redo # <<>> => Accepts(Last(redo), doc)

\* Every queued entry, not just the top one, takes the document it would be
\* applied to back (undo) or forward (redo) to the neighbouring document of the
\* timeline, page for page and rotation for rotation.
EntriesReplayTimeline ==
  /\ \A i \in 1..Len(undo) : LeadsTo(undo[i], timeline[i + 1], timeline[i])
  /\ \A i \in 1..Len(redo) :
       LeadsTo(redo[i], timeline[Len(timeline) - i], timeline[Len(timeline) - i + 1])
  /\ doc = timeline[Len(undo) + 1]

\* No edit, undo or redo loses a page: what was mapped is still mapped or is in
\* the trash, and what was in the trash is still there or is mapped again just
\* as it was. Only a compaction (PageMap::purge_trash) or the arrival of
\* another document gives a page up; and an identity that names nothing any
\* more never names a page again while this document is open.
PageKept ==
  /\ KnownIds(doc) \subseteq KnownIds(doc')
  /\ \A s \in doc.removed :
       s \in doc'.removed \/ \E i \in DOMAIN doc'.slots : doc'.slots[i] = s
IdentityStaysRetired ==
  \A p \in 0..(doc.next - 1) : p \notin KnownIds(doc) => p \notin KnownIds(doc')
PagesAccountedFor ==
  [][/\ ~Compact /\ ~InstallDocument => PageKept
     /\ ~InstallDocument => IdentityStaysRetired]_vars
-----------------------------------------------------------------------------
\* Refinement

\* The page lists the timeline stands for, as a user sees them.
PageLists == [i \in DOMAIN timeline |-> timeline[i].slots]

Line == INSTANCE Timeline
          WITH State <- Seq(Slot), history <- PageLists, cursor <- Len(undo) + 1

\* Replaying stored inverses is indistinguishable from walking a line of page
\* lists: UndoStack::undo and redo show exactly the pages, order and rotations
\* that were there before, and an edit after an undo abandons the rest.
WalksTimeline == Line!Spec
=============================================================================
