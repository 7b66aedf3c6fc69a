-------------------------- MODULE DocumentContract ---------------------------
(***************************************************************************)
(* What every implementation of the Document trait owes its callers.       *)
(*                                                                         *)
(* Promised is the documentation of the trait (opdf-core/src/document.rs), *)
(* call by call: the errors a call may be refused with, and the document a *)
(* call that is not refused leaves. The rest is the contract suite         *)
(* (opdf-core/src/contract/document.rs): each of its assertions, which the *)
(* suite makes once of a document it has just built, is made here of the   *)
(* document d, whatever calls led to it.                                   *)
(***************************************************************************)
EXTENDS DocumentCalls, FiniteSets, SequencesExt

CONSTANTS
  Do(_, _),   \* the outcome of a call on a document of the implementation
  View(_),    \* the document as its caller sees it
  Made(_),    \* make_document: a document with that many pages
  Writer,     \* whose carriers the implementation reads and writes
  Sizes,      \* the page sizes callers ask for
  Turns,      \* the rotations callers ask for
  Unknown,    \* an identity no document ever holds
  Beyond      \* a position past the end of every document

Answer(d, c) == Do(d, c).answer
After(d, c) == Do(d, c).document

Ids(d) == [i \in DOMAIN View(d).pages |-> View(d).pages[i].id]
Count(d) == Len(View(d).pages)
Positions(d) == 0..Count(d)
Present(v, p) == \E i \in DOMAIN v.pages : v.pages[i].id = p
Retained(v, p) == \E info \in v.retained : info.id = p
Known(v) == {v.pages[i].id : i \in DOMAIN v.pages} \cup {info.id : info \in v.retained}

-----------------------------------------------------------------------------
\* The documentation of the trait.

\* The errors the documentation names for a call on a document seen as v.
Complaints(v, c) ==
  LET absent == /\ c.op \in {"page", "index_of", "remove_page", "move_page", "set_rotation"}
                /\ ~Present(v, c.page)
      purged == c.op = "restore_page" /\ ~Present(v, c.page) /\ ~Retained(v, c.page)
      missing == \/ c.op = "import_pages" /\ \E i \in DOMAIN c.ids : ~Present(View(c.source), c.ids[i])
                 \/ c.op = "export_pages" /\ \E i \in DOMAIN c.ids : ~Present(v, c.ids[i])
      past == \/ /\ c.op \in {"restore_page", "insert_page", "import_pages", "import_portable"}
                 /\ c.at > Len(v.pages)
              \/ c.op = "move_page" /\ Present(v, c.page) /\ c.at > Len(v.pages) - 1
      live == c.op = "restore_page" /\ Present(v, c.page)
      foreign == c.op = "import_portable" /\ ~Takes(c.carrier, Writer)
  IN  (IF absent \/ purged \/ missing THEN {PageNotFound} ELSE {})
        \cup (IF past THEN {IndexOutOfBounds} ELSE {})
        \cup (IF live \/ foreign THEN {Unsupported} ELSE {})

Without(pages, p) == SelectSeq(pages, LAMBDA info : info.id # p)
InfoOf(v, p) == v.pages[CHOOSE i \in DOMAIN v.pages : v.pages[i].id = p]

\* Pages with these sizes and rotations stand at position at in w, under
\* identities v did not know, among the pages of v in their order.
Joined(v, w, given, ids, at) ==
  /\ Len(ids) = Len(given) /\ IsInjective(ids)
  /\ \A i \in DOMAIN ids : ids[i] \notin Known(v)
  /\ w.pages = SubSeq(v.pages, 1, at)
                 \o [i \in DOMAIN given |-> PageInfo(ids[i], given[i].size, given[i].rotation)]
                 \o SubSeq(v.pages, at + 1, Len(v.pages))
  /\ w.retained = v.retained

\* What an accepted mutation makes of v.
Effect(v, c, ids, w) ==
  CASE c.op = "remove_page" ->
         /\ w.pages = Without(v.pages, c.page)
         /\ w.retained = v.retained \cup {InfoOf(v, c.page)}
    [] c.op = "restore_page" ->
         \E info \in v.retained :
           /\ info.id = c.page
           /\ w.pages = InsertAt(v.pages, c.at + 1, info)
           /\ w.retained = v.retained \ {info}
    [] c.op = "move_page" ->
         /\ w.pages = InsertAt(Without(v.pages, c.page), c.at + 1, InfoOf(v, c.page))
         /\ w.retained = v.retained
    [] c.op = "set_rotation" ->
         /\ w.pages = [i \in DOMAIN v.pages |->
                         IF v.pages[i].id = c.page THEN [v.pages[i] EXCEPT !.rotation = c.rotation]
                                                   ELSE v.pages[i]]
         /\ w.retained = v.retained
    [] c.op = "insert_page" -> Joined(v, w, << [size |-> c.size, rotation |-> 0] >>, ids, c.at)
    [] c.op = "import_pages" ->
         Joined(v, w, [i \in DOMAIN c.ids |-> InfoOf(View(c.source), c.ids[i])], ids, c.at)
    [] c.op = "import_portable" -> Joined(v, w, c.carrier.pages, ids, c.at)

\* What a read reports.
Reported(v, c, values) ==
  CASE c.op = "page" -> values = << InfoOf(v, c.page) >>
    [] c.op = "index_of" -> v.pages[values[1] + 1].id = c.page
    [] c.op = "export_pages" ->
         values[1].pages = [i \in DOMAIN c.ids |->
           [size |-> InfoOf(v, c.ids[i]).size, rotation |-> InfoOf(v, c.ids[i]).rotation]]

\* A refused call answers one of the errors named for it, a read what it
\* reports, and neither changes anything; an accepted mutation has its effect
\* on the same document and advances the revision.
Promised(d, c) ==
  LET v == View(d)
      w == View(After(d, c))
      answer == Answer(d, c)
      complaints == Complaints(v, c)
  IN  CASE complaints # {} -> answer \in complaints /\ w = v
        [] complaints = {} /\ c.op \in Reads ->
             answer.kind = "Ok" /\ Reported(v, c, answer.values) /\ w = v
        [] OTHER ->
             /\ answer.kind = "Ok"
             /\ Effect(v, c, answer.values, w)
             /\ w.document = v.document /\ w.revision # v.revision

-----------------------------------------------------------------------------
\* The contract suite. Untouched: what the suite compares around a refusal.
Untouched(d, c) ==
  Ids(After(d, c)) = Ids(d) /\ View(After(d, c)).revision = View(d).revision

Refuses(d, c, error) == Answer(d, c) = error /\ Untouched(d, c)
Accepts(d, c) == Answer(d, c).kind = "Ok"
Finds(d, p, at) == Answer(d, IndexOfCall(p)) = Ok(<< at >>)

\* The pages just imported: one for each carried, in order, all of them new.
ArriveAt(d, c, n) ==
  LET imported == Answer(d, c).values
      after == After(d, c)
  IN  /\ Accepts(d, c) /\ Len(imported) = n /\ Count(after) = Count(d) + n
      /\ \A i \in 1..n : /\ Finds(after, imported[i], c.at + i - 1)
                         /\ ~Contains(Ids(d), imported[i])
      /\ \A j \in DOMAIN Ids(d) :
           Finds(after, Ids(d)[j], IF j <= c.at THEN j - 1 ELSE j - 1 + n)

PagesRoundTripThroughACarrier(d) ==
  LET source == Made(2)
      export == ExportPagesCall(Ids(source))
      carrier == Answer(source, export).values[1]
  IN  /\ Untouched(source, export)
      /\ \A at \in Positions(d) :
           /\ ArriveAt(d, ImportPortableCall(carrier, at), 2)
           /\ View(After(d, ImportPortableCall(carrier, at))).revision # View(d).revision
      /\ Untouched(d, ExportPagesCall(Ids(d)))
      /\ Answer(d, ExportPagesCall(<< Unknown >>)) = PageNotFound
      /\ Refuses(d, ImportPortableCall(carrier, Beyond), IndexOutOfBounds)

\* The suite's own document, of one page, which accepts no mutation and writes
\* carriers no other implementation reads.
ForeignCarrier == PortablePages("foreign", << [size |-> "A4", rotation |-> 0] >>)
ForeignImport(carrier) == Unsupported

ForeignCarriersAreRefused(d) ==
  LET export == Answer(d, ExportPagesCall(Ids(d)))
  IN  /\ \A at \in Positions(d) : Refuses(d, ImportPortableCall(ForeignCarrier, at), Unsupported)
      /\ ForeignImport(export.values[1]) = Unsupported
      /\ ~Takes(export.values[1], "foreign")

\* Every kind of mutation, accepted or refused, keeps the document's identity.
IdentityIsStable(d) ==
  LET same(c) == View(After(d, c)).document = View(d).document
      source == Made(1)
  IN  /\ \A p \in Known(View(d)) \cup {Unknown} :
           /\ same(RemovePageCall(p))
           /\ \A t \in Turns : same(SetRotationCall(p, t))
           /\ \A at \in Positions(d) : same(MovePageCall(p, at)) /\ same(RestorePageCall(p, at))
      /\ \A at \in Positions(d) :
           /\ \A size \in Sizes : same(InsertPageCall(at, size))
           /\ same(ImportPagesCall(source, Ids(source), at))

EveryMutationAdvances(d) ==
  LET moved(c) == Accepts(d, c) /\ View(After(d, c)).revision # View(d).revision
      source == Made(2)
  IN  /\ \A p \in ToSet(Ids(d)) :
           /\ moved(RemovePageCall(p))
           /\ \A to \in 0..(Count(d) - 1) : moved(MovePageCall(p, to))
           /\ \A t \in Turns : moved(SetRotationCall(p, t))
      /\ \A at \in Positions(d) :
           /\ \A size \in Sizes : moved(InsertPageCall(at, size))
           /\ moved(ImportPagesCall(source, Ids(source), at))

FailedMutationsLeaveNothing(d) ==
  LET source == Made(1)
      fails(c) == ~Accepts(d, c) /\ Untouched(d, c)
  IN  /\ fails(RemovePageCall(Unknown))
      /\ fails(MovePageCall(Unknown, 0))
      /\ \A t \in Turns : fails(SetRotationCall(Unknown, t))
      /\ \A p \in ToSet(Ids(d)) : \A to \in {Count(d), Beyond} : fails(MovePageCall(p, to))
      /\ \A size \in Sizes : fails(InsertPageCall(Beyond, size))
      /\ fails(ImportPagesCall(source, Ids(source), Beyond))

ReadsLeaveTheRevision(d) ==
  \A p \in ToSet(Ids(d)) : Untouched(d, PageCall(p)) /\ Untouched(d, IndexOfCall(p))

ReportsItsPageCount(n) == Count(Made(n)) = n

ListsIdsInOrder(d) == \A i \in DOMAIN Ids(d) : Finds(d, Ids(d)[i], i - 1)

RejectsUnknownPageIds(d) ==
  Answer(d, PageCall(Unknown)) = PageNotFound /\ Answer(d, IndexOfCall(Unknown)) = PageNotFound

RemovalPreservesOtherIdentities(d) ==
  \A i \in DOMAIN Ids(d) :
    LET p == Ids(d)[i]
        after == After(d, RemovePageCall(p))
    IN  /\ Count(after) = Count(d) - 1
        /\ Answer(after, PageCall(p)) = PageNotFound
        /\ \A j \in DOMAIN Ids(d) : j # i =>
             Finds(after, Ids(d)[j], IF j < i THEN j - 1 ELSE j - 2)

\* A page turned, removed and restored anywhere comes back as itself, also
\* after a restore that was refused for its position.
RemovedPagesCanBeRestored(d) ==
  /\ \A p \in ToSet(Ids(d)) : \A t \in Turns :
       LET turned == After(d, SetRotationCall(p, t))
           before == Answer(turned, PageCall(p))
           removed == After(turned, RemovePageCall(p))
       IN  /\ Refuses(removed, RestorePageCall(p, Beyond), IndexOutOfBounds)
           /\ \A at \in Positions(removed) :
                LET refused == After(removed, RestorePageCall(p, Beyond))
                    restored == After(refused, RestorePageCall(p, at))
                IN  /\ Accepts(refused, RestorePageCall(p, at))
                    /\ Ids(restored)[at + 1] = p
                    /\ Answer(restored, PageCall(p)) = before
                    /\ Finds(restored, p, at)
                    /\ Count(restored) = Count(d)
                    /\ View(restored).revision # View(removed).revision
  /\ Refuses(d, RestorePageCall(Unknown, 0), PageNotFound)
  /\ \A p \in ToSet(Ids(d)) : Refuses(d, RestorePageCall(p, 0), Unsupported)

MoveReorders(d) ==
  \A i, to \in DOMAIN Ids(d) :
    LET p == Ids(d)[i]
    IN  Ids(After(d, MovePageCall(p, to - 1))) = InsertAt(RemoveAt(Ids(d), i), to, p)

MoveRejectsOutOfRange(d) ==
  \A p \in ToSet(Ids(d)) : Refuses(d, MovePageCall(p, Beyond), IndexOutOfBounds)

RotationRoundTrips(d) ==
  \A p \in ToSet(Ids(d)) : \A t \in Turns :
    LET turned == After(d, SetRotationCall(p, t))
        cleared == After(turned, SetRotationCall(p, 0))
    IN  /\ Answer(turned, PageCall(p)).values[1].rotation = t
        /\ Answer(cleared, PageCall(p)).values[1].rotation = 0

\* Also at the end of the document, where it is an append.
InsertReturnsAFreshIdentity(d) ==
  /\ \A at \in Positions(d) : \A size \in Sizes :
       LET c == InsertPageCall(at, size)
       IN  /\ ArriveAt(d, c, 1)
           /\ Answer(After(d, c), PageCall(Answer(d, c).values[1])).values[1].size = size
  /\ \A size \in Sizes : Refuses(d, InsertPageCall(Beyond, size), IndexOutOfBounds)

ImportPreservesOrder(d) ==
  LET source == Made(3)
  IN  \A at \in Positions(d) : ArriveAt(d, ImportPagesCall(source, Ids(source), at), 3)

ImportRejectsOutOfRange(d) ==
  LET source == Made(1)
  IN  Refuses(d, ImportPagesCall(source, Ids(source), Beyond), IndexOutOfBounds)

MutationsRejectUnknownPageIds(d) ==
  /\ Refuses(d, RemovePageCall(Unknown), PageNotFound)
  /\ \A to \in {0, Beyond} : Refuses(d, MovePageCall(Unknown, to), PageNotFound)
  /\ \A t \in Turns : Refuses(d, SetRotationCall(Unknown, t), PageNotFound)

ImportRejectsUnknownSourcePages(d) ==
  LET source == Made(1)
  IN  Refuses(d, ImportPagesCall(source, Append(Ids(source), Unknown), 0), PageNotFound)

AppendPositionsAreValid(d) ==
  LET end == Count(d)
      source == Made(1)
      import == ImportPagesCall(source, Ids(source), end)
      insert(size) == InsertPageCall(end, size)
  IN  /\ \A size \in Sizes : Finds(After(d, insert(size)), Answer(d, insert(size)).values[1], end)
      /\ Finds(After(d, import), Answer(d, import).values[1], end)

\* assert_document_contract, of a document in any state.
Suite(d) ==
  /\ \A n \in 0..4 : ReportsItsPageCount(n)
  /\ ListsIdsInOrder(d) /\ RejectsUnknownPageIds(d)
  /\ RemovalPreservesOtherIdentities(d) /\ RemovedPagesCanBeRestored(d)
  /\ MoveReorders(d) /\ MoveRejectsOutOfRange(d) /\ RotationRoundTrips(d)
  /\ InsertReturnsAFreshIdentity(d)
  /\ ImportPreservesOrder(d) /\ ImportRejectsOutOfRange(d)
  /\ MutationsRejectUnknownPageIds(d) /\ ImportRejectsUnknownSourcePages(d)
  /\ AppendPositionsAreValid(d)
  /\ EveryMutationAdvances(d) /\ FailedMutationsLeaveNothing(d) /\ ReadsLeaveTheRevision(d)
  /\ IdentityIsStable(d)
  /\ PagesRoundTripThroughACarrier(d) /\ ForeignCarriersAreRefused(d)
=============================================================================
