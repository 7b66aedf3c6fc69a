----------------------------- MODULE VecDocument -----------------------------
(***************************************************************************)
(* VecDocument (opdf-core/src/fakes/vec_document.rs), the in-memory        *)
(* document every crate but opdf-pdf is developed and tested against. Its  *)
(* pages and its removed pages are vectors of page infos.                  *)
(***************************************************************************)
EXTENDS DocumentCalls, SequencesExt

CONSTANT RevisionModulus   \* the counter is a u64

View(d) == ViewOf(d.document, d.pages, ToSet(d.removed), d.revision)

\* The positions of page p in a vector of pages, counted from 1.
PositionsOf(pages, p) == {i \in DOMAIN pages : pages[i].id = p}
FirstOf(pages, p) ==
  CHOOSE i \in PositionsOf(pages, p) : \A j \in PositionsOf(pages, p) : i <= j

Present(d, p) == PositionsOf(d.pages, p) # {}
Info(d, p) == d.pages[FirstOf(d.pages, p)]

InRange(d, at) == at <= Len(d.pages)

\* with_pages, for a document that was just given its identity.
WithPages(document, count, size) ==
  [document |-> document,
   pages    |-> [i \in 1..count |-> PageInfo(i - 1, size, 0)],
   removed  |-> <<>>,
   next     |-> count,
   revision |-> 0]

Advanced(d) == (d.revision + 1) % RevisionModulus

\* Each mutation succeeds with a new document or is refused, unchanged.
Refused(d, error) == Outcome(error, d)
Done(d, values, pages, removed, next) ==
  Outcome(Ok(values),
          [d EXCEPT !.pages = pages, !.removed = removed, !.next = next,
                    !.revision = Advanced(d)])

RemovePage(d, p) ==
  IF ~Present(d, p)
  THEN Refused(d, PageNotFound)
  ELSE LET i == FirstOf(d.pages, p)
       IN  Done(d, <<>>, RemoveAt(d.pages, i), Append(d.removed, d.pages[i]), d.next)

\* The identity is resolved before the position.
RestorePage(d, p, at) ==
  LET i == FirstOf(d.removed, p)
  IN  CASE Present(d, p) -> Refused(d, Unsupported)
        [] ~Present(d, p) /\ PositionsOf(d.removed, p) = {} -> Refused(d, PageNotFound)
        [] ~Present(d, p) /\ PositionsOf(d.removed, p) # {} /\ ~InRange(d, at) ->
             Refused(d, IndexOutOfBounds)
        [] OTHER ->
             Done(d, <<>>, InsertAt(d.pages, at + 1, d.removed[i]),
                  RemoveAt(d.removed, i), d.next)

\* The page is lifted out; a position past what is left puts it back.
MovePage(d, p, to) ==
  LET i == FirstOf(d.pages, p)
      lifted == RemoveAt(d.pages, i)
  IN  CASE ~Present(d, p) -> Refused(d, PageNotFound)
        [] Present(d, p) /\ to > Len(lifted) ->
             Refused([d EXCEPT !.pages = InsertAt(lifted, i, d.pages[i])], IndexOutOfBounds)
        [] OTHER ->
             Done(d, <<>>, InsertAt(lifted, to + 1, d.pages[i]), d.removed, d.next)

SetRotation(d, p, r) ==
  IF ~Present(d, p)
  THEN Refused(d, PageNotFound)
  ELSE Done(d, <<>>, [d.pages EXCEPT ![FirstOf(d.pages, p)].rotation = r], d.removed, d.next)

\* The identities the next n pages are given.
Allocated(d, n) == [i \in 1..n |-> d.next + i - 1]

\* Pages with these sizes and rotations, inserted in order under fresh
\* identities.
Inserted(d, given, at) ==
  LET ids == Allocated(d, Len(given))
      fresh == [i \in DOMAIN given |-> PageInfo(ids[i], given[i].size, given[i].rotation)]
  IN  Done(d, ids, SubSeq(d.pages, 1, at) \o fresh \o SubSeq(d.pages, at + 1, Len(d.pages)),
           d.removed, d.next + Len(given))

InsertPage(d, at, size) ==
  IF ~InRange(d, at)
  THEN Refused(d, IndexOutOfBounds)
  ELSE Inserted(d, << [size |-> size, rotation |-> 0] >>, at)

AllPresent(d, ids) == \A i \in DOMAIN ids : Present(d, ids[i])
Infos(d, ids) == [i \in DOMAIN ids |-> Info(d, ids[i])]

\* Every source page is resolved before anything is inserted.
ImportPages(d, source, ids, at) ==
  CASE ~InRange(d, at) -> Refused(d, IndexOutOfBounds)
    [] InRange(d, at) /\ ~AllPresent(source, ids) -> Refused(d, PageNotFound)
    [] OTHER -> Inserted(d, Infos(source, ids), at)

ExportPages(d, ids) ==
  IF ~AllPresent(d, ids)
  THEN Outcome(PageNotFound, d)
  ELSE LET pages == [i \in DOMAIN ids |->
                       [size |-> Info(d, ids[i]).size, rotation |-> Info(d, ids[i]).rotation]]
       IN  Outcome(Ok(<< PortablePages("vec", pages) >>), d)

\* The position is checked first, as import_pages does.
ImportPortable(d, carrier, at) ==
  CASE ~InRange(d, at) -> Refused(d, IndexOutOfBounds)
    [] InRange(d, at) /\ ~Takes(carrier, "vec") -> Refused(d, Unsupported)
    [] OTHER -> Inserted(d, carrier.pages, at)

-----------------------------------------------------------------------------
\* The answer to a call and the document it leaves.
Do(d, c) ==
  CASE c.op = "page" ->
         Outcome(IF Present(d, c.page) THEN Ok(<< Info(d, c.page) >>) ELSE PageNotFound, d)
    [] c.op = "index_of" ->
         Outcome(IF Present(d, c.page) THEN Ok(<< FirstOf(d.pages, c.page) - 1 >>)
                                       ELSE PageNotFound, d)
    [] c.op = "remove_page" -> RemovePage(d, c.page)
    [] c.op = "restore_page" -> RestorePage(d, c.page, c.at)
    [] c.op = "move_page" -> MovePage(d, c.page, c.at)
    [] c.op = "set_rotation" -> SetRotation(d, c.page, c.rotation)
    [] c.op = "insert_page" -> InsertPage(d, c.at, c.size)
    [] c.op = "import_pages" -> ImportPages(d, c.source, c.ids, c.at)
    [] c.op = "export_pages" -> ExportPages(d, c.ids)
    [] c.op = "import_portable" -> ImportPortable(d, c.carrier, c.at)
=============================================================================
