----------------------------- MODULE PdfDocument -----------------------------
(***************************************************************************)
(* PdfDocument (opdf-pdf/src/document.rs) as its caller sees it: what each *)
(* method of the Document trait answers, and what it leaves. The pages,    *)
(* the trash and the revision are a PageMap document; the size a slot was  *)
(* created with never changes, so sizes keeps it by identity.              *)
(***************************************************************************)
EXTENDS PageMap, DocumentCalls

Info(d, s) == PageInfo(s.id, d.sizes[s.id + 1], s.rotation)

View(d) ==
  ViewOf(d.document,
         [i \in DOMAIN d.map.slots |-> Info(d, d.map.slots[i])],
         {Info(d, s) : s \in d.map.removed},
         d.map.revision)

SlotOf(d, p) == d.map.slots[IndexOf(d.map, p)]

\* A parsed file: the pages of a page tree, in order, with their sizes and
\* rotations. A file without pages is refused when it is opened, and only
\* PdfDocument::empty makes one.
Parsed(document, given) ==
  [document |-> document,
   map      |-> Opened([i \in DOMAIN given |-> given[i].rotation]),
   sizes    |-> [i \in DOMAIN given |-> given[i].size]]

Empty(document) == Parsed(document, <<>>)

Refused(d, error) == Outcome(error, d)
Done(d, values, map, sizes) == Outcome(Ok(values), [d EXCEPT !.map = map, !.sizes = sizes])

-----------------------------------------------------------------------------
\* The methods. Each resolves the identity before the position, and refuses
\* before it changes anything.
OnRemovePage(d, p) ==
  IF CanRemove(d.map, p)
  THEN Done(d, <<>>, RemovePage(d.map, p), d.sizes)
  ELSE Refused(d, PageNotFound)

OnRestorePage(d, p, at) ==
  CASE Holds(d.map, p) -> Refused(d, Unsupported)
    [] ~Holds(d.map, p) /\ ~Trashed(d.map, p) -> Refused(d, PageNotFound)
    [] ~Holds(d.map, p) /\ Trashed(d.map, p) /\ at > PageCount(d.map) ->
         Refused(d, IndexOutOfBounds)
    [] OTHER -> Done(d, <<>>, RestorePage(d.map, p, at), d.sizes)

OnMovePage(d, p, to) ==
  CASE ~Holds(d.map, p) -> Refused(d, PageNotFound)
    [] Holds(d.map, p) /\ ~CanMove(d.map, p, to) -> Refused(d, IndexOutOfBounds)
    [] OTHER -> Done(d, <<>>, MovePage(d.map, p, to), d.sizes)

OnSetRotation(d, p, r) ==
  IF CanRotate(d.map, p)
  THEN Done(d, <<>>, SetRotation(d.map, p, r), d.sizes)
  ELSE Refused(d, PageNotFound)

OnInsertPage(d, at, size) ==
  IF CanInsert(d.map, at)
  THEN Done(d, FreshIds(d.map, 1), InsertPage(d.map, at), Append(d.sizes, size))
  ELSE Refused(d, IndexOutOfBounds)

\* The position is checked first, then every source page, then they are copied.
OnImportPages(d, source, ids, at) ==
  CASE at > PageCount(d.map) -> Refused(d, IndexOutOfBounds)
    [] at <= PageCount(d.map) /\ ~CanImport(d.map, source.map, ids, at) ->
         Refused(d, PageNotFound)
    [] OTHER ->
         Done(d, FreshIds(d.map, Len(ids)), ImportPages(d.map, source.map, ids, at),
              d.sizes \o [i \in DOMAIN ids |-> source.sizes[ids[i] + 1]])

\* The pages as the bytes of a compacted document hold them.
Serialized(d) ==
  [i \in DOMAIN d.map.slots |->
     [size |-> View(d).pages[i].size, rotation |-> View(d).pages[i].rotation]]

\* Faulty variant: the pages are taken in the order of this document.
OnExportPagesInOrder(d, ids) ==
  IF \A i \in DOMAIN ids : Holds(d.map, ids[i])
  THEN LET asked == SelectSeq(d.map.slots, LAMBDA s : \E i \in DOMAIN ids : ids[i] = s.id)
           scratch == OnImportPages(Empty(0), d, [i \in DOMAIN asked |-> asked[i].id], 0)
       IN  Outcome(Ok(<< PortablePages("pdf", Serialized(scratch.document)) >>), d)
  ELSE Refused(d, PageNotFound)

\* The pages are imported into a scratch document, which is serialized.
OnExportPages(d, ids) ==
  IF \A i \in DOMAIN ids : Holds(d.map, ids[i])
  THEN LET scratch == OnImportPages(Empty(0), d, ids, 0).document
       IN  Outcome(Ok(<< PortablePages("pdf", Serialized(scratch)) >>), d)
  ELSE Refused(d, PageNotFound)

\* Faulty variant: an empty carrier returns before the revision advances.
OnImportPortableQuietly(d, carrier, at) ==
  LET source == Parsed(0, carrier.pages)
      ids == [i \in DOMAIN source.map.slots |-> source.map.slots[i].id]
  IN  CASE at > PageCount(d.map) -> Refused(d, IndexOutOfBounds)
        [] at <= PageCount(d.map) /\ ~Takes(carrier, "pdf") -> Refused(d, Unsupported)
        [] OTHER -> IF ids = <<>> THEN Outcome(Ok(<<>>), d) ELSE OnImportPages(d, source, ids, at)

\* The bytes are parsed and every page of the result imported; bytes that hold
\* no page are an import of none.
OnImportPortable(d, carrier, at) ==
  LET source == Parsed(0, carrier.pages)
      ids == [i \in DOMAIN source.map.slots |-> source.map.slots[i].id]
  IN  CASE at > PageCount(d.map) -> Refused(d, IndexOutOfBounds)
        [] at <= PageCount(d.map) /\ ~Takes(carrier, "pdf") -> Refused(d, Unsupported)
        [] OTHER -> OnImportPages(d, source, ids, at)

OnPage(d, p) ==
  Outcome(IF Holds(d.map, p) THEN Ok(<< Info(d, SlotOf(d, p)) >>) ELSE PageNotFound, d)
OnIndexOf(d, p) ==
  Outcome(IF Holds(d.map, p) THEN Ok(<< IndexOf(d.map, p) - 1 >>) ELSE PageNotFound, d)

\* The answer to a call and the document it leaves.
Do(d, c) ==
  CASE c.op = "page" -> OnPage(d, c.page)
    [] c.op = "index_of" -> OnIndexOf(d, c.page)
    [] c.op = "remove_page" -> OnRemovePage(d, c.page)
    [] c.op = "restore_page" -> OnRestorePage(d, c.page, c.at)
    [] c.op = "move_page" -> OnMovePage(d, c.page, c.at)
    [] c.op = "set_rotation" -> OnSetRotation(d, c.page, c.rotation)
    [] c.op = "insert_page" -> OnInsertPage(d, c.at, c.size)
    [] c.op = "import_pages" -> OnImportPages(d, c.source, c.ids, c.at)
    [] c.op = "export_pages" -> OnExportPages(d, c.ids)
    [] c.op = "import_portable" -> OnImportPortable(d, c.carrier, c.at)
=============================================================================
