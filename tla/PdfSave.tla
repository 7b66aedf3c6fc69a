------------------------------ MODULE PdfSave ------------------------------
(***************************************************************************)
(* A parsed PDF, the edits it holds in memory and the two ways of writing  *)
(* them out (opdf-pdf: document.rs, save.rs, page_map.rs, objects.rs,      *)
(* geometry.rs). An incremental save appends the changed objects to the    *)
(* bytes the document was opened from; a compacting save writes a new file *)
(* of the objects the trailer reaches, and the document goes on from it.   *)
(*                                                                         *)
(* Of a file the model keeps the page tree, what else names a page, and    *)
(* /Rotate, the inheritable attribute an edit changes: a page has its own, *)
(* or inherits one from the /Pages node above it, or from the root. What   *)
(* is drawn on a page is named by the identity the page got when it        *)
(* entered the document.                                                   *)
(***************************************************************************)
EXTENDS PageMap

CONSTANTS
  Absent,     \* the value of a key a dictionary does not have
  FilePages,  \* pages of the file that is opened
  Shapes,     \* the /Rotate its pages, their nodes and its root may have, and
              \* what in it may name its pages beside the page tree
  Imports,    \* the /Rotate an imported page stated or inherited, and the numbers
              \* its links are left with
  MaxIds,     \* bound: identities one document may allocate
  MaxEdits,   \* bound: mutations before the first compacting save
  MaxLater    \* bound: those between two

FileObjects == 1..FilePages
ObjectId == Nat \ {0}
Key == Rotations \cup {Absent}
Shape == [own : [FileObjects -> Key], node : [FileObjects -> Key], root : Key,
          kin : [FileObjects -> SUBSET FileObjects],
          links : [FileObjects -> SUBSET FileObjects], named : SUBSET FileObjects]

ASSUME PdfSaveAssumption ==
  /\ Absent \notin Rotations
  /\ FilePages \in Nat \ {0}
  /\ Shapes \subseteq Shape
  /\ \A s \in Shapes : \A o \in FileObjects : \A p \in s.kin[o] : s.node[o] = s.node[p]
  /\ Imports \subseteq [own : Key, links : SUBSET ObjectId]
  /\ MaxIds \in Nat
  /\ MaxEdits \in Nat
  /\ MaxLater \in 0..MaxEdits

VARIABLES
  doc,     \* the page map and the revision; a slot also names its object and
           \* whether its rotation differs from what the file records
  base,    \* the file the document was opened from
  update,  \* IncrementalDocument::new_document, what an update would append
  dirty,   \* DirtyState
  edits,   \* mutations so far, of which a compacting save leaves MaxLater to go
  disk,    \* the last file that was written, and the pages it should show
  purged   \* pages that were given up for good

vars == <<doc, base, update, dirty, edits, disk, purged>>

-----------------------------------------------------------------------------
\* Files

\* A page's dictionary. `node` is the /Rotate of the /Pages node between the
\* page and the root, if there is one, and `kin` the other pages below that
\* node; `links` are the page objects its annotations name.
Page == [content : PageId, blank : BOOLEAN, own : Key, node : Key,
         kin : SUBSET ObjectId, links : SUBSET ObjectId]

\* A file: its page objects, those the tree reaches in order, the root's key,
\* the page objects its outline, named destinations or form fields name, and
\* the highest number it has given an object.
FileOf(pages, kids, root, named, max_id) ==
  [pages |-> pages, kids |-> kids, root |-> root, named |-> named, max_id |-> max_id]

\* Objects entered among others take the place of those of the same name.
Entered(objects, among) ==
  [o \in DOMAIN objects \cup DOMAIN among |->
     IF o \in DOMAIN objects THEN objects[o] ELSE among[o]]

\* The key of a dictionary, or what its ancestors give in its place.
FirstPresent(key, above) == IF key = Absent THEN above ELSE key

\* find_inherited_attribute, of /Rotate
Inherited(f, o) == FirstPresent(f.pages[o].own, FirstPresent(f.pages[o].node, f.root))

\* read_page_rotation: no rotation anywhere is none.
ReadRotation(f, o) == IF Inherited(f, o) = Absent THEN 0 ELSE Inherited(f, o)

\* What a reader of the file sees.
Reopened(f) ==
  [i \in DOMAIN f.kids |->
     [content |-> f.pages[f.kids[i]].content, rotation |-> ReadRotation(f, f.kids[i])]]

\* An update of file f that appends nothing yet: it numbers its objects on from
\* those of f.
NoUpdate(f) == [pages |-> <<>>, kids |-> <<>>, max_id |-> f.max_id]
Clean == [structure |-> FALSE, rotations |-> FALSE]

-----------------------------------------------------------------------------
\* Opening

SlotFor(id, o, rotation, changed) ==
  [id |-> id, object |-> o, rotation |-> rotation, changed |-> changed]

\* PdfDocument::build_from_incremental
Build(f) ==
  [slots |-> [i \in DOMAIN f.kids |-> SlotFor(i - 1, f.kids[i], ReadRotation(f, f.kids[i]), FALSE)],
   removed |-> {},
   next |-> Len(f.kids),
   revision |-> 0]

\* The page objects of a file of this shape.
PagesOf(s) ==
  [o \in FileObjects |->
     [content |-> o - 1, blank |-> FALSE, own |-> s.own[o], node |-> s.node[o],
      kin |-> s.kin[o], links |-> s.links[o]]]

OpenedFiles ==
  {FileOf(PagesOf(s), [i \in FileObjects |-> i], s.root, s.named, FilePages) : s \in Shapes}

Init ==
  /\ base \in OpenedFiles
  /\ doc = Build(base)
  /\ update = NoUpdate(base)
  /\ dirty = Clean
  /\ edits = 0
  /\ disk = [file |-> base, shown |-> Reopened(base)]
  /\ purged = {}

-----------------------------------------------------------------------------
\* Edits

\* The appended object shadows the base's object of the same name.
Object(u, o) == IF o \in DOMAIN u.pages THEN u.pages[o] ELSE base.pages[o]

\* What the user sees.
Shown ==
  [i \in DOMAIN doc.slots |->
     [content |-> Object(update, doc.slots[i].object).content,
      rotation |-> doc.slots[i].rotation]]

Edit(d) ==
  /\ edits < MaxEdits
  /\ edits' = edits + 1
  /\ doc' = d
  /\ UNCHANGED <<base, disk, purged>>

\* Faulty variant: a change of the page tree is not noted.
RestructuresUnnoted == UNCHANGED dirty

Restructures == dirty' = [dirty EXCEPT !.structure = TRUE]

RemoveSlot ==
  \E p \in KnownIds(doc) :
    CanRemove(doc, p) /\ Edit(RemovePage(doc, p)) /\ Restructures /\ UNCHANGED update

RestoreSlot ==
  \E p \in KnownIds(doc), at \in 0..PageCount(doc) :
    CanRestore(doc, p, at) /\ Edit(RestorePage(doc, p, at)) /\ Restructures /\ UNCHANGED update

MoveSlot ==
  \E p \in KnownIds(doc), to \in 0..PageCount(doc) :
    CanMove(doc, p, to) /\ Edit(MovePage(doc, p, to)) /\ Restructures /\ UNCHANGED update

Turned(slot, r) == [slot EXCEPT !.rotation = r, !.changed = TRUE]

\* PdfDocument::set_rotation
RotateSlot ==
  \E i \in DOMAIN doc.slots, r \in Rotations :
    /\ Edit(Mutated(doc, [doc.slots EXCEPT ![i] = Turned(@, r)], doc.removed, doc.next))
    /\ dirty' = [dirty EXCEPT !.rotations = TRUE]
    /\ UNCHANGED update

NewObject == update.max_id + 1

\* A new page's object is appended to the update, its slot is inserted.
Added(slot, page, at) ==
  /\ doc.next < MaxIds
  /\ Edit(Mutated(doc, InsertAt(doc.slots, at + 1, slot), doc.removed, doc.next + 1))
  /\ update' = [update EXCEPT !.pages = Entered([o \in {slot.object} |-> page], @),
                              !.max_id = slot.object]

\* PdfDocument::insert_page: a blank page carries no /Rotate and no mark.
InsertSlot ==
  \E at \in 0..PageCount(doc) :
    /\ Added(SlotFor(doc.next, NewObject, 0, FALSE),
             [content |-> doc.next, blank |-> TRUE, own |-> Absent, node |-> Absent,
              kin |-> {}, links |-> {}], at)
    /\ Restructures

Imported(o, rotation) == SlotFor(doc.next, o, rotation, TRUE)

\* PdfDocument::import_pages of one page: what it inherited is written onto the
\* copy, the rotation its own document had in memory is only marked. Its links
\* to pages that were not copied keep the numbers those have in their own file.
ImportSlot ==
  \E at \in 0..PageCount(doc), copy \in Imports, rotation \in Rotations :
    /\ Added(Imported(NewObject, rotation),
             [content |-> doc.next, blank |-> FALSE, own |-> copy.own, node |-> Absent,
              kin |-> {}, links |-> copy.links], at)
    /\ dirty' = [structure |-> TRUE, rotations |-> TRUE]

-----------------------------------------------------------------------------
\* Saving

Objects == {doc.slots[i].object : i \in DOMAIN doc.slots}

\* materialize_inherited_attributes: a page of the base that has no /Rotate of
\* its own is given the one it inherits.
WithInherited(u) ==
  LET heirs == {o \in Objects \cap DOMAIN base.pages :
                  base.pages[o].own = Absent /\ Inherited(base, o) # Absent}
  IN  [u EXCEPT !.pages =
         Entered([o \in heirs |-> [Object(u, o) EXCEPT !.own = Inherited(base, o)]], @)]

\* rewrite_page_tree: every page hangs from the root, in document order. The
\* nodes between stay as they are, and so does what a removed page hangs from.
WithPageTree(u) ==
  [u EXCEPT !.pages =
              Entered([o \in Objects |-> [Object(u, o) EXCEPT !.node = Absent, !.kin = {}]], @),
            !.kids = [i \in DOMAIN doc.slots |-> doc.slots[i].object]]

\* write_rotation_overrides
WithRotations(u) ==
  LET turned == {i \in DOMAIN doc.slots : doc.slots[i].changed}
      at(o) == CHOOSE i \in turned : doc.slots[i].object = o
  IN  [u EXCEPT !.pages =
         Entered([o \in {doc.slots[i].object : i \in turned} |->
                    [Object(u, o) EXCEPT !.own = doc.slots[at(o)].rotation]], @)]

\* Faulty variant: the overrides are written before the inherited values.
MaterializedOutOfOrder ==
  LET turned == IF dirty.rotations THEN WithRotations(update) ELSE update
  IN  IF dirty.structure THEN WithPageTree(WithInherited(turned)) ELSE turned

\* materialize_changes
Materialized ==
  LET structured == IF dirty.structure THEN WithPageTree(WithInherited(update)) ELSE update
  IN  IF dirty.rotations THEN WithRotations(structured) ELSE structured

\* The base with one appended revision.
Appended(u) ==
  FileOf(Entered(u.pages, base.pages), IF u.kids = <<>> THEN base.kids ELSE u.kids,
         base.root, base.named, u.max_id)

\* The objects that page names: by links, and through the node it hangs from.
Refs(page) == page.links \cup page.kin

\* A set of f's pages that has all its trailer names and all its own pages name.
Closed(f, pages) ==
  /\ DOMAIN f.pages \cap (Range(f.kids) \cup f.named) \subseteq pages
  /\ \A o \in pages : DOMAIN f.pages \cap Refs(f.pages[o]) \subseteq pages

\* Faulty variant: nothing is pruned.
ReachedUnpruned(f) == DOMAIN f.pages

\* prune_objects: the pages that can be reached from the trailer.
Reached(f) ==
  LET closed == {pages \in SUBSET DOMAIN f.pages : Closed(f, pages)}
  IN  {o \in DOMAIN f.pages : \A pages \in closed : o \in pages}

\* renumber_objects: the pages of the tree in their order, then the others.
Numbering(f) ==
  LET others == Reached(f) \ Range(f.kids)
  IN  [o \in Range(f.kids) \cup others |->
         IF o \in others THEN Len(f.kids) + Cardinality({p \in others : p <= o})
                         ELSE CHOOSE i \in DOMAIN f.kids : f.kids[i] = o]

\* A reference follows its object, and stays if there is none.
Renamed(at, objects) == {IF o \in DOMAIN at THEN at[o] ELSE o : o \in objects}

RenamedPage(at, page) == [page EXCEPT !.kin = Renamed(at, @), !.links = Renamed(at, @)]

\* File f pruned and renumbered.
Rewritten(f) ==
  LET at == Numbering(f)
      old(n) == CHOOSE o \in DOMAIN at : at[o] = n
  IN  FileOf([n \in Range(at) |-> RenamedPage(at, f.pages[old(n)])],
             [i \in DOMAIN f.kids |-> i], f.root, Renamed(at, f.named),
             Len(f.kids) + Cardinality(DOMAIN at \ Range(f.kids)))

\* build_compacted_document
Compacted(u) == Rewritten(Appended(u))

\* Faulty variant: the slots keep the objects of the previous file.
ReboundKeepsObjects(f) ==
  [doc EXCEPT !.slots = [i \in DOMAIN @ |-> [@[i] EXCEPT !.changed = FALSE]]]

\* PageMap::rebind_objects
Rebound(f) ==
  [doc EXCEPT !.slots =
     [i \in DOMAIN @ |-> SlotFor(@[i].id, f.kids[i], @[i].rotation, FALSE)]]

\* What a save puts into the file, the update included that it leaves behind.
ToDisk(f) == disk' = [file |-> f, shown |-> Shown]

\* DocumentIo::save_incremental. Without changes the base is written verbatim.
SaveIncremental ==
  /\ PageCount(doc) > 0
  /\ IF dirty = Clean
     THEN ToDisk(base) /\ UNCHANGED update
     ELSE /\ update' = Materialized
          /\ ToDisk(Appended(update'))
  /\ UNCHANGED <<doc, base, dirty, edits, purged>>

\* Either save, when the write fails: the update has been filled in already.
SaveFails ==
  /\ PageCount(doc) > 0
  /\ update' = Materialized
  /\ UNCHANGED <<doc, base, dirty, edits, disk, purged>>

\* Faulty variant: the document keeps the bytes it was opened from.
RebaseKeepsBytes(f) ==
  /\ base' = base
  /\ doc' = [doc EXCEPT !.removed = {}]
  /\ UNCHANGED update
  /\ dirty' = Clean

\* PdfDocument::rebase_onto and PageMap::purge_trash
Rebase(f) ==
  /\ base' = f
  /\ doc' = PurgeTrash(Rebound(f))
  /\ update' = NoUpdate(f)
  /\ dirty' = Clean

\* DocumentIo::save_compacted, when rebase_onto refuses what was just written:
\* the new file is there, the document goes on from the old one, trash and all.
RebaseFails ==
  /\ PageCount(doc) > 0
  /\ update' = Materialized
  /\ ToDisk(Compacted(update'))
  /\ UNCHANGED <<doc, base, dirty, edits, purged>>

\* DocumentIo::save_compacted
SaveCompacted ==
  /\ PageCount(doc) > 0
  /\ LET f == Compacted(Materialized)
     IN  ToDisk(f) /\ Rebase(f)
  /\ edits' = MaxEdits - MaxLater
  /\ purged' = purged \cup {s.id : s \in doc.removed}

Next ==
  \/ RemoveSlot
  \/ RestoreSlot
  \/ MoveSlot
  \/ RotateSlot
  \/ InsertSlot
  \/ ImportSlot
  \/ SaveIncremental
  \/ SaveFails
  \/ RebaseFails
  \/ SaveCompacted

Spec == Init /\ [][Next]_vars

-----------------------------------------------------------------------------
\* Properties

FileTypeOK(f) ==
  /\ f.max_id \in Nat
  /\ DOMAIN f.pages \subseteq 1..f.max_id
  /\ \A o \in DOMAIN f.pages : f.pages[o] \in Page
  /\ \A i \in DOMAIN f.kids : f.kids[i] \in DOMAIN f.pages
  /\ f.root \in Key
  /\ f.named \subseteq ObjectId

\* Types of the document, of the two files and of the update; no two slots name
\* one object, and every slot names one there is.
TypeOK ==
  /\ FileTypeOK(base)
  /\ FileTypeOK(disk.file)
  /\ FileTypeOK(Appended(update))
  /\ dirty \in [structure : BOOLEAN, rotations : BOOLEAN]
  /\ edits \in 0..MaxEdits
  /\ purged \subseteq PageId
  /\ WellFormed(doc)
  /\ Objects \subseteq DOMAIN base.pages \cup DOMAIN update.pages
  /\ \A i, j \in DOMAIN doc.slots : doc.slots[i].object = doc.slots[j].object => i = j

\* Whether a page of a file is one that insert_page made.
BlankAt(f, i) == f.pages[f.kids[i]].blank

\* A file that was written, appended to or compacted, after whatever edits and
\* failed attempts, shows on opening the pages, order and rotations the user
\* saw when saving. (Not the rotation of a blank page: build_blank_page leaves
\* out /Rotate, so that the page inherits the root's, if there is one.)
SavedFileReopensAsShown ==
  LET f == disk.file
  IN  /\ Len(f.kids) = Len(disk.shown)
      /\ \A i \in DOMAIN f.kids :
           /\ Reopened(f)[i].content = disk.shown[i].content
           /\ Reopened(f)[i].rotation = disk.shown[i].rotation \/ BlankAt(f, i)

\* "Whether the in-memory document still matches the bytes it was opened from"
\* (DirtyState::is_clean): a save of a clean document may write those.
CleanMatchesBase ==
  dirty = Clean =>
    /\ Len(base.kids) = PageCount(doc)
    /\ \A i \in DOMAIN doc.slots :
         /\ Reopened(base)[i].content = Shown[i].content
         /\ Reopened(base)[i].rotation = Shown[i].rotation \/ BlankAt(base, i)

\* "the PDF objects themselves were never deleted": the object of a page in the
\* trash is there to be restored, and is still that page.
TrashIsBacked ==
  \A s \in doc.removed :
    /\ s.object \in DOMAIN base.pages \cup DOMAIN update.pages
    /\ Object(update, s.object).content = s.id

\* Something in file f other than these pages names one of them.
NamedFromOutside(f, pages) ==
  \E o \in pages :
    o \in f.named \/ \E p \in DOMAIN f.pages \ pages : o \in Refs(f.pages[p])

GivenUpIn(f) == {o \in DOMAIN f.pages : f.pages[o].content \in purged}

GivenUpIsNamed(f) ==
  \A pages \in SUBSET GivenUpIn(f) : pages # {} => NamedFromOutside(f, pages)

\* Pages that a compacting save gave up are in a file written since, be it an
\* update that appends to the compacted bytes, only as far as something else in
\* it still leads to them: never on their own, nor only by naming each other.
\* (Not "drops every removed page's objects": pruning keeps those of a page that
\* the outline, a form field or a link of another page names.)
GivenUpPagesAreNamed == GivenUpIsNamed(disk.file)

\* Removing a page keeps its object, and compacting lets it go unless the file
\* still names it.
ObjectsFollowPages == TrashIsBacked /\ GivenUpPagesAreNamed
=============================================================================
