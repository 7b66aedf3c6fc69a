--------------------------- MODULE PdfSaveProofs ---------------------------
(***************************************************************************)
(* What a save writes is what the user sees, for files of any length with  *)
(* any /Rotate keys, after any number of edits, failed attempts, updates   *)
(* and compactions.                                                        *)
(***************************************************************************)
EXTENDS PdfSave, PageMapProofs, FiniteSetTheorems

-----------------------------------------------------------------------------
\* The inductive invariant

PdfSlot == [id : PageId, object : ObjectId, rotation : Rotations, changed : BOOLEAN]

TypesFit ==
  /\ doc \in DocumentOf(PdfSlot) /\ WellFormed(doc)
  /\ dirty \in [structure : BOOLEAN, rotations : BOOLEAN]
  /\ edits \in 0..MaxEdits

\* The base's page objects; those of its tree come first, in document order.
Numbers == DOMAIN base.pages
Places == 1..Len(base.kids)

BaseFits ==
  /\ Len(base.kids) \in Nat /\ base.kids = [i \in Places |-> i] /\ Places \subseteq Numbers
  /\ base.max_id \in Nat /\ Numbers \subseteq 1..base.max_id
  /\ base.pages \in [Numbers -> Page] /\ base.root \in Key
  /\ base.named \subseteq ObjectId

\* The page objects there are once u is appended.
Known(u) == Numbers \cup DOMAIN u.pages

\* An update appends objects under numbers it allocated, and shadows an object
\* of the base only by one of the same content.
UpdateFits(u) ==
  /\ u = [pages |-> u.pages, kids |-> u.kids, max_id |-> u.max_id]
  /\ u.max_id \in Nat /\ base.max_id <= u.max_id
  /\ DOMAIN u.pages \subseteq 1..u.max_id
  /\ \A o \in DOMAIN u.pages : u.pages[o] \in Page
  /\ u.kids \in Seq(Known(u))
  /\ \A o \in Numbers : /\ Object(u, o).content = base.pages[o].content
                        /\ Object(u, o).blank = base.pages[o].blank

\* An update appends only pages the document maps or could restore, leaves their
\* links as they were, and may take them from under their /Pages nodes.
ReferencesFit(u) ==
  /\ \A o \in DOMAIN u.pages : \E s \in Everything(doc) : s.object = o
  /\ \A o \in Numbers : /\ Object(u, o).links = base.pages[o].links
                        /\ Object(u, o).kin \in {base.pages[o].kin, {}}
  /\ \A o \in DOMAIN u.pages \ Numbers : u.pages[o].kin = {}

\* Every page the document maps or could restore has its object.
Backed(u) ==
  \A s \in Everything(doc) : s.object \in Known(u) /\ Object(u, s.object).content = s.id

\* The key in force for a page whose tree ends in the base's root.
InForce(page) == FirstPresent(page.own, FirstPresent(page.node, base.root))
Reads(key) == IF key = Absent THEN 0 ELSE key

\* The page of slot s reads as it did when the base was opened, and still would
\* when it is taken from under its /Pages node after its inherited key was
\* written onto it.
Unturned(u, s) ==
  /\ s.object \in Numbers
  /\ s.rotation = Reads(InForce(base.pages[s.object]))
  /\ InForce(Object(u, s.object)) = InForce(base.pages[s.object])
  /\ base.pages[s.object].own # Absent
       => Object(u, s.object).own = base.pages[s.object].own

\* A turned page is marked, in its slot and in the document's dirty state; any
\* other one is blank or reads as the slot says.
RotationsFit(u) ==
  \A s \in Everything(doc) :
    IF s.changed THEN dirty.rotations ELSE Object(u, s.object).blank \/ Unturned(u, s)

\* While the page tree counts as untouched, the slots follow the base's.
StructureFits ==
  ~dirty.structure =>
    /\ PageCount(doc) = Len(base.kids) /\ update.kids = <<>>
    /\ \A i \in Places : doc.slots[i].object = i

\* The base has, beside the document's pages, only some that were given up; and
\* those that were leave no page behind that hangs from a node they hang from.
GivenUpFits ==
  /\ purged \subseteq 0..(doc.next - 1)
  /\ \A s \in Everything(doc) : s.id \notin purged
  /\ \A o \in Numbers : (\E s \in Everything(doc) : s.object = o) \/ base.pages[o].content \in purged
  /\ doc.removed # {} => dirty.structure
  /\ purged # {} =>
       \A s \in Everything(doc) : s.object \in Numbers => base.pages[s.object].kin = {}
  /\ GivenUpIsNamed(base)

\* What holds of the last file written, which only a save changes.
DiskFits == FileTypeOK(disk.file) /\ SavedFileReopensAsShown /\ GivenUpPagesAreNamed

Sound(u) == UpdateFits(u) /\ ReferencesFit(u) /\ Backed(u) /\ RotationsFit(u)

SaveInvariant ==
  TypesFit /\ BaseFits /\ Sound(update) /\ StructureFits /\ GivenUpFits /\ DiskFits

-----------------------------------------------------------------------------
\* Pruning and renumbering

LEMMA ReachedIsClosed ==
  ASSUME NEW f
  PROVE  /\ Reached(f) \subseteq DOMAIN f.pages
         /\ Closed(f, Reached(f))
         /\ \A pages \in SUBSET DOMAIN f.pages : Closed(f, pages) => Reached(f) \subseteq pages
<1> DEFINE closed == {pages \in SUBSET DOMAIN f.pages : Closed(f, pages)}
<1>1. Reached(f) = {o \in DOMAIN f.pages : \A pages \in closed : o \in pages}
  BY DEF Reached
<1>2. \A pages \in SUBSET DOMAIN f.pages : Closed(f, pages) => Reached(f) \subseteq pages
  BY <1>1
<1>3. ASSUME NEW o \in DOMAIN f.pages \cap (Range(f.kids) \cup f.named)
      PROVE  o \in Reached(f)
  BY <1>1 DEF Closed
<1>4. ASSUME NEW o \in Reached(f), NEW p \in DOMAIN f.pages \cap Refs(f.pages[o])
      PROVE  p \in Reached(f)
  BY <1>1 DEF Closed
<1>5. Closed(f, Reached(f))
  BY <1>3, <1>4 DEF Closed
<1>6. QED BY <1>1, <1>2, <1>5

\* What is reached, and is no page of the tree, is named from outside itself.
LEMMA ReachedIsNamed ==
  ASSUME NEW f, NEW some \in SUBSET Reached(f), some # {}, some \cap Range(f.kids) = {}
  PROVE  \E o \in some :
           o \in f.named \/ \E p \in Reached(f) \ some : o \in Refs(f.pages[p])
<1> SUFFICES ASSUME \A o \in some : o \notin f.named,
                    \A o \in some : \A p \in Reached(f) \ some : o \notin Refs(f.pages[p])
             PROVE  FALSE
  OBVIOUS
<1> DEFINE rest == Reached(f) \ some
<1>1. /\ Reached(f) \subseteq DOMAIN f.pages /\ Closed(f, Reached(f))
      /\ \A pages \in SUBSET DOMAIN f.pages : Closed(f, pages) => Reached(f) \subseteq pages
  BY ReachedIsClosed
<1>2. DOMAIN f.pages \cap (Range(f.kids) \cup f.named) \subseteq rest
  BY <1>1 DEF Closed
<1>3. \A o \in rest : DOMAIN f.pages \cap Refs(f.pages[o]) \subseteq rest
  BY <1>1 DEF Closed
<1>4. Closed(f, rest)
  BY <1>2, <1>3 DEF Closed
<1>5. Reached(f) \subseteq rest
  BY <1>1, <1>4
<1>6. QED BY <1>5

\* A file whose tree names no page twice.
OrderedFile(f) ==
  /\ FileTypeOK(f)
  /\ Len(f.kids) \in Nat /\ DOMAIN f.kids = 1..Len(f.kids)
  /\ \A i, j \in DOMAIN f.kids : f.kids[i] = f.kids[j] => i = j

\* Renumbering keeps pages apart, and the order of those in the tree.
LEMMA NumberingFits ==
  ASSUME NEW f, OrderedFile(f)
  PROVE  LET at == Numbering(f)
             last == Len(f.kids) + Cardinality(DOMAIN at \ Range(f.kids))
         IN  /\ DOMAIN at = Reached(f) /\ Range(f.kids) \subseteq Reached(f)
             /\ last \in Nat
             /\ \A o \in DOMAIN at : at[o] \in 1..last
             /\ \A i \in DOMAIN f.kids : at[f.kids[i]] = i
             /\ \A o \in DOMAIN at \ Range(f.kids) : at[o] \notin DOMAIN f.kids
             /\ \A o, p \in DOMAIN at : at[o] = at[p] => o = p
<1> DEFINE count == Len(f.kids)
           listed == Range(f.kids)
           others == Reached(f) \ listed
           below(o) == {p \in others : p <= o}
           at == Numbering(f)
<1>1. Reached(f) \subseteq DOMAIN f.pages /\ Closed(f, Reached(f))
  BY ReachedIsClosed
<1>2. listed = {f.kids[i] : i \in DOMAIN f.kids}
  BY DEF Range
<1>3. listed \subseteq Reached(f)
  BY <1>1, <1>2 DEF OrderedFile, FileTypeOK, Closed
<1>4. /\ count \in Nat /\ f.max_id \in Nat /\ others \subseteq 1..f.max_id
  BY <1>1 DEF OrderedFile, FileTypeOK
<1>5. IsFiniteSet(1..f.max_id)
  BY <1>4, FS_Interval
<1>6. IsFiniteSet(others)
  BY <1>4, <1>5, FS_Subset
<1>7. Cardinality(others) \in Nat
  BY <1>6, FS_CardinalityType
<1>8. DOMAIN at = Reached(f) /\ DOMAIN at \ listed = others
  BY <1>3 DEF Numbering
<1>9. \A o \in others : at[o] = count + Cardinality(below(o))
  BY DEF Numbering
<1>10. ASSUME NEW i \in DOMAIN f.kids PROVE at[f.kids[i]] = i
  <2>1. f.kids[i] \in listed /\ f.kids[i] \notin others
    BY <1>2
  <2>2. at[f.kids[i]] = CHOOSE j \in DOMAIN f.kids : f.kids[j] = f.kids[i]
    BY <2>1 DEF Numbering
  <2>3. QED BY <2>2 DEF OrderedFile
<1>11. ASSUME NEW o \in others
       PROVE  Cardinality(below(o)) \in 1..Cardinality(others)
  <2> DEFINE s == below(o)
  <2>1. s \in SUBSET others /\ o \in s
    BY <1>4
  <2>2. IsFiniteSet(s) /\ Cardinality(s) <= Cardinality(others)
    <3> HIDE DEF s, others
    <3>1. QED BY <1>6, <2>1, FS_Subset
  <2>3. Cardinality(s) \in Nat /\ Cardinality(s) # 0
    <3> HIDE DEF s, others
    <3>1. QED BY <2>1, <2>2, FS_CardinalityType, FS_EmptySet
  <2> HIDE DEF s
  <2>4. Cardinality(s) \in 1..Cardinality(others)
    BY <1>7, <2>2, <2>3
  <2>5. QED BY <2>4 DEF s
<1>12. ASSUME NEW o \in others, NEW p \in others, o < p
       PROVE  Cardinality(below(o)) # Cardinality(below(p))
  <2> DEFINE s == below(o)
             t == below(p)
  <2>1. s \subseteq t
    BY <1>4, <1>12
  <2>2. p \in t /\ p \notin s
    BY <1>4, <1>12
  <2>3. t \in SUBSET others
    OBVIOUS
  <2>4. IsFiniteSet(t)
    <3> HIDE DEF t, others
    <3>1. QED BY <1>6, <2>3, FS_Subset
  <2>5. Cardinality(t) = Cardinality(s) => t = s
    <3> HIDE DEF s, t
    <3>1. QED BY <2>1, <2>4, FS_Subset
  <2> HIDE DEF s, t
  <2>6. Cardinality(t) # Cardinality(s)
    BY <2>2, <2>5
  <2>7. QED BY <2>6 DEF s, t
<1> HIDE DEF at, below
<1>13. ASSUME NEW o \in others PROVE at[o] \in (count + 1)..(count + Cardinality(others))
  <2> DEFINE c == Cardinality(others)
             n == Cardinality(below(o))
  <2>1. count \in Nat /\ c \in Nat /\ n \in 1..c /\ at[o] = count + n
    BY <1>4, <1>7, <1>9, <1>11
  <2> HIDE DEF c, n, count
  <2>2. at[o] \in (count + 1)..(count + c)
    BY <2>1
  <2>3. QED BY <2>2 DEF c
<1>14. \A o \in listed : at[o] \in 1..count /\ f.kids[at[o]] = o
  BY <1>2, <1>10 DEF OrderedFile
<1>15. ASSUME NEW o \in others, NEW p \in others, at[o] = at[p]
       PROVE  o = p
  <2>1. Cardinality(below(o)) = Cardinality(below(p))
    BY <1>4, <1>7, <1>9, <1>11, <1>15
  <2>2. ~(o < p) /\ ~(p < o)
    BY <1>12, <2>1
  <2>3. o \in Nat /\ p \in Nat
    BY <1>4
  <2>4. QED BY <2>2, <2>3
<1>16. ASSUME NEW o \in DOMAIN at PROVE at[o] \in 1..(count + Cardinality(others))
  <2> DEFINE c == Cardinality(others)
  <2>1. count \in Nat /\ c \in Nat
    BY <1>4, <1>7
  <2>2. at[o] \in 1..count \/ at[o] \in (count + 1)..(count + c)
    BY <1>8, <1>13, <1>14
  <2> HIDE DEF c, count
  <2>3. at[o] \in 1..(count + c)
    BY <2>1, <2>2
  <2>4. QED BY <2>3 DEF c
<1>17. ASSUME NEW o \in DOMAIN at, NEW p \in DOMAIN at, at[o] = at[p]
       PROVE  o = p
  <2>1. CASE o \in others /\ p \in others
    BY <1>15, <1>17, <2>1
  <2>2. CASE o \in listed /\ p \in listed
    BY <1>14, <1>17, <2>2
  <2>3. CASE o \in others /\ p \in listed
    BY <1>4, <1>7, <1>13, <1>14, <1>17, <2>3
  <2>4. CASE o \in listed /\ p \in others
    BY <1>4, <1>7, <1>13, <1>14, <1>17, <2>4
  <2>5. QED BY <1>8, <2>1, <2>2, <2>3, <2>4
<1>18. \A o \in others : at[o] \notin DOMAIN f.kids
  BY <1>4, <1>7, <1>13 DEF OrderedFile
<1>19. count + Cardinality(others) \in Nat
  BY <1>4, <1>7
<1>20. QED BY <1>3, <1>8, <1>10, <1>16, <1>17, <1>18, <1>19 DEF at

\* A rewritten file has what was reached, under new numbers.
LEMMA RewrittenFile ==
  ASSUME NEW f, OrderedFile(f)
  PROVE  LET at == Numbering(f)
             g == Rewritten(f)
         IN  /\ g.kids = [i \in DOMAIN f.kids |-> i] /\ g.root = f.root
             /\ g.named = Renamed(at, f.named) /\ g.named \subseteq ObjectId
             /\ g.max_id \in Nat /\ DOMAIN g.pages \subseteq 1..g.max_id
             /\ DOMAIN g.pages = {at[o] : o \in Reached(f)}
             /\ \A o \in Reached(f) : g.pages[at[o]] = RenamedPage(at, f.pages[o])
             /\ \A n \in DOMAIN g.pages : g.pages[n] \in Page
             /\ \A i \in DOMAIN f.kids :
                  /\ f.kids[i] \in Reached(f) /\ i \in DOMAIN g.pages
                  /\ g.pages[i] = RenamedPage(at, f.pages[f.kids[i]])
<1> DEFINE at == Numbering(f)
           g == Rewritten(f)
           last == Len(f.kids) + Cardinality(DOMAIN at \ Range(f.kids))
           old(n) == CHOOSE o \in DOMAIN at : at[o] = n
<1>1. /\ DOMAIN at = Reached(f) /\ Range(f.kids) \subseteq Reached(f)
      /\ last \in Nat
      /\ \A o \in DOMAIN at : at[o] \in 1..last
      /\ \A i \in DOMAIN f.kids : at[f.kids[i]] = i
      /\ \A o, p \in DOMAIN at : at[o] = at[p] => o = p
  BY NumberingFits
<1>2. /\ g.kids = [i \in DOMAIN f.kids |-> i] /\ g.root = f.root
      /\ g.named = Renamed(at, f.named) /\ g.max_id = last
      /\ g.pages = [n \in Range(at) |-> RenamedPage(at, f.pages[old(n)])]
  BY DEF Rewritten, FileOf
<1>3. Reached(f) \subseteq DOMAIN f.pages
  BY ReachedIsClosed
<1> HIDE DEF at, g, last
<1>4. DOMAIN g.pages = {at[o] : o \in Reached(f)}
  BY <1>1, <1>2 DEF Range
<1>5. ASSUME NEW o \in Reached(f)
      PROVE  g.pages[at[o]] = RenamedPage(at, f.pages[o])
  <2>1. at[o] \in Range(at)
    BY <1>1 DEF Range
  <2>2. old(at[o]) = o
    BY <1>1
  <2>3. QED BY <1>2, <2>1, <2>2
<1>6. \A numbers \in SUBSET ObjectId : Renamed(at, numbers) \subseteq ObjectId
  BY <1>1 DEF Renamed, ObjectId
<1>7. ASSUME NEW page \in Page PROVE RenamedPage(at, page) \in Page
  <2>1. page.kin \in SUBSET ObjectId /\ page.links \in SUBSET ObjectId
    BY DEF Page
  <2>2. Renamed(at, page.kin) \in SUBSET ObjectId /\ Renamed(at, page.links) \in SUBSET ObjectId
    BY <1>6, <2>1
  <2>3. QED BY <2>2 DEF RenamedPage, Page
<1>8. \A n \in DOMAIN g.pages : g.pages[n] \in Page
  BY <1>3, <1>4, <1>5, <1>7 DEF OrderedFile, FileTypeOK
<1>9. ASSUME NEW i \in DOMAIN f.kids
      PROVE  /\ f.kids[i] \in Reached(f) /\ i \in DOMAIN g.pages
             /\ g.pages[i] = RenamedPage(at, f.pages[f.kids[i]])
  <2>1. f.kids[i] \in Reached(f)
    BY <1>1 DEF Range
  <2>2. at[f.kids[i]] = i
    BY <1>1
  <2>3. QED BY <1>4, <1>5, <2>1, <2>2
<1>10. DOMAIN g.pages \subseteq 1..last
  BY <1>1, <1>4
<1>11. g.named \subseteq ObjectId
  BY <1>2, <1>6 DEF OrderedFile, FileTypeOK
<1>12. QED BY <1>1, <1>2, <1>4, <1>5, <1>8, <1>9, <1>10, <1>11 DEF at, g

LEMMA RewrittenIsFunction ==
  ASSUME NEW f
  PROVE  Rewritten(f).pages = [n \in DOMAIN Rewritten(f).pages |-> Rewritten(f).pages[n]]
BY DEF Rewritten, FileOf

\* Pages beside the tree of a rewritten file are named from outside themselves.
LEMMA RewrittenIsNamed ==
  ASSUME NEW f, OrderedFile(f),
         NEW some \in SUBSET DOMAIN Rewritten(f).pages, some # {},
         \A i \in DOMAIN f.kids : i \notin some
  PROVE  NamedFromOutside(Rewritten(f), some)
<1> DEFINE at == Numbering(f)
           g == Rewritten(f)
           before == {o \in Reached(f) : at[o] \in some}
<1>1. /\ DOMAIN at = Reached(f)
      /\ \A i \in DOMAIN f.kids : at[f.kids[i]] = i
  BY NumberingFits
<1>2. /\ g.named = Renamed(at, f.named)
      /\ DOMAIN g.pages = {at[o] : o \in Reached(f)}
      /\ \A o \in Reached(f) : g.pages[at[o]] = RenamedPage(at, f.pages[o])
  BY RewrittenFile
<1> HIDE DEF at, g
<1>3. some \subseteq DOMAIN g.pages
  BY DEF g
<1>4. before # {} /\ before \subseteq Reached(f)
  BY <1>2, <1>3
<1>5. before \cap Range(f.kids) = {}
  BY <1>1 DEF Range
<1>6. PICK o \in before :
        o \in f.named \/ \E p \in Reached(f) \ before : o \in Refs(f.pages[p])
  <2> HIDE DEF before
  <2>1. QED BY <1>4, <1>5, ReachedIsNamed
<1>7. at[o] \in some /\ o \in DOMAIN at
  BY <1>1
<1>8. \A numbers : o \in numbers => at[o] \in Renamed(at, numbers)
  BY <1>7 DEF Renamed
<1>9. CASE o \in f.named
  <2>1. at[o] \in g.named
    BY <1>2, <1>8, <1>9
  <2>2. QED BY <1>7, <2>1 DEF NamedFromOutside, g
<1>10. CASE \E p \in Reached(f) \ before : o \in Refs(f.pages[p])
  <2>1. PICK p \in Reached(f) \ before : o \in Refs(f.pages[p])
    BY <1>10
  <2>2. at[p] \in DOMAIN g.pages \ some
    BY <1>2, <2>1
  <2>3. /\ g.pages[at[p]] = RenamedPage(at, f.pages[p])
    BY <1>2, <2>1
  <2>4. at[o] \in Refs(RenamedPage(at, f.pages[p]))
    <3>1. o \in f.pages[p].links \/ o \in f.pages[p].kin
      BY <2>1 DEF Refs
    <3>2. PICK page \in Page : page = f.pages[p]
      BY <2>1, ReachedIsClosed DEF OrderedFile, FileTypeOK
    <3>3. QED BY <1>8, <3>1, <3>2 DEF Refs, RenamedPage
  <2>5. QED BY <1>7, <2>2, <2>3, <2>4 DEF NamedFromOutside, g
<1>11. QED BY <1>6, <1>9, <1>10

-----------------------------------------------------------------------------
\* Reading the base with an update appended

LEMMA AppendedPages ==
  ASSUME BaseFits, NEW u
  PROVE  LET f == Appended(u)
         IN  /\ DOMAIN f.pages = Known(u)
             /\ \A o \in Known(u) : f.pages[o] = Object(u, o)
             /\ f.kids = IF u.kids = <<>> THEN base.kids ELSE u.kids
             /\ f.root = base.root /\ f.named = base.named /\ f.max_id = u.max_id
BY DEF Appended, FileOf, Entered, Known, Object, Numbers

LEMMA AppendedReads ==
  ASSUME BaseFits, NEW u, NEW o \in Known(u)
  PROVE  /\ Inherited(Appended(u), o) = InForce(Object(u, o))
         /\ ReadRotation(Appended(u), o) = Reads(InForce(Object(u, o)))
<1>1. Inherited(Appended(u), o) = InForce(Object(u, o))
  BY AppendedPages DEF Inherited, InForce
<1>2. QED BY <1>1 DEF ReadRotation, Reads

LEMMA BaseReads ==
  ASSUME NEW o
  PROVE  /\ Inherited(base, o) = InForce(base.pages[o])
         /\ ReadRotation(base, o) = Reads(InForce(base.pages[o]))
BY DEF Inherited, InForce, ReadRotation, Reads

LEMMA ObjectIsPage ==
  ASSUME BaseFits, NEW u, UpdateFits(u), NEW o \in Known(u)
  PROVE  Object(u, o) \in Page /\ o \in 1..u.max_id
BY DEF BaseFits, UpdateFits, Known, Object, Numbers

\* No two pages share an object: each is drawn as the page it names.
LEMMA ObjectsApart ==
  ASSUME TypesFit, NEW u, Backed(u),
         NEW s \in Everything(doc), NEW t \in Everything(doc), s.object = t.object
  PROVE  s = t
<1>1. s.id = t.id
  BY DEF Backed
<1>2. QED BY <1>1, OneSlotPerId DEF TypesFit

LEMMA SlotObjects ==
  ASSUME TypesFit
  PROVE  /\ DOMAIN doc.slots = 1..PageCount(doc) /\ PageCount(doc) \in Nat
         /\ \A i \in DOMAIN doc.slots : doc.slots[i] \in Everything(doc)
         /\ \A s \in Everything(doc) : s \in PdfSlot
         /\ \A o \in Objects : \E s \in Everything(doc) : s.object = o
<1>1. doc.slots \in Seq(PdfSlot)
  BY DEF TypesFit, DocumentOf
<1>2. DOMAIN doc.slots = 1..PageCount(doc) /\ PageCount(doc) \in Nat
  BY <1>1, LenProperties DEF PageCount
<1>3. /\ \A i \in DOMAIN doc.slots : doc.slots[i] \in Everything(doc)
      /\ \A s \in Everything(doc) : s \in PdfSlot
  BY SlotsAreTyped DEF TypesFit
<1>4. QED BY <1>2, <1>3 DEF Objects

-----------------------------------------------------------------------------
\* Filling in the update

\* Objects rewritten in an update: pages of the document under their own
\* numbers, with other keys and the same content.
Rewrites(u, v, pages) ==
  /\ v = [pages |-> Entered(pages, u.pages), kids |-> v.kids, max_id |-> u.max_id]
  /\ DOMAIN pages \subseteq Objects
  /\ \A o \in DOMAIN pages :
       /\ pages[o] \in Page
       /\ pages[o].content = Object(u, o).content
       /\ pages[o].blank = Object(u, o).blank
       /\ pages[o].links = Object(u, o).links
       /\ pages[o].kin \in {Object(u, o).kin, {}}

\* Two updates know the same pages and draw the same on them.
SamePages(u, v) ==
  /\ Known(v) = Known(u)
  /\ \A o : /\ Object(v, o).content = Object(u, o).content
            /\ Object(v, o).blank = Object(u, o).blank

LEMMA RewritingShadows ==
  ASSUME TypesFit, NEW u, Backed(u), NEW v, NEW pages, Rewrites(u, v, pages)
  PROVE  /\ Known(v) = Known(u)
         /\ DOMAIN v.pages = DOMAIN pages \cup DOMAIN u.pages
         /\ \A o : Object(v, o) = IF o \in DOMAIN pages THEN pages[o] ELSE Object(u, o)
         /\ \A o : /\ Object(v, o).content = Object(u, o).content
                   /\ Object(v, o).blank = Object(u, o).blank
<1>1. /\ DOMAIN v.pages = DOMAIN pages \cup DOMAIN u.pages
      /\ \A o \in DOMAIN v.pages :
           v.pages[o] = IF o \in DOMAIN pages THEN pages[o] ELSE u.pages[o]
  BY DEF Rewrites, Entered
<1>2. \A o : Object(v, o) = IF o \in DOMAIN pages THEN pages[o] ELSE Object(u, o)
  BY <1>1 DEF Object
<1>3. DOMAIN pages \subseteq Known(u)
  BY SlotObjects DEF Rewrites, Backed
<1>4. Known(v) = Known(u)
  BY <1>1, <1>3 DEF Known
<1>5. \A o : /\ Object(v, o).content = Object(u, o).content
             /\ Object(v, o).blank = Object(u, o).blank
  BY <1>2 DEF Rewrites
<1>6. QED BY <1>1, <1>2, <1>4, <1>5

\* A rewriting that leaves the pages nobody turned reading as they did is sound.
LEMMA RewritingIsSound ==
  ASSUME TypesFit, BaseFits, NEW u, Sound(u), NEW v, NEW pages, Rewrites(u, v, pages),
         v.kids \in Seq(Known(u)),
         \A t \in Everything(doc) :
           t.object \in DOMAIN pages /\ ~t.changed /\ Unturned(u, t) => Unturned(v, t)
  PROVE  Sound(v) /\ SamePages(u, v)
<1>1. UpdateFits(u) /\ ReferencesFit(u) /\ Backed(u) /\ RotationsFit(u)
  BY DEF Sound
<1>2. /\ Known(v) = Known(u)
      /\ DOMAIN v.pages = DOMAIN pages \cup DOMAIN u.pages
      /\ \A o : Object(v, o) = IF o \in DOMAIN pages THEN pages[o] ELSE Object(u, o)
      /\ \A o : /\ Object(v, o).content = Object(u, o).content
                /\ Object(v, o).blank = Object(u, o).blank
  BY <1>1, RewritingShadows
<1>3. UpdateFits(v)
  <2>1. \A o \in Known(u) : Object(u, o) \in Page /\ o \in 1..u.max_id
    BY <1>1, ObjectIsPage
  <2>2. \A o \in Known(v) : Object(v, o) \in Page
    BY <1>2, <2>1 DEF Rewrites
  <2>3. \A o \in DOMAIN v.pages : o \in Known(v) /\ v.pages[o] = Object(v, o)
    BY DEF Known, Object
  <2>4. v = [pages |-> v.pages, kids |-> v.kids, max_id |-> u.max_id]
        /\ v.max_id = u.max_id
    BY DEF Rewrites
  <2>5. DOMAIN v.pages \subseteq 1..v.max_id
    BY <1>2, <2>1, <2>3, <2>4
  <2>6. \A o \in DOMAIN v.pages : v.pages[o] \in Page
    BY <2>2, <2>3
  <2>7. QED BY <1>1, <1>2, <2>4, <2>5, <2>6 DEF UpdateFits
<1>4. Backed(v)
  BY <1>1, <1>2 DEF Backed
<1>5. RotationsFit(v)
  <2>1. SUFFICES ASSUME NEW t \in Everything(doc), ~t.changed, Unturned(u, t)
                 PROVE  Unturned(v, t)
    BY <1>1, <1>2 DEF RotationsFit
  <2>2. CASE t.object \in DOMAIN pages
    BY <2>1, <2>2
  <2>3. CASE t.object \notin DOMAIN pages
    BY <1>2, <2>1, <2>3 DEF Unturned
  <2>4. QED BY <2>2, <2>3
<1>6. ReferencesFit(v)
  <2>1. \A o \in DOMAIN v.pages : \E s \in Everything(doc) : s.object = o
    BY <1>1, <1>2, SlotObjects DEF ReferencesFit, Rewrites
  <2>2. ASSUME NEW o \in Numbers
        PROVE  /\ Object(v, o).links = base.pages[o].links
               /\ Object(v, o).kin \in {base.pages[o].kin, {}}
    BY <1>1, <1>2 DEF ReferencesFit, Rewrites
  <2>3. ASSUME NEW o \in DOMAIN v.pages \ Numbers
        PROVE  v.pages[o].kin = {}
    <3>1. o \in DOMAIN u.pages /\ u.pages[o].kin = {} /\ Object(u, o) = u.pages[o]
      <4>1. o \in Known(u)
        BY <1>2 DEF Known
      <4>2. QED BY <1>1, <4>1 DEF Known, ReferencesFit, Object
    <3>2. v.pages[o] = Object(v, o)
      BY DEF Object
    <3>3. QED BY <1>2, <3>1, <3>2 DEF Rewrites
  <2>4. QED BY <2>1, <2>2, <2>3 DEF ReferencesFit
<1>7. QED BY <1>2, <1>3, <1>4, <1>5, <1>6 DEF Sound, SamePages

\* Taken from under its /Pages node, an unturned page reads as before.
Settled(u) ==
  \A t \in Everything(doc) :
    t.object \in Objects /\ ~t.changed /\ Unturned(u, t) =>
      Object(u, t.object).own # Absent \/ InForce(base.pages[t.object]) = Absent

LEMMA InheritedIsSound ==
  ASSUME TypesFit, BaseFits, NEW u, Sound(u)
  PROVE  LET v == WithInherited(u)
         IN  /\ Sound(v) /\ SamePages(u, v) /\ Settled(v)
             /\ v.kids = u.kids /\ v.max_id = u.max_id
<1> DEFINE v == WithInherited(u)
           heirs == {o \in Objects \cap DOMAIN base.pages :
                       base.pages[o].own = Absent /\ Inherited(base, o) # Absent}
           pages == [o \in heirs |-> [Object(u, o) EXCEPT !.own = Inherited(base, o)]]
<1>1. UpdateFits(u) /\ Backed(u) /\ RotationsFit(u)
  BY DEF Sound
<1>2. /\ v = [pages |-> Entered(pages, u.pages), kids |-> u.kids, max_id |-> u.max_id]
      /\ v.kids = u.kids /\ v.max_id = u.max_id
  BY <1>1 DEF WithInherited, UpdateFits
<1>3. \A o : Inherited(base, o) = InForce(base.pages[o])
  BY BaseReads
<1>4. \A o \in heirs : /\ o \in Objects /\ o \in Numbers /\ o \in Known(u)
                       /\ base.pages[o].own = Absent
                       /\ InForce(base.pages[o]) # Absent
  BY <1>3 DEF Numbers, Known
<1>5. \A o \in Numbers : InForce(base.pages[o]) \in Key
  BY DEF BaseFits, InForce, FirstPresent, Page, Key
<1>6. ASSUME NEW o \in heirs
      PROVE  /\ pages[o] \in Page /\ pages[o].own = InForce(base.pages[o])
             /\ pages[o].content = Object(u, o).content
             /\ pages[o].blank = Object(u, o).blank
             /\ pages[o].links = Object(u, o).links
             /\ pages[o].kin = Object(u, o).kin
  <2>1. Object(u, o) \in Page
    BY <1>1, <1>4, ObjectIsPage
  <2>2. pages[o] = [Object(u, o) EXCEPT !.own = InForce(base.pages[o])]
    BY <1>3
  <2>3. InForce(base.pages[o]) \in Key
    BY <1>4, <1>5
  <2>4. QED BY <2>1, <2>2, <2>3 DEF Page
<1>7. DOMAIN pages = heirs /\ Rewrites(u, v, pages)
  BY <1>2, <1>4, <1>6 DEF Rewrites
<1>8. \A o : Object(v, o) = IF o \in heirs THEN pages[o] ELSE Object(u, o)
  BY <1>1, <1>7, RewritingShadows
<1>9. ASSUME NEW t \in Everything(doc), t.object \in heirs, Unturned(u, t)
      PROVE  Unturned(v, t)
  <2>1. PICK o : o = t.object /\ o \in heirs
    BY <1>9
  <2>2. base.pages[o].own = Absent /\ InForce(base.pages[o]) # Absent
    BY <1>4, <2>1
  <2> HIDE DEF v, pages
  <2>3. Object(v, o).own = InForce(base.pages[o])
    BY <1>6, <1>8, <2>1
  <2>4. InForce(Object(v, o)) = InForce(base.pages[o])
    BY <2>2, <2>3 DEF InForce, FirstPresent
  <2>5. QED BY <1>9, <2>1, <2>2, <2>4 DEF Unturned
<1>10. v.kids \in Seq(Known(u))
  BY <1>1, <1>2 DEF UpdateFits
<1>11. Sound(v) /\ SamePages(u, v)
  <2> HIDE DEF v, pages, heirs
  <2>1. \A t \in Everything(doc) :
          t.object \in DOMAIN pages /\ ~t.changed /\ Unturned(u, t) => Unturned(v, t)
    BY <1>7, <1>9
  <2>2. QED BY <1>7, <1>10, <2>1, RewritingIsSound
<1>12. Settled(v)
  <2>1. SUFFICES ASSUME NEW t \in Everything(doc), t.object \in Objects, Unturned(v, t),
                        InForce(base.pages[t.object]) # Absent
                 PROVE  Object(v, t.object).own # Absent
    BY DEF Settled
  <2>2. CASE t.object \in heirs
    BY <1>6, <1>8, <2>1, <2>2
  <2>3. CASE t.object \notin heirs
    <3>1. base.pages[t.object].own # Absent
      BY <1>3, <2>1, <2>3 DEF Numbers, Unturned
    <3>2. QED BY <2>1, <3>1 DEF Unturned
  <2>4. QED BY <2>2, <2>3
<1>13. QED BY <1>2, <1>11, <1>12

LEMMA PageTreeIsSound ==
  ASSUME TypesFit, BaseFits, NEW u, Sound(u), Settled(u)
  PROVE  LET v == WithPageTree(u)
         IN  /\ Sound(v) /\ SamePages(u, v) /\ v.max_id = u.max_id
             /\ v.kids = [i \in DOMAIN doc.slots |-> doc.slots[i].object]
             /\ \A o \in Objects : Object(v, o).kin = {}
<1> DEFINE v == WithPageTree(u)
           pages == [o \in Objects |-> [Object(u, o) EXCEPT !.node = Absent, !.kin = {}]]
           kids == [i \in DOMAIN doc.slots |-> doc.slots[i].object]
<1>1. UpdateFits(u) /\ Backed(u) /\ RotationsFit(u)
  BY DEF Sound
<1>2. /\ v = [pages |-> Entered(pages, u.pages), kids |-> kids, max_id |-> u.max_id]
      /\ v.kids = kids /\ v.max_id = u.max_id
  <2>1. v = [u EXCEPT !.pages = Entered(pages, u.pages), !.kids = kids]
    BY DEF WithPageTree
  <2>2. u = [pages |-> u.pages, kids |-> u.kids, max_id |-> u.max_id]
    BY <1>1 DEF UpdateFits
  <2> HIDE DEF v, pages, kids
  <2>3. QED BY <2>1, <2>2
<1>3. ASSUME NEW o \in Objects
      PROVE  /\ pages[o] \in Page /\ pages[o].own = Object(u, o).own
             /\ pages[o].node = Absent /\ pages[o].kin = {}
             /\ pages[o].content = Object(u, o).content
             /\ pages[o].blank = Object(u, o).blank
             /\ pages[o].links = Object(u, o).links
  <2>1. o \in Known(u)
    BY <1>1, SlotObjects DEF Backed
  <2>2. Object(u, o) \in Page
    BY <1>1, <2>1, ObjectIsPage
  <2>3. pages[o] = [Object(u, o) EXCEPT !.node = Absent, !.kin = {}]
    OBVIOUS
  <2>4. QED BY <2>2, <2>3 DEF Page, Key
<1>4. DOMAIN pages = Objects /\ Rewrites(u, v, pages)
  BY <1>2, <1>3 DEF Rewrites
<1>5. \A o : Object(v, o) = IF o \in Objects THEN pages[o] ELSE Object(u, o)
  <2> HIDE DEF v, pages
  <2>1. QED BY <1>1, <1>4, RewritingShadows
<1>6. ASSUME NEW t \in Everything(doc), t.object \in Objects, ~t.changed, Unturned(u, t)
      PROVE  Unturned(v, t)
  <2> DEFINE o == t.object
  <2> HIDE DEF v, pages
  <2>1. /\ Object(v, o).own = Object(u, o).own
        /\ Object(v, o).node = Absent
    BY <1>3, <1>5, <1>6
  <2>2. CASE Object(u, o).own # Absent
    BY <1>6, <2>1, <2>2 DEF Unturned, InForce, FirstPresent
  <2>3. CASE Object(u, o).own = Absent
    <3>1. InForce(base.pages[o]) = Absent
      BY <1>6, <2>3 DEF Settled
    <3>2. base.root = Absent
      BY <1>6, <2>3, <3>1 DEF Unturned, InForce, FirstPresent
    <3>3. QED BY <1>6, <2>1, <2>3, <3>1, <3>2 DEF Unturned, InForce, FirstPresent
  <2>4. QED BY <2>2, <2>3
<1>7. v.kids \in Seq(Known(u))
  <2>1. DOMAIN doc.slots = 1..PageCount(doc) /\ PageCount(doc) \in Nat
    BY SlotObjects
  <2>2. \A i \in DOMAIN doc.slots : kids[i] \in Known(u)
    BY <1>1, SlotObjects DEF Backed
  <2>3. kids \in [1..PageCount(doc) -> Known(u)]
    BY <2>1, <2>2
  <2> HIDE DEF v, pages, kids
  <2>4. kids \in Seq(Known(u))
    BY <2>1, <2>3, SeqDef
  <2>5. QED BY <1>2, <2>4
<1>8. Sound(v) /\ SamePages(u, v)
  <2> HIDE DEF v, pages, kids
  <2>1. \A t \in Everything(doc) :
          t.object \in DOMAIN pages /\ ~t.changed /\ Unturned(u, t) => Unturned(v, t)
    BY SMTT(30), <1>4, <1>6
  <2>2. QED BY <1>4, <1>7, <2>1, RewritingIsSound
<1>9. \A o \in Objects : Object(v, o).kin = {}
  <2> HIDE DEF v, pages
  <2>1. QED BY <1>3, <1>5
<1>10. QED BY <1>2, <1>8, <1>9

LEMMA RotationsAreSound ==
  ASSUME TypesFit, BaseFits, NEW u, Sound(u)
  PROVE  LET v == WithRotations(u)
         IN  /\ Sound(v) /\ SamePages(u, v)
             /\ v.kids = u.kids /\ v.max_id = u.max_id
             /\ \A i \in DOMAIN doc.slots :
                  doc.slots[i].changed =>
                    Object(v, doc.slots[i].object).own = doc.slots[i].rotation
             /\ \A o : Object(v, o).kin = Object(u, o).kin
<1> DEFINE v == WithRotations(u)
           turned == {i \in DOMAIN doc.slots : doc.slots[i].changed}
           at(o) == CHOOSE i \in turned : doc.slots[i].object = o
           named == {doc.slots[i].object : i \in turned}
           pages == [o \in named |-> [Object(u, o) EXCEPT !.own = doc.slots[at(o)].rotation]]
<1>1. UpdateFits(u) /\ Backed(u) /\ RotationsFit(u)
  BY DEF Sound
<1>2. /\ v = [pages |-> Entered(pages, u.pages), kids |-> u.kids, max_id |-> u.max_id]
      /\ v.kids = u.kids /\ v.max_id = u.max_id
  BY <1>1 DEF WithRotations, UpdateFits
<1>3. ASSUME NEW o \in named
      PROVE  at(o) \in turned /\ doc.slots[at(o)].object = o
  OBVIOUS
<1>4. ASSUME NEW o \in named
      PROVE  /\ o \in Objects /\ pages[o] \in Page
             /\ pages[o].own = doc.slots[at(o)].rotation
             /\ pages[o].content = Object(u, o).content
             /\ pages[o].blank = Object(u, o).blank
             /\ pages[o].links = Object(u, o).links
             /\ pages[o].kin = Object(u, o).kin
  <2>1. o \in Objects
    BY <1>3 DEF Objects
  <2>2. Object(u, o) \in Page
    BY <1>1, <2>1, SlotObjects, ObjectIsPage DEF Backed
  <2>3. doc.slots[at(o)].rotation \in Key
    BY <1>3, SlotObjects DEF PdfSlot, Key
  <2>4. pages[o] = [Object(u, o) EXCEPT !.own = doc.slots[at(o)].rotation]
    BY SMTT(30)
  <2> HIDE DEF pages, at
  <2>5. QED BY <2>1, <2>2, <2>3, <2>4 DEF Page
<1>5. DOMAIN pages = named /\ Rewrites(u, v, pages)
  BY <1>2, <1>4 DEF Rewrites
<1>6. \A o : Object(v, o) = IF o \in named THEN pages[o] ELSE Object(u, o)
  <2> HIDE DEF v, pages, named
  <2>1. QED BY <1>1, <1>5, RewritingShadows
<1>7. ASSUME NEW t \in Everything(doc), t.object \in named
      PROVE  t.changed
  <2>1. PICK i \in turned : doc.slots[i].object = t.object
    BY <1>7
  <2>2. doc.slots[i] = t
    BY <1>1, <2>1, SlotObjects, ObjectsApart
  <2>3. QED BY <2>1, <2>2
<1>8. Sound(v) /\ SamePages(u, v)
  <2>1. v.kids \in Seq(Known(u))
    BY <1>1, <1>2 DEF UpdateFits
  <2> HIDE DEF v, pages, named
  <2>2. \A t \in Everything(doc) :
          t.object \in DOMAIN pages /\ ~t.changed /\ Unturned(u, t) => Unturned(v, t)
    BY <1>5, <1>7
  <2>3. QED BY <1>5, <2>1, <2>2, RewritingIsSound
<1>9. ASSUME NEW i \in DOMAIN doc.slots, doc.slots[i].changed
      PROVE  Object(v, doc.slots[i].object).own = doc.slots[i].rotation
  <2> DEFINE o == doc.slots[i].object
  <2>1. o \in named
    BY <1>9
  <2>2. doc.slots[at(o)] = doc.slots[i]
    BY SMTT(30), <1>1, <1>3, <2>1, SlotObjects, ObjectsApart
  <2>3. pages[o].own = doc.slots[at(o)].rotation
    BY <1>4, <2>1
  <2> HIDE DEF v, pages, at, named
  <2>4. Object(v, o) = pages[o]
    BY <1>6, <2>1
  <2>5. QED BY <2>2, <2>3, <2>4
<1>10. \A o : Object(v, o).kin = Object(u, o).kin
  BY <1>4, <1>6
<1>11. QED BY <1>2, <1>8, <1>9, <1>10

\* What a save finds in the update it has filled in: the pages of the document
\* in order, each with its content and its rotation.
LEMMA MaterializedFits ==
  ASSUME SaveInvariant
  PROVE  LET u == Materialized
         IN  /\ Sound(u) /\ SamePages(update, u) /\ u.max_id = update.max_id
             /\ u.kids = IF dirty.structure
                         THEN [i \in DOMAIN doc.slots |-> doc.slots[i].object] ELSE <<>>
             /\ \A i \in DOMAIN doc.slots :
                  doc.slots[i].changed =>
                    Object(u, doc.slots[i].object).own = doc.slots[i].rotation
             /\ dirty.structure \/ purged # {} => \A o \in Objects : Object(u, o).kin = {}
<1> DEFINE tree == IF dirty.structure THEN WithPageTree(WithInherited(update)) ELSE update
           u == Materialized
<1>1. TypesFit /\ BaseFits /\ Sound(update) /\ StructureFits /\ GivenUpFits
  BY DEF SaveInvariant
<1>2. /\ Sound(tree) /\ SamePages(update, tree) /\ tree.max_id = update.max_id
      /\ tree.kids = IF dirty.structure
                     THEN [i \in DOMAIN doc.slots |-> doc.slots[i].object] ELSE <<>>
      /\ dirty.structure \/ purged # {} => \A o \in Objects : Object(tree, o).kin = {}
  <2>1. CASE dirty.structure
    <3>1. /\ Sound(WithInherited(update)) /\ Settled(WithInherited(update))
          /\ SamePages(update, WithInherited(update))
          /\ WithInherited(update).max_id = update.max_id
      BY <1>1, InheritedIsSound
    <3>2. QED BY <1>1, <2>1, <3>1, PageTreeIsSound DEF SamePages
  <2>2. CASE ~dirty.structure
    <3>1. ASSUME purged # {}, NEW o \in Objects PROVE Object(update, o).kin = {}
      <4>1. PICK s \in Everything(doc) : s.object = o
        BY <1>1, SlotObjects
      <4>2. CASE o \in Numbers
        <5>1. base.pages[o].kin = {}
          BY <1>1, <3>1, <4>1, <4>2 DEF GivenUpFits
        <5>2. QED BY <1>1, <4>2, <5>1 DEF Sound, ReferencesFit
      <4>3. CASE o \notin Numbers
        <5>1. o \in DOMAIN update.pages
          BY <1>1, <4>1, <4>3 DEF Sound, Backed, Known
        <5>2. QED BY <1>1, <4>3, <5>1 DEF Sound, ReferencesFit, Object
      <4>4. QED BY <4>2, <4>3
    <3>2. QED BY <1>1, <2>2, <3>1 DEF StructureFits, SamePages
  <2>3. QED BY <2>1, <2>2
<1>3. u = IF dirty.rotations THEN WithRotations(tree) ELSE tree
  BY DEF Materialized
<1> HIDE DEF tree, u
<1>4. CASE dirty.rotations
  <2>1. /\ Sound(u) /\ SamePages(tree, u) /\ u.kids = tree.kids /\ u.max_id = tree.max_id
        /\ \A i \in DOMAIN doc.slots :
             doc.slots[i].changed =>
               Object(u, doc.slots[i].object).own = doc.slots[i].rotation
        /\ \A o : Object(u, o).kin = Object(tree, o).kin
    BY <1>1, <1>2, <1>3, <1>4, RotationsAreSound
  <2>2. SamePages(update, u)
    BY <1>2, <2>1 DEF SamePages
  <2>3. QED BY <1>2, <2>1, <2>2 DEF u
<1>5. CASE ~dirty.rotations
  <2>1. \A i \in DOMAIN doc.slots : ~doc.slots[i].changed
    BY <1>1, <1>5, SlotObjects DEF Sound, RotationsFit
  <2>2. QED BY <1>2, <1>3, <1>5, <2>1 DEF u
<1>6. QED BY <1>4, <1>5

-----------------------------------------------------------------------------
\* What a written file shows

\* A reader of file f sees the pages the user sees now.
FileShows(f) ==
  /\ DOMAIN f.kids = DOMAIN doc.slots /\ Len(f.kids) = PageCount(doc)
  /\ \A i \in DOMAIN doc.slots :
       /\ Reopened(f)[i].content = Shown[i].content
       /\ Reopened(f)[i].rotation = Shown[i].rotation \/ BlankAt(f, i)

LEMMA BaseIsFile ==
  ASSUME BaseFits
  PROVE  FileTypeOK(base)
BY DEF BaseFits, FileTypeOK

LEMMA AppendedIsFile ==
  ASSUME BaseFits, NEW u, UpdateFits(u)
  PROVE  FileTypeOK(Appended(u))
<1> DEFINE f == Appended(u)
<1>1. /\ DOMAIN f.pages = Known(u)
      /\ \A o \in Known(u) : f.pages[o] = Object(u, o)
      /\ f.kids = IF u.kids = <<>> THEN base.kids ELSE u.kids
      /\ f.root = base.root /\ f.named = base.named /\ f.max_id = u.max_id
  BY AppendedPages
<1>2. \A o \in Known(u) : Object(u, o) \in Page /\ o \in 1..u.max_id
  BY ObjectIsPage
<1>3. u.max_id \in Nat
  BY DEF UpdateFits
<1>4. ASSUME NEW i \in DOMAIN f.kids PROVE f.kids[i] \in Known(u)
  <2>1. CASE u.kids = <<>>
    BY <1>1, <1>4, <2>1 DEF BaseFits, Known
  <2>2. CASE u.kids # <<>>
    BY <1>1, <1>4, <2>2, ElementOfSeq, LenProperties DEF UpdateFits
  <2>3. QED BY <2>1, <2>2
<1>5. Known(u) \subseteq 1..u.max_id
  BY <1>2
<1>6. base.root \in Key /\ base.named \subseteq ObjectId
  BY DEF BaseFits
<1> HIDE DEF f
<1>7. FileTypeOK(f)
  BY <1>1, <1>2, <1>3, <1>4, <1>5, <1>6 DEF FileTypeOK
<1>8. QED BY <1>7 DEF f

\* The page of slot s, of a file that hangs it from the base's root, reads as
\* the slot says: turned pages by their own key, others as they always did.
LEMMA SlotReads ==
  ASSUME TypesFit, NEW u, Sound(u), NEW s \in Everything(doc),
         s.changed => Object(u, s.object).own = s.rotation
  PROVE  Object(u, s.object).blank \/ Reads(InForce(Object(u, s.object))) = s.rotation
<1>1. s.rotation \in Rotations /\ s.rotation # Absent
  BY SlotObjects, PdfSaveAssumption DEF PdfSlot
<1>2. CASE s.changed
  BY <1>1, <1>2 DEF InForce, FirstPresent, Reads
<1>3. CASE ~s.changed
  BY <1>3 DEF Sound, RotationsFit, Unturned
<1>4. QED BY <1>2, <1>3

\* An update that was filled in, appended to the base, shows the document.
LEMMA MaterializedShows ==
  ASSUME SaveInvariant, PageCount(doc) > 0
  PROVE  LET f == Appended(Materialized)
         IN  /\ f.kids = [i \in DOMAIN doc.slots |-> doc.slots[i].object]
             /\ FileTypeOK(f) /\ FileShows(f)
             /\ f.root = base.root
<1> DEFINE u == Materialized
           f == Appended(u)
<1>1. TypesFit /\ BaseFits /\ Sound(update) /\ StructureFits
  BY DEF SaveInvariant
<1>2. /\ Sound(u) /\ SamePages(update, u)
      /\ u.kids = IF dirty.structure
                  THEN [i \in DOMAIN doc.slots |-> doc.slots[i].object] ELSE <<>>
      /\ \A i \in DOMAIN doc.slots :
           doc.slots[i].changed => Object(u, doc.slots[i].object).own = doc.slots[i].rotation
  BY MaterializedFits
<1>3. /\ DOMAIN doc.slots = 1..PageCount(doc) /\ PageCount(doc) \in Nat
      /\ \A i \in DOMAIN doc.slots : doc.slots[i] \in Everything(doc)
  BY <1>1, SlotObjects
<1>4. /\ DOMAIN f.pages = Known(u)
      /\ \A o \in Known(u) : f.pages[o] = Object(u, o)
      /\ f.kids = IF u.kids = <<>> THEN base.kids ELSE u.kids
      /\ f.root = base.root
  BY <1>1, AppendedPages
<1>5. FileTypeOK(f)
  BY <1>1, <1>2, AppendedIsFile DEF Sound
<1>6. \A o \in Known(u) : ReadRotation(f, o) = Reads(InForce(Object(u, o)))
  BY <1>1, AppendedReads
<1>7. \A s \in Everything(doc) :
        /\ s.object \in Known(u)
        /\ Object(u, s.object).content = Object(update, s.object).content
  BY <1>2 DEF Sound, Backed, SamePages
<1> HIDE DEF u, f
<1>8. f.kids = [i \in DOMAIN doc.slots |-> doc.slots[i].object]
  <2>1. CASE dirty.structure
    <3>1. 1 \in DOMAIN u.kids
      BY <1>2, <1>3, <2>1
    <3>2. u.kids # <<>>
      BY <3>1
    <3>3. QED BY <1>2, <1>4, <2>1, <3>2
  <2>2. CASE ~dirty.structure
    <3>1. f.kids = base.kids
      BY <1>2, <1>4, <2>2
    <3>2. /\ PageCount(doc) = Len(base.kids)
          /\ \A i \in Places : doc.slots[i].object = i
      BY <1>1, <2>2 DEF StructureFits
    <3>3. base.kids = [i \in Places |-> i] /\ Places = DOMAIN doc.slots
      BY <1>1, <1>3, <3>2 DEF BaseFits, Places
    <3>4. QED BY <3>1, <3>2, <3>3
  <2>3. QED BY <2>1, <2>2
<1>9. Len(f.kids) = PageCount(doc)
  BY <1>3, <1>8
<1>10. ASSUME NEW i \in DOMAIN doc.slots
       PROVE  /\ Reopened(f)[i].content = Shown[i].content
              /\ Reopened(f)[i].rotation = Shown[i].rotation \/ BlankAt(f, i)
  <2> DEFINE s == doc.slots[i]
  <2>1. f.kids[i] = s.object /\ i \in DOMAIN f.kids /\ s \in Everything(doc)
    BY <1>3, <1>8
  <2>2. f.pages[s.object] = Object(u, s.object)
    BY <1>4, <1>7, <2>1
  <2>3. Reopened(f)[i] = [content |-> Object(u, s.object).content,
                          rotation |-> ReadRotation(f, s.object)]
    BY <2>1, <2>2 DEF Reopened
  <2>4. Shown[i] = [content |-> Object(update, s.object).content, rotation |-> s.rotation]
    BY DEF Shown
  <2>5. Object(u, s.object).blank \/ Reads(InForce(Object(u, s.object))) = s.rotation
    BY <1>1, <1>2, <2>1, SlotReads
  <2>6. ReadRotation(f, s.object) = Reads(InForce(Object(u, s.object)))
    BY <1>6, <1>7, <2>1
  <2>7. BlankAt(f, i) <=> Object(u, s.object).blank
    BY <2>1, <2>2 DEF BlankAt
  <2> HIDE DEF s
  <2>8. QED BY <1>7, <2>1, <2>3, <2>4, <2>5, <2>6, <2>7
<1>11. FileShows(f)
  BY <1>8, <1>9, <1>10 DEF FileShows
<1>12. QED BY <1>4, <1>5, <1>8, <1>11 DEF u, f

\* A document whose dirty state is clean shows what its base does.
LEMMA CleanShows ==
  ASSUME SaveInvariant, dirty = Clean
  PROVE  FileShows(base) /\ FileTypeOK(base)
<1>1. TypesFit /\ BaseFits /\ Sound(update) /\ StructureFits
  BY DEF SaveInvariant
<1>2. ~dirty.structure /\ ~dirty.rotations
  BY DEF Clean
<1>3. /\ DOMAIN doc.slots = 1..PageCount(doc)
      /\ \A i \in DOMAIN doc.slots : doc.slots[i] \in Everything(doc)
  BY <1>1, SlotObjects
<1>4. /\ PageCount(doc) = Len(base.kids) /\ DOMAIN doc.slots = Places
      /\ \A i \in Places : doc.slots[i].object = i
  BY <1>1, <1>2, <1>3 DEF StructureFits, Places
<1>5. ASSUME NEW i \in DOMAIN doc.slots
      PROVE  /\ Reopened(base)[i].content = Shown[i].content
             /\ Reopened(base)[i].rotation = Shown[i].rotation \/ BlankAt(base, i)
  <2> DEFINE s == doc.slots[i]
  <2>1. s \in Everything(doc) /\ s.object = i /\ i \in Numbers /\ i \in Places
    BY <1>1, <1>3, <1>4 DEF BaseFits
  <2>2. base.kids[i] = i /\ i \in DOMAIN base.kids
    BY <1>1, <2>1 DEF BaseFits
  <2>3. Reopened(base)[i] = [content |-> base.pages[i].content,
                             rotation |-> Reads(InForce(base.pages[i]))]
    BY <2>2, BaseReads DEF Reopened
  <2>4. Shown[i] = [content |-> Object(update, s.object).content, rotation |-> s.rotation]
    BY DEF Shown
  <2>5. /\ Object(update, i).content = base.pages[i].content
        /\ Object(update, i).blank = base.pages[i].blank
    BY <1>1, <2>1 DEF Sound, UpdateFits
  <2>6. Object(update, i).blank \/ Unturned(update, s)
    BY <1>1, <1>2, <2>1 DEF Sound, RotationsFit
  <2>7. base.pages[i].blank \/ s.rotation = Reads(InForce(base.pages[i]))
    BY <2>1, <2>5, <2>6 DEF Unturned
  <2>8. BlankAt(base, i) <=> base.pages[i].blank
    BY <2>2 DEF BlankAt
  <2> HIDE DEF s
  <2>9. QED BY <2>1, <2>3, <2>4, <2>5, <2>7, <2>8
<1>6. FileTypeOK(base)
  BY <1>1, BaseIsFile
<1>7. QED BY <1>1, <1>4, <1>5, <1>6 DEF FileShows, BaseFits

-----------------------------------------------------------------------------
\* A document that was just opened, or goes on from a compacted file

Fresh ==
  /\ TypesFit /\ BaseFits
  /\ update = NoUpdate(base) /\ dirty = Clean /\ doc.removed = {}
  /\ PageCount(doc) = Len(base.kids)
  /\ \A i \in Places :
       LET s == doc.slots[i]
       IN  /\ s.object = i /\ ~s.changed
           /\ base.pages[i].content = s.id
           /\ base.pages[i].blank \/ s.rotation = Reads(InForce(base.pages[i]))

LEMMA FreshIsSound ==
  Fresh => /\ Sound(update) /\ StructureFits
           /\ Known(update) = Numbers
           /\ \A o \in Numbers : Object(update, o) = base.pages[o]
<1> SUFFICES ASSUME Fresh
             PROVE  /\ Sound(update) /\ StructureFits
                    /\ Known(update) = Numbers
                    /\ \A o \in Numbers : Object(update, o) = base.pages[o]
  OBVIOUS
<1>1. TypesFit /\ BaseFits
  BY DEF Fresh
<1>2. /\ DOMAIN update.pages = {} /\ update.kids = <<>> /\ update.max_id = base.max_id
  BY DEF Fresh, NoUpdate
<1>3. Known(update) = Numbers /\ \A o : Object(update, o) = base.pages[o]
  BY <1>2 DEF Known, Object
<1>4. UpdateFits(update)
  <2>1. base.max_id \in Nat
    BY <1>1 DEF BaseFits
  <2>2. update.kids \in Seq(Known(update))
    BY <1>2
  <2>3. update = [pages |-> update.pages, kids |-> update.kids, max_id |-> update.max_id]
    BY DEF Fresh, NoUpdate
  <2>4. QED BY <1>2, <1>3, <2>1, <2>2, <2>3 DEF UpdateFits
<1>5. ASSUME NEW s \in Everything(doc) PROVE \E i \in Places : s = doc.slots[i] /\ i \in Numbers
  BY <1>1 DEF Everything, Mapped, Fresh, Places, PageCount, BaseFits
<1>6. Backed(update)
  <2>1. SUFFICES ASSUME NEW s \in Everything(doc)
                 PROVE  s.object \in Known(update) /\ Object(update, s.object).content = s.id
    BY DEF Backed
  <2>2. PICK i \in Places : s = doc.slots[i] /\ i \in Numbers
    BY <1>5
  <2>3. QED BY <1>3, <2>2 DEF Fresh
<1>7. RotationsFit(update)
  <2>1. SUFFICES ASSUME NEW s \in Everything(doc)
                 PROVE  ~s.changed /\ (Object(update, s.object).blank \/ Unturned(update, s))
    BY DEF RotationsFit
  <2>2. PICK i \in Places : s = doc.slots[i] /\ i \in Numbers
    BY <1>5
  <2>3. QED BY <1>3, <2>2 DEF Fresh, Unturned
<1>8. StructureFits
  BY <1>2 DEF Fresh, StructureFits
<1>9. ReferencesFit(update)
  BY <1>2, <1>3 DEF ReferencesFit
<1>10. QED BY <1>3, <1>4, <1>6, <1>7, <1>8, <1>9 DEF Sound

LEMMA ReadsARotation ==
  ASSUME BaseFits, NEW o \in Numbers
  PROVE  Reads(InForce(base.pages[o])) \in Rotations
BY PdfSaveAssumption, PageMapAssumption
   DEF BaseFits, Reads, InForce, FirstPresent, Page, Key

\* The base holds the document's pages and given up ones that are still named.
GivenUpSettled ==
  /\ purged \subseteq 0..(doc.next - 1)
  /\ \A i \in Places : doc.slots[i].id \notin purged
  /\ \A o \in Numbers : o \in Places \/ base.pages[o].content \in purged
  /\ purged # {} => \A i \in Places : base.pages[i].kin = {}
  /\ GivenUpIsNamed(base)

\* A file that was opened shows what the user sees at first.
LEMMA InitIsFresh ==
  ASSUME Init
  PROVE  Fresh /\ GivenUpSettled /\ DiskFits
<1>1. PICK s \in Shapes :
        base = FileOf(PagesOf(s), [i \in FileObjects |-> i], s.root, s.named, FilePages)
  BY DEF Init, OpenedFiles
<1>2. FilePages \in Nat /\ FileObjects = 1..FilePages /\ s \in Shape
  BY <1>1, PdfSaveAssumption DEF FileObjects
<1>3. /\ base.kids = [i \in 1..FilePages |-> i] /\ base.root \in Key
      /\ base.named = s.named /\ base.max_id = FilePages
      /\ base.pages = [o \in 1..FilePages |->
                         [content |-> o - 1, blank |-> FALSE, own |-> s.own[o],
                          node |-> s.node[o], kin |-> s.kin[o], links |-> s.links[o]]]
  BY <1>1, <1>2 DEF FileOf, PagesOf, Shape
<1>4. Len(base.kids) = FilePages /\ Places = 1..FilePages /\ Numbers = Places
  BY <1>2, <1>3 DEF Numbers, Places
<1>5. ASSUME NEW o \in Numbers
      PROVE  base.pages[o] \in Page /\ base.pages[o].content = o - 1
  <2>1. s.own[o] \in Key /\ s.node[o] \in Key
    BY <1>2, <1>4 DEF Shape
  <2>2. o - 1 \in PageId
    BY <1>2, <1>4 DEF PageId
  <2>3. s.kin[o] \subseteq ObjectId /\ s.links[o] \subseteq ObjectId
    BY <1>2, <1>4 DEF ObjectId, Shape
  <2>4. base.pages[o] = [content |-> o - 1, blank |-> FALSE, own |-> s.own[o],
                         node |-> s.node[o], kin |-> s.kin[o], links |-> s.links[o]]
    BY <1>3, <1>4
  <2>5. QED BY <2>1, <2>2, <2>3, <2>4 DEF Page
<1>6. BaseFits
  <2>1. base.pages \in [Numbers -> Page]
    BY <1>3, <1>4, <1>5
  <2>2. base.named \subseteq ObjectId
    BY <1>2, <1>3 DEF ObjectId, Shape
  <2>3. QED BY <1>2, <1>3, <1>4, <2>1, <2>2 DEF BaseFits
<1>7. doc = [slots |-> [i \in Numbers |-> SlotFor(i - 1, i, Reads(InForce(base.pages[i])), FALSE)],
             removed |-> {}, next |-> FilePages, revision |-> 0]
  <2>1. \A i \in Numbers : ReadRotation(base, base.kids[i]) = Reads(InForce(base.pages[i]))
    BY <1>3, <1>4, BaseReads
  <2>2. DOMAIN base.kids = Numbers /\ \A i \in Numbers : base.kids[i] = i
    BY <1>3, <1>4
  <2>3. doc = Build(base)
    BY DEF Init
  <2>4. QED BY <1>4, <2>1, <2>2, <2>3 DEF Build
<1>8. ASSUME NEW i \in Numbers
      PROVE  /\ doc.slots[i] = [id |-> i - 1, object |-> i,
                                rotation |-> Reads(InForce(base.pages[i])), changed |-> FALSE]
             /\ doc.slots[i].id = i - 1 /\ doc.slots[i].object = i
             /\ doc.slots[i].rotation = Reads(InForce(base.pages[i]))
             /\ ~doc.slots[i].changed
             /\ doc.slots[i] \in PdfSlot
  <2>1. Reads(InForce(base.pages[i])) \in Rotations
    BY <1>6, ReadsARotation
  <2>2. i - 1 \in PageId /\ i \in ObjectId
    BY <1>2, <1>4 DEF PageId, ObjectId
  <2>3. doc.slots[i] = [id |-> i - 1, object |-> i,
                        rotation |-> Reads(InForce(base.pages[i])), changed |-> FALSE]
    BY <1>7 DEF SlotFor
  <2>4. doc.slots[i].id = i - 1 /\ doc.slots[i].object = i
    BY <2>2, <2>3
  <2>5. QED BY <2>1, <2>2, <2>3, <2>4 DEF PdfSlot
<1>9. TypesFit
  <2>1. doc.slots \in [1..FilePages -> PdfSlot]
    BY <1>4, <1>7, <1>8
  <2>2. doc.slots \in Seq(PdfSlot)
    BY <1>2, <2>1, SeqDef
  <2>3. 0 \in Revision
    BY PageMapAssumption DEF Revision
  <2>4. doc \in DocumentOf(PdfSlot)
    BY <1>2, <1>7, <2>2, <2>3 DEF DocumentOf
  <2>5. \A i, j \in DOMAIN doc.slots : doc.slots[i].id = doc.slots[j].id => i = j
    <3>1. DOMAIN doc.slots = Numbers /\ \A i \in Numbers : doc.slots[i].id = i - 1
      BY <1>7, <1>8, Zenon
    <3>2. \A i, j \in 1..FilePages : i - 1 = j - 1 => i = j
      BY <1>2
    <3>3. QED BY <1>4, <3>1, <3>2
  <2>6. \A p \in KnownIds(doc) : p < doc.next
    <3>1. DOMAIN doc.slots = Numbers /\ \A i \in Numbers : doc.slots[i].id = i - 1
      BY <1>7, <1>8, Zenon
    <3>2. \A i \in 1..FilePages : i - 1 < FilePages
      BY <1>2
    <3>3. doc.removed = {} /\ doc.next = FilePages
      BY <1>7
    <3>4. KnownIds(doc) = {doc.slots[i].id : i \in Numbers}
      BY <3>1, <3>3 DEF KnownIds
    <3>5. QED BY <1>4, <3>1, <3>2, <3>3, <3>4
  <2>7. doc.removed = {}
    BY <1>7
  <2>8. WellFormed(doc)
    BY <2>5, <2>6, <2>7 DEF WellFormed
  <2>9. QED BY <2>4, <2>8, PdfSaveAssumption DEF TypesFit, Init, Clean
<1>10. PageCount(doc) = Len(base.kids)
  BY <1>2, <1>4, <1>7 DEF PageCount
<1>11. Fresh
  <2>1. update = NoUpdate(base) /\ dirty = Clean /\ doc.removed = {}
    BY <1>7 DEF Init
  <2>2. ASSUME NEW i \in Numbers
        PROVE  /\ doc.slots[i].object = i /\ ~doc.slots[i].changed
               /\ base.pages[i].content = doc.slots[i].id
               /\ doc.slots[i].rotation = Reads(InForce(base.pages[i]))
    BY <1>5, <1>8
  <2>3. QED BY <1>4, <1>6, <1>9, <1>10, <2>1, <2>2 DEF Fresh
<1>12. FileTypeOK(base)
  BY <1>6, BaseIsFile
<1>13. Len(Reopened(base)) = Len(base.kids)
  BY <1>2, <1>3, <1>4 DEF Reopened
<1>14. SavedFileReopensAsShown
  BY <1>13 DEF SavedFileReopensAsShown, Init
<1>15. purged = {} /\ \A f : GivenUpIsNamed(f)
  BY DEF GivenUpIsNamed, GivenUpIn, Init
<1>16. GivenUpSettled
  BY <1>4, <1>15 DEF GivenUpSettled
<1>17. QED BY <1>11, <1>12, <1>14, <1>15, <1>16 DEF DiskFits, GivenUpPagesAreNamed, Init

\* The invariant of a document that is fresh.
LEMMA FreshInvariant == Fresh /\ DiskFits /\ GivenUpSettled => SaveInvariant
<1> SUFFICES ASSUME Fresh, DiskFits, GivenUpSettled
             PROVE  SaveInvariant
  OBVIOUS
<1>1. Sound(update) /\ StructureFits
  BY FreshIsSound
<1>2. \A s \in Everything(doc) : \E i \in Places : s = doc.slots[i] /\ s.object = i
  BY DEF Everything, Mapped, Fresh, Places, PageCount
<1>3. \A i \in Places : doc.slots[i] \in Everything(doc) /\ doc.slots[i].object = i
  BY SlotObjects DEF Fresh, Places
<1>4. GivenUpFits
  BY <1>2, <1>3 DEF GivenUpFits, GivenUpSettled, Fresh
<1>5. QED BY <1>1, <1>4 DEF SaveInvariant, Fresh

-----------------------------------------------------------------------------
\* Saving keeps the invariant

\* A file that shows what the user sees, and names the given up pages it has.
LEMMA Written ==
  ASSUME TypesFit, NEW f, FileTypeOK(f), FileShows(f), ToDisk(f), GivenUpIsNamed(f)'
  PROVE  DiskFits'
<1>1. disk'.file = f /\ disk'.shown = Shown
  BY DEF ToDisk
<1>2. DOMAIN Shown = 1..PageCount(doc) /\ PageCount(doc) \in Nat
  BY SlotObjects DEF Shown
<1>3. Len(Shown) = PageCount(doc)
  BY <1>2 DEF Shown
<1>4. SavedFileReopensAsShown'
  BY <1>1, <1>3 DEF SavedFileReopensAsShown, FileShows
<1>5. GivenUpPagesAreNamed'
  BY <1>1 DEF GivenUpPagesAreNamed, GivenUpIsNamed, GivenUpIn
<1>6. QED BY <1>1, <1>4, <1>5 DEF DiskFits

LEMMA NamedStays ==
  ASSUME NEW f, GivenUpIsNamed(f), UNCHANGED purged
  PROVE  GivenUpIsNamed(f)'
BY DEF GivenUpIsNamed, GivenUpIn

\* What appending does not touch is named as it was.
LEMMA AppendedIsNamed ==
  ASSUME TypesFit, BaseFits, GivenUpFits, NEW u, Sound(u)
  PROVE  GivenUpIsNamed(Appended(u))
<1> DEFINE f == Appended(u)
<1>1. /\ DOMAIN f.pages = Known(u) /\ f.named = base.named
      /\ \A o \in Known(u) : f.pages[o] = Object(u, o)
  BY AppendedPages
<1>2. UpdateFits(u) /\ ReferencesFit(u) /\ Backed(u)
  BY DEF Sound
<1>3. ASSUME NEW o \in Known(u), Object(u, o).content \in purged
      PROVE  o \in Numbers /\ base.pages[o].content \in purged
  <2>1. \A s \in Everything(doc) : s.object # o
    BY <1>2, <1>3 DEF Backed, GivenUpFits
  <2>2. o \notin DOMAIN u.pages
    BY <1>2, <2>1 DEF ReferencesFit
  <2>3. QED BY <1>3, <2>2 DEF Known, Object
<1> HIDE DEF f
<1>4. GivenUpIn(f) \subseteq GivenUpIn(base)
  BY <1>1, <1>3 DEF GivenUpIn, Numbers
<1>5. ASSUME NEW some \in SUBSET GivenUpIn(f), some # {}
      PROVE  NamedFromOutside(f, some)
  <2>1. PICK o \in some :
          o \in base.named \/ \E p \in Numbers \ some : o \in Refs(base.pages[p])
    BY <1>4, <1>5 DEF GivenUpFits, GivenUpIsNamed, NamedFromOutside, Numbers
  <2>2. CASE o \in base.named
    BY <1>1, <2>2 DEF NamedFromOutside
  <2>3. CASE \E p \in Numbers \ some : o \in Refs(base.pages[p])
    <3>1. PICK p \in Numbers \ some : o \in Refs(base.pages[p])
      BY <2>3
    <3>2. p \in Known(u) /\ f.pages[p] = Object(u, p)
      BY <1>1 DEF Known
    <3>3. Object(u, p).links = base.pages[p].links
      BY <1>2 DEF ReferencesFit
    <3>4. Object(u, p).kin = base.pages[p].kin
      <4>1. CASE \E s \in Everything(doc) : s.object = p
        <5>1. purged # {}
          BY <1>5 DEF GivenUpIn
        <5>2. base.pages[p].kin = {}
          BY <4>1, <5>1 DEF GivenUpFits
        <5>3. QED BY <1>2, <5>2 DEF ReferencesFit
      <4>2. CASE \A s \in Everything(doc) : s.object # p
        <5>1. p \notin DOMAIN u.pages
          BY <1>2, <4>2 DEF ReferencesFit
        <5>2. QED BY <5>1 DEF Object
      <4>3. QED BY <4>1, <4>2
    <3>5. o \in Refs(f.pages[p])
      BY <3>1, <3>2, <3>3, <3>4 DEF Refs
    <3>6. QED BY <1>1, <3>1, <3>2, <3>5 DEF NamedFromOutside
  <2>4. QED BY <2>1, <2>2, <2>3
<1>6. GivenUpIsNamed(f)
  BY <1>5 DEF GivenUpIsNamed
<1>7. QED BY <1>6 DEF f

\* An edit may add a page with an object of its own; the others keep theirs.
LEMMA GivenUpStays ==
  ASSUME GivenUpFits, UNCHANGED <<base, purged>>, doc.next \in Nat, doc'.next \in Nat,
         doc.next <= doc'.next,
         \A t \in Everything(doc') :
           \/ \E s \in Everything(doc) : s.id = t.id /\ s.object = t.object
           \/ t.id = doc.next /\ t.object \notin Numbers,
         \A s \in Everything(doc) : \E t \in Everything(doc') : t.object = s.object,
         doc'.removed # {} => dirty'.structure
  PROVE  GivenUpFits'
<1>1. GivenUpIsNamed(base)'
  BY DEF GivenUpFits, GivenUpIsNamed, GivenUpIn, NamedFromOutside, Refs
<1>2. purged \subseteq 0..(doc'.next - 1) /\ doc.next \notin purged
  BY DEF GivenUpFits
<1>3. \A t \in Everything(doc') : t.id \notin purged
  BY <1>2 DEF GivenUpFits
<1>4. ASSUME NEW o \in Numbers
      PROVE  (\E t \in Everything(doc') : t.object = o) \/ base.pages[o].content \in purged
  BY DEF GivenUpFits
<1>5. ASSUME purged # {}, NEW t \in Everything(doc'), t.object \in Numbers
      PROVE  base.pages[t.object].kin = {}
  BY <1>5 DEF GivenUpFits
<1>6. QED BY <1>1, <1>2, <1>3, <1>4, <1>5 DEF GivenUpFits, Numbers

LEMMA GivenUpUnchanged ==
  ASSUME GivenUpFits, UNCHANGED <<doc, base, dirty, purged>>
  PROVE  GivenUpFits'
BY DEF GivenUpFits, GivenUpIsNamed, GivenUpIn, Numbers, Everything

\* An update that was filled in goes on from where the document was.
LEMMA Refilled ==
  ASSUME SaveInvariant, update' = Materialized,
         UNCHANGED <<doc, base, dirty, edits, purged>>, DiskFits'
  PROVE  SaveInvariant'
<1>1. Sound(update') /\ (~dirty.structure => update'.kids = <<>>)
  BY MaterializedFits
<1>2. TypesFit /\ BaseFits /\ StructureFits /\ GivenUpFits
  BY DEF SaveInvariant
<1>3. TypesFit' /\ BaseFits'
  BY <1>2 DEF TypesFit, BaseFits, Numbers, Places
<1>4. Sound(update)'
  <2>1. UpdateFits(update)'
    BY <1>1 DEF Sound, UpdateFits, Known, Numbers, Object
  <2>2. ReferencesFit(update)'
    BY <1>1 DEF Sound, ReferencesFit, Numbers, Object
  <2>3. Backed(update)'
    BY <1>1 DEF Sound, Backed, Known, Numbers, Object
  <2>4. RotationsFit(update)'
    BY <1>1 DEF Sound, RotationsFit, Unturned, InForce, Numbers, Object
  <2>5. QED BY <2>1, <2>2, <2>3, <2>4 DEF Sound
<1>5. StructureFits'
  BY <1>1, <1>2 DEF StructureFits, Places
<1>6. GivenUpFits'
  BY <1>2, GivenUpUnchanged
<1>7. QED BY <1>3, <1>4, <1>5, <1>6 DEF SaveInvariant

LEMMA SaveIncrementalKeeps ==
  ASSUME SaveInvariant, SaveIncremental
  PROVE  SaveInvariant'
<1>1. TypesFit /\ BaseFits /\ GivenUpFits
  BY DEF SaveInvariant
<1>2. CASE dirty = Clean
  <2>1. ToDisk(base) /\ UNCHANGED <<doc, base, update, dirty, edits, purged>>
    BY <1>2 DEF SaveIncremental
  <2>2. FileShows(base) /\ FileTypeOK(base)
    BY <1>2, CleanShows
  <2>4. PICK f : f = base
    OBVIOUS
  <2>5. GivenUpIsNamed(f)'
    BY <1>1, <2>1, <2>4, NamedStays DEF GivenUpFits
  <2>6. DiskFits'
    BY <1>1, <2>1, <2>2, <2>4, <2>5, Written
  <2>7. Materialized = update
    BY <1>2 DEF Materialized, Clean
  <2>8. QED BY <2>1, <2>6, <2>7, Refilled
<1>3. CASE dirty # Clean
  <2>1. /\ update' = Materialized /\ ToDisk(Appended(Materialized))
        /\ UNCHANGED <<doc, base, dirty, edits, purged>>
        /\ PageCount(doc) > 0
    BY <1>3 DEF SaveIncremental
  <2>2. PICK f : f = Appended(Materialized)
    OBVIOUS
  <2>3. FileShows(f) /\ FileTypeOK(f)
    BY <2>1, <2>2, MaterializedShows
  <2>4. GivenUpIsNamed(f)'
    BY <1>1, <2>1, <2>2, MaterializedFits, AppendedIsNamed, NamedStays
  <2>5. DiskFits'
    BY <1>1, <2>1, <2>2, <2>3, <2>4, Written
  <2>6. QED BY <2>1, <2>5, Refilled
<1>4. QED BY <1>2, <1>3

\* The last file written stays as it was.
LEMMA DiskStays ==
  ASSUME DiskFits, UNCHANGED <<disk, purged>>
  PROVE  DiskFits'
BY DEF DiskFits, SavedFileReopensAsShown, GivenUpPagesAreNamed, GivenUpIsNamed, GivenUpIn

LEMMA SaveFailsKeeps ==
  ASSUME SaveInvariant, SaveFails
  PROVE  SaveInvariant'
<1>1. /\ update' = Materialized
      /\ UNCHANGED <<doc, base, dirty, edits, disk, purged>>
  BY DEF SaveFails
<1>2. DiskFits'
  BY <1>1, DiskStays DEF SaveInvariant
<1>3. QED BY <1>1, <1>2, Refilled

LEMMA RenamingKeeps ==
  ASSUME NEW at, NEW page \in Page
  PROVE  LET q == RenamedPage(at, page)
         IN  /\ q.content = page.content /\ q.blank = page.blank
             /\ q.own = page.own /\ q.node = page.node
             /\ page.kin = {} => q.kin = {}
BY DEF RenamedPage, Renamed, Page

\* What a compacting save rewrites: the base with the update it has filled in.
LEMMA CompactedFrom ==
  ASSUME SaveInvariant, PageCount(doc) > 0
  PROVE  LET g == Appended(Materialized)
         IN  /\ OrderedFile(g) /\ Compacted(Materialized) = Rewritten(g)
             /\ DOMAIN g.kids = DOMAIN doc.slots /\ Len(g.kids) = PageCount(doc)
             /\ \A i \in DOMAIN doc.slots : g.kids[i] = doc.slots[i].object
             /\ g.root = base.root /\ FileTypeOK(g) /\ FileShows(g)
             /\ DOMAIN g.pages = Known(Materialized)
             /\ \A o \in DOMAIN g.pages :
                  g.pages[o] \in Page /\ g.pages[o] = Object(Materialized, o)
<1> DEFINE g == Appended(Materialized)
<1>1. TypesFit /\ BaseFits /\ Sound(update)
  BY DEF SaveInvariant
<1>2. /\ DOMAIN doc.slots = 1..PageCount(doc) /\ PageCount(doc) \in Nat
      /\ \A i \in DOMAIN doc.slots : doc.slots[i] \in Everything(doc)
  BY <1>1, SlotObjects
<1>3. /\ g.kids = [i \in DOMAIN doc.slots |-> doc.slots[i].object]
      /\ FileTypeOK(g) /\ FileShows(g)
      /\ g.root = base.root
  BY MaterializedShows
<1>4. /\ DOMAIN g.pages = Known(Materialized)
      /\ \A o \in DOMAIN g.pages : g.pages[o] = Object(Materialized, o)
  BY <1>1, AppendedPages
<1> HIDE DEF g
<1>5. DOMAIN g.kids = 1..PageCount(doc) /\ Len(g.kids) = PageCount(doc)
  BY <1>2, <1>3
<1>6. ASSUME NEW i \in DOMAIN doc.slots, NEW j \in DOMAIN doc.slots,
             doc.slots[i].object = doc.slots[j].object
      PROVE  i = j
  <2>1. doc.slots[i] = doc.slots[j]
    BY <1>1, <1>2, <1>6, ObjectsApart DEF Sound
  <2>2. QED BY <1>1, <2>1 DEF TypesFit, WellFormed
<1>7. OrderedFile(g)
  BY <1>2, <1>3, <1>5, <1>6 DEF OrderedFile
<1>8. \A o \in DOMAIN g.pages : g.pages[o] \in Page
  BY <1>3 DEF FileTypeOK
<1>9. QED BY <1>2, <1>3, <1>4, <1>5, <1>7, <1>8 DEF g, Compacted

\* The compacted file has the pages of the appended one that are still reached.
LEMMA CompactedShows ==
  ASSUME SaveInvariant, PageCount(doc) > 0
  PROVE  LET f == Compacted(Materialized)
         IN  /\ f.kids = [i \in 1..PageCount(doc) |-> i]
             /\ Len(f.kids) = PageCount(doc) /\ FileTypeOK(f) /\ FileShows(f)
             /\ \A i \in 1..PageCount(doc) :
                  /\ i \in DOMAIN f.pages /\ f.pages[i].content = doc.slots[i].id
                  /\ dirty.structure \/ purged # {} => f.pages[i].kin = {}
             /\ \A n \in DOMAIN f.pages :
                  \/ n \in 1..PageCount(doc)
                  \/ f.pages[n].content \in purged \cup {s.id : s \in doc.removed}
<1> DEFINE g == Appended(Materialized)
           f == Compacted(Materialized)
           at == Numbering(g)
           count == PageCount(doc)
<1>1. /\ TypesFit /\ BaseFits /\ Sound(update) /\ GivenUpFits
  BY DEF SaveInvariant
<1>2. DOMAIN doc.slots = 1..count /\ count \in Nat
      /\ \A i \in DOMAIN doc.slots : doc.slots[i] \in Everything(doc)
  BY <1>1, SlotObjects
<1>3. /\ OrderedFile(g) /\ f = Rewritten(g)
      /\ DOMAIN g.kids = 1..count /\ Len(g.kids) = count
      /\ \A i \in 1..count : g.kids[i] = doc.slots[i].object
      /\ g.root = base.root /\ FileTypeOK(g) /\ FileShows(g)
      /\ DOMAIN g.pages = Known(Materialized)
      /\ \A o \in DOMAIN g.pages :
           g.pages[o] \in Page /\ g.pages[o] = Object(Materialized, o)
  BY <1>2, CompactedFrom
<1>4. /\ f.kids = [i \in 1..count |-> i] /\ f.root = g.root /\ f.named \subseteq ObjectId
      /\ f.max_id \in Nat /\ DOMAIN f.pages \subseteq 1..f.max_id
      /\ DOMAIN f.pages = {at[o] : o \in Reached(g)}
      /\ \A o \in Reached(g) : f.pages[at[o]] = RenamedPage(at, g.pages[o])
      /\ \A n \in DOMAIN f.pages : f.pages[n] \in Page
      /\ \A i \in 1..count :
           /\ g.kids[i] \in Reached(g) /\ i \in DOMAIN f.pages
           /\ f.pages[i] = RenamedPage(at, g.pages[g.kids[i]])
  BY <1>3, RewrittenFile
<1>5. /\ \A i \in 1..count : at[g.kids[i]] = i
      /\ \A o \in Reached(g) : o \in DOMAIN g.pages
  BY <1>3, NumberingFits, ReachedIsClosed
<1>6. /\ Sound(Materialized) /\ SamePages(update, Materialized)
      /\ dirty.structure \/ purged # {} =>
           \A o \in Objects : Object(Materialized, o).kin = {}
  BY MaterializedFits
<1> HIDE DEF f, g, at, count
<1>7. Len(f.kids) = count
  BY <1>2, <1>4
<1>8. FileTypeOK(f)
  BY <1>3, <1>4 DEF FileTypeOK
<1>9. ASSUME NEW i \in 1..count
      PROVE  LET p == g.pages[g.kids[i]]
             IN  /\ p \in Page /\ p = Object(Materialized, doc.slots[i].object)
                 /\ f.pages[i].content = p.content /\ f.pages[i].blank = p.blank
                 /\ f.pages[i].own = p.own /\ f.pages[i].node = p.node
                 /\ p.kin = {} => f.pages[i].kin = {}
  <2>1. g.kids[i] \in DOMAIN g.pages
    BY <1>4, <1>5
  <2>2. PICK p \in Page : p = g.pages[g.kids[i]] /\ p = Object(Materialized, doc.slots[i].object)
    BY <1>3, <2>1
  <2>3. f.pages[i] = RenamedPage(at, p)
    BY <1>4, <2>2
  <2>4. QED BY <2>2, <2>3, RenamingKeeps
<1>10. ASSUME NEW i \in 1..count
       PROVE  /\ Reopened(f)[i] = Reopened(g)[i]
              /\ BlankAt(f, i) <=> BlankAt(g, i)
              /\ Reopened(g)[i].content = g.pages[g.kids[i]].content
  <2>1. f.kids[i] = i /\ i \in DOMAIN f.kids /\ i \in DOMAIN g.kids
    BY <1>3, <1>4
  <2>2. Inherited(f, i) = Inherited(g, g.kids[i])
    BY <1>4, <1>9 DEF Inherited
  <2>3. ReadRotation(f, f.kids[i]) = ReadRotation(g, g.kids[i])
    BY <2>1, <2>2 DEF ReadRotation
  <2>4. Reopened(f)[i] = Reopened(g)[i]
    BY <1>9, <2>1, <2>3 DEF Reopened
  <2>5. BlankAt(f, i) <=> BlankAt(g, i)
    BY <1>9, <2>1 DEF BlankAt
  <2>6. QED BY <2>1, <2>4, <2>5 DEF Reopened
<1>11. FileShows(f)
  BY <1>2, <1>3, <1>4, <1>7, <1>10 DEF FileShows, count
<1>12. ASSUME NEW i \in 1..count PROVE f.pages[i].content = doc.slots[i].id
  <2>1. f.pages[i].content = Object(Materialized, doc.slots[i].object).content
    BY <1>9
  <2>2. QED BY <1>2, <1>6, <2>1 DEF Sound, Backed
<1>13. ASSUME NEW i \in 1..count, dirty.structure \/ purged # {}
       PROVE  f.pages[i].kin = {}
  <2>1. doc.slots[i].object \in Objects
    BY <1>2 DEF Objects
  <2>2. Object(Materialized, doc.slots[i].object).kin = {}
    BY <1>6, <1>13, <2>1
  <2>3. QED BY <1>9, <2>2
<1>14. ASSUME NEW n \in DOMAIN f.pages, n \notin 1..count
       PROVE  f.pages[n].content \in purged \cup {s.id : s \in doc.removed}
  <2>1. PICK o \in Reached(g) : n = at[o]
    BY <1>4
  <2>2. PICK p \in Page : p = g.pages[o] /\ p = Object(Materialized, o) /\ o \in Known(Materialized)
    BY <1>3, <1>5
  <2>3. f.pages[n] = RenamedPage(at, p)
    BY <1>4, <2>1, <2>2
  <2>4. f.pages[n].content = Object(Materialized, o).content
    BY <2>2, <2>3, RenamingKeeps
  <2>5. \A i \in 1..count : doc.slots[i].object # o
    BY <1>3, <1>5, <1>14, <2>1
  <2>6. CASE \E s \in Everything(doc) : s.object = o
    <3>1. PICK s \in Everything(doc) : s.object = o
      BY <2>6
    <3>2. s \in doc.removed
      BY <1>2, <2>5, <3>1 DEF Everything, Mapped
    <3>3. Object(Materialized, o).content = s.id
      BY <1>6, <3>1 DEF Sound, Backed
    <3>4. QED BY <2>4, <3>2, <3>3
  <2>7. CASE \A s \in Everything(doc) : s.object # o
    <3>1. o \in Numbers
      BY <1>6, <2>2, <2>7 DEF Sound, ReferencesFit, Known
    <3>2. base.pages[o].content \in purged
      BY <1>1, <2>7, <3>1 DEF GivenUpFits
    <3>3. Object(Materialized, o).content = base.pages[o].content
      BY <1>6, <3>1 DEF Sound, UpdateFits
    <3>4. QED BY <2>4, <3>2, <3>3
  <2>8. QED BY <2>6, <2>7
<1>15. QED BY <1>4, <1>7, <1>8, <1>11, <1>12, <1>13, <1>14 DEF f, count

\* Pages beside the tree of a compacted file are named from outside themselves.
LEMMA CompactedIsNamed ==
  ASSUME SaveInvariant, PageCount(doc) > 0,
         NEW gone, \A i \in DOMAIN doc.slots : doc.slots[i].id \notin gone,
         NEW some \in SUBSET DOMAIN Compacted(Materialized).pages, some # {},
         \A n \in some : Compacted(Materialized).pages[n].content \in gone
  PROVE  NamedFromOutside(Compacted(Materialized), some)
<1>1. PICK g : g = Appended(Materialized) /\ OrderedFile(g) /\ Compacted(Materialized) = Rewritten(g)
               /\ DOMAIN g.kids = DOMAIN doc.slots
  BY CompactedFrom
<1>2. DOMAIN doc.slots = 1..PageCount(doc)
  BY SlotObjects DEF SaveInvariant
<1>3. \A i \in DOMAIN g.kids : i \notin some
  BY <1>1, <1>2, CompactedShows
<1>4. some \in SUBSET DOMAIN Rewritten(g).pages
  BY <1>1
<1>5. NamedFromOutside(Rewritten(g), some)
  BY <1>1, <1>3, <1>4, RewrittenIsNamed
<1>6. QED BY <1>1, <1>5

LEMMA RebaseFailsKeeps ==
  ASSUME SaveInvariant, RebaseFails
  PROVE  SaveInvariant'
<1>1. /\ PageCount(doc) > 0 /\ update' = Materialized /\ ToDisk(Compacted(Materialized))
      /\ UNCHANGED <<doc, base, dirty, edits, purged>>
  BY DEF RebaseFails
<1>2. TypesFit /\ GivenUpFits
  BY DEF SaveInvariant
<1>3. PICK f : f = Compacted(Materialized)
  OBVIOUS
<1>4. FileTypeOK(f) /\ FileShows(f)
  BY <1>1, <1>3, CompactedShows
<1>5. \A i \in DOMAIN doc.slots : doc.slots[i].id \notin purged
  BY <1>2, SlotObjects DEF GivenUpFits
<1>6. ASSUME NEW some \in SUBSET GivenUpIn(f), some # {} PROVE NamedFromOutside(f, some)
  <2>1. some \in SUBSET DOMAIN f.pages /\ \A n \in some : f.pages[n].content \in purged
    BY DEF GivenUpIn
  <2>2. QED BY <1>1, <1>3, <1>5, <1>6, <2>1, CompactedIsNamed
<1>7. GivenUpIsNamed(f)
  BY <1>6 DEF GivenUpIsNamed
<1>8. GivenUpIsNamed(f)'
  BY <1>1, <1>7, NamedStays
<1>9. DiskFits'
  BY <1>1, <1>2, <1>3, <1>4, <1>8, Written
<1>10. QED BY <1>1, <1>9, Refilled

\* The document goes on from the compacted file as from one just opened.
LEMMA SaveCompactedKeeps ==
  ASSUME SaveInvariant, SaveCompacted
  PROVE  SaveInvariant'
<1>0. PICK f : f = Compacted(Materialized)
  OBVIOUS
<1> DEFINE count == PageCount(doc)
           slots == [i \in DOMAIN doc.slots |->
                       SlotFor(doc.slots[i].id, f.kids[i], doc.slots[i].rotation, FALSE)]
<1>1. /\ TypesFit /\ BaseFits /\ Sound(update) /\ GivenUpFits
  BY DEF SaveInvariant
<1>2. /\ ToDisk(f) /\ base' = f /\ update' = NoUpdate(f) /\ dirty' = Clean
      /\ doc' = PurgeTrash(Rebound(f))
      /\ edits' = MaxEdits - MaxLater /\ purged' = purged \cup {s.id : s \in doc.removed}
      /\ count > 0
  BY <1>0 DEF SaveCompacted, Rebase
<1>3. /\ f.kids = [i \in 1..count |-> i] /\ Len(f.kids) = count
      /\ FileTypeOK(f) /\ FileShows(f)
      /\ \A i \in 1..count :
           /\ i \in DOMAIN f.pages /\ f.pages[i].content = doc.slots[i].id
           /\ dirty.structure \/ purged # {} => f.pages[i].kin = {}
      /\ \A n \in DOMAIN f.pages :
           \/ n \in 1..count
           \/ f.pages[n].content \in purged \cup {s.id : s \in doc.removed}
  BY <1>0, <1>2, CompactedShows
<1>4. DOMAIN doc.slots = 1..count /\ count \in Nat
      /\ \A i \in DOMAIN doc.slots : doc.slots[i] \in Everything(doc)
      /\ \A s \in Everything(doc) : s \in PdfSlot
  BY <1>1, SlotObjects
<1>5. doc' = [slots |-> slots, removed |-> {}, next |-> doc.next, revision |-> doc.revision]
  <2>1. doc = [slots |-> doc.slots, removed |-> doc.removed,
               next |-> doc.next, revision |-> doc.revision]
    BY <1>1 DEF TypesFit, DocumentOf
  <2>2. Rebound(f) = [doc EXCEPT !.slots = slots]
    BY DEF Rebound
  <2> HIDE DEF slots
  <2>3. QED BY <1>2, <2>1, <2>2 DEF PurgeTrash
<1>6. Places' = 1..count /\ Numbers' = DOMAIN f.pages
  BY <1>2, <1>3 DEF Places, Numbers
<1> HIDE DEF count
<1>7. ASSUME NEW i \in 1..count
      PROVE  /\ slots[i] \in PdfSlot
             /\ slots[i].id = doc.slots[i].id /\ slots[i].object = i
             /\ slots[i].rotation = doc.slots[i].rotation /\ ~slots[i].changed
  <2>1. doc.slots[i] \in PdfSlot
    BY <1>4
  <2>2. slots[i] = [id |-> doc.slots[i].id, object |-> i,
                    rotation |-> doc.slots[i].rotation, changed |-> FALSE]
    BY <1>3, <1>4 DEF SlotFor
  <2>3. i \in ObjectId
    BY <1>4 DEF ObjectId
  <2> HIDE DEF slots
  <2>4. QED BY <2>1, <2>2, <2>3 DEF PdfSlot
<1>8. DOMAIN slots = 1..count /\ slots = [i \in 1..count |-> slots[i]]
  BY <1>4
<1> HIDE DEF slots
<1>9. slots \in Seq(PdfSlot)
  <2>1. slots \in [1..count -> PdfSlot]
    BY <1>7, <1>8
  <2>2. QED BY <1>4, <2>1, SeqDef
<1>10. TypesFit'
  <2>1. /\ doc.next \in Nat /\ doc.revision \in Revision /\ WellFormed(doc)
    BY <1>1 DEF TypesFit, DocumentOf
  <2>2. doc' \in DocumentOf(PdfSlot)
    BY <1>5, <1>9, <2>1 DEF DocumentOf
  <2>3. \A p \in KnownIds(doc') : p < doc'.next
    BY <1>4, <1>5, <1>7, <1>8, <2>1 DEF WellFormed, KnownIds
  <2>4. WellFormed(doc')
    <3>1. doc'.slots = slots /\ doc'.removed = {}
      BY <1>5
    <3>2. \A i, j \in 1..count : slots[i].id = slots[j].id => i = j
      BY <1>4, <1>7, <2>1 DEF WellFormed
    <3>3. QED BY <1>8, <2>3, <3>1, <3>2 DEF WellFormed
  <2>5. QED BY <1>2, <2>2, <2>4, PdfSaveAssumption DEF TypesFit, Clean
<1>11. BaseFits'
  <2>1. f.pages = [n \in DOMAIN f.pages |-> f.pages[n]]
    BY <1>0, RewrittenIsFunction DEF Compacted
  <2>2. f.pages \in [DOMAIN f.pages -> Page]
    BY <1>3, <2>1 DEF FileTypeOK
  <2>3. 1..count \subseteq DOMAIN f.pages /\ f.root \in Key /\ f.named \subseteq ObjectId
        /\ f.max_id \in Nat /\ DOMAIN f.pages \subseteq 1..f.max_id
    BY <1>3 DEF FileTypeOK
  <2>4. QED BY <1>2, <1>3, <1>4, <1>6, <2>2, <2>3 DEF BaseFits
<1>12. Fresh'
  <2>1. PageCount(doc)' = Len(base.kids)'
    BY <1>2, <1>3, <1>4, <1>5, <1>8, <1>9, LenProperties DEF PageCount
  <2>2. ASSUME NEW i \in 1..count
        PROVE  base'.pages[i].blank \/ slots[i].rotation = Reads(InForce(base.pages[i]))'
    <3>1. Reopened(f)[i].rotation = Shown[i].rotation \/ BlankAt(f, i)
      BY <1>3, <1>4 DEF FileShows
    <3>2. Reopened(f)[i].rotation = ReadRotation(f, i) /\ (BlankAt(f, i) <=> f.pages[i].blank)
      BY <1>3 DEF Reopened, BlankAt
    <3>3. Shown[i].rotation = doc.slots[i].rotation
      BY <1>4 DEF Shown
    <3>4. ReadRotation(f, i) = Reads(InForce(base.pages[i]))'
      BY <1>2 DEF ReadRotation, Inherited, Reads, InForce
    <3>5. QED BY <1>2, <1>7, <3>1, <3>2, <3>3, <3>4
  <2>3. ASSUME NEW i \in Places'
        PROVE  /\ doc'.slots[i].object = i /\ ~doc'.slots[i].changed
               /\ base'.pages[i].content = doc'.slots[i].id
               /\ \/ base'.pages[i].blank
                  \/ doc'.slots[i].rotation = Reads(InForce(base.pages[i]))'
    <3>1. i \in 1..count /\ doc'.slots = slots
      BY <1>5, <1>6
    <3>2. base'.pages[i].content = doc.slots[i].id
      BY <1>2, <1>3, <3>1
    <3>3. QED BY <1>7, <2>2, <3>1, <3>2
  <2>4. QED BY <1>2, <1>5, <1>10, <1>11, <2>1, <2>3 DEF Fresh
<1>13. WellFormed(doc) /\ doc.removed \subseteq PdfSlot /\ doc.next \in Nat
  BY <1>1 DEF TypesFit, DocumentOf
<1>14. ASSUME NEW i \in 1..count PROVE doc.slots[i].id \notin purged'
  <2>1. doc.slots[i].id \notin purged
    BY <1>1, <1>4 DEF GivenUpFits
  <2>2. \A s \in doc.removed : s.id # doc.slots[i].id
    BY <1>4, <1>13 DEF WellFormed
  <2>3. QED BY <1>2, <2>1, <2>2
<1>15. GivenUpIsNamed(f)'
  <2>1. PICK gone : gone = purged'
    OBVIOUS
  <2>2. ASSUME NEW some \in SUBSET DOMAIN f.pages, some # {},
               \A n \in some : f.pages[n].content \in gone
        PROVE  NamedFromOutside(f, some)
    <3>1. \A i \in DOMAIN doc.slots : doc.slots[i].id \notin gone
      BY <1>4, <1>14, <2>1
    <3>2. PageCount(doc) > 0
      BY <1>2 DEF count
    <3>3. QED BY <1>0, <2>2, <3>1, <3>2, CompactedIsNamed
  <2>3. QED BY <2>1, <2>2 DEF GivenUpIsNamed, GivenUpIn
<1>16. GivenUpSettled'
  <2>1. ASSUME NEW s \in doc.removed PROVE s.id \in 0..(doc.next - 1)
    <3>1. s.id < doc.next
      BY <1>13 DEF WellFormed, KnownIds
    <3>2. s.id \in Nat
      BY <1>13 DEF PdfSlot, PageId
    <3>3. QED BY <1>13, <3>1, <3>2
  <2>2. purged' \subseteq 0..(doc'.next - 1)
    <3>1. doc'.next = doc.next
      BY <1>5
    <3>2. purged \subseteq 0..(doc.next - 1)
      BY <1>1 DEF GivenUpFits
    <3>3. {s.id : s \in doc.removed} \subseteq 0..(doc.next - 1)
      BY <2>1
    <3>4. QED BY <1>2, <3>1, <3>2, <3>3
  <2>3. \A i \in 1..count : doc'.slots[i].id \notin purged'
    BY <1>5, <1>7, <1>14
  <2>4. \A n \in DOMAIN f.pages : n \in 1..count \/ f.pages[n].content \in purged'
    BY <1>2, <1>3
  <2>5. ASSUME purged' # {}, NEW i \in 1..count PROVE f.pages[i].kin = {}
    <3>1. dirty.structure \/ purged # {}
      BY <1>1, <1>2, <2>5 DEF GivenUpFits
    <3>2. QED BY <1>3, <3>1
  <2>6. GivenUpIsNamed(base)'
    BY <1>2, <1>15 DEF GivenUpIsNamed, GivenUpIn
  <2>7. QED BY <1>2, <1>6, <2>2, <2>3, <2>4, <2>5, <2>6 DEF GivenUpSettled
<1>17. DiskFits'
  BY <1>1, <1>2, <1>3, <1>15, Written
<1>18. QED BY <1>12, <1>16, <1>17, FreshInvariant, PTL

-----------------------------------------------------------------------------
\* Edits keep the invariant

LEMMA EditEffect ==
  ASSUME SaveInvariant, NEW d, Edit(d)
  PROVE  doc' = d /\ edits' \in 0..MaxEdits /\ UNCHANGED <<base, disk, purged>>
<1>1. edits \in 0..MaxEdits /\ MaxEdits \in Nat
  BY PdfSaveAssumption DEF SaveInvariant, TypesFit
<1>2. QED BY <1>1 DEF Edit

\* Removing, restoring and moving change where pages are and not which.
LEMMA Rearranged ==
  ASSUME SaveInvariant, UNCHANGED <<base, update, disk, purged>>, Restructures,
         edits' \in 0..MaxEdits,
         doc' \in DocumentOf(PdfSlot), WellFormed(doc'),
         Everything(doc') = Everything(doc), doc'.next = doc.next
  PROVE  SaveInvariant'
<1>1. /\ TypesFit /\ BaseFits /\ Sound(update) /\ GivenUpFits /\ DiskFits
  BY DEF SaveInvariant
<1>2. dirty' \in [structure : BOOLEAN, rotations : BOOLEAN]
      /\ dirty'.structure /\ dirty'.rotations = dirty.rotations
  BY <1>1 DEF TypesFit, Restructures
<1>3. TypesFit' /\ BaseFits' /\ StructureFits' /\ DiskFits'
  BY <1>1, <1>2, DiskStays
     DEF TypesFit, BaseFits, Numbers, Places, StructureFits
<1>4. UpdateFits(update)'
  BY <1>1 DEF Sound, UpdateFits, Known, Numbers, Object
<1>5. Backed(update)'
  BY <1>1 DEF Sound, Backed, Known, Numbers, Object
<1>6. RotationsFit(update)'
  BY <1>1, <1>2 DEF Sound, RotationsFit, Unturned, InForce, Numbers, Object
<1>7. ReferencesFit(update)'
  BY <1>1 DEF Sound, ReferencesFit, Numbers, Object
<1>8. GivenUpFits'
  BY <1>1, <1>2, GivenUpStays DEF TypesFit, DocumentOf
<1>9. QED BY <1>3, <1>4, <1>5, <1>6, <1>7, <1>8 DEF SaveInvariant, Sound

LEMMA RemoveSlotKeeps ==
  ASSUME SaveInvariant, RemoveSlot
  PROVE  SaveInvariant'
<1>1. PICK p \in KnownIds(doc) :
        CanRemove(doc, p) /\ Edit(RemovePage(doc, p)) /\ Restructures /\ UNCHANGED update
  BY DEF RemoveSlot
<1>2. doc \in DocumentOf(PdfSlot) /\ WellFormed(doc)
  BY DEF SaveInvariant, TypesFit
<1>3. WellFormed(RemovePage(doc, p))
  BY <1>1, <1>2, AnyRemovalFits
<1>4. LET i == IndexOf(doc, p)
          e == RemovePage(doc, p)
      IN  /\ i \in 1..Len(doc.slots) /\ e \in DocumentOf(PdfSlot)
          /\ e.slots = RemoveAt(doc.slots, i)
          /\ e.removed = doc.removed \cup {doc.slots[i]}
          /\ e.next = doc.next
  BY <1>1, <1>2, AnyRemoval
<1>5. doc.slots \in Seq(PdfSlot)
  BY <1>2 DEF DocumentOf
<1>6. Everything(RemovePage(doc, p)) = Everything(doc)
  BY <1>4, <1>5, MappedAfterRemove DEF Everything
<1>7. /\ doc' = RemovePage(doc, p) /\ edits' \in 0..MaxEdits
      /\ UNCHANGED <<base, disk, purged>>
  BY <1>1, EditEffect
<1>8. QED BY <1>1, <1>3, <1>4, <1>6, <1>7, Rearranged

LEMMA RestoreSlotKeeps ==
  ASSUME SaveInvariant, RestoreSlot
  PROVE  SaveInvariant'
<1>1. PICK p \in KnownIds(doc), at \in 0..PageCount(doc) :
        CanRestore(doc, p, at) /\ Edit(RestorePage(doc, p, at)) /\ Restructures /\ UNCHANGED update
  BY DEF RestoreSlot
<1>2. doc \in DocumentOf(PdfSlot) /\ WellFormed(doc) /\ \A t \in PdfSlot : t.id \in PageId
  BY DEF SaveInvariant, TypesFit, PdfSlot
<1>3. at \in Nat
  OBVIOUS
<1>4. WellFormed(RestorePage(doc, p, at))
  BY <1>1, <1>2, <1>3, AnyRestoringFits
<1>5. PICK s \in doc.removed :
        LET e == RestorePage(doc, p, at)
        IN  /\ s \in PdfSlot /\ at + 1 \in 1..(Len(doc.slots) + 1)
            /\ e \in DocumentOf(PdfSlot)
            /\ e.slots = InsertAt(doc.slots, at + 1, s)
            /\ e.removed = doc.removed \ {s}
            /\ e.next = doc.next
  BY <1>1, <1>2, <1>3, AnyRestoring
<1>6. doc.slots \in Seq(PdfSlot)
  BY <1>2 DEF DocumentOf
<1>7. Mapped(InsertAt(doc.slots, at + 1, s)) = Mapped(doc.slots) \cup {s}
  BY <1>5, <1>6, MappedAfterInsert
<1>8. Everything(RestorePage(doc, p, at)) = Everything(doc)
  BY <1>5, <1>7 DEF Everything
<1>9. /\ doc' = RestorePage(doc, p, at) /\ edits' \in 0..MaxEdits
      /\ UNCHANGED <<base, disk, purged>>
  BY <1>1, EditEffect
<1>10. QED BY <1>1, <1>4, <1>5, <1>8, <1>9, Rearranged

LEMMA MoveSlotKeeps ==
  ASSUME SaveInvariant, MoveSlot
  PROVE  SaveInvariant'
<1>1. PICK p \in KnownIds(doc), to \in 0..PageCount(doc) :
        CanMove(doc, p, to) /\ Edit(MovePage(doc, p, to)) /\ Restructures /\ UNCHANGED update
  BY DEF MoveSlot
<1>2. doc \in DocumentOf(PdfSlot) /\ WellFormed(doc)
  BY DEF SaveInvariant, TypesFit
<1>3. to \in Nat
  OBVIOUS
<1>4. WellFormed(MovePage(doc, p, to))
  BY <1>1, <1>2, <1>3, AnyMovingFits
<1> DEFINE i == IndexOf(doc, p)
           e == MovePage(doc, p, to)
           r == RemoveAt(doc.slots, i)
<1>5. /\ i \in 1..Len(doc.slots) /\ doc.slots[i] \in PdfSlot
      /\ to + 1 \in 1..Len(doc.slots)
      /\ r \in Seq(PdfSlot)
      /\ e \in DocumentOf(PdfSlot)
      /\ e.slots = InsertAt(r, to + 1, doc.slots[i])
      /\ e.removed = doc.removed
      /\ e.next = doc.next
  BY <1>1, <1>2, <1>3, AnyMoving
<1>6. doc.slots \in Seq(PdfSlot)
  BY <1>2 DEF DocumentOf
<1>7. Len(r) = Len(doc.slots) - 1 /\ Mapped(r) \cup {doc.slots[i]} = Mapped(doc.slots)
  BY <1>5, <1>6, MappedAfterRemove, RemoveAtProperties
<1>8. to + 1 \in 1..(Len(r) + 1)
  BY <1>5, <1>6, <1>7, LenProperties
<1> HIDE DEF i, r, e
<1>9. Mapped(e.slots) = Mapped(r) \cup {doc.slots[i]}
  BY <1>5, <1>8, MappedAfterInsert
<1>10. Everything(e) = Everything(doc)
  BY <1>5, <1>7, <1>9 DEF Everything
<1>11. doc' = e /\ edits' \in 0..MaxEdits /\ UNCHANGED <<base, disk, purged>>
  BY <1>1, EditEffect DEF e
<1>12. WellFormed(e)
  BY <1>4 DEF e
<1>13. QED BY <1>1, <1>5, <1>10, <1>11, <1>12, Rearranged

\* A turned page keeps its object and is marked.
LEMMA RotateSlotKeeps ==
  ASSUME SaveInvariant, RotateSlot
  PROVE  SaveInvariant'
<1> DEFINE S == PdfSlot
<1>1. PICK i \in DOMAIN doc.slots, r \in Rotations :
        /\ Edit(Mutated(doc, [doc.slots EXCEPT ![i] = Turned(@, r)], doc.removed, doc.next))
        /\ dirty' = [dirty EXCEPT !.rotations = TRUE]
        /\ UNCHANGED update
  BY DEF RotateSlot
<1> DEFINE slots == [doc.slots EXCEPT ![i] = Turned(doc.slots[i], r)]
           count == PageCount(doc)
<1>2. /\ TypesFit /\ BaseFits /\ Sound(update) /\ StructureFits /\ GivenUpFits /\ DiskFits
  BY DEF SaveInvariant
<1>3. /\ DOMAIN doc.slots = 1..count /\ count \in Nat
      /\ \A j \in DOMAIN doc.slots : doc.slots[j] \in Everything(doc) /\ doc.slots[j] \in PdfSlot
  BY <1>2, SlotObjects
<1>4. /\ doc.slots \in Seq(PdfSlot) /\ doc.removed \in SUBSET PdfSlot /\ doc.next \in Nat
      /\ doc \in DocumentOf(PdfSlot) /\ WellFormed(doc)
  BY <1>2 DEF TypesFit, DocumentOf
<1>5. /\ Turned(doc.slots[i], r) \in PdfSlot
      /\ Turned(doc.slots[i], r).id = doc.slots[i].id
      /\ Turned(doc.slots[i], r).object = doc.slots[i].object
      /\ Turned(doc.slots[i], r).changed
  BY <1>3 DEF Turned, PdfSlot
<1>6. /\ slots \in Seq(PdfSlot) /\ Len(slots) = count /\ DOMAIN slots = 1..count
      /\ \A j \in 1..count :
           slots[j] = IF j = i THEN Turned(doc.slots[i], r) ELSE doc.slots[j]
  BY <1>3, <1>4, <1>5, ExceptSeq DEF PageCount
<1> HIDE DEF slots
<1>7. /\ doc' = Mutated(doc, slots, doc.removed, doc.next)
      /\ doc' \in DocumentOf(PdfSlot)
      /\ doc'.slots = slots /\ doc'.removed = doc.removed /\ doc'.next = doc.next
  <2>1. doc' = Mutated(doc, slots, doc.removed, doc.next)
    BY <1>1, EditEffect DEF slots
  <2>2. QED BY <1>4, <1>6, <2>1, AnyMutated
<1> HIDE DEF count
<1>8. \A j \in 1..count : slots[j].id = doc.slots[j].id /\ slots[j].object = doc.slots[j].object
  BY <1>5, <1>6
<1>9. WellFormed(doc')
  <2>1. KnownIds(doc') = KnownIds(doc)
    BY <1>3, <1>6, <1>7, <1>8 DEF KnownIds
  <2>2. QED BY <1>3, <1>4, <1>6, <1>7, <1>8, <2>1 DEF WellFormed
<1>10. ASSUME NEW s \in Everything(doc')
       PROVE  \/ s \in Everything(doc)
              \/ s = Turned(doc.slots[i], r)
  <2>1. CASE s \in doc.removed
    BY <2>1 DEF Everything
  <2>2. CASE s \notin doc.removed
    <3>1. PICK j \in 1..count : s = slots[j]
      BY <1>6, <1>7, <1>10, <2>2 DEF Everything, Mapped
    <3>2. QED BY <1>3, <1>6, <3>1
  <2>3. QED BY <2>1, <2>2
<1>11. /\ dirty' \in [structure : BOOLEAN, rotations : BOOLEAN]
       /\ dirty'.rotations /\ dirty'.structure = dirty.structure
  BY <1>1, <1>2 DEF TypesFit
<1>12. TypesFit'
  <2>1. edits' \in 0..MaxEdits
    BY <1>1, EditEffect
  <2>2. QED BY <1>7, <1>9, <1>11, <2>1 DEF TypesFit
<1>13. UNCHANGED <<base, update, disk, purged>>
  BY <1>1 DEF Edit
<1>14. BaseFits' /\ DiskFits'
  BY <1>2, <1>13, DiskStays DEF BaseFits, Numbers, Places
<1>15. StructureFits'
  <2>1. PageCount(doc') = count
    BY <1>6, <1>7 DEF PageCount
  <2>2. QED BY <1>2, <1>3, <1>7, <1>8, <1>11, <1>13, <2>1 DEF StructureFits, Places, count
<1>16. ASSUME NEW s \in Everything(doc)
       PROVE  \E t \in Everything(doc') : t.object = s.object
  <2>1. CASE s \in doc.removed
    BY <1>7, <2>1 DEF Everything
  <2>2. CASE s \notin doc.removed
    <3>1. PICK j \in 1..count : s = doc.slots[j]
      BY <1>3, <1>16, <2>2 DEF Everything, Mapped
    <3>2. slots[j] \in Everything(doc')
      BY <1>6, <1>7, <3>1 DEF Everything, Mapped
    <3>3. QED BY <1>8, <3>1, <3>2
  <2>3. QED BY <2>1, <2>2
<1>17. GivenUpFits'
  <2>1. \A t \in Everything(doc') :
          \E s \in Everything(doc) : s.id = t.id /\ s.object = t.object
    BY <1>3, <1>5, <1>10
  <2>2. doc.next \in Nat /\ doc'.next = doc.next /\ (doc'.removed # {} => dirty'.structure)
    BY <1>2, <1>7, <1>11 DEF TypesFit, DocumentOf, GivenUpFits
  <2>3. QED BY <1>2, <1>13, <1>16, <2>1, <2>2, GivenUpStays
<1>18. Sound(update)'
  <2>1. UpdateFits(update)'
    BY <1>2, <1>13 DEF Sound, UpdateFits, Known, Numbers, Object
  <2>2. Backed(update)'
    <3>1. \A s \in Everything(doc') :
            s.object \in Known(update) /\ Object(update, s.object).content = s.id
      BY <1>2, <1>3, <1>5, <1>10 DEF Sound, Backed
    <3>2. QED BY <1>13, <3>1 DEF Backed, Known, Numbers, Object
  <2>3. RotationsFit(update)'
    <3>1. \A s \in Everything(doc') :
            s.changed \/ Object(update, s.object).blank \/ Unturned(update, s)
      BY <1>2, <1>5, <1>10 DEF Sound, RotationsFit
    <3>2. QED BY <1>11, <1>13, <3>1 DEF RotationsFit, Unturned, InForce, Numbers, Object
  <2>4. ReferencesFit(update)'
    BY <1>2, <1>13, <1>16 DEF Sound, ReferencesFit, Numbers, Object
  <2>5. QED BY <2>1, <2>2, <2>3, <2>4 DEF Sound
<1>19. QED BY <1>12, <1>14, <1>15, <1>18, <1>17 DEF SaveInvariant

\* A new page comes with an object of its own, numbered past all there are.
LEMMA AddedKeeps ==
  ASSUME SaveInvariant, NEW slot \in PdfSlot, NEW page \in Page, NEW at \in 0..PageCount(doc),
         Added(slot, page, at),
         slot.id = doc.next, slot.object = NewObject, page.content = doc.next,
         page.kin = {}, slot.changed \/ page.blank, slot.changed => dirty'.rotations,
         dirty' \in [structure : BOOLEAN, rotations : BOOLEAN],
         dirty'.structure, dirty.rotations => dirty'.rotations
  PROVE  SaveInvariant'
<1> DEFINE slots == InsertAt(doc.slots, at + 1, slot)
           o == slot.object
<1>1. /\ TypesFit /\ BaseFits /\ Sound(update) /\ GivenUpFits /\ DiskFits
  BY DEF SaveInvariant
<1>2. /\ doc.slots \in Seq(PdfSlot) /\ doc.removed \in SUBSET PdfSlot /\ doc.next \in Nat
      /\ doc \in DocumentOf(PdfSlot) /\ WellFormed(doc)
      /\ \A t \in PdfSlot : t.id \in PageId
  BY <1>1 DEF TypesFit, DocumentOf, PdfSlot
<1>3. at + 1 \in 1..(Len(doc.slots) + 1)
  BY <1>2, LenProperties DEF PageCount
<1>4. /\ doc' = Mutated(doc, slots, doc.removed, doc.next + 1)
      /\ edits' \in 0..MaxEdits /\ UNCHANGED <<base, disk, purged>>
  BY EditEffect DEF Added
<1>5. slots \in Seq(PdfSlot) /\ doc.next + 1 \in Nat
  BY SMTT(30), <1>2, <1>3, InsertAtProperties
<1>6. /\ doc' \in DocumentOf(PdfSlot)
      /\ doc'.slots = slots /\ doc'.removed = doc.removed /\ doc'.next = doc.next + 1
  <2> HIDE DEF slots
  <2>1. QED BY <1>2, <1>4, <1>5, AnyMutated
<1>7. Mapped(slots) = Mapped(doc.slots) \cup {slot}
  BY <1>2, <1>3, MappedAfterInsert
<1>8. WellFormed(doc')
  <2>1. \A j \in 1..Len(doc.slots) : doc.slots[j].id < doc.next
    BY <1>2 DEF WellFormed, KnownIds
  <2>2. \A t \in doc.removed : t.id < doc.next
    BY <1>2 DEF WellFormed, KnownIds
  <2>3. \A j \in 1..Len(doc.slots) : doc.slots[j].id # slot.id
    BY <1>2, <2>1
  <2>4. \A t \in doc'.removed : t \in doc.removed /\ t.id # slot.id
    BY <1>2, <1>6, <2>2
  <2>5. doc.next <= doc'.next /\ slot.id < doc'.next
    BY <1>2, <1>6
  <2> HIDE DEF slots
  <2>6. doc'.slots = InsertAt(doc.slots, at + 1, slot)
    BY <1>6 DEF slots
  <2>7. QED BY <1>2, <1>3, <1>6, <2>3, <2>4, <2>5, <2>6, AnyInsertion
<1> HIDE DEF slots
<1>9. /\ Everything(doc') = Everything(doc) \cup {slot}
  BY <1>6, <1>7 DEF Everything
<1>10. /\ o = update.max_id + 1 /\ update.max_id \in Nat /\ base.max_id \in Nat
       /\ base.max_id <= update.max_id
  BY <1>1 DEF NewObject, Sound, UpdateFits, BaseFits
<1>11. o \notin Known(update)
  <2>1. \A x \in Known(update) : x \in 1..update.max_id
    BY <1>1, ObjectIsPage DEF Sound
  <2>2. QED BY <1>10, <2>1
<1>12. update' = [update EXCEPT !.pages = Entered([x \in {o} |-> page], update.pages),
                                !.max_id = o]
  BY DEF Added
<1>13. /\ update' = [pages |-> Entered([x \in {o} |-> page], update.pages),
                     kids |-> update.kids, max_id |-> o]
  BY <1>1, <1>12 DEF Sound, UpdateFits
<1>14. DOMAIN update'.pages = DOMAIN update.pages \cup {o}
  BY <1>13 DEF Entered
<1>15. \A x : x # o => Object(update', x) = Object(update, x)
  BY <1>11, <1>13, <1>14 DEF Entered, Object
<1>16. Object(update', o) = page
  BY <1>13, <1>14 DEF Entered, Object
<1>17. Known(update') = Known(update) \cup {o}
  BY <1>14 DEF Known
<1>18. Sound(update)'
  <2>1. UpdateFits(update')
    <3>1. /\ update = [pages |-> update.pages, kids |-> update.kids, max_id |-> update.max_id]
          /\ DOMAIN update.pages \subseteq 1..update.max_id
          /\ \A x \in DOMAIN update.pages : update.pages[x] \in Page
          /\ update.kids \in Seq(Known(update))
          /\ \A x \in Numbers : /\ Object(update, x).content = base.pages[x].content
                                /\ Object(update, x).blank = base.pages[x].blank
      BY <1>1 DEF Sound, UpdateFits
    <3>2. update'.max_id = o /\ o \in Nat /\ base.max_id <= o /\ o \in 1..o
      BY <1>10, <1>13
    <3>3. DOMAIN update'.pages \subseteq 1..o
      BY <1>10, <1>14, <3>1, <3>2
    <3>4. \A x \in DOMAIN update'.pages : update'.pages[x] \in Page
      BY <1>13, <1>14, <3>1 DEF Entered
    <3>5. update'.kids \in Seq(Known(update'))
      BY <1>13, <1>17, <3>1, SeqMonotonic
    <3>6. \A x \in Numbers : x # o
      BY <1>11 DEF Known
    <3>7. QED BY <1>13, <1>15, <3>1, <3>2, <3>3, <3>4, <3>5, <3>6 DEF UpdateFits
  <2>2. \A s \in Everything(doc) : s.object # o /\ s.object \in Known(update)
    BY <1>1, <1>11 DEF Sound, Backed
  <2>3. UpdateFits(update)'
    BY <1>4, <2>1 DEF UpdateFits, Known, Numbers, Object
  <2>4. Backed(update)'
    <3>1. \A s \in Everything(doc') :
            s.object \in Known(update') /\ Object(update', s.object).content = s.id
      BY <1>1, <1>9, <1>15, <1>16, <1>17, <2>2 DEF Sound, Backed
    <3>2. QED BY <1>4, <3>1 DEF Backed, Known, Numbers, Object
  <2>5. RotationsFit(update)'
    <3>1. ASSUME NEW s \in Everything(doc')
          PROVE  IF s.changed THEN dirty'.rotations
                 ELSE Object(update', s.object).blank \/ Unturned(update', s)
      <4>1. CASE s = slot
        BY <1>16, <4>1
      <4>2. CASE s # slot
        BY <1>1, <1>9, <1>15, <2>2, <4>2 DEF Sound, RotationsFit, Unturned
      <4>3. QED BY <4>1, <4>2
    <3>2. QED BY <1>4, <3>1 DEF RotationsFit, Unturned, InForce, Numbers, Object
  <2>6. ReferencesFit(update)'
    <3>1. ReferencesFit(update)
      BY <1>1 DEF Sound
    <3>2. \A x \in DOMAIN update'.pages : \E s \in Everything(doc') : s.object = x
      BY <1>9, <1>14, <3>1 DEF ReferencesFit
    <3>3. \A x \in Numbers : Object(update', x) = Object(update, x)
      BY <1>11, <1>15 DEF Known
    <3>4. ASSUME NEW x \in DOMAIN update'.pages \ Numbers PROVE update'.pages[x].kin = {}
      <4>1. update'.pages[x] = Object(update', x)
        BY DEF Object
      <4>2. CASE x = o
        BY <1>16, <4>1, <4>2
      <4>3. CASE x # o
        <5>1. x \in DOMAIN update.pages /\ Object(update, x) = update.pages[x]
          BY <1>14, <4>3 DEF Object
        <5>2. QED BY <1>15, <3>1, <4>1, <4>3, <5>1 DEF ReferencesFit
      <4>4. QED BY <4>2, <4>3
    <3>5. \A x \in Numbers : /\ Object(update', x).links = base.pages[x].links
                            /\ Object(update', x).kin \in {base.pages[x].kin, {}}
      BY <3>1, <3>3 DEF ReferencesFit
    <3>6. QED BY <1>4, <3>2, <3>4, <3>5 DEF ReferencesFit, Numbers, Object
  <2>7. QED BY <2>3, <2>4, <2>5, <2>6 DEF Sound
<1>19. GivenUpFits'
  <2>1. slot \in Everything(doc') /\ slot.id = doc.next /\ slot.object \notin Numbers
    BY <1>9, <1>11 DEF Known
  <2>2. doc.next \in Nat /\ doc'.next \in Nat /\ doc.next <= doc'.next
    BY <1>2, <1>6
  <2>3. QED BY <1>1, <1>4, <1>9, <2>1, <2>2, GivenUpStays
<1>20. TypesFit' /\ BaseFits' /\ StructureFits' /\ DiskFits'
  BY <1>1, <1>4, <1>6, <1>8, DiskStays DEF TypesFit, BaseFits, Numbers, Places, StructureFits
<1>21. QED BY <1>18, <1>19, <1>20 DEF SaveInvariant

LEMMA AdditionsKeep ==
  ASSUME SaveInvariant, InsertSlot \/ ImportSlot
  PROVE  SaveInvariant'
<1>1. /\ doc.next \in PageId /\ NewObject \in ObjectId
      /\ dirty \in [structure : BOOLEAN, rotations : BOOLEAN]
  BY DEF SaveInvariant, TypesFit, DocumentOf, PageId, Sound, UpdateFits, NewObject, ObjectId
<1>2. CASE InsertSlot
  <2> DEFINE slot == SlotFor(doc.next, NewObject, 0, FALSE)
             page == [content |-> doc.next, blank |-> TRUE, own |-> Absent, node |-> Absent,
                     kin |-> {}, links |-> {}]
  <2>1. PICK at \in 0..PageCount(doc) : Added(slot, page, at) /\ Restructures
    BY <1>2 DEF InsertSlot
  <2>2. /\ slot \in PdfSlot /\ slot.id = doc.next /\ slot.object = NewObject /\ ~slot.changed
    BY <1>1, PageMapAssumption DEF SlotFor, PdfSlot
  <2>3. page \in Page /\ page.content = doc.next /\ page.kin = {} /\ page.blank
    BY <1>1 DEF Page, Key
  <2>4. /\ dirty' \in [structure : BOOLEAN, rotations : BOOLEAN]
        /\ dirty'.structure /\ dirty'.rotations = dirty.rotations
    BY <1>1, <2>1 DEF Restructures
  <2> HIDE DEF slot, page
  <2>5. QED BY <2>1, <2>2, <2>3, <2>4, AddedKeeps
<1>3. CASE ImportSlot
  <2>1. PICK at \in 0..PageCount(doc), copy \in Imports, rotation \in Rotations :
          /\ Added(Imported(NewObject, rotation),
                   [content |-> doc.next, blank |-> FALSE, own |-> copy.own, node |-> Absent,
                    kin |-> {}, links |-> copy.links], at)
          /\ dirty' = [structure |-> TRUE, rotations |-> TRUE]
    BY <1>3 DEF ImportSlot
  <2> DEFINE slot == Imported(NewObject, rotation)
             page == [content |-> doc.next, blank |-> FALSE, own |-> copy.own, node |-> Absent,
                     kin |-> {}, links |-> copy.links]
  <2>2. /\ slot \in PdfSlot /\ slot.id = doc.next /\ slot.object = NewObject /\ slot.changed
    BY <1>1 DEF Imported, SlotFor, PdfSlot
  <2>3. page \in Page /\ page.content = doc.next /\ page.kin = {}
    <3>1. copy.own \in Key /\ copy.links \in SUBSET ObjectId
      BY PdfSaveAssumption
    <3>2. QED BY <1>1, <3>1 DEF Page, Key
  <2>4. Added(slot, page, at) /\ dirty'.structure /\ dirty'.rotations
        /\ dirty' \in [structure : BOOLEAN, rotations : BOOLEAN]
    BY <2>1
  <2> HIDE DEF slot, page
  <2>5. QED BY <2>2, <2>3, <2>4, AddedKeeps
<1>4. QED BY <1>2, <1>3

-----------------------------------------------------------------------------
\* What every behaviour satisfies

THEOREM SavesAreSound == Spec => []SaveInvariant
<1>1. Init => SaveInvariant
  <2> SUFFICES ASSUME Init PROVE SaveInvariant
    OBVIOUS
  <2>1. Fresh /\ GivenUpSettled /\ DiskFits
    BY InitIsFresh
  <2>2. QED BY <2>1, FreshInvariant
<1>2. SaveInvariant /\ [Next]_vars => SaveInvariant'
  <2> SUFFICES ASSUME SaveInvariant, [Next]_vars PROVE SaveInvariant'
    OBVIOUS
  <2>1. CASE RemoveSlot
    BY <2>1, RemoveSlotKeeps
  <2>2. CASE RestoreSlot
    BY <2>2, RestoreSlotKeeps
  <2>3. CASE MoveSlot
    BY <2>3, MoveSlotKeeps
  <2>4. CASE RotateSlot
    BY <2>4, RotateSlotKeeps
  <2>5. CASE InsertSlot \/ ImportSlot
    BY <2>5, AdditionsKeep
  <2>6. CASE SaveIncremental
    BY <2>6, SaveIncrementalKeeps
  <2>7. CASE SaveFails
    BY <2>7, SaveFailsKeeps
  <2>8. CASE SaveCompacted \/ RebaseFails
    BY <2>8, SaveCompactedKeeps, RebaseFailsKeeps
  <2>9. CASE UNCHANGED vars
    <3>1. UNCHANGED <<doc, base, update, dirty, edits, disk, purged>>
      BY <2>9 DEF vars
    <3>2. TypesFit' /\ BaseFits' /\ StructureFits' /\ DiskFits'
      BY <3>1, DiskStays DEF SaveInvariant, TypesFit, BaseFits, Numbers, Places, StructureFits
    <3>3. GivenUpFits'
      BY <3>1, GivenUpUnchanged DEF SaveInvariant
    <3>4. UpdateFits(update)' /\ Backed(update)'
      BY <3>1 DEF SaveInvariant, Sound, UpdateFits, Backed, Known, Numbers, Object
    <3>5. RotationsFit(update)'
      BY <3>1 DEF SaveInvariant, Sound, RotationsFit, Unturned, InForce, Numbers, Object
    <3>6. ReferencesFit(update)'
      BY <3>1 DEF SaveInvariant, Sound, ReferencesFit, Numbers, Object
    <3>7. QED BY <3>2, <3>3, <3>4, <3>5, <3>6 DEF SaveInvariant, Sound
  <2>10. QED BY <2>1, <2>2, <2>3, <2>4, <2>5, <2>6, <2>7, <2>8, <2>9 DEF Next
<1>3. QED BY <1>1, <1>2, PTL DEF Spec

\* Types hold in every state: the files, the update and the document fit.
THEOREM SaveTypesHold == Spec => []TypeOK
<1>1. SaveInvariant => TypeOK
  <2> SUFFICES ASSUME SaveInvariant PROVE TypeOK
    OBVIOUS
  <2>1. /\ TypesFit /\ BaseFits /\ Sound(update) /\ GivenUpFits /\ DiskFits
    BY DEF SaveInvariant
  <2>2. FileTypeOK(Appended(update)) /\ FileTypeOK(disk.file)
    BY <2>1, AppendedIsFile DEF Sound, DiskFits
  <2>3. FileTypeOK(base)
    BY <2>1, BaseIsFile
  <2>4. purged \subseteq PageId
    BY <2>1 DEF GivenUpFits, PageId, TypesFit, DocumentOf
  <2>5. Objects \subseteq DOMAIN base.pages \cup DOMAIN update.pages
    BY <2>1, SlotObjects DEF Sound, Backed, Known, Numbers
  <2>6. ASSUME NEW i \in DOMAIN doc.slots, NEW j \in DOMAIN doc.slots,
               doc.slots[i].object = doc.slots[j].object
        PROVE  i = j
    <3>1. doc.slots[i] = doc.slots[j]
      BY <2>1, <2>6, SlotObjects, ObjectsApart DEF Sound
    <3>2. QED BY <2>1, <3>1 DEF TypesFit, WellFormed
  <2>7. QED BY <2>1, <2>2, <2>3, <2>4, <2>5, <2>6 DEF TypeOK, TypesFit
<1>2. QED BY <1>1, SavesAreSound, PTL

\* Whatever was edited, tried and saved before, a file that a save has written
\* shows on opening what the user saw when saving.
THEOREM SavesShowWhatWasShown == Spec => []SavedFileReopensAsShown
<1>1. SaveInvariant => SavedFileReopensAsShown
  BY DEF SaveInvariant, DiskFits
<1>2. QED BY <1>1, SavesAreSound, PTL

\* While is_clean answers yes, the bytes the document was opened from show it.
THEOREM CleanDocumentsMatchTheirFile == Spec => []CleanMatchesBase
<1>1. SaveInvariant => CleanMatchesBase
  BY CleanShows DEF CleanMatchesBase, FileShows
<1>2. QED BY <1>1, SavesAreSound, PTL

\* A trashed page can be restored with its object; and pages that a compacting
\* save gave up are in a file written after it only as far as something else in
\* that file still leads to them, for any outlines, links and /Pages nodes.
THEOREM TrashIsKeptUntilCompacted == Spec => []ObjectsFollowPages
<1>1. SaveInvariant => ObjectsFollowPages
  <2> SUFFICES ASSUME SaveInvariant PROVE ObjectsFollowPages
    OBVIOUS
  <2>1. Sound(update) /\ GivenUpPagesAreNamed
    BY DEF SaveInvariant, DiskFits
  <2>2. TrashIsBacked
    BY <2>1 DEF Sound, Backed, Everything, TrashIsBacked, Known, Numbers
  <2>3. QED BY <2>1, <2>2 DEF ObjectsFollowPages
<1>2. QED BY <1>1, SavesAreSound, PTL
=============================================================================
