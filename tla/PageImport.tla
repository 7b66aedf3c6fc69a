----------------------------- MODULE PageImport -----------------------------
(***************************************************************************)
(* PdfDocument::import_pages (opdf-pdf/src/document.rs) object by object:  *)
(* copy_page_into (objects.rs) walks what each page reaches in the source, *)
(* gives every object a number of its own in the target, and writes the    *)
(* copies; the page then hangs from the target's root.                     *)
(*                                                                         *)
(* The graphs are arbitrary: cycles, broken references, links to other     *)
(* pages, attributes inherited through a chain of parents or through a     *)
(* chain of references. The numbers of the two documents overlap.          *)
(***************************************************************************)
EXTENDS PageObjects, Sequences, SequencesExt, Functions

CONSTANTS
  Sources,   \* the object graphs pages are imported from
  Target,    \* the objects of the document they are imported into
  Root,      \* its root /Pages node
  MaxImport  \* bound: pages in one import

ASSUME PageImportAssumption ==
  /\ MaxImport \in Nat
  /\ \A s \in Sources : DOMAIN s \subseteq Nat \ {NoObject}
  /\ DOMAIN Target \subseteq Nat \ {NoObject}

VARIABLES
  source,   \* the objects of the source document, its update merged in
  target,   \* those of the target
  todo,     \* page objects still to be copied
  walk,     \* the copy under way, or None
  copies    \* the copies made, in order: page, copy and, auxiliary, mapping

vars == <<source, target, todo, walk, copies>>

None == <<>>

\* The page objects a page tree lists (lopdf's page_iter): no other object has
\* a slot.
PagesOf(s) == {o \in DOMAIN s : IsDict(s[o]) /\ s[o].type = "Page"}

Init ==
  /\ source \in Sources
  /\ todo \in UNION {[1..n -> PagesOf(source)] : n \in 0..MaxImport}
  /\ target = Target
  /\ walk = None /\ copies = <<>>

-----------------------------------------------------------------------------
\* new_object_id: one more than the largest number given out, written or not.
NumbersGiven ==
  DOMAIN target \cup (IF walk = None THEN {} ELSE Range(walk.mapping))
NewObjectId == 1 + (CHOOSE o \in NumbersGiven : \A n \in NumbersGiven : n <= o)

\* Faulty variant: links to pages are followed.
FollowedThroughPages(refs, seen) == {o \in refs \ seen : o \in DOMAIN source}

\* An object that a copy takes along: one that exists and is no page tree's.
IsCopied(o) == o \in DOMAIN source /\ ~IsPageNode(source, o)

\* What the walk goes on to from these references: what it has not seen before.
Followed(refs, seen) == {o \in refs \ seen : IsCopied(o)}

InheritedBy(page) ==
  [k \in {k \in InheritableKeys : FindInherited(source, page, k) # Nothing} |->
     FindInherited(source, page, k)]

\* copy_page_into begins: what the page inherits, and what that refers to.
BeginCopy ==
  /\ walk = None /\ todo # <<>>
  /\ IsDict(FindObject(source, Head(todo)))
  /\ LET page == Head(todo)
         inherited == InheritedBy(page)
         refs == UNION {CollectReferences(inherited[k]) : k \in DOMAIN inherited}
     IN  walk' = [page      |-> page,
                  inherited |-> inherited,
                  pending   |-> {page} \cup Followed(refs, {page}),
                  seen      |-> {page} \cup refs,
                  mapping   |-> <<>>]
  /\ todo' = Tail(todo)
  /\ UNCHANGED <<source, target, copies>>

\* Faulty variant: what was seen is forgotten, and numbered as before.
VisitAgain ==
  /\ walk # None
  /\ \E o \in walk.pending :
       LET refs == CollectReferences(source[o])
           Number(n) == IF n \in DOMAIN walk.mapping THEN walk.mapping[n] ELSE NewObjectId
       IN  walk' = [walk EXCEPT !.mapping = [n \in DOMAIN @ \cup {o} |-> Number(n)],
                                !.pending = (@ \ {o}) \cup Followed(refs, {})]
  /\ UNCHANGED <<source, target, todo, copies>>

\* Pass one, one object of the stack. Which one comes off it depends on the
\* order of the entries, which is left open.
Visit ==
  /\ walk # None
  /\ \E o \in walk.pending :
       LET refs == CollectReferences(source[o])
       IN  walk' = [walk EXCEPT
                      !.mapping = [n \in DOMAIN @ \cup {o} |-> IF n = o THEN NewObjectId ELSE @[n]],
                      !.pending = (@ \ {o}) \cup Followed(refs, walk.seen),
                      !.seen    = @ \cup refs]
  /\ UNCHANGED <<source, target, todo, copies>>

\* The entries of the copied page: its own but /Parent, and what it inherited.
StandingAlone(entries, inherited) ==
  [k \in (DOMAIN entries \ {"Parent"}) \cup DOMAIN inherited |->
     IF k \in DOMAIN entries THEN entries[k] ELSE inherited[k]]

WrittenPage(copied, inherited, mapping) ==
  [copied EXCEPT !.entries =
     StandingAlone(@, [k \in DOMAIN inherited |-> RemapReferences(inherited[k], mapping)])]

\* Pass two: every object is written under its new number, the page with what
\* it inherited, and the page is given its slot.
WriteCopy ==
  /\ walk # None /\ walk.pending = {}
  /\ LET mapping == walk.mapping
         written == [n \in Range(mapping) |->
                       RemapReferences(source[CHOOSE o \in DOMAIN mapping : mapping[o] = n], mapping)]
         copy == mapping[walk.page]
         objects == [written EXCEPT ![copy] = WrittenPage(@, walk.inherited, mapping)]
     IN  /\ target' = [n \in DOMAIN target \cup DOMAIN objects |->
                         IF n \in DOMAIN objects THEN objects[n] ELSE target[n]]
         /\ copies' = Append(copies, [page |-> walk.page, copy |-> copy, mapping |-> mapping])
  /\ walk' = None
  /\ UNCHANGED <<source, todo>>

Next == BeginCopy \/ Visit \/ WriteCopy

Spec == Init /\ [][Next]_vars

\* import_pages runs to its end: nothing else has the document meanwhile.
FairSpec == Spec /\ WF_todo(BeginCopy) /\ WF_walk(Visit) /\ WF_copies(WriteCopy)

-----------------------------------------------------------------------------
\* Properties

\* What a page needs: itself, what it and its inherited values refer to, and so
\* on, up to the nodes of page trees.
Needed(page) ==
  LET Beyond(objects) ==
        objects \cup {o \in UNION {CollectReferences(source[n]) : n \in objects} :
                        IsCopied(o)}
      given == UNION {CollectReferences(InheritedBy(page)[k]) : k \in DOMAIN InheritedBy(page)}
      reached[n \in 0..Cardinality(DOMAIN source)] ==
        IF n = 0
        THEN {page} \cup {o \in given : IsCopied(o)}
        ELSE Beyond(reached[n - 1])
  IN  reached[Cardinality(DOMAIN source)]

\* rewrite_page_tree hangs the copy from the root of its new document.
Attached(page) ==
  [target EXCEPT ![page] =
     Dict("Page", [k \in DOMAIN @.entries \cup {"Parent"} |->
                     IF k = "Parent" THEN Ref(Root) ELSE @.entries[k]])]

\* "The copy shares nothing with the source", nor with anything else: a copied
\* page has its own copy of exactly what it needs; among them the references
\* lead where they led in the source, and the only ones that were left alone
\* go to a page tree, to nothing, or up to a /Parent that no value names.
\* Nothing that was in the target has changed.
CopiesAreWhole ==
  /\ \A n \in DOMAIN Target : target[n] = Target[n]
  /\ \A i \in DOMAIN copies :
       LET m == copies[i].mapping
           Led(v, w) == \/ v = w /\ ~IsRef(v)
                        \/ IsRef(v) /\ v.ref \in DOMAIN m /\ w = Ref(m[v.ref])
           LeftAlone(v, w, key) ==
             v = w /\ IsRef(v) /\ (~IsCopied(v.ref) \/ key = "Parent")
       IN  /\ DOMAIN m = Needed(copies[i].page)
           /\ IsInjective(m)
           /\ Range(m) \cap DOMAIN Target = {}
           /\ \A j \in DOMAIN copies : i # j => Range(m) \cap Range(copies[j].mapping) = {}
           /\ \A o \in DOMAIN m \ {copies[i].page} :
                IF IsDict(source[o])
                THEN /\ DOMAIN target[m[o]].entries = DOMAIN source[o].entries
                     /\ target[m[o]].type = source[o].type
                     /\ \A k \in DOMAIN source[o].entries :
                          \/ Led(source[o].entries[k], target[m[o]].entries[k])
                          \/ LeftAlone(source[o].entries[k], target[m[o]].entries[k], k)
                ELSE \/ Led(source[o], target[m[o]])
                     \/ LeftAlone(source[o], target[m[o]], "")

\* An attribute of a copy, under its new root, resolves to the same value as
\* the original's, its size and its turn among them.
ReadsAlike(made, k) ==
  LET there == Attached(made.copy)
      Value(s, p) == ResolveReference(s, FindInherited(s, p, k))
  IN  /\ Value(there, made.copy) = RemapReferences(Value(source, made.page), made.mapping)
      /\ k = "MediaBox" => ReadPageSize(there, made.copy) = ReadPageSize(source, made.page)
      /\ k = "Rotate" => ReadPageRotation(there, made.copy) = ReadPageRotation(source, made.page)

\* What a page states or inherits, and whether a copy takes it along: none of
\* the references that lead to it is to a page tree or to nothing.
HasAttribute(page, k) == FindInherited(source, page, k) # Nothing
TakenAlong(page, k) ==
  LET chain == ReferenceChain(source, FindInherited(source, page, k))
  IN  \A n \in DOMAIN chain : IsRef(chain[n]) => IsCopied(chain[n].ref)

\* A copied page reads as the original did, in every attribute that could be
\* taken along. (One it had from nowhere it may now inherit. One that named no
\* object, or one of a page tree, keeps that number: nothing "overwrites" it, and
\* the target's own object, or a later copy's, may be what it names there.)
CopiesReadAsTheirOriginals ==
  \A i \in DOMAIN copies, k \in InheritableKeys :
    HasAttribute(copies[i].page, k) /\ TakenAlong(copies[i].page, k) => ReadsAlike(copies[i], k)

\* A copied page is the page it was copied from: complete, private, and read
\* the same way but for what could not be taken along.
CopiesAreFaithful == CopiesAreWhole /\ CopiesReadAsTheirOriginals

\* An import of pages the document has ends, whatever cycles their objects and
\* their parents make, and it ends with all of them copied.
ImportEnds == <>[](todo = <<>> /\ walk = None)
=============================================================================
