---------------------------- MODULE PageObjects ----------------------------
(***************************************************************************)
(* The object graph of a PDF as opdf-pdf reads it (objects.rs, geometry.rs)*)
(* A source is a function from object numbers to objects; an object is a   *)
(* reference, an atom (any direct value that holds no reference) or a      *)
(* dictionary. The items of an array, and what a direct dictionary or a    *)
(* stream holds, count as entries of the dictionary they are part of.      *)
(***************************************************************************)
EXTENDS Integers, FiniteSets

CONSTANTS
  ParentLimit,     \* PARENT_CHAIN_LIMIT, 64 in the code
  ReferenceLimit,  \* REFERENCE_CHAIN_LIMIT, 32 in the code
  Sizes,           \* the atoms that are a legible media box
  DefaultSize,     \* DEFAULT_PAGE_SIZE
  Degrees          \* the atoms that are integers: atom -> integer

ASSUME PageObjectsAssumption ==
  ParentLimit \in Nat \ {0} /\ ReferenceLimit \in Nat \ {0}

Ref(o) == [ref |-> o]
Atom(a) == [atom |-> a]
Dict(type, entries) == [type |-> type, entries |-> entries]
Nothing == [nothing |-> TRUE]

IsRef(v) == "ref" \in DOMAIN v
IsAtom(v) == "atom" \in DOMAIN v
IsDict(v) == "entries" \in DOMAIN v

\* lopdf numbers objects from 1.
NoObject == 0

FindObject(source, o) == IF o \in DOMAIN source THEN source[o] ELSE Nothing
Has(source, o, key) == IsDict(FindObject(source, o)) /\ key \in DOMAIN source[o].entries

InheritableKeys == {"Resources", "MediaBox", "CropBox", "Rotate"}

-----------------------------------------------------------------------------
\* What a value is after following up to so many references.
ReferenceChain(source, v) ==
  LET current[n \in 0..(ReferenceLimit - 1)] ==
        IF n = 0 THEN v
        ELSE IF IsRef(current[n - 1]) THEN FindObject(source, current[n - 1].ref)
        ELSE current[n - 1]
  IN  current

\* The value a chain of references names, unless the chain is broken or the
\* limit ends it.
ResolveReference(source, v) ==
  LET last == ReferenceChain(source, v)[ReferenceLimit - 1]
  IN  IF IsRef(last) THEN Nothing ELSE last

ParentOf(source, o) ==
  IF Has(source, o, "Parent") /\ IsRef(source[o].entries["Parent"])
  THEN source[o].entries["Parent"].ref
  ELSE NoObject

\* The page's own value, or that of the nearest ancestor within the limit that
\* has one: a reference is returned as it is.
FindInherited(source, page, key) ==
  LET current[n \in 0..(ParentLimit - 1)] ==
        IF n = 0 THEN page ELSE ParentOf(source, current[n - 1])
      carriers == {n \in 0..(ParentLimit - 1) : Has(source, current[n], key)}
      nearest == CHOOSE n \in carriers : \A m \in carriers : n <= m
  IN  IF carriers = {} THEN Nothing ELSE source[current[nearest]].entries[key]

IsPageNode(source, o) ==
  IsDict(FindObject(source, o)) /\ source[o].type \in {"Page", "Pages"}

-----------------------------------------------------------------------------
\* read_page_size: anything but a legible box is the default.
ReadPageSize(source, page) ==
  LET box == ResolveReference(source, FindInherited(source, page, "MediaBox"))
  IN  IF IsAtom(box) /\ box.atom \in Sizes THEN box.atom ELSE DefaultSize

\* read_page_rotation, in quarter turns: any multiple of 90 degrees, or none.
ReadPageRotation(source, page) ==
  LET turn == ResolveReference(source, FindInherited(source, page, "Rotate"))
  IN  IF IsAtom(turn) /\ turn.atom \in DOMAIN Degrees /\ Degrees[turn.atom] % 90 = 0
      THEN (Degrees[turn.atom] \div 90) % 4
      ELSE 0

-----------------------------------------------------------------------------
\* collect_references: what a value refers to, other than as its parent.
CollectReferences(v) ==
  CASE IsRef(v) -> {v.ref}
    [] IsDict(v) -> {v.entries[k].ref : k \in {k \in DOMAIN v.entries \ {"Parent"} : IsRef(v.entries[k])}}
    [] OTHER -> {}

Renamed(v, mapping) ==
  IF IsRef(v) /\ v.ref \in DOMAIN mapping THEN Ref(mapping[v.ref]) ELSE v

\* remap_references: those of the mapping are rewritten, a parent's as well;
\* others are left alone.
RemapReferences(v, mapping) ==
  IF IsDict(v)
  THEN [v EXCEPT !.entries = [k \in DOMAIN v.entries |-> Renamed(v.entries[k], mapping)]]
  ELSE Renamed(v, mapping)
=============================================================================
