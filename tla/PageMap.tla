------------------------------ MODULE PageMap ------------------------------
(***************************************************************************)
(* The page identity layer of one open document (opdf-pdf/src/page_map.rs  *)
(* and the mutations of opdf-pdf/src/document.rs): which pages the         *)
(* document has, in which order, which removed pages its trash still       *)
(* holds, and the revision every successful mutation advances.             *)
(*                                                                         *)
(* A document is a record                                                  *)
(*   slots    the mapped pages in document order                           *)
(*   removed  the trash, a set: the code looks a slot up by identity       *)
(*   next     the identity the allocator hands out next                    *)
(*   revision a wrapping counter, compared for equality only               *)
(* A slot keeps what an edit can change: its identity and its rotation.    *)
(* Positions are counted from 0, as in the code; sequences from 1.         *)
(***************************************************************************)
EXTENDS Integers, Sequences, FiniteSets, SequencesExt

CONSTANTS
  Rotations,       \* the quarter turns a page may carry, 0..3 in the code
  RevisionModulus  \* the counter is a u64, so 2^64 in the code

ASSUME PageMapAssumption ==
  /\ Rotations \subseteq 0..3
  /\ 0 \in Rotations
  /\ RevisionModulus \in Nat \ {0, 1}

PageId == Nat
Revision == 0..(RevisionModulus - 1)
Slot == [id : PageId, rotation : Rotations]
Document ==
  [slots : Seq(Slot), removed : SUBSET Slot, next : Nat, revision : Revision]

-----------------------------------------------------------------------------
\* Inspection

\* Whether document d maps page p.
Holds(d, p) == \E i \in DOMAIN d.slots : d.slots[i].id = p

\* The index in d.slots of the first slot of page p.
IndexOf(d, p) ==
  CHOOSE i \in DOMAIN d.slots :
    /\ d.slots[i].id = p
    /\ \A j \in DOMAIN d.slots : d.slots[j].id = p => i <= j

\* Whether page p is in the trash of d.
Trashed(d, p) == \E s \in d.removed : s.id = p

\* Every identity that still names a page of d, trashed ones included.
KnownIds(d) == {d.slots[i].id : i \in DOMAIN d.slots} \cup {s.id : s \in d.removed}

PageCount(d) == Len(d.slots)

-----------------------------------------------------------------------------
\* Mutations: the document after a call that the guard beside it accepts. A
\* call the guard rejects returns an error and changes nothing.

\* Faulty variant: a mutation that forgets to advance the revision.
AdvanceRevisionForgets(r) == r

AdvanceRevision(r) == (r + 1) % RevisionModulus

\* Document d after a mutation that leaves these pages behind.
Mutated(d, slots, removed, next) ==
  [slots |-> slots, removed |-> removed, next |-> next,
   revision |-> AdvanceRevision(d.revision)]

CanRemove(d, p) == Holds(d, p)

\* Faulty variant: the removed slot is dropped instead of being trashed.
RemovePageForgets(d, p) ==
  Mutated(d, RemoveAt(d.slots, IndexOf(d, p)), d.removed, d.next)

RemovePage(d, p) ==
  LET i == IndexOf(d, p)
  IN  Mutated(d, RemoveAt(d.slots, i), d.removed \cup {d.slots[i]}, d.next)

CanRestore(d, p, at) == ~Holds(d, p) /\ Trashed(d, p) /\ at <= PageCount(d)

\* Faulty variant: the restored slot stays in the trash as well.
RestorePageKeepsTrash(d, p, at) ==
  LET s == CHOOSE s \in d.removed : s.id = p
  IN  Mutated(d, InsertAt(d.slots, at + 1, s), d.removed, d.next)

RestorePage(d, p, at) ==
  LET s == CHOOSE s \in d.removed : s.id = p
  IN  Mutated(d, InsertAt(d.slots, at + 1, s), d.removed \ {s}, d.next)

CanMove(d, p, to) == Holds(d, p) /\ to <= PageCount(d) - 1

MovePage(d, p, to) ==
  LET i == IndexOf(d, p)
  IN  Mutated(d, InsertAt(RemoveAt(d.slots, i), to + 1, d.slots[i]), d.removed, d.next)

CanRotate(d, p) == Holds(d, p)

SetRotation(d, p, r) ==
  LET turned == [id |-> p, rotation |-> r]
  IN  Mutated(d, [d.slots EXCEPT ![IndexOf(d, p)] = turned], d.removed, d.next)

CanInsert(d, at) == at <= PageCount(d)

InsertPage(d, at) ==
  LET blank == [id |-> d.next, rotation |-> 0]
  IN  Mutated(d, InsertAt(d.slots, at + 1, blank), d.removed, d.next + 1)

CanImport(d, source, ids, at) ==
  /\ at <= PageCount(d)
  /\ \A i \in DOMAIN ids : Holds(source, ids[i])

\* Faulty variant: the copies keep the identities they had in their source.
ImportPagesUnderOldIds(d, source, ids, at) ==
  LET copies == [i \in DOMAIN ids |-> source.slots[IndexOf(source, ids[i])]]
  IN  Mutated(d, SubSeq(d.slots, 1, at) \o copies \o SubSeq(d.slots, at + 1, Len(d.slots)),
              d.removed, d.next + Len(ids))

\* The identities the next n pages of d are given.
FreshIds(d, n) == [i \in 1..n |-> d.next + i - 1]

\* Pages of another document, copied in the order asked for.
ImportPages(d, source, ids, at) ==
  LET copy(i) == [id |-> d.next + i - 1,
                  rotation |-> source.slots[IndexOf(source, ids[i])].rotation]
      copies == [i \in DOMAIN ids |-> copy(i)]
  IN  Mutated(d, SubSeq(d.slots, 1, at) \o copies \o SubSeq(d.slots, at + 1, Len(d.slots)),
              d.removed, d.next + Len(ids))

\* A compacting save gives the trashed slots up for good, and with them their
\* identities. It is not a mutation: the pages stay as they were and so does the
\* revision.
PurgeTrash(d) ==
  [slots |-> d.slots, removed |-> {}, next |-> d.next, revision |-> d.revision]

\* A document as it is parsed: its pages numbered in file order, nothing in
\* the trash, revision 0.
Opened(rotationOf) ==
  [slots |-> [i \in DOMAIN rotationOf |-> [id |-> i - 1, rotation |-> rotationOf[i]]],
   removed |-> {},
   next |-> Len(rotationOf),
   revision |-> 0]

-----------------------------------------------------------------------------
\* What every reachable document satisfies: an identity names one slot, mapped
\* or trashed and never both, and the allocator is past all of them.
WellFormed(d) ==
  /\ \A i, j \in DOMAIN d.slots : d.slots[i].id = d.slots[j].id => i = j
  /\ \A s, t \in d.removed : s.id = t.id => s = t
  /\ \A i \in DOMAIN d.slots : \A s \in d.removed : d.slots[i].id # s.id
  /\ \A p \in KnownIds(d) : p < d.next
=============================================================================
