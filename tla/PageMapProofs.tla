--------------------------- MODULE PageMapProofs ---------------------------
(***************************************************************************)
(* What the undo history, the composite commands and the saved files rest  *)
(* on, for every document: each mutation of PageMap keeps a document well  *)
(* formed, whatever its slots keep beside an identity; a command's inverse *)
(* brings back what the command changed (InverseLaw); and an inverse       *)
(* computed for one document works on any other that shows the same pages  *)
(* with at least the same trash (StandInLaw), such as the document a later *)
(* undo and redo, or the rollback of a step after it, produced.            *)
(***************************************************************************)
EXTENDS Commands, SequenceTheorems, NaturalsInduction, WellFoundedInduction, TLAPS

-----------------------------------------------------------------------------
\* Induction and recursion. The library's induction theorems are about an operator;
\* these are about a set, which every backend can instantiate.

LEMMA LeastNumber ==
  ASSUME NEW T \in SUBSET Nat, T # {}
  PROVE  \E n \in T : \A m \in T : n <= m
<1> DEFINE R == OpToRel(<, Nat)
<1>1. \A x, y \in Nat : <<x, y>> \in R <=> x < y
  BY DEF OpToRel
<1>2. IsWellFoundedOn(R, Nat)
  BY NatLessThanWellFounded
<1> HIDE DEF R
<1>3. PICK x \in T : \A y \in T : ~ (<<y, x>> \in R)
  BY <1>2, WFMin
<1>4. ASSUME NEW y \in T PROVE x <= y
  <2>1. x \in Nat /\ y \in Nat
    OBVIOUS
  <2>2. ~(y < x)
    BY <1>1, <1>3, <2>1
  <2>3. QED BY <2>1, <2>2
<1>5. QED BY <1>4

\* Induction over the natural numbers, for the set of those that something holds of.
LEMMA EveryNumber ==
  ASSUME NEW T, 0 \in T, \A n \in Nat : n \in T => n + 1 \in T
  PROVE  \A n \in Nat : n \in T
<1> SUFFICES ASSUME NEW k \in Nat, k \notin T
             PROVE  FALSE
  OBVIOUS
<1> DEFINE bad == {n \in Nat : n \notin T}
<1>1. PICK x \in bad : \A m \in bad : x <= m
  <2>1. bad \in SUBSET Nat /\ bad # {}
    OBVIOUS
  <2> HIDE DEF bad
  <2>2. QED BY <2>1, LeastNumber
<1>2. x \in Nat /\ x # 0 /\ x \notin T
  OBVIOUS
<1>3. x - 1 \in Nat /\ x - 1 \notin bad
  BY <1>1, <1>2
<1>4. x - 1 \in T
  BY <1>3
<1>5. x \in T
  BY <1>2, <1>4
<1>6. QED BY <1>2, <1>5

\* A recursion over the numbers up to n that stays inside a set defines a function.
Recurs(k, S, base, F, f) ==
  f \in [0..k -> S] /\ f[0] = base /\ \A i \in 1..k : f[i] = F[<<i, f[i - 1]>>]

LEMMA RecursionDefines ==
  ASSUME NEW n \in Nat, NEW S, NEW base \in S, NEW F \in [(1..n) \X S -> S]
  PROVE  \E f : Recurs(n, S, base, F, f)
<1> DEFINE Upto(k, f) == f[0] = base /\ \A i \in 1..k : f[i] = F[<<i, f[i - 1]>>]
           T == {k \in Nat : k <= n => \E f \in [0..k -> S] : Upto(k, f)}
<1>1. 0 \in T
  <2>1. [i \in 0..0 |-> base] \in [0..0 -> S] /\ Upto(0, [i \in 0..0 |-> base])
    OBVIOUS
  <2>2. QED BY <2>1
<1>2. ASSUME NEW k \in Nat, k \in T PROVE k + 1 \in T
  <2>1. CASE ~(k + 1 <= n)
    BY <2>1
  <2>2. CASE k + 1 <= n
    <3>1. PICK f \in [0..k -> S] : Upto(k, f)
      BY <1>2, <2>2
    <3> DEFINE g == [i \in 0..(k + 1) |-> IF i <= k THEN f[i] ELSE F[<<k + 1, f[k]>>]]
    <3>2. f[k] \in S /\ <<k + 1, f[k]>> \in (1..n) \X S
      BY <2>2
    <3>3. F[<<k + 1, f[k]>>] \in S
      BY <3>2
    <3>4. g \in [0..(k + 1) -> S]
      BY <3>3
    <3>5. \A i \in 0..k : g[i] = f[i]
      OBVIOUS
    <3>6. g[k + 1] = F[<<k + 1, f[k]>>]
      OBVIOUS
    <3> HIDE DEF g
    <3>7. ASSUME NEW i \in 1..(k + 1) PROVE g[i] = F[<<i, g[i - 1]>>]
      <4>1. CASE i = k + 1
        BY <3>5, <3>6, <4>1
      <4>2. CASE i # k + 1
        <5>1. i \in 1..k /\ i \in 0..k /\ i - 1 \in 0..k
          BY <4>2
        <5>2. QED BY <3>1, <3>5, <5>1
      <4>3. QED BY <4>1, <4>2
    <3>8. Upto(k + 1, g)
      BY <3>1, <3>5, <3>7
    <3>9. QED BY <3>4, <3>8
  <2>3. QED BY <2>1, <2>2
<1> HIDE DEF T
<1>3. n \in T
  BY <1>1, <1>2, EveryNumber
<1>4. QED BY <1>3 DEF T, Recurs

-----------------------------------------------------------------------------
\* Inserting into and removing from a sequence, element by element
\* (Vec::insert and Vec::remove).

\* Vec::insert shifts the tail up by one place.
LEMMA InsertAtProperties ==
  ASSUME NEW S, NEW s \in Seq(S), NEW i \in 1..(Len(s) + 1), NEW e \in S
  PROVE  /\ InsertAt(s, i, e) \in Seq(S)
         /\ Len(InsertAt(s, i, e)) = Len(s) + 1
         /\ \A j \in 1..(Len(s) + 1) :
              InsertAt(s, i, e)[j] = IF j < i THEN s[j]
                                     ELSE IF j = i THEN e ELSE s[j - 1]
<1> DEFINE before == SubSeq(s, 1, i - 1)
           after == SubSeq(s, i, Len(s))
<1>1. /\ before \in Seq(S)
      /\ Len(before) = i - 1
      /\ \A j \in 1..(i - 1) : before[j] = s[j]
  <2>1. \A j \in 1..(i - 1) : s[j] \in S
    BY ElementOfSeq, LenProperties
  <2>2. QED BY <2>1, SubSeqProperties, LenProperties
<1>2. /\ after \in Seq(S)
      /\ Len(after) = Len(s) - i + 1
      /\ \A j \in 1..(Len(s) - i + 1) : after[j] = s[i + j - 1]
  <2>1. \A j \in i..Len(s) : s[j] \in S
    BY ElementOfSeq, LenProperties
  <2>2. QED BY <2>1, SubSeqProperties, LenProperties
<1>3. /\ before \o <<e>> \in Seq(S)
      /\ Len(before \o <<e>>) = i
      /\ \A j \in 1..i : (before \o <<e>>)[j] = IF j < i THEN s[j] ELSE e
  BY <1>1
<1> DEFINE front == before \o <<e>>
<1>4. InsertAt(s, i, e) = front \o after
  BY DEF InsertAt
<1>5. /\ front \in Seq(S)
      /\ Len(front) = i
      /\ \A j \in 1..i : front[j] = IF j < i THEN s[j] ELSE e
  BY <1>3
<1> HIDE DEF before, after, front
<1>6. /\ front \o after \in Seq(S)
      /\ Len(front \o after) = Len(s) + 1
      /\ \A j \in 1..(Len(s) + 1) :
           (front \o after)[j] = IF j <= i THEN front[j] ELSE after[j - i]
  BY <1>2, <1>5, ConcatProperties
<1>7. \A j \in 1..(Len(s) + 1) : j > i => after[j - i] = s[j - 1]
  BY <1>2
<1>8. QED BY <1>4, <1>5, <1>6, <1>7

\* Vec::remove shifts the tail down by one place.
LEMMA RemoveAtProperties ==
  ASSUME NEW S, NEW s \in Seq(S), NEW i \in 1..Len(s)
  PROVE  /\ RemoveAt(s, i) \in Seq(S)
         /\ Len(RemoveAt(s, i)) = Len(s) - 1
         /\ \A j \in 1..(Len(s) - 1) :
              RemoveAt(s, i)[j] = IF j < i THEN s[j] ELSE s[j + 1]
<1> DEFINE before == SubSeq(s, 1, i - 1)
           after == SubSeq(s, i + 1, Len(s))
<1>1. /\ before \in Seq(S)
      /\ Len(before) = i - 1
      /\ \A j \in 1..(i - 1) : before[j] = s[j]
  <2>1. \A j \in 1..(i - 1) : s[j] \in S
    BY ElementOfSeq, LenProperties
  <2>2. QED BY <2>1, SubSeqProperties, LenProperties
<1>2. /\ after \in Seq(S)
      /\ Len(after) = Len(s) - i
      /\ \A j \in 1..(Len(s) - i) : after[j] = s[i + j]
  <2>1. \A j \in (i + 1)..Len(s) : s[j] \in S
    BY ElementOfSeq, LenProperties
  <2>2. QED BY <2>1, SubSeqProperties, LenProperties
<1>3. RemoveAt(s, i) = before \o after
  BY DEF RemoveAt
<1> HIDE DEF before, after
<1>4. Len(s) \in Nat /\ i \in Nat /\ i >= 1 /\ i <= Len(s)
  BY LenProperties
<1>5. /\ before \o after \in Seq(S)
      /\ Len(before \o after) = Len(before) + Len(after)
      /\ \A j \in 1..(Len(before) + Len(after)) :
           (before \o after)[j] = IF j <= Len(before) THEN before[j]
                                  ELSE after[j - Len(before)]
  BY <1>1, <1>2, ConcatProperties
<1>6. ASSUME NEW j \in 1..(Len(s) - 1)
      PROVE  (before \o after)[j] = IF j < i THEN s[j] ELSE s[j + 1]
  <2>1. j \in 1..(Len(before) + Len(after))
    BY <1>1, <1>2, <1>4
  <2>2. CASE j < i
    <3>1. j <= Len(before) /\ j \in 1..(i - 1)
      BY <1>1, <1>4, <2>2
    <3>2. QED BY <1>1, <1>5, <2>1, <2>2, <3>1
  <2>3. CASE ~(j < i)
    <3>1. ~(j <= Len(before)) /\ j - Len(before) = j - i + 1
      BY <1>1, <1>4, <2>3
    <3>2. (before \o after)[j] = after[j - i + 1]
      BY <1>5, <2>1, <3>1
    <3>3. j - i + 1 \in 1..(Len(s) - i) /\ i + (j - i + 1) = j + 1
      BY <1>4, <2>3
    <3>4. QED BY <1>2, <2>3, <3>2, <3>3
  <2>4. QED BY <2>2, <2>3
<1>7. Len(before \o after) = Len(s) - 1
  BY <1>1, <1>2, <1>4, <1>5
<1>8. QED BY <1>3, <1>5, <1>6, <1>7

\* Putting an element back where it was taken from restores the sequence.
LEMMA InsertUndoesRemove ==
  ASSUME NEW S, NEW s \in Seq(S), NEW i \in 1..Len(s)
  PROVE  InsertAt(RemoveAt(s, i), i, s[i]) = s
<1>1. PICK r \in Seq(S) :
        /\ r = RemoveAt(s, i)
        /\ Len(r) = Len(s) - 1
        /\ \A j \in 1..(Len(s) - 1) : r[j] = IF j < i THEN s[j] ELSE s[j + 1]
  BY RemoveAtProperties
<1>2. PICK e \in S : e = s[i]
  OBVIOUS
<1>3. i \in 1..(Len(r) + 1)
  BY <1>1
<1>4. PICK t \in Seq(S) :
        /\ t = InsertAt(r, i, e)
        /\ Len(t) = Len(r) + 1
        /\ \A j \in 1..(Len(r) + 1) :
             t[j] = IF j < i THEN r[j] ELSE IF j = i THEN e ELSE r[j - 1]
  BY <1>3, InsertAtProperties
<1>5. Len(t) = Len(s)
  BY <1>1, <1>4
<1>6. ASSUME NEW j \in 1..Len(s) PROVE t[j] = s[j]
  <2>1. CASE j < i
    <3>1. t[j] = r[j]
      BY <2>1, <1>1, <1>4
    <3>2. r[j] = s[j]
      BY <2>1, <1>1
    <3>3. QED BY <3>1, <3>2
  <2>2. CASE j = i
    BY <2>2, <1>1, <1>2, <1>4
  <2>3. CASE j > i
    <3>1. t[j] = r[j - 1]
      BY <2>3, <1>1, <1>4
    <3>2. r[j - 1] = s[j]
      BY <2>3, <1>1
    <3>3. QED BY <3>1, <3>2
  <2>4. QED BY <2>1, <2>2, <2>3
<1>7. t = s
  BY <1>5, <1>6, SeqEqual
<1>8. QED BY <1>1, <1>2, <1>4, <1>7

\* Taking out an element just put in restores the sequence.
LEMMA RemoveUndoesInsert ==
  ASSUME NEW S, NEW s \in Seq(S), NEW i \in 1..(Len(s) + 1), NEW e \in S
  PROVE  RemoveAt(InsertAt(s, i, e), i) = s
<1>1. PICK t \in Seq(S) :
        /\ t = InsertAt(s, i, e)
        /\ Len(t) = Len(s) + 1
        /\ \A j \in 1..(Len(s) + 1) :
             t[j] = IF j < i THEN s[j] ELSE IF j = i THEN e ELSE s[j - 1]
  BY InsertAtProperties
<1>2. i \in 1..Len(t)
  BY <1>1
<1>3. PICK r \in Seq(S) :
        /\ r = RemoveAt(t, i)
        /\ Len(r) = Len(t) - 1
        /\ \A j \in 1..(Len(t) - 1) : r[j] = IF j < i THEN t[j] ELSE t[j + 1]
  BY <1>2, RemoveAtProperties
<1>4. Len(r) = Len(s)
  BY <1>1, <1>3
<1>5. ASSUME NEW j \in 1..Len(s) PROVE r[j] = s[j]
  <2>1. CASE j < i
    BY <2>1, <1>1, <1>3
  <2>2. CASE j >= i
    <3>1. r[j] = t[j + 1]
      BY <2>2, <1>1, <1>3
    <3>2. t[j + 1] = s[j]
      BY <2>2, <1>1
    <3>3. QED BY <3>1, <3>2
  <2>3. QED BY <2>1, <2>2
<1>6. r = s
  BY <1>4, <1>5, SeqEqual
<1>7. QED BY <1>1, <1>3, <1>6

-----------------------------------------------------------------------------
\* What each mutation computes

\* The counter moves at every step: UndoStack::apply reads that a command
\* changed nothing from a revision that did not move.
LEMMA RevisionMoves ==
  ASSUME NEW r \in Revision
  PROVE  AdvanceRevision(r) \in Revision /\ AdvanceRevision(r) # r
<1>1. RevisionModulus \in Nat /\ RevisionModulus >= 2
  BY PageMapAssumption
<1>2. r \in Nat /\ r < RevisionModulus
  BY <1>1 DEF Revision
<1>3. CASE r + 1 < RevisionModulus
  <2>1. (r + 1) % RevisionModulus = r + 1
    BY <1>1, <1>2, <1>3
  <2>2. QED BY <2>1, <1>1, <1>2, <1>3 DEF AdvanceRevision, Revision
<1>4. CASE r + 1 = RevisionModulus
  <2>1. (r + 1) % RevisionModulus = 0
    BY <1>1, <1>2, <1>4
  <2>2. QED BY <2>1, <1>1, <1>2, <1>4 DEF AdvanceRevision, Revision
<1>5. QED BY <1>1, <1>2, <1>3, <1>4

-----------------------------------------------------------------------------
\* Documents whose slots keep anything beside an identity. PageMap and PdfSave
\* keep different things in a slot, and their mutations are the same.
DocumentOf(S) == [slots : Seq(S), removed : SUBSET S, next : Nat, revision : Revision]

LEMMA SlotDocuments == Document = DocumentOf(Slot)
BY DEF Document, DocumentOf

\* PageMap::find_index finds a held page.
LEMMA AnyIndexOf ==
  ASSUME NEW S, NEW d \in DocumentOf(S), NEW p, Holds(d, p), WellFormed(d)
  PROVE  /\ IndexOf(d, p) \in 1..Len(d.slots)
         /\ d.slots[IndexOf(d, p)].id = p
<1>1. PICK i \in DOMAIN d.slots : d.slots[i].id = p
  BY DEF Holds
<1>2. DOMAIN d.slots = 1..Len(d.slots)
  BY DEF DocumentOf
<1>3. \A j \in DOMAIN d.slots : d.slots[j].id = p => j = i
  BY <1>1 DEF WellFormed
<1>4. \A j \in DOMAIN d.slots : d.slots[j].id = p => i <= j
  BY <1>2, <1>3
<1>5. QED BY <1>1, <1>2, <1>4 DEF IndexOf

\* A mutation leaves a document under another revision.
LEMMA AnyMutated ==
  ASSUME NEW S, NEW d \in DocumentOf(S), NEW slots \in Seq(S), NEW removed \in SUBSET S,
         NEW next \in Nat
  PROVE  /\ Mutated(d, slots, removed, next) \in DocumentOf(S)
         /\ Mutated(d, slots, removed, next).slots = slots
         /\ Mutated(d, slots, removed, next).removed = removed
         /\ Mutated(d, slots, removed, next).next = next
         /\ Mutated(d, slots, removed, next).revision # d.revision
<1>1. d.revision \in Revision
  BY DEF DocumentOf
<1>2. QED BY <1>1, RevisionMoves DEF Mutated, DocumentOf

\* What removing, restoring and moving a page make of the slots and the trash.
LEMMA AnyRemoval ==
  ASSUME NEW S, NEW d \in DocumentOf(S), NEW p, WellFormed(d), CanRemove(d, p)
  PROVE  LET i == IndexOf(d, p)
             e == RemovePage(d, p)
         IN  /\ i \in 1..Len(d.slots) /\ d.slots[i].id = p /\ d.slots[i] \in S
             /\ e \in DocumentOf(S)
             /\ e.slots = RemoveAt(d.slots, i)
             /\ e.removed = d.removed \cup {d.slots[i]}
             /\ e.next = d.next
             /\ e.revision # d.revision
<1> DEFINE i == IndexOf(d, p)
<1>1. i \in 1..Len(d.slots) /\ d.slots[i].id = p
  BY AnyIndexOf DEF CanRemove
<1>2. d.slots \in Seq(S) /\ d.removed \in SUBSET S /\ d.next \in Nat
  BY DEF DocumentOf
<1>3. d.slots[i] \in S
  BY <1>1, <1>2
<1>4. RemoveAt(d.slots, i) \in Seq(S)
  BY <1>1, <1>2, RemoveAtProperties
<1>5. d.removed \cup {d.slots[i]} \in SUBSET S
  BY <1>2, <1>3
<1>6. QED BY <1>1, <1>2, <1>3, <1>4, <1>5, AnyMutated DEF RemovePage

LEMMA AnyRestoring ==
  ASSUME NEW S, NEW d \in DocumentOf(S), NEW p, NEW at \in Nat, WellFormed(d), CanRestore(d, p, at)
  PROVE  \E s \in d.removed :
           LET e == RestorePage(d, p, at)
           IN  /\ s \in S /\ s.id = p /\ at + 1 \in 1..(Len(d.slots) + 1)
               /\ e \in DocumentOf(S)
               /\ e.slots = InsertAt(d.slots, at + 1, s)
               /\ e.removed = d.removed \ {s}
               /\ e.next = d.next
               /\ e.revision # d.revision
<1> DEFINE s == CHOOSE s \in d.removed : s.id = p
<1>1. s \in d.removed /\ s.id = p
  BY DEF CanRestore, Trashed
<1>2. d.slots \in Seq(S) /\ d.removed \in SUBSET S /\ d.next \in Nat
  BY DEF DocumentOf
<1>3. s \in S
  BY <1>1, <1>2
<1>4. at + 1 \in 1..(Len(d.slots) + 1)
  BY <1>2 DEF CanRestore, PageCount
<1> HIDE DEF s
<1>5. InsertAt(d.slots, at + 1, s) \in Seq(S)
  BY <1>2, <1>3, <1>4, InsertAtProperties
<1>6. d.removed \ {s} \in SUBSET S
  BY <1>2
<1>7. RestorePage(d, p, at)
        = Mutated(d, InsertAt(d.slots, at + 1, s), d.removed \ {s}, d.next)
  BY DEF RestorePage, s
<1>8. QED BY <1>1, <1>2, <1>3, <1>4, <1>5, <1>6, <1>7, AnyMutated

LEMMA AnyMoving ==
  ASSUME NEW S, NEW d \in DocumentOf(S), NEW p, NEW to \in Nat, WellFormed(d), CanMove(d, p, to)
  PROVE  LET i == IndexOf(d, p)
             e == MovePage(d, p, to)
         IN  /\ i \in 1..Len(d.slots) /\ d.slots[i].id = p /\ d.slots[i] \in S
             /\ to + 1 \in 1..Len(d.slots)
             /\ RemoveAt(d.slots, i) \in Seq(S)
             /\ e \in DocumentOf(S)
             /\ e.slots = InsertAt(RemoveAt(d.slots, i), to + 1, d.slots[i])
             /\ e.removed = d.removed
             /\ e.next = d.next
             /\ e.revision # d.revision
<1> DEFINE i == IndexOf(d, p)
<1>1. i \in 1..Len(d.slots) /\ d.slots[i].id = p
  BY AnyIndexOf DEF CanMove
<1>2. d.slots \in Seq(S) /\ d.removed \in SUBSET S /\ d.next \in Nat
  BY DEF DocumentOf
<1>3. d.slots[i] \in S
  BY <1>1, <1>2
<1>4. RemoveAt(d.slots, i) \in Seq(S) /\ Len(RemoveAt(d.slots, i)) = Len(d.slots) - 1
  BY <1>1, <1>2, RemoveAtProperties
<1>5. to + 1 \in 1..Len(d.slots)
  BY <1>2 DEF CanMove, PageCount
<1>6. InsertAt(RemoveAt(d.slots, i), to + 1, d.slots[i]) \in Seq(S)
  <2>1. to + 1 \in 1..(Len(RemoveAt(d.slots, i)) + 1)
    BY <1>2, <1>4, <1>5
  <2>2. QED BY <2>1, <1>3, <1>4, InsertAtProperties
<1>7. MovePage(d, p, to)
        = Mutated(d, InsertAt(RemoveAt(d.slots, i), to + 1, d.slots[i]), d.removed, d.next)
  BY DEF MovePage
<1>8. QED BY <1>1, <1>2, <1>3, <1>4, <1>5, <1>6, <1>7, AnyMutated

\* Pages that are some of d's, each once, are still well formed, whether the
\* trash stays or takes in the page left out.
LEMMA AnySelection ==
  ASSUME NEW S, NEW d \in DocumentOf(S), NEW e \in DocumentOf(S),
         WellFormed(d), e.next = d.next,
         NEW from \in [1..Len(e.slots) -> 1..Len(d.slots)],
         \A j, k \in 1..Len(e.slots) : from[j] = from[k] => j = k,
         \A j \in 1..Len(e.slots) : e.slots[j] = d.slots[from[j]],
         \A s \in e.removed :
           s \in d.removed \/ \E i \in 1..Len(d.slots) :
                                /\ s = d.slots[i]
                                /\ \A j \in 1..Len(e.slots) : from[j] # i,
         \A s, t \in e.removed : s \notin d.removed /\ t \notin d.removed => s = t
  PROVE  WellFormed(e)
<1>1. DOMAIN d.slots = 1..Len(d.slots) /\ DOMAIN e.slots = 1..Len(e.slots)
  BY DEF DocumentOf
<1>2. ASSUME NEW j \in DOMAIN e.slots, NEW k \in DOMAIN e.slots,
             e.slots[j].id = e.slots[k].id
      PROVE  j = k
  BY <1>1, <1>2 DEF WellFormed
<1>3. ASSUME NEW s \in e.removed, NEW t \in e.removed, s.id = t.id
      PROVE  s = t
  BY <1>1, <1>3 DEF WellFormed
<1>4. ASSUME NEW j \in DOMAIN e.slots, NEW s \in e.removed
      PROVE  e.slots[j].id # s.id
  <2>1. from[j] \in DOMAIN d.slots /\ e.slots[j] = d.slots[from[j]]
    BY <1>1
  <2>2. CASE s \in d.removed
    BY <2>1, <2>2 DEF WellFormed
  <2>3. CASE \E i \in 1..Len(d.slots) :
               s = d.slots[i] /\ \A k \in 1..Len(e.slots) : from[k] # i
    <3>1. PICK i \in DOMAIN d.slots : s = d.slots[i] /\ from[j] # i
      BY <1>1, <2>3
    <3>2. QED BY <2>1, <3>1 DEF WellFormed
  <2>4. QED BY <2>2, <2>3
<1>5. KnownIds(e) \subseteq KnownIds(d)
  BY <1>1 DEF KnownIds
<1>6. QED BY <1>2, <1>3, <1>4, <1>5 DEF WellFormed

\* The slots after one was put in.
LEMMA AnyInserted ==
  ASSUME NEW S, NEW slots \in Seq(S), NEW s \in S, NEW i \in 1..(Len(slots) + 1)
  PROVE  /\ Len(InsertAt(slots, i, s)) = Len(slots) + 1
         /\ \A j \in 1..(Len(slots) + 1) :
              InsertAt(slots, i, s)[j] = IF j < i THEN slots[j]
                                         ELSE IF j = i THEN s ELSE slots[j - 1]
BY InsertAtProperties

\* Putting in a page whose identity is neither mapped nor left in the trash.
LEMMA AnyInsertion ==
  ASSUME NEW S, \A t \in S : t.id \in PageId,
         NEW d \in DocumentOf(S), NEW e \in DocumentOf(S), WellFormed(d), d.next <= e.next,
         NEW s \in S, NEW i \in 1..(Len(d.slots) + 1),
         e.slots = InsertAt(d.slots, i, s),
         \A j \in 1..Len(d.slots) : d.slots[j].id # s.id,
         \A t \in e.removed : t \in d.removed /\ t.id # s.id,
         s.id < e.next
  PROVE  WellFormed(e)
<1>1. /\ d.slots \in Seq(S) /\ d.next \in Nat /\ e.next \in Nat
      /\ DOMAIN d.slots = 1..Len(d.slots)
      /\ DOMAIN e.slots = 1..(Len(d.slots) + 1)
      /\ \A j \in 1..(Len(d.slots) + 1) :
           e.slots[j] = IF j < i THEN d.slots[j] ELSE IF j = i THEN s ELSE d.slots[j - 1]
  <2>1. d.slots \in Seq(S) /\ e.slots \in Seq(S) /\ d.next \in Nat /\ e.next \in Nat
    BY DEF DocumentOf
  <2>2. /\ Len(e.slots) = Len(d.slots) + 1
        /\ \A j \in 1..(Len(d.slots) + 1) :
             e.slots[j] = IF j < i THEN d.slots[j]
                          ELSE IF j = i THEN s ELSE d.slots[j - 1]
    <3>1. /\ Len(InsertAt(d.slots, i, s)) = Len(d.slots) + 1
          /\ \A j \in 1..(Len(d.slots) + 1) :
               InsertAt(d.slots, i, s)[j] = IF j < i THEN d.slots[j]
                                            ELSE IF j = i THEN s ELSE d.slots[j - 1]
      BY <2>1, AnyInserted
    <3>2. QED BY <3>1
  <2>3. QED BY <2>1, <2>2, LenProperties
<1>2. \A j \in DOMAIN e.slots :
        \/ j = i /\ e.slots[j] = s
        \/ j < i /\ j \in DOMAIN d.slots /\ e.slots[j] = d.slots[j]
        \/ j > i /\ j - 1 \in DOMAIN d.slots /\ e.slots[j] = d.slots[j - 1]
  BY <1>1
<1>3. ASSUME NEW j \in DOMAIN e.slots, NEW k \in DOMAIN e.slots,
             e.slots[j].id = e.slots[k].id
      PROVE  j = k
  <2>1. \A n \in DOMAIN e.slots : e.slots[n].id = s.id => n = i
    BY <1>1, <1>2
  <2>2. CASE j = i \/ k = i
    BY <1>1, <1>2, <1>3, <2>1, <2>2
  <2>3. CASE j # i /\ k # i
    <3> DEFINE source(n) == IF n < i THEN n ELSE n - 1
    <3>1. \A n \in {j, k} : source(n) \in DOMAIN d.slots /\ e.slots[n] = d.slots[source(n)]
      BY SMTT(30), <1>1, <2>3
    <3>2. source(j) = source(k)
      BY <1>3, <3>1 DEF WellFormed
    <3>3. QED BY <1>1, <2>3, <3>2
  <2>4. QED BY <2>2, <2>3
<1>4. ASSUME NEW t \in e.removed, NEW u \in e.removed, t.id = u.id
      PROVE  t = u
  BY <1>4 DEF WellFormed
<1>5. ASSUME NEW j \in DOMAIN e.slots, NEW t \in e.removed
      PROVE  e.slots[j].id # t.id
  BY <1>2, <1>5 DEF WellFormed
<1>6. ASSUME NEW p \in KnownIds(e) PROVE p < e.next
  <2>1. p \in KnownIds(d) \/ p = s.id
    BY <1>2, <1>6 DEF KnownIds
  <2>2. KnownIds(d) \subseteq Nat
    <3>1. \A t \in d.removed : t.id \in Nat
      BY DEF DocumentOf, PageId
    <3>2. \A j \in DOMAIN d.slots : d.slots[j] \in S
      BY <1>1, ElementOfSeq
    <3>3. \A j \in DOMAIN d.slots : d.slots[j].id \in Nat
      BY <3>2 DEF PageId
    <3>4. QED BY <3>1, <3>3 DEF KnownIds
  <2>3. QED BY <1>1, <2>1, <2>2 DEF WellFormed
<1>7. QED BY <1>3, <1>4, <1>5, <1>6 DEF WellFormed

\* PageMap::remove_slot, relocate_slot and restore_slot each keep every
\* identity on one page.
LEMMA AnyRemovalFits ==
  ASSUME NEW S, NEW d \in DocumentOf(S), NEW p, WellFormed(d), CanRemove(d, p)
  PROVE  WellFormed(RemovePage(d, p))
<1> DEFINE i == IndexOf(d, p)
           e == RemovePage(d, p)
           from == [j \in 1..Len(e.slots) |-> IF j < i THEN j ELSE j + 1]
<1>1. /\ i \in 1..Len(d.slots)
      /\ e \in DocumentOf(S)
      /\ e.slots = RemoveAt(d.slots, i)
      /\ e.removed = d.removed \cup {d.slots[i]}
      /\ e.next = d.next
  BY AnyRemoval
<1>2. d.slots \in Seq(S)
  BY DEF DocumentOf
<1> HIDE DEF e, i
<1>3. /\ Len(e.slots) = Len(d.slots) - 1
      /\ \A j \in 1..(Len(d.slots) - 1) :
           e.slots[j] = IF j < i THEN d.slots[j] ELSE d.slots[j + 1]
  BY <1>1, <1>2, RemoveAtProperties
<1>4. from \in [1..Len(e.slots) -> 1..Len(d.slots)]
  BY <1>1, <1>2, <1>3
<1>5. \A j, k \in 1..Len(e.slots) : from[j] = from[k] => j = k
  BY <1>1, <1>2, <1>3
<1>6. \A j \in 1..Len(e.slots) : e.slots[j] = d.slots[from[j]] /\ from[j] # i
  BY <1>1, <1>2, <1>3
<1> HIDE DEF from
<1>7. WellFormed(e)
  BY <1>1, <1>4, <1>5, <1>6, AnySelection
<1>8. QED BY <1>7 DEF e

LEMMA AnyMovingFits ==
  ASSUME NEW S, NEW d \in DocumentOf(S), NEW p, NEW to \in Nat, WellFormed(d), CanMove(d, p, to)
  PROVE  WellFormed(MovePage(d, p, to))
<1> DEFINE i == IndexOf(d, p)
           e == MovePage(d, p, to)
           r == RemoveAt(d.slots, i)
           skip(j) == IF j < i THEN j ELSE j + 1
           from == [j \in 1..Len(e.slots) |->
                      IF j < to + 1 THEN skip(j)
                      ELSE IF j = to + 1 THEN i ELSE skip(j - 1)]
<1>1. /\ i \in 1..Len(d.slots) /\ d.slots[i] \in S
      /\ to + 1 \in 1..Len(d.slots)
      /\ e \in DocumentOf(S)
      /\ e.slots = InsertAt(r, to + 1, d.slots[i])
      /\ e.removed = d.removed
      /\ e.next = d.next
  BY AnyMoving
<1>2. d.slots \in Seq(S)
  BY DEF DocumentOf
<1> HIDE DEF e, i
<1>3. /\ r \in Seq(S)
      /\ Len(r) = Len(d.slots) - 1
      /\ \A j \in 1..(Len(d.slots) - 1) : r[j] = d.slots[skip(j)]
  BY <1>1, <1>2, RemoveAtProperties
<1> HIDE DEF r
<1>4. to + 1 \in 1..(Len(r) + 1)
  BY <1>1, <1>2, <1>3
<1>5. /\ Len(e.slots) = Len(d.slots)
      /\ \A j \in 1..Len(d.slots) :
           e.slots[j] = IF j < to + 1 THEN r[j]
                        ELSE IF j = to + 1 THEN d.slots[i] ELSE r[j - 1]
  <2>1. /\ Len(e.slots) = Len(r) + 1
        /\ \A j \in 1..(Len(r) + 1) :
             e.slots[j] = IF j < to + 1 THEN r[j]
                          ELSE IF j = to + 1 THEN d.slots[i] ELSE r[j - 1]
    BY <1>1, <1>3, <1>4, InsertAtProperties
  <2>2. Len(r) + 1 = Len(d.slots)
    BY <1>2, <1>3
  <2>3. QED BY <2>1, <2>2
<1>6. from \in [1..Len(e.slots) -> 1..Len(d.slots)]
  BY <1>1, <1>2, <1>5
<1>7. \A j, k \in 1..Len(e.slots) : from[j] = from[k] => j = k
  BY <1>1, <1>2, <1>5
<1>8. ASSUME NEW j \in 1..Len(e.slots) PROVE e.slots[j] = d.slots[from[j]]
  <2>1. CASE j < to + 1
    <3>1. e.slots[j] = r[j] /\ from[j] = skip(j)
      BY <1>1, <1>2, <1>5, <2>1
    <3>2. r[j] = d.slots[skip(j)]
      BY <1>1, <1>2, <1>3, <1>5, <2>1
    <3>3. QED BY <3>1, <3>2
  <2>2. CASE j = to + 1
    BY <1>1, <1>2, <1>5, <2>2
  <2>3. CASE j > to + 1
    <3>1. e.slots[j] = r[j - 1] /\ from[j] = skip(j - 1)
      BY <1>1, <1>2, <1>5, <2>3
    <3>2. r[j - 1] = d.slots[skip(j - 1)]
      BY <1>1, <1>2, <1>3, <1>5, <2>3
    <3>3. QED BY <3>1, <3>2
  <2>4. QED BY <1>1, <2>1, <2>2, <2>3
<1> HIDE DEF from
<1>9. WellFormed(e)
  BY <1>1, <1>6, <1>7, <1>8, AnySelection
<1>10. QED BY <1>9 DEF e

LEMMA AnyRestoringFits ==
  ASSUME NEW S, \A t \in S : t.id \in PageId, NEW d \in DocumentOf(S),
         NEW p, NEW at \in Nat, WellFormed(d), CanRestore(d, p, at)
  PROVE  WellFormed(RestorePage(d, p, at))
<1> DEFINE e == RestorePage(d, p, at)
<1>1. PICK s \in d.removed :
        /\ s \in S /\ s.id = p /\ at + 1 \in 1..(Len(d.slots) + 1)
        /\ e \in DocumentOf(S)
        /\ e.slots = InsertAt(d.slots, at + 1, s)
        /\ e.removed = d.removed \ {s}
        /\ e.next = d.next
  BY AnyRestoring
<1> HIDE DEF e
<1>2. DOMAIN d.slots = 1..Len(d.slots) /\ d.next \in Nat
  BY DEF DocumentOf
<1>3. \A j \in 1..Len(d.slots) : d.slots[j].id # s.id
  BY <1>1, <1>2 DEF WellFormed
<1>4. \A t \in e.removed : t \in d.removed /\ t.id # s.id
  BY <1>1 DEF WellFormed
<1>5. s.id < e.next
  BY <1>1 DEF WellFormed, KnownIds
<1>6. WellFormed(e)
  BY <1>1, <1>2, <1>3, <1>4, <1>5, AnyInsertion
<1>7. QED BY <1>6 DEF e

-----------------------------------------------------------------------------
\* A document as the set of its slots, mapped and trashed: removing, restoring
\* and moving keep that set, inserting adds to it.
Mapped(slots) == {slots[i] : i \in 1..Len(slots)}
Everything(d) == Mapped(d.slots) \cup d.removed

LEMMA MappedAfterInsert ==
  ASSUME NEW S, NEW slots \in Seq(S), NEW s \in S, NEW i \in 1..(Len(slots) + 1)
  PROVE  Mapped(InsertAt(slots, i, s)) = Mapped(slots) \cup {s}
<1> DEFINE t == InsertAt(slots, i, s)
<1>1. /\ Len(t) = Len(slots) + 1 /\ Len(slots) \in Nat
      /\ \A j \in 1..(Len(slots) + 1) :
           t[j] = IF j < i THEN slots[j] ELSE IF j = i THEN s ELSE slots[j - 1]
  BY AnyInserted, LenProperties
<1> HIDE DEF t
<1>2. ASSUME NEW j \in 1..Len(t) PROVE t[j] \in Mapped(slots) \cup {s}
  <2>1. CASE j < i
    BY <1>1, <2>1 DEF Mapped
  <2>2. CASE j = i
    BY <1>1, <2>2
  <2>3. CASE j > i
    <3>1. j - 1 \in 1..Len(slots) /\ t[j] = slots[j - 1]
      BY <1>1, <2>3
    <3>2. QED BY <3>1 DEF Mapped
  <2>4. QED BY <1>1, <2>1, <2>2, <2>3
<1>3. ASSUME NEW j \in 1..Len(slots) PROVE slots[j] \in Mapped(t)
  <2>1. CASE j < i
    <3>1. j \in 1..Len(t) /\ t[j] = slots[j]
      BY <1>1, <2>1
    <3>2. QED BY <3>1 DEF Mapped
  <2>2. CASE j >= i
    <3>1. j + 1 \in 1..Len(t) /\ t[j + 1] = slots[j]
      BY <1>1, <2>2
    <3>2. QED BY <3>1 DEF Mapped
  <2>3. QED BY <1>1, <2>1, <2>2
<1>4. s \in Mapped(t)
  <2>1. i \in 1..Len(t) /\ t[i] = s
    BY <1>1
  <2>2. QED BY <2>1 DEF Mapped
<1>5. Mapped(t) = Mapped(slots) \cup {s}
  BY <1>2, <1>3, <1>4 DEF Mapped
<1>6. QED BY <1>5 DEF t

LEMMA MappedAfterRemove ==
  ASSUME NEW S, NEW slots \in Seq(S), NEW i \in 1..Len(slots)
  PROVE  Mapped(RemoveAt(slots, i)) \cup {slots[i]} = Mapped(slots)
<1> DEFINE t == RemoveAt(slots, i)
<1>1. /\ Len(t) = Len(slots) - 1 /\ Len(slots) \in Nat
      /\ \A j \in 1..(Len(slots) - 1) : t[j] = IF j < i THEN slots[j] ELSE slots[j + 1]
  BY RemoveAtProperties, LenProperties
<1> HIDE DEF t
<1>2. ASSUME NEW j \in 1..Len(t) PROVE t[j] \in Mapped(slots)
  <2>1. j \in 1..Len(slots) /\ j + 1 \in 1..Len(slots)
    BY <1>1
  <2>2. t[j] = slots[j] \/ t[j] = slots[j + 1]
    BY <1>1
  <2>3. QED BY <2>1, <2>2 DEF Mapped
<1>3. ASSUME NEW j \in 1..Len(slots) PROVE slots[j] \in Mapped(t) \cup {slots[i]}
  <2>1. CASE j < i
    <3>1. j \in 1..Len(t) /\ t[j] = slots[j]
      BY <1>1, <2>1
    <3>2. QED BY <3>1 DEF Mapped
  <2>2. CASE j > i
    <3>1. j - 1 \in 1..Len(t) /\ t[j - 1] = slots[j]
      BY <1>1, <2>2
    <3>2. QED BY <3>1 DEF Mapped
  <2>3. QED BY <1>1, <2>1, <2>2
<1>4. slots[i] \in Mapped(slots)
  BY DEF Mapped
<1>5. Mapped(t) \cup {slots[i]} = Mapped(slots)
  BY <1>2, <1>3, <1>4 DEF Mapped
<1>6. QED BY <1>5 DEF t

\* A slot of a well-formed document is the only one of its identity.
LEMMA OneSlotPerId ==
  ASSUME NEW S, NEW d \in DocumentOf(S), WellFormed(d),
         NEW s \in Everything(d), NEW t \in Everything(d), s.id = t.id
  PROVE  s = t
<1>1. DOMAIN d.slots = 1..Len(d.slots)
  BY DEF DocumentOf
<1>2. CASE s \in d.removed /\ t \in d.removed
  BY <1>2 DEF WellFormed
<1>3. CASE s \in Mapped(d.slots) /\ t \in Mapped(d.slots)
  BY <1>1, <1>3 DEF WellFormed, Mapped
<1>4. CASE s \in Mapped(d.slots) /\ t \in d.removed
  BY <1>1, <1>4 DEF WellFormed, Mapped
<1>5. CASE s \in d.removed /\ t \in Mapped(d.slots)
  BY <1>1, <1>5 DEF WellFormed, Mapped
<1>6. QED BY <1>2, <1>3, <1>4, <1>5 DEF Everything

LEMMA SlotsAreTyped ==
  ASSUME NEW S, NEW d \in DocumentOf(S)
  PROVE  /\ Everything(d) \subseteq S
         /\ \A i \in DOMAIN d.slots : d.slots[i] \in Everything(d)
<1>1. /\ d.slots \in Seq(S) /\ d.removed \subseteq S
      /\ DOMAIN d.slots = 1..Len(d.slots)
  BY DEF DocumentOf
<1>2. \A i \in 1..Len(d.slots) : d.slots[i] \in S
  BY <1>1, ElementOfSeq
<1>3. QED BY <1>1, <1>2 DEF Everything, Mapped

LEMMA KnownIdsAsSet ==
  ASSUME NEW S, NEW d \in DocumentOf(S)
  PROVE  KnownIds(d) = {s.id : s \in Everything(d)}
<1>1. DOMAIN d.slots = 1..Len(d.slots)
  BY DEF DocumentOf
<1>2. QED BY <1>1 DEF KnownIds, Everything, Mapped

-----------------------------------------------------------------------------
\* The same of the documents of PageMap.

\* PageMap::find_index finds a held page.
LEMMA IndexOfProperties ==
  ASSUME NEW d \in Document, NEW p, Holds(d, p), WellFormed(d)
  PROVE  /\ IndexOf(d, p) \in 1..Len(d.slots)
         /\ d.slots[IndexOf(d, p)].id = p
BY SlotDocuments, AnyIndexOf

\* An identity has one slot, so any index that carries it is the index.
LEMMA IndexOfUnique ==
  ASSUME NEW d \in Document, WellFormed(d), NEW i \in 1..Len(d.slots)
  PROVE  IndexOf(d, d.slots[i].id) = i
<1>1. DOMAIN d.slots = 1..Len(d.slots)
  BY DEF Document
<1>2. Holds(d, d.slots[i].id)
  BY <1>1 DEF Holds
<1>3. /\ IndexOf(d, d.slots[i].id) \in 1..Len(d.slots)
      /\ d.slots[IndexOf(d, d.slots[i].id)].id = d.slots[i].id
  BY <1>2, IndexOfProperties
<1>4. QED BY <1>1, <1>3 DEF WellFormed

LEMMA MutatedIsDocument ==
  ASSUME NEW d \in Document, NEW slots \in Seq(Slot), NEW removed \in SUBSET Slot,
         NEW next \in Nat
  PROVE  /\ Mutated(d, slots, removed, next) \in Document
         /\ Mutated(d, slots, removed, next).slots = slots
         /\ Mutated(d, slots, removed, next).removed = removed
         /\ Mutated(d, slots, removed, next).next = next
         /\ Mutated(d, slots, removed, next).revision # d.revision
BY SlotDocuments, AnyMutated

LEMMA RemovePageEffect ==
  ASSUME NEW d \in Document, NEW p, WellFormed(d), CanRemove(d, p)
  PROVE  LET i == IndexOf(d, p)
             e == RemovePage(d, p)
         IN  /\ i \in 1..Len(d.slots) /\ d.slots[i].id = p /\ d.slots[i] \in Slot
             /\ e \in Document
             /\ e.slots = RemoveAt(d.slots, i)
             /\ e.removed = d.removed \cup {d.slots[i]}
             /\ e.next = d.next
             /\ e.revision # d.revision
BY SlotDocuments, AnyRemoval

LEMMA RestorePageEffect ==
  ASSUME NEW d \in Document, NEW p, NEW at \in Nat, WellFormed(d), CanRestore(d, p, at)
  PROVE  \E s \in d.removed :
           LET e == RestorePage(d, p, at)
           IN  /\ s \in Slot /\ s.id = p /\ at + 1 \in 1..(Len(d.slots) + 1)
               /\ e \in Document
               /\ e.slots = InsertAt(d.slots, at + 1, s)
               /\ e.removed = d.removed \ {s}
               /\ e.next = d.next
               /\ e.revision # d.revision
BY SlotDocuments, AnyRestoring

LEMMA MovePageEffect ==
  ASSUME NEW d \in Document, NEW p, NEW to \in Nat, WellFormed(d), CanMove(d, p, to)
  PROVE  LET i == IndexOf(d, p)
             e == MovePage(d, p, to)
         IN  /\ i \in 1..Len(d.slots) /\ d.slots[i].id = p /\ d.slots[i] \in Slot
             /\ to + 1 \in 1..Len(d.slots)
             /\ RemoveAt(d.slots, i) \in Seq(Slot)
             /\ e \in Document
             /\ e.slots = InsertAt(RemoveAt(d.slots, i), to + 1, d.slots[i])
             /\ e.removed = d.removed
             /\ e.next = d.next
             /\ e.revision # d.revision
BY SlotDocuments, AnyMoving

LEMMA SetRotationEffect ==
  ASSUME NEW d \in Document, NEW p, NEW r \in Rotations, WellFormed(d), CanRotate(d, p)
  PROVE  LET i == IndexOf(d, p)
             e == SetRotation(d, p, r)
         IN  /\ i \in 1..Len(d.slots) /\ d.slots[i].id = p /\ d.slots[i] \in Slot
             /\ [id |-> p, rotation |-> r] \in Slot
             /\ e \in Document
             /\ e.slots = [d.slots EXCEPT ![i] = [id |-> p, rotation |-> r]]
             /\ e.removed = d.removed
             /\ e.next = d.next
             /\ e.revision # d.revision
<1> DEFINE i == IndexOf(d, p)
<1>1. i \in 1..Len(d.slots) /\ d.slots[i].id = p
  BY IndexOfProperties DEF CanRotate
<1>2. d.slots \in Seq(Slot) /\ d.removed \in SUBSET Slot /\ d.next \in Nat
  BY DEF Document
<1>3. d.slots[i] \in Slot
  BY <1>1, <1>2
<1>4. [id |-> p, rotation |-> r] \in Slot
  BY <1>1, <1>3 DEF Slot
<1>5. [d.slots EXCEPT ![i] = [id |-> p, rotation |-> r]] \in Seq(Slot)
  BY <1>1, <1>2, <1>4, ExceptSeq
<1> DEFINE turned == [d.slots EXCEPT ![i] = [id |-> p, rotation |-> r]]
<1>6. SetRotation(d, p, r) = Mutated(d, turned, d.removed, d.next)
  BY DEF SetRotation
<1> HIDE DEF turned
<1>7. /\ SetRotation(d, p, r) \in Document
      /\ SetRotation(d, p, r).slots = turned
      /\ SetRotation(d, p, r).removed = d.removed
      /\ SetRotation(d, p, r).next = d.next
      /\ SetRotation(d, p, r).revision # d.revision
  <2>1. turned \in Seq(Slot)
    BY <1>5 DEF turned
  <2>2. QED BY <1>2, <1>6, <2>1, MutatedIsDocument
<1>8. QED BY <1>1, <1>3, <1>4, <1>7 DEF turned

LEMMA InsertPageEffect ==
  ASSUME NEW d \in Document, NEW at \in Nat, CanInsert(d, at)
  PROVE  LET blank == [id |-> d.next, rotation |-> 0]
             e == InsertPage(d, at)
         IN  /\ blank \in Slot /\ at + 1 \in 1..(Len(d.slots) + 1)
             /\ e \in Document
             /\ e.slots = InsertAt(d.slots, at + 1, blank)
             /\ e.removed = d.removed
             /\ e.next = d.next + 1
             /\ e.revision # d.revision
<1> DEFINE blank == [id |-> d.next, rotation |-> 0]
<1>1. d.slots \in Seq(Slot) /\ d.removed \in SUBSET Slot /\ d.next \in Nat
  BY DEF Document
<1>2. blank \in Slot
  BY <1>1, PageMapAssumption DEF Slot, PageId
<1>3. at + 1 \in 1..(Len(d.slots) + 1)
  BY <1>1 DEF CanInsert, PageCount
<1>4. InsertAt(d.slots, at + 1, blank) \in Seq(Slot)
  BY <1>1, <1>2, <1>3, InsertAtProperties
<1>5. QED BY <1>1, <1>2, <1>3, <1>4, MutatedIsDocument DEF InsertPage

-----------------------------------------------------------------------------
\* Each mutation keeps a document well formed: an identity names one page.

LEMMA WellFormedSelection ==
  ASSUME NEW d \in Document, NEW e \in Document, WellFormed(d), e.next = d.next,
         NEW from \in [1..Len(e.slots) -> 1..Len(d.slots)],
         \A j, k \in 1..Len(e.slots) : from[j] = from[k] => j = k,
         \A j \in 1..Len(e.slots) : e.slots[j] = d.slots[from[j]],
         \A s \in e.removed :
           s \in d.removed \/ \E i \in 1..Len(d.slots) :
                                /\ s = d.slots[i]
                                /\ \A j \in 1..Len(e.slots) : from[j] # i,
         \A s, t \in e.removed : s \notin d.removed /\ t \notin d.removed => s = t
  PROVE  WellFormed(e)
BY SlotDocuments, AnySelection

LEMMA SlotInserted ==
  ASSUME NEW slots \in Seq(Slot), NEW s \in Slot, NEW i \in 1..(Len(slots) + 1)
  PROVE  /\ Len(InsertAt(slots, i, s)) = Len(slots) + 1
         /\ \A j \in 1..(Len(slots) + 1) :
              InsertAt(slots, i, s)[j] = IF j < i THEN slots[j]
                                         ELSE IF j = i THEN s ELSE slots[j - 1]
BY InsertAtProperties

LEMMA WellFormedInsertion ==
  ASSUME NEW d \in Document, NEW e \in Document, WellFormed(d), d.next <= e.next,
         NEW s \in Slot, NEW i \in 1..(Len(d.slots) + 1),
         e.slots = InsertAt(d.slots, i, s),
         \A j \in 1..Len(d.slots) : d.slots[j].id # s.id,
         \A t \in e.removed : t \in d.removed /\ t.id # s.id,
         s.id < e.next
  PROVE  WellFormed(e)
<1>1. d \in DocumentOf(Slot) /\ e \in DocumentOf(Slot) /\ d.slots \in Seq(Slot)
  BY SlotDocuments DEF Document
<1>2. \A t \in Slot : t.id \in PageId
  BY DEF Slot
<1>3. QED BY ZenonT(60), <1>1, <1>2, AnyInsertion, Zenon

LEMMA SlotRemoved ==
  ASSUME NEW slots \in Seq(Slot), NEW i \in 1..Len(slots)
  PROVE  /\ RemoveAt(slots, i) \in Seq(Slot)
         /\ Len(RemoveAt(slots, i)) = Len(slots) - 1
         /\ \A j \in 1..(Len(slots) - 1) :
              RemoveAt(slots, i)[j] = IF j < i THEN slots[j] ELSE slots[j + 1]
BY RemoveAtProperties

LEMMA RemoveWellFormed ==
  ASSUME NEW d \in Document, NEW p, WellFormed(d), CanRemove(d, p)
  PROVE  WellFormed(RemovePage(d, p))
BY SlotDocuments, AnyRemovalFits

LEMMA MoveWellFormed ==
  ASSUME NEW d \in Document, NEW p, NEW to \in Nat, WellFormed(d), CanMove(d, p, to)
  PROVE  WellFormed(MovePage(d, p, to))
BY SlotDocuments, AnyMovingFits

LEMMA SetRotationWellFormed ==
  ASSUME NEW d \in Document, NEW p, NEW r \in Rotations, WellFormed(d), CanRotate(d, p)
  PROVE  WellFormed(SetRotation(d, p, r))
<1> DEFINE i == IndexOf(d, p)
           e == SetRotation(d, p, r)
           turned == [id |-> p, rotation |-> r]
<1>1. /\ i \in 1..Len(d.slots) /\ d.slots[i].id = p /\ turned \in Slot
      /\ e.slots = [d.slots EXCEPT ![i] = turned]
      /\ e.removed = d.removed
      /\ e.next = d.next
  BY SetRotationEffect
<1>2. d.slots \in Seq(Slot) /\ DOMAIN d.slots = 1..Len(d.slots)
  BY DEF Document
<1> HIDE DEF e, i
<1>3. /\ DOMAIN e.slots = DOMAIN d.slots
      /\ \A j \in DOMAIN d.slots : e.slots[j].id = d.slots[j].id
  BY <1>1, <1>2, ExceptSeq
<1>4. KnownIds(e) = KnownIds(d)
  BY <1>1, <1>3 DEF KnownIds
<1>5. WellFormed(e)
  BY <1>1, <1>3, <1>4 DEF WellFormed
<1>6. QED BY <1>5 DEF e

LEMMA RestoreWellFormed ==
  ASSUME NEW d \in Document, NEW p, NEW at \in Nat, WellFormed(d), CanRestore(d, p, at)
  PROVE  WellFormed(RestorePage(d, p, at))
BY SlotDocuments, AnyRestoringFits DEF Slot

LEMMA InsertWellFormed ==
  ASSUME NEW d \in Document, NEW at \in Nat, WellFormed(d), CanInsert(d, at)
  PROVE  WellFormed(InsertPage(d, at))
<1> DEFINE e == InsertPage(d, at)
           s == [id |-> d.next, rotation |-> 0]
<1>1. /\ s \in Slot /\ at + 1 \in 1..(Len(d.slots) + 1)
      /\ e \in Document
      /\ e.slots = InsertAt(d.slots, at + 1, s)
      /\ e.removed = d.removed
      /\ e.next = d.next + 1
  BY InsertPageEffect
<1>2. DOMAIN d.slots = 1..Len(d.slots) /\ d.next \in Nat /\ s.id = d.next
  BY DEF Document
<1> HIDE DEF e
<1> HIDE DEF s
<1>3. \A q \in KnownIds(d) : q # s.id
  BY <1>2 DEF WellFormed
<1>4. /\ \A j \in 1..Len(d.slots) : d.slots[j].id # s.id
      /\ \A t \in e.removed : t \in d.removed /\ t.id # s.id
  BY <1>1, <1>2, <1>3 DEF KnownIds
<1>5. s.id < e.next /\ d.next <= e.next
  BY <1>1, <1>2
<1>6. WellFormed(e)
  BY <1>1, <1>4, <1>5, WellFormedInsertion
<1>7. QED BY <1>6 DEF e

\* A document as it is parsed: its pages are numbered in file order.
LEMMA OpenedWellFormed ==
  ASSUME NEW n \in Nat, NEW r \in [1..n -> Rotations]
  PROVE  Opened(r) \in Document /\ WellFormed(Opened(r))
<1> DEFINE d == Opened(r)
<1>1. r \in Seq(Rotations) /\ Len(r) = n /\ DOMAIN r = 1..n
  OBVIOUS
<1>2. 0 \in Revision
  BY PageMapAssumption DEF Revision
<1>3. [i \in 1..n |-> [id |-> i - 1, rotation |-> r[i]]] \in Seq(Slot)
  BY <1>1 DEF Slot, PageId
<1>4. /\ d.slots = [i \in 1..n |-> [id |-> i - 1, rotation |-> r[i]]]
      /\ d.removed = {} /\ d.next = n /\ d.revision = 0
      /\ d \in Document
  BY <1>1, <1>2, <1>3 DEF Opened, Document
<1>5. DOMAIN d.slots = 1..n /\ \A i \in 1..n : d.slots[i].id = i - 1
  BY <1>4
<1>6. \A p \in KnownIds(d) : p < d.next
  BY <1>4, <1>5 DEF KnownIds
<1>7. QED BY <1>4, <1>5, <1>6 DEF WellFormed

\* Three parts put together, as Vec::splice leaves them.
LEMMA SplicedProperties ==
  ASSUME NEW s \in Seq(Slot), NEW t \in Seq(Slot), NEW u \in Seq(Slot)
  PROVE  /\ s \o t \o u \in Seq(Slot)
         /\ Len(s \o t \o u) = Len(s) + Len(t) + Len(u)
         /\ \A j \in 1..(Len(s) + Len(t) + Len(u)) :
              (s \o t \o u)[j] = IF j <= Len(s) THEN s[j]
                                 ELSE IF j <= Len(s) + Len(t) THEN t[j - Len(s)]
                                 ELSE u[j - Len(s) - Len(t)]
<1> DEFINE two == s \o t
<1>1. Len(s) \in Nat /\ Len(t) \in Nat /\ Len(u) \in Nat
  BY LenProperties
<1>2. /\ two \in Seq(Slot) /\ Len(two) = Len(s) + Len(t)
      /\ \A j \in 1..(Len(s) + Len(t)) :
           two[j] = IF j <= Len(s) THEN s[j] ELSE t[j - Len(s)]
  BY ConcatProperties
<1>3. two \in Seq(Slot)
  BY <1>2
<1> HIDE DEF two
<1>4. /\ two \o u \in Seq(Slot) /\ Len(two \o u) = Len(two) + Len(u)
      /\ \A j \in 1..(Len(two) + Len(u)) :
           (two \o u)[j] = IF j <= Len(two) THEN two[j] ELSE u[j - Len(two)]
  BY <1>3, ConcatProperties, Zenon
<1> DEFINE three == two \o u
<1>5. three = s \o t \o u
  BY DEF two
<1> HIDE DEF three
<1>6. /\ three \in Seq(Slot) /\ Len(three) = Len(s) + Len(t) + Len(u)
      /\ \A j \in 1..(Len(s) + Len(t) + Len(u)) :
           three[j] = IF j <= Len(s) THEN s[j]
                      ELSE IF j <= Len(s) + Len(t) THEN t[j - Len(s)]
                      ELSE u[j - Len(s) - Len(t)]
  BY <1>1, <1>2, <1>4 DEF three
<1>7. QED BY <1>5, <1>6

\* Document e has the pages of document d with n more at this place, under
\* identities counted from first.
Block(e, d, at, n, first) ==
  /\ Len(e.slots) = Len(d.slots) + n
  /\ \A j \in 1..(Len(d.slots) + n) :
       IF j <= at THEN e.slots[j] = d.slots[j]
       ELSE IF j <= at + n THEN e.slots[j].id = first + (j - at) - 1
       ELSE e.slots[j] = d.slots[j - n]

\* PageMap::insert_slot once per copied page: the copies stand together at the
\* place asked for, under identities no page of the document ever had.
LEMMA ImportLayout ==
  ASSUME NEW d \in Document, NEW source \in Document, WellFormed(source),
         NEW ids \in Seq(PageId), NEW at \in Nat, CanImport(d, source, ids, at)
  PROVE  LET e == ImportPages(d, source, ids, at)
         IN  /\ e \in Document
             /\ e.removed = d.removed
             /\ e.next = d.next + Len(ids)
             /\ Block(e, d, at, Len(ids), d.next)
<1> DEFINE n == Len(ids)
           m == Len(d.slots)
           e == ImportPages(d, source, ids, at)
           copies == [i \in DOMAIN ids |->
                        [id |-> d.next + i - 1,
                         rotation |-> source.slots[IndexOf(source, ids[i])].rotation]]
           front == SubSeq(d.slots, 1, at)
           back == SubSeq(d.slots, at + 1, Len(d.slots))
           slots == front \o copies \o back
<1>1. /\ d.slots \in Seq(Slot) /\ d.removed \in SUBSET Slot /\ d.next \in Nat
      /\ source.slots \in Seq(Slot)
      /\ n \in Nat /\ m \in Nat /\ DOMAIN ids = 1..n /\ DOMAIN d.slots = 1..m
      /\ at <= m
  BY DEF Document, CanImport, PageCount
<1>2. /\ copies \in Seq(Slot) /\ Len(copies) = n
      /\ \A i \in 1..n : copies[i].id = d.next + i - 1
  <2>1. ASSUME NEW i \in 1..n
        PROVE  source.slots[IndexOf(source, ids[i])].rotation \in Rotations
    <3>1. Holds(source, ids[i])
      BY <1>1 DEF CanImport
    <3>2. IndexOf(source, ids[i]) \in 1..Len(source.slots)
      BY <3>1, IndexOfProperties
    <3>3. source.slots[IndexOf(source, ids[i])] \in Slot
      BY <1>1, <3>2, ElementOfSeq
    <3>4. QED BY <3>3 DEF Slot
  <2>2. \A i \in 1..n : copies[i] \in Slot /\ copies[i].id = d.next + i - 1
    BY SMTT(30), <1>1, <2>1 DEF Slot, PageId
  <2>3. copies = [i \in 1..n |-> copies[i]]
    BY <1>1
  <2> HIDE DEF copies
  <2>4. copies \in [1..n -> Slot]
    BY <2>2, <2>3
  <2>5. copies \in Seq(Slot) /\ Len(copies) = n
    BY <1>1, <2>4
  <2>6. QED BY <2>2, <2>5
<1> HIDE DEF copies
<1>3. /\ front \in Seq(Slot) /\ Len(front) = at
      /\ \A j \in 1..at : front[j] = d.slots[j]
  <2>1. \A j \in 1..at : d.slots[j] \in Slot
    BY <1>1, ElementOfSeq
  <2>2. QED BY <1>1, <2>1, SubSeqProperties
<1>4. /\ back \in Seq(Slot) /\ Len(back) = m - at
      /\ \A j \in 1..(m - at) : back[j] = d.slots[at + j]
  <2>1. \A j \in (at + 1)..m : d.slots[j] \in Slot
    BY <1>1, ElementOfSeq
  <2>2. at + 1 \in Int /\ m \in Int
    BY <1>1
  <2>3. /\ back \in Seq(Slot)
        /\ Len(back) = IF at + 1 <= m THEN m - (at + 1) + 1 ELSE 0
        /\ \A j \in 1..(m - (at + 1) + 1) : back[j] = d.slots[at + 1 + j - 1]
    BY <2>1, <2>2, SubSeqProperties
  <2>4. QED BY <1>1, <2>3
<1> HIDE DEF front, back, n, m
<1>5. /\ slots \in Seq(Slot) /\ Len(slots) = m + n
      /\ \A j \in 1..(m + n) :
           slots[j] = IF j <= at THEN d.slots[j]
                      ELSE IF j <= at + n THEN copies[j - at] ELSE d.slots[j - n]
  <2>1. /\ slots \in Seq(Slot) /\ Len(slots) = at + n + (m - at)
        /\ \A j \in 1..(at + n + (m - at)) :
             slots[j] = IF j <= at THEN front[j]
                        ELSE IF j <= at + n THEN copies[j - at] ELSE back[j - at - n]
    <3>1. m - at \in Nat
      BY <1>1
    <3>2. /\ front \in Seq(Slot) /\ copies \in Seq(Slot) /\ back \in Seq(Slot)
          /\ Len(front) = at /\ Len(copies) = n /\ Len(back) = m - at
      BY <1>2, <1>3, <1>4
    <3>3. /\ front \o copies \o back \in Seq(Slot)
          /\ Len(front \o copies \o back) = Len(front) + Len(copies) + Len(back)
          /\ \A j \in 1..(Len(front) + Len(copies) + Len(back)) :
               (front \o copies \o back)[j]
                 = IF j <= Len(front) THEN front[j]
                   ELSE IF j <= Len(front) + Len(copies) THEN copies[j - Len(front)]
                   ELSE back[j - Len(front) - Len(copies)]
      BY <3>2, SplicedProperties, Zenon
    <3>4. QED BY <3>2, <3>3, Zenon
  <2> HIDE DEF slots
  <2>2. at + n + (m - at) = m + n
    BY <1>1
  <2>3. ASSUME NEW j \in 1..(m + n), j > at + n
        PROVE  back[j - at - n] = d.slots[j - n]
    <3>1. j - at - n \in 1..(m - at) /\ at + (j - at - n) = j - n
      BY <1>1, <2>3
    <3>2. QED BY <1>4, <3>1
  <2>4. ASSUME NEW j \in 1..(m + n)
        PROVE  slots[j] = IF j <= at THEN d.slots[j]
                          ELSE IF j <= at + n THEN copies[j - at] ELSE d.slots[j - n]
    <3>1. slots[j] = IF j <= at THEN front[j]
                     ELSE IF j <= at + n THEN copies[j - at] ELSE back[j - at - n]
      BY <2>1, <2>2
    <3>2. j <= at => front[j] = d.slots[j]
      BY <1>1, <1>3
    <3>3. CASE j <= at
      BY <3>1, <3>2, <3>3
    <3>4. CASE ~(j <= at) /\ j <= at + n
      BY <3>1, <3>4
    <3>5. CASE ~(j <= at) /\ ~(j <= at + n)
      <4>1. j > at + n
        BY <1>1, <3>5
      <4>2. QED BY <2>3, <3>1, <3>5, <4>1
    <3>6. QED BY <3>3, <3>4, <3>5
  <2>5. QED BY <2>1, <2>2, <2>4
<1> HIDE DEF slots
<1>6. /\ e \in Document /\ e.slots = slots /\ e.removed = d.removed
      /\ e.next = d.next + n
  <2>1. e = Mutated(d, slots, d.removed, d.next + n)
    BY DEF ImportPages, slots, front, copies, back, n
  <2>2. d.next + n \in Nat
    BY <1>1
  <2> HIDE DEF e
  <2>3. QED BY <1>1, <1>5, <2>1, <2>2, MutatedIsDocument
<1> HIDE DEF e
<1>7. ASSUME NEW j \in 1..(m + n)
      PROVE  IF j <= at THEN e.slots[j] = d.slots[j]
             ELSE IF j <= at + n THEN e.slots[j].id = d.next + (j - at) - 1
             ELSE e.slots[j] = d.slots[j - n]
  <2>1. CASE ~(j <= at) /\ j <= at + n
    <3>1. j - at \in 1..n /\ e.slots[j] = copies[j - at]
      BY <1>1, <1>5, <1>6, <2>1
    <3>2. QED BY <1>2, <2>1, <3>1
  <2>2. QED BY <1>5, <1>6, <2>1
<1>8. Block(e, d, at, n, d.next)
  BY <1>5, <1>6, <1>7 DEF Block, m
<1>9. QED BY <1>6, <1>8 DEF e, n

\* None of the copies shares an identity with a page the document has or had.
LEMMA ImportWellFormed ==
  ASSUME NEW d \in Document, NEW source \in Document, WellFormed(d), WellFormed(source),
         NEW ids \in Seq(PageId), NEW at \in Nat, CanImport(d, source, ids, at)
  PROVE  /\ ImportPages(d, source, ids, at) \in Document
         /\ WellFormed(ImportPages(d, source, ids, at))
<1> DEFINE n == Len(ids)
           m == Len(d.slots)
           e == ImportPages(d, source, ids, at)
<1>1. /\ d.slots \in Seq(Slot) /\ d.removed \in SUBSET Slot /\ d.next \in Nat
      /\ n \in Nat /\ m \in Nat /\ DOMAIN d.slots = 1..m
      /\ at <= m
  BY DEF Document, CanImport, PageCount
<1>2. /\ e \in Document /\ e.removed = d.removed /\ e.next = d.next + n
      /\ Block(e, d, at, n, d.next)
  BY ImportLayout
<1> HIDE DEF e, n
<1>3. /\ e.slots \in Seq(Slot) /\ Len(e.slots) = m + n
      /\ \A j \in 1..(m + n) :
           IF j <= at THEN e.slots[j] = d.slots[j]
           ELSE IF j <= at + n THEN e.slots[j].id = d.next + (j - at) - 1
           ELSE e.slots[j] = d.slots[j - n]
  BY <1>2 DEF Document, Block
<1> HIDE DEF m
\* A page of e was in d, or is a copy under an identity d had not handed out.
<1>4. DOMAIN e.slots = 1..(m + n)
  BY <1>3, <1>2
<1> DEFINE Old(j, i) == i \in 1..m /\ e.slots[j] = d.slots[i] /\ e.slots[j].id < d.next
           Copy(j) == j - at \in 1..n /\ e.slots[j].id = d.next + (j - at) - 1
<1>5. \A i \in 1..m : d.slots[i].id \in Nat /\ d.slots[i].id < d.next
  <2>1. \A i \in 1..m : d.slots[i] \in Slot
    BY <1>1, ElementOfSeq
  <2>2. QED BY <1>1, <2>1 DEF Slot, PageId, WellFormed, KnownIds
<1>6. ASSUME NEW j \in 1..(m + n)
      PROVE  \/ j <= at /\ Old(j, j)
             \/ at < j /\ j <= at + n /\ Copy(j)
             \/ at + n < j /\ Old(j, j - n)
  <2> DEFINE f == e.slots[j]
  <2>1. /\ j <= at => f = d.slots[j]
        /\ ~(j <= at) /\ j <= at + n => f.id = d.next + (j - at) - 1
        /\ ~(j <= at) /\ ~(j <= at + n) => f = d.slots[j - n]
    BY <1>3
  <2> HIDE DEF f
  <2>2. CASE j <= at
    <3>1. j \in 1..m /\ f = d.slots[j]
      BY <1>1, <2>1, <2>2
    <3>2. QED BY <1>5, <2>2, <3>1 DEF f
  <2>3. CASE at < j /\ j <= at + n
    <3>1. j - at \in 1..n /\ ~(j <= at) /\ f.id = d.next + (j - at) - 1
      BY <1>1, <2>1, <2>3
    <3>2. QED BY <2>3, <3>1 DEF f
  <2>4. CASE at + n < j
    <3>1. /\ j - n \in 1..m /\ ~(j <= at) /\ ~(j <= at + n)
          /\ f = d.slots[j - n]
      BY <1>1, <2>1, <2>4
    <3>2. QED BY <1>5, <2>4, <3>1 DEF f
  <2>5. QED BY <1>1, <2>2, <2>3, <2>4
<1>7. ASSUME NEW j \in DOMAIN e.slots, NEW k \in DOMAIN e.slots,
              e.slots[j].id = e.slots[k].id
       PROVE  j = k
  <2>1. j \in 1..(m + n) /\ k \in 1..(m + n)
    BY <1>4
  <2>2. \A i, l \in 1..m : d.slots[i].id = d.slots[l].id => i = l
    BY <1>1 DEF WellFormed
  <2>3. /\ \/ j <= at /\ Old(j, j)
           \/ at < j /\ j <= at + n /\ Copy(j)
           \/ at + n < j /\ Old(j, j - n)
        /\ \/ k <= at /\ Old(k, k)
           \/ at < k /\ k <= at + n /\ Copy(k)
           \/ at + n < k /\ Old(k, k - n)
    BY <1>6, <2>1
  <2>4. CASE at < j /\ j <= at + n
    <3>1. Copy(j)
      BY <1>1, <2>1, <2>3, <2>4
    <3>2. e.slots[k].id >= d.next
      BY <1>1, <1>7, <3>1
    <3>3. Copy(k)
      <4>1. \A i : ~Old(k, i)
        BY <1>1, <1>5, <3>2
      <4>2. QED BY <2>3, <4>1
    <3>4. d.next + (j - at) - 1 = d.next + (k - at) - 1
      BY <1>7, <3>1, <3>3
    <3>5. d.next \in Int /\ j \in Int /\ k \in Int /\ at \in Int
      BY <1>1, <2>1
    <3>6. QED BY <3>4, <3>5
  <2>5. CASE at < k /\ k <= at + n
    <3>1. Copy(k)
      BY <1>1, <2>1, <2>3, <2>5
    <3>2. e.slots[j].id >= d.next
      BY <1>1, <1>7, <3>1
    <3>3. Copy(j)
      <4>1. \A i : ~Old(j, i)
        BY <1>1, <1>5, <3>2
      <4>2. QED BY <2>3, <4>1
    <3>4. d.next + (j - at) - 1 = d.next + (k - at) - 1
      BY <1>7, <3>1, <3>3
    <3>5. d.next \in Int /\ j \in Int /\ k \in Int /\ at \in Int
      BY <1>1, <2>1
    <3>6. QED BY <3>4, <3>5
  <2>6. CASE ~(at < j /\ j <= at + n) /\ ~(at < k /\ k <= at + n)
    <3> DEFINE was(i) == IF i <= at THEN i ELSE i - n
    <3>1. Old(j, was(j)) /\ Old(k, was(k))
      BY SMTT(30), <1>1, <2>1, <2>3, <2>6
    <3>2. was(j) = was(k)
      BY <1>7, <2>2, <3>1
    <3>3. QED BY <1>1, <2>1, <2>6, <3>2
  <2>7. QED BY <2>4, <2>5, <2>6
<1>8. ASSUME NEW j \in DOMAIN e.slots, NEW s \in e.removed
       PROVE  e.slots[j].id # s.id
  <2>1. s \in d.removed /\ s.id < d.next
    BY <1>2 DEF WellFormed, KnownIds
  <2>2. CASE \E i \in 1..m : Old(j, i)
    BY <1>1, <2>1, <2>2 DEF WellFormed
  <2>3. CASE Copy(j)
    <3>1. s.id \in Nat
      BY <1>1, <2>1 DEF Slot, PageId
    <3>2. QED BY <1>1, <2>1, <2>3, <3>1
  <2>4. QED BY <1>4, <1>6, <2>2, <2>3
<1>9. ASSUME NEW p \in KnownIds(e) PROVE p < e.next
  <2>1. CASE \E s \in e.removed : p = s.id
    <3>1. PICK s \in d.removed : p = s.id
      BY <1>2, <2>1
    <3>2. p \in Nat /\ p < d.next
      BY <1>1, <3>1 DEF Slot, PageId, WellFormed, KnownIds
    <3>3. QED BY <1>1, <1>2, <3>2
  <2>2. CASE \E j \in DOMAIN e.slots : p = e.slots[j].id
    <3>1. PICK j \in 1..(m + n) : p = e.slots[j].id
      BY <1>4, <2>2
    <3>2. CASE \E i \in 1..m : Old(j, i)
      BY <1>1, <1>2, <1>5, <3>1, <3>2
    <3>3. CASE Copy(j)
      BY <1>1, <1>2, <3>1, <3>3
    <3>4. QED BY <1>6, <3>2, <3>3
  <2>3. QED BY <2>1, <2>2 DEF KnownIds
<1>10. \A s, t \in e.removed : s.id = t.id => s = t
  BY <1>2 DEF WellFormed
<1>11. WellFormed(e)
  BY <1>7, <1>8, <1>9, <1>10 DEF WellFormed
<1>12. QED BY <1>2, <1>11 DEF e

-----------------------------------------------------------------------------
\* One command

LEMMA RotationAdvances ==
  ASSUME NEW d \in Document, NEW p, NEW r \in Rotations, WellFormed(d), CanRotate(d, p)
  PROVE  SetRotation(d, p, r) \in Document /\ SetRotation(d, p, r).revision # d.revision
<1> DEFINE i == IndexOf(d, p)
           e == SetRotation(d, p, r)
           turned == [id |-> p, rotation |-> r]
<1>1. /\ i \in 1..Len(d.slots) /\ d.slots[i].id = p /\ d.slots[i] \in Slot
      /\ turned \in Slot
      /\ e \in Document
      /\ e.slots = [d.slots EXCEPT ![i] = turned]
      /\ e.removed = d.removed
      /\ e.revision # d.revision
  BY SetRotationEffect
<1>2. QED BY <1>1

\* A command leaves a well-formed document with another revision, and its
\* inverse allocates no identity.
LEMMA CommandStep ==
  ASSUME NEW d \in Document, WellFormed(d), NEW c \in Command, Accepts(c, d)
  PROVE  /\ Applied(c, d) \in Document
         /\ WellFormed(Applied(c, d))
         /\ Applied(c, d).revision # d.revision
         /\ InverseOf(c, d) \in Inversion
<1>1. CASE c \in RemoveCommand
  <2>1. /\ c.op = "remove" /\ CanRemove(d, c.page) /\ c.page \in PageId
        /\ Applied(c, d) = RemovePage(d, c.page)
        /\ InverseOf(c, d)
             = [op |-> "restore", page |-> c.page, at |-> IndexOf(d, c.page) - 1]
    BY <1>1 DEF RemoveCommand, Accepts, Applied, InverseOf
  <2>2. IndexOf(d, c.page) - 1 \in Nat
    BY <2>1, RemovePageEffect DEF Document
  <2>3. QED
    BY <2>1, <2>2, RemovePageEffect, RemoveWellFormed DEF Inversion, RestoreCommand
<1>2. CASE c \in RestoreCommand
  <2>1. /\ c.op = "restore" /\ CanRestore(d, c.page, c.at)
        /\ c.page \in PageId /\ c.at \in Nat
        /\ Applied(c, d) = RestorePage(d, c.page, c.at)
        /\ InverseOf(c, d) = [op |-> "remove", page |-> c.page]
    BY <1>2 DEF RestoreCommand, Accepts, Applied, InverseOf
  <2>2. QED
    BY <2>1, RestorePageEffect, RestoreWellFormed DEF Inversion, RemoveCommand
<1>3. CASE c \in RotateCommand
  <2>1. /\ c.op = "rotate" /\ CanRotate(d, c.page)
        /\ c.page \in PageId /\ c.rotation \in Rotations
        /\ Applied(c, d) = SetRotation(d, c.page, c.rotation)
        /\ InverseOf(c, d)
             = [op |-> "rotate", page |-> c.page,
                rotation |-> d.slots[IndexOf(d, c.page)].rotation]
    BY <1>3 DEF RotateCommand, Accepts, Applied, InverseOf
  <2>2. d.slots[IndexOf(d, c.page)].rotation \in Rotations
    BY <2>1, SetRotationEffect DEF Slot
  <2>3. InverseOf(c, d) \in Inversion
    BY <2>1, <2>2 DEF Inversion, RotateCommand
  <2>4. /\ SetRotation(d, c.page, c.rotation) \in Document
        /\ SetRotation(d, c.page, c.rotation).revision # d.revision
    BY <2>1, RotationAdvances
  <2>5. QED BY <2>1, <2>3, <2>4, SetRotationWellFormed
<1>4. CASE c \in MoveCommand
  <2>1. /\ c.op = "move" /\ CanMove(d, c.page, c.to)
        /\ c.page \in PageId /\ c.to \in Nat
        /\ Applied(c, d) = MovePage(d, c.page, c.to)
        /\ InverseOf(c, d)
             = [op |-> "move", page |-> c.page, to |-> IndexOf(d, c.page) - 1]
    BY <1>4 DEF MoveCommand, Accepts, Applied, InverseOf
  <2>2. IndexOf(d, c.page) - 1 \in Nat
    BY <2>1, MovePageEffect DEF Document
  <2>3. QED
    BY <2>1, <2>2, MovePageEffect, MoveWellFormed DEF Inversion, MoveCommand
<1>5. CASE c \in InsertCommand
  <2>1. /\ c.op = "insert" /\ CanInsert(d, c.at) /\ c.at \in Nat
        /\ Applied(c, d) = InsertPage(d, c.at)
        /\ InverseOf(c, d) = [op |-> "remove", page |-> d.next]
    BY <1>5 DEF InsertCommand, Accepts, Applied, InverseOf
  <2>2. d.next \in PageId
    BY DEF Document, PageId
  <2>3. InverseOf(c, d) \in Inversion
    BY <2>1, <2>2 DEF Inversion, RemoveCommand
  <2>4. /\ InsertPage(d, c.at) \in Document
        /\ InsertPage(d, c.at).revision # d.revision
    BY <2>1, InsertPageEffect
  <2>5. QED BY <2>1, <2>3, <2>4, InsertWellFormed
<1>6. QED BY <1>1, <1>2, <1>3, <1>4, <1>5 DEF Command, Inversion

-----------------------------------------------------------------------------
\* Inverses

LEMMA RemoveInverse ==
  ASSUME NEW d \in Document, NEW p \in PageId, WellFormed(d), CanRemove(d, p)
  PROVE  LET e == RemovePage(d, p)
             at == IndexOf(d, p) - 1
         IN  CanRestore(e, p, at) /\ StandsFor(RestorePage(e, p, at), d)
<1> DEFINE i == IndexOf(d, p)
           e == RemovePage(d, p)
           s == d.slots[i]
<1>1. /\ i \in 1..Len(d.slots) /\ s.id = p /\ s \in Slot
      /\ e \in Document
      /\ e.slots = RemoveAt(d.slots, i)
      /\ e.removed = d.removed \cup {s}
  BY RemovePageEffect
<1>2. WellFormed(e)
  BY RemoveWellFormed
<1>3. /\ d.slots \in Seq(Slot) /\ DOMAIN d.slots = 1..Len(d.slots)
      /\ Len(e.slots) = Len(d.slots) - 1
  <2>1. d.slots \in Seq(Slot)
    BY DEF Document
  <2>2. QED BY SMTT(30), <1>1, <2>1, SlotRemoved
<1>4. s \notin d.removed
  BY <1>1, <1>3 DEF WellFormed
<1>5. InsertAt(e.slots, i, s) = d.slots
  BY <1>1, <1>3, InsertUndoesRemove
<1> HIDE DEF e, i, s
<1>6. ~Holds(e, p)
  BY <1>1, <1>2 DEF Holds, WellFormed
<1>7. i - 1 \in Nat /\ (i - 1) + 1 = i /\ CanRestore(e, p, i - 1)
  BY <1>1, <1>3, <1>6 DEF CanRestore, Trashed, PageCount
<1>8. PICK t \in e.removed :
        /\ t.id = p
        /\ RestorePage(e, p, i - 1).slots = InsertAt(e.slots, i, t)
        /\ RestorePage(e, p, i - 1).removed = e.removed \ {t}
  BY <1>1, <1>2, <1>7, RestorePageEffect
<1>9. t = s
  BY <1>1, <1>2, <1>8 DEF WellFormed
<1>10. QED BY <1>1, <1>4, <1>5, <1>7, <1>8, <1>9 DEF StandsFor, e, i

LEMMA RestoreInverse ==
  ASSUME NEW d \in Document, NEW p \in PageId, NEW at \in Nat,
         WellFormed(d), CanRestore(d, p, at)
  PROVE  LET e == RestorePage(d, p, at)
         IN  CanRemove(e, p) /\ StandsFor(RemovePage(e, p), d)
<1> DEFINE e == RestorePage(d, p, at)
<1>1. PICK s \in d.removed :
        /\ s \in Slot /\ s.id = p /\ at + 1 \in 1..(Len(d.slots) + 1)
        /\ e \in Document
        /\ e.slots = InsertAt(d.slots, at + 1, s)
        /\ e.removed = d.removed \ {s}
  BY RestorePageEffect
<1>2. WellFormed(e)
  BY RestoreWellFormed
<1>3. d.slots \in Seq(Slot)
  BY DEF Document
<1> HIDE DEF e
<1>4. /\ at + 1 \in 1..Len(e.slots) /\ e.slots[at + 1] = s
      /\ DOMAIN e.slots = 1..Len(e.slots)
  <2>1. DOMAIN e.slots = 1..Len(e.slots)
    BY <1>1 DEF Document
  <2>2. QED BY <1>1, <1>3, <2>1, SlotInserted
<1>5. CanRemove(e, p)
  BY <1>1, <1>4 DEF CanRemove, Holds
<1>6. IndexOf(e, p) = at + 1
  BY <1>1, <1>2, <1>4, IndexOfUnique
<1>7. /\ RemovePage(e, p).slots = RemoveAt(e.slots, at + 1)
      /\ RemovePage(e, p).removed = e.removed \cup {s}
  BY <1>1, <1>2, <1>4, <1>5, <1>6, RemovePageEffect
<1>8. RemoveAt(e.slots, at + 1) = d.slots
  BY <1>1, <1>3, RemoveUndoesInsert
<1>9. QED BY <1>1, <1>5, <1>7, <1>8 DEF StandsFor, e

LEMMA InsertInverse ==
  ASSUME NEW d \in Document, NEW at \in Nat, WellFormed(d), CanInsert(d, at)
  PROVE  LET e == InsertPage(d, at)
         IN  CanRemove(e, d.next) /\ StandsFor(RemovePage(e, d.next), d)
<1> DEFINE e == InsertPage(d, at)
           s == [id |-> d.next, rotation |-> 0]
<1>1. /\ s \in Slot /\ s.id = d.next /\ at + 1 \in 1..(Len(d.slots) + 1)
      /\ e \in Document
      /\ e.slots = InsertAt(d.slots, at + 1, s)
      /\ e.removed = d.removed
  BY InsertPageEffect
<1>2. WellFormed(e)
  BY InsertWellFormed
<1>3. d.slots \in Seq(Slot)
  BY DEF Document
<1> HIDE DEF e, s
<1>4. /\ at + 1 \in 1..Len(e.slots) /\ e.slots[at + 1] = s
      /\ DOMAIN e.slots = 1..Len(e.slots)
  <2>1. DOMAIN e.slots = 1..Len(e.slots)
    BY <1>1 DEF Document
  <2>2. QED BY <1>1, <1>3, <2>1, SlotInserted
<1>5. CanRemove(e, d.next)
  BY <1>1, <1>4 DEF CanRemove, Holds
<1>6. IndexOf(e, d.next) = at + 1
  BY <1>1, <1>2, <1>4, IndexOfUnique
<1>7. /\ RemovePage(e, d.next).slots = RemoveAt(e.slots, at + 1)
      /\ RemovePage(e, d.next).removed = e.removed \cup {s}
  BY <1>1, <1>2, <1>4, <1>5, <1>6, RemovePageEffect
<1>8. RemoveAt(e.slots, at + 1) = d.slots
  BY <1>1, <1>3, RemoveUndoesInsert
<1>9. QED BY <1>1, <1>5, <1>7, <1>8 DEF StandsFor, e

LEMMA RotateInverse ==
  ASSUME NEW d \in Document, NEW p \in PageId, NEW r \in Rotations,
         WellFormed(d), CanRotate(d, p)
  PROVE  LET e == SetRotation(d, p, r)
             old == d.slots[IndexOf(d, p)].rotation
         IN  CanRotate(e, p) /\ StandsFor(SetRotation(e, p, old), d)
<1> DEFINE i == IndexOf(d, p)
           e == SetRotation(d, p, r)
           old == d.slots[i].rotation
           turned == [id |-> p, rotation |-> r]
           back == [id |-> p, rotation |-> old]
<1>1. /\ i \in 1..Len(d.slots) /\ d.slots[i].id = p /\ d.slots[i] \in Slot
      /\ turned \in Slot
      /\ e \in Document
      /\ e.slots = [d.slots EXCEPT ![i] = turned]
      /\ e.removed = d.removed
  BY SetRotationEffect
<1>2. WellFormed(e)
  BY SetRotationWellFormed
<1>3. old \in Rotations /\ back = d.slots[i] /\ turned.id = p
  BY <1>1 DEF Slot
<1>4. d.slots \in Seq(Slot) /\ e.slots \in Seq(Slot) /\ DOMAIN e.slots = 1..Len(e.slots)
  BY <1>1 DEF Document
<1> HIDE DEF e, i, old, turned, back
<1>5. /\ Len(e.slots) = Len(d.slots)
      /\ e.slots[i] = turned
      /\ \A j \in 1..Len(d.slots) : j # i => e.slots[j] = d.slots[j]
  BY <1>1, <1>4, ExceptSeq
<1>6. CanRotate(e, p)
  BY <1>1, <1>3, <1>4, <1>5 DEF CanRotate, Holds
<1>7. IndexOf(e, p) = i
  BY <1>1, <1>2, <1>3, <1>5, IndexOfUnique
<1>8. /\ SetRotation(e, p, old).slots = [e.slots EXCEPT ![i] = back]
      /\ SetRotation(e, p, old).removed = e.removed
  BY <1>1, <1>2, <1>3, <1>6, <1>7, SetRotationEffect DEF back
<1>9. [e.slots EXCEPT ![i] = back] = d.slots
  <2> DEFINE t == [e.slots EXCEPT ![i] = back]
  <2>1. /\ t \in Seq(Slot) /\ Len(t) = Len(d.slots)
        /\ \A j \in 1..Len(d.slots) : t[j] = IF j = i THEN back ELSE e.slots[j]
    BY <1>1, <1>3, <1>4, <1>5, ExceptSeq
  <2> HIDE DEF t
  <2>2. \A j \in 1..Len(d.slots) : t[j] = d.slots[j]
    BY <1>3, <1>5, <2>1
  <2>3. t = d.slots
    BY <1>4, <2>1, <2>2, SeqEqual
  <2>4. QED BY <2>3 DEF t
<1>10. QED BY <1>1, <1>6, <1>8, <1>9 DEF StandsFor, e, i, old

LEMMA MoveInverse ==
  ASSUME NEW d \in Document, NEW p \in PageId, NEW to \in Nat,
         WellFormed(d), CanMove(d, p, to)
  PROVE  LET e == MovePage(d, p, to)
             at == IndexOf(d, p) - 1
         IN  CanMove(e, p, at) /\ StandsFor(MovePage(e, p, at), d)
<1> DEFINE i == IndexOf(d, p)
           e == MovePage(d, p, to)
           s == d.slots[i]
           rest == RemoveAt(d.slots, i)
<1>1. /\ i \in 1..Len(d.slots) /\ s.id = p /\ s \in Slot
      /\ to + 1 \in 1..Len(d.slots)
      /\ rest \in Seq(Slot)
      /\ e \in Document
      /\ e.slots = InsertAt(rest, to + 1, s)
      /\ e.removed = d.removed
  BY MovePageEffect
<1>2. WellFormed(e)
  BY MoveWellFormed
<1>3. /\ d.slots \in Seq(Slot) /\ e.slots \in Seq(Slot)
      /\ DOMAIN e.slots = 1..Len(e.slots)
  BY <1>1 DEF Document
<1>4. Len(rest) = Len(d.slots) - 1 /\ InsertAt(rest, i, s) = d.slots
  BY <1>1, <1>3, SlotRemoved, InsertUndoesRemove
<1> HIDE DEF e, i, s, rest
<1>5. to + 1 \in 1..(Len(rest) + 1)
  BY <1>1, <1>3, <1>4
<1>6. Len(e.slots) = Len(d.slots) /\ e.slots[to + 1] = s
  <2>1. Len(e.slots) = Len(rest) + 1 /\ e.slots[to + 1] = s
    BY <1>1, <1>5, SlotInserted
  <2>2. QED BY <1>3, <1>4, <2>1
<1>7. CanMove(e, p, i - 1) /\ i - 1 \in Nat /\ (i - 1) + 1 = i
  BY <1>1, <1>3, <1>6 DEF CanMove, Holds, PageCount
<1>8. IndexOf(e, p) = to + 1
  BY <1>1, <1>2, <1>6, IndexOfUnique
<1>9. /\ MovePage(e, p, i - 1).slots = InsertAt(RemoveAt(e.slots, to + 1), i, s)
      /\ MovePage(e, p, i - 1).removed = e.removed
  BY <1>1, <1>2, <1>6, <1>7, <1>8, MovePageEffect
<1>10. RemoveAt(e.slots, to + 1) = rest
  BY <1>1, <1>5, RemoveUndoesInsert
<1>11. QED BY <1>1, <1>4, <1>7, <1>9, <1>10 DEF StandsFor, e, i

\* Applying the inverse of any accepted command brings back the document as it
\* was, with a trash at least as full.
LEMMA InverseLaw ==
  ASSUME NEW d \in Document, WellFormed(d), NEW c \in Command, Accepts(c, d)
  PROVE  LeadsTo(InverseOf(c, d), Applied(c, d), d)
<1>1. CASE c \in RemoveCommand
  BY <1>1, RemoveInverse
  DEF RemoveCommand, Accepts, Applied, InverseOf, LeadsTo
<1>2. CASE c \in RestoreCommand
  BY <1>2, RestoreInverse
  DEF RestoreCommand, Accepts, Applied, InverseOf, LeadsTo
<1>3. CASE c \in RotateCommand
  BY <1>3, RotateInverse
  DEF RotateCommand, Accepts, Applied, InverseOf, LeadsTo
<1>4. CASE c \in MoveCommand
  BY <1>4, MoveInverse
  DEF MoveCommand, Accepts, Applied, InverseOf, LeadsTo
<1>5. CASE c \in InsertCommand
  BY <1>5, InsertInverse
  DEF InsertCommand, Accepts, Applied, InverseOf, LeadsTo
<1>6. QED BY <1>1, <1>2, <1>3, <1>4, <1>5 DEF Command, Inversion

-----------------------------------------------------------------------------
\* Standing in

LEMMA StandInFinds ==
  ASSUME NEW d, NEW e, StandsFor(e, d), NEW p
  PROVE  /\ Holds(e, p) <=> Holds(d, p)
         /\ IndexOf(e, p) = IndexOf(d, p)
         /\ PageCount(e) = PageCount(d)
BY DEF StandsFor, Holds, IndexOf, PageCount

\* A queued inverse works on any document that stands in for the one it was
\* computed for.
LEMMA StandInLaw ==
  ASSUME NEW d \in Document, NEW e \in Document, NEW f,
         WellFormed(d), WellFormed(e), StandsFor(e, d),
         NEW c \in Inversion, LeadsTo(c, d, f)
  PROVE  LeadsTo(c, e, f)
<1> USE DEF LeadsTo
<1>1. CASE c \in RemoveCommand
  <2>1. /\ Accepts(c, d) = CanRemove(d, c.page)
        /\ Accepts(c, e) = CanRemove(e, c.page)
        /\ Applied(c, d) = RemovePage(d, c.page)
        /\ Applied(c, e) = RemovePage(e, c.page)
    BY <1>1 DEF RemoveCommand, Accepts, Applied
  <2>2. RemovePage(d, c.page).slots = RemovePage(e, c.page).slots
    BY StandInFinds DEF RemovePage, Mutated, StandsFor
  <2>3. RemovePage(d, c.page).removed \subseteq RemovePage(e, c.page).removed
    BY StandInFinds DEF RemovePage, Mutated, StandsFor
  <2>4. Accepts(c, e)
    BY <2>1, StandInFinds DEF CanRemove
  <2>5. QED BY <2>1, <2>2, <2>3, <2>4 DEF StandsFor
<1>2. CASE c \in RotateCommand
  <2>1. /\ Accepts(c, d) = CanRotate(d, c.page)
        /\ Accepts(c, e) = CanRotate(e, c.page)
        /\ Applied(c, d) = SetRotation(d, c.page, c.rotation)
        /\ Applied(c, e) = SetRotation(e, c.page, c.rotation)
    BY <1>2 DEF RotateCommand, Accepts, Applied
  <2>2. SetRotation(d, c.page, c.rotation).slots = SetRotation(e, c.page, c.rotation).slots
    BY StandInFinds DEF SetRotation, Mutated, StandsFor
  <2>3. SetRotation(d, c.page, c.rotation).removed \subseteq SetRotation(e, c.page, c.rotation).removed
    BY StandInFinds DEF SetRotation, Mutated, StandsFor
  <2>4. Accepts(c, e)
    BY <2>1, StandInFinds DEF CanRotate
  <2>5. QED BY <2>1, <2>2, <2>3, <2>4 DEF StandsFor
<1>3. CASE c \in MoveCommand
  <2>1. /\ Accepts(c, d) = CanMove(d, c.page, c.to)
        /\ Accepts(c, e) = CanMove(e, c.page, c.to)
        /\ Applied(c, d) = MovePage(d, c.page, c.to)
        /\ Applied(c, e) = MovePage(e, c.page, c.to)
    BY <1>3 DEF MoveCommand, Accepts, Applied
  <2>2. MovePage(d, c.page, c.to).slots = MovePage(e, c.page, c.to).slots
    BY StandInFinds DEF MovePage, Mutated, StandsFor
  <2>3. MovePage(d, c.page, c.to).removed \subseteq MovePage(e, c.page, c.to).removed
    BY StandInFinds DEF MovePage, Mutated, StandsFor
  <2>4. Accepts(c, e)
    BY <2>1, StandInFinds DEF CanMove
  <2>5. QED BY <2>1, <2>2, <2>3, <2>4 DEF StandsFor
<1>4. CASE c \in RestoreCommand
  <2>1. /\ c.op = "restore" /\ CanRestore(d, c.page, c.at)
        /\ c.at \in Nat /\ c.page \in PageId
        /\ Applied(c, d) = RestorePage(d, c.page, c.at)
        /\ Applied(c, e) = RestorePage(e, c.page, c.at)
        /\ Accepts(c, e) <=> CanRestore(e, c.page, c.at)
    BY <1>4 DEF RestoreCommand, Accepts, Applied
  <2>2. CanRestore(e, c.page, c.at)
    BY <2>1, StandInFinds DEF CanRestore, Trashed, StandsFor
  <2>3. PICK s \in d.removed :
          /\ s.id = c.page
          /\ RestorePage(d, c.page, c.at).slots = InsertAt(d.slots, c.at + 1, s)
          /\ RestorePage(d, c.page, c.at).removed = d.removed \ {s}
    BY <2>1, RestorePageEffect
  <2>4. PICK t \in e.removed :
          /\ t.id = c.page
          /\ RestorePage(e, c.page, c.at).slots = InsertAt(e.slots, c.at + 1, t)
          /\ RestorePage(e, c.page, c.at).removed = e.removed \ {t}
    BY <2>1, <2>2, RestorePageEffect
  <2>5. s = t
    BY <2>3, <2>4 DEF StandsFor, WellFormed
  <2>6. QED BY <2>1, <2>2, <2>3, <2>4, <2>5 DEF StandsFor
<1>5. QED BY <1>1, <1>2, <1>3, <1>4 DEF Inversion
=============================================================================
