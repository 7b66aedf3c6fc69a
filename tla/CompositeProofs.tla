--------------------------- MODULE CompositeProofs ---------------------------
(***************************************************************************)
(* A Sequence is all or nothing, for every number of documents, pages and  *)
(* steps: wherever it fails, its rollback is never refused and brings back *)
(* the pages there were; an inverse bound to a document changes no other;  *)
(* and the inverse a call hands back undoes it, whichever call it was.     *)
(*                                                                         *)
(* The argument: the collected inverses, most recent first, unwind the     *)
(* target to the document it was when the sequence began (Unwinds). A step *)
(* adds its own inverse to the front (InverseLaw); a step of the rollback  *)
(* takes one off. A rollback leaves more in the trash than there was, so   *)
(* the documents it passes only stand in for those the inverses were       *)
(* computed for (StandInLaw), and so does the one it ends with: what a     *)
(* kept inverse restored before the sequence it restores after it. The     *)
(* copies of an import unwind because they stand together (BlockUnwinds).  *)
(***************************************************************************)
EXTENDS CompositeCommands, PageMapProofs, FiniteSetTheorems

-----------------------------------------------------------------------------
\* Unwinding

\* These commands, applied to document d from first to last, are all accepted
\* and lead to a document that stands for goal.
Unwinds(commands, d, goal) ==
  \E states \in [0..Len(commands) -> Document] :
    /\ \A i \in 0..Len(commands) : WellFormed(states[i])
    /\ StandsFor(d, states[0])
    /\ \A i \in 1..Len(commands) : LeadsTo(commands[i], states[i - 1], states[i])
    /\ StandsFor(states[Len(commands)], goal)

LEMMA UnwindsNothing ==
  ASSUME NEW d \in Document, WellFormed(d)
  PROVE  Unwinds(<<>>, d, d)
<1> DEFINE states == [i \in 0..0 |-> d]
<1>1. /\ states \in [0..0 -> Document]
      /\ \A i \in 0..0 : WellFormed(states[i])
      /\ states[0] = d
  OBVIOUS
<1>2. StandsFor(d, d)
  BY DEF StandsFor
<1>3. Len(<<>>) = 0 /\ 1..0 = {}
  OBVIOUS
<1> HIDE DEF states
<1>4. QED BY <1>1, <1>2, <1>3 DEF Unwinds

LEMMA UnwoundPages ==
  ASSUME NEW d, NEW goal, Unwinds(<<>>, d, goal)
  PROVE  StandsFor(d, goal)
BY DEF Unwinds, StandsFor

\* What leads to a document leads to the pages it has.
Pages(slots) == [slots |-> slots, removed |-> {}]

LEMMA UnwindsToPages ==
  ASSUME NEW commands, NEW d, NEW goal, Unwinds(commands, d, goal)
  PROVE  Unwinds(commands, d, Pages(goal.slots))
BY DEF Unwinds, StandsFor, Pages

\* A document that stands in for another unwinds as that one does.
LEMMA StandInUnwinds ==
  ASSUME NEW commands, NEW d, NEW e, StandsFor(e, d), NEW goal, Unwinds(commands, d, goal)
  PROVE  Unwinds(commands, e, goal)
BY DEF Unwinds, StandsFor

\* Sequence::apply collects the inverse of a step that was accepted.
LEMMA UnwindsMore ==
  ASSUME NEW d \in Document, WellFormed(d), NEW c \in Command, Accepts(c, d),
         NEW commands \in Seq(Inversion), NEW goal, Unwinds(commands, d, goal)
  PROVE  Unwinds(<<InverseOf(c, d)>> \o commands, Applied(c, d), goal)
<1> DEFINE n == Len(commands)
           more == <<InverseOf(c, d)>> \o commands
           e == Applied(c, d)
<1>1. n \in Nat
  OBVIOUS
<1>2. PICK states \in [0..n -> Document] :
        /\ \A i \in 0..n : WellFormed(states[i])
        /\ StandsFor(d, states[0])
        /\ \A i \in 1..n : LeadsTo(commands[i], states[i - 1], states[i])
        /\ StandsFor(states[n], goal)
  BY DEF Unwinds
<1>3. e \in Document /\ WellFormed(e) /\ InverseOf(c, d) \in Inversion
  BY CommandStep
<1>4. /\ more \in Seq(Inversion) /\ Len(more) = n + 1
      /\ more[1] = InverseOf(c, d)
      /\ \A i \in 2..(n + 1) : more[i] = commands[i - 1]
  BY <1>1, <1>3
<1> HIDE DEF n, more, e
<1> DEFINE after == [i \in 0..(n + 1) |->
                       IF i = 0 THEN e ELSE IF i = 1 THEN d ELSE states[i - 1]]
<1>5. /\ after \in [0..(n + 1) -> Document]
      /\ \A i \in 0..(n + 1) : WellFormed(after[i])
      /\ after[0] = e /\ after[1] = d
      /\ \A i \in 2..(n + 1) : after[i] = states[i - 1]
  BY <1>1, <1>2, <1>3
<1> HIDE DEF after
<1>6. StandsFor(e, after[0])
  BY <1>5 DEF StandsFor
<1>7. ASSUME NEW i \in 1..(n + 1)
      PROVE  LeadsTo(more[i], after[i - 1], after[i])
  <2>1. CASE i = 1
    <3>1. LeadsTo(InverseOf(c, d), e, d)
      BY InverseLaw DEF e
    <3>2. QED BY <1>4, <1>5, <2>1, <3>1
  <2>2. CASE i = 2
    <3>1. 1 \in 1..n /\ 0 \in 0..n
      BY <1>1, <2>2
    <3>2. commands[1] \in Inversion /\ LeadsTo(commands[1], states[0], states[1])
      BY <1>2, <3>1, ElementOfSeq DEF n
    <3>3. states[0] \in Document /\ WellFormed(states[0]) /\ StandsFor(d, states[0])
      BY <1>2, <3>1
    <3>4. LeadsTo(commands[1], d, states[1])
      BY <3>2, <3>3, StandInLaw
    <3>5. QED BY <1>4, <1>5, <2>2, <3>4
  <2>3. CASE i >= 3
    <3>1. i - 1 \in 1..n /\ i - 1 \in 2..(n + 1) /\ i \in 2..(n + 1)
      BY <1>1, <2>3
    <3>2. LeadsTo(commands[i - 1], states[i - 1 - 1], states[i - 1])
      BY <1>2, <3>1
    <3>3. QED BY <1>4, <1>5, <3>1, <3>2
  <2>4. QED BY <1>1, <2>1, <2>2, <2>3
<1>8. StandsFor(after[n + 1], goal)
  <2>1. CASE n = 0
    BY <1>2, <1>5, <2>1 DEF StandsFor
  <2>2. CASE n >= 1
    BY <1>1, <1>2, <1>5, <2>2
  <2>3. QED BY <1>1, <2>1, <2>2
<1>9. Unwinds(more, e, goal)
  BY <1>4, <1>5, <1>6, <1>7, <1>8 DEF Unwinds
<1>10. QED BY <1>9 DEF more, e

\* roll_back applies the most recent inverse: it is not refused.
LEMMA UnwindsLess ==
  ASSUME NEW d \in Document, WellFormed(d), NEW commands \in Seq(Inversion),
         commands # <<>>, NEW goal, Unwinds(commands, d, goal)
  PROVE  /\ Accepts(Head(commands), d)
         /\ Unwinds(Tail(commands), Applied(Head(commands), d), goal)
<1> DEFINE n == Len(commands)
           less == Tail(commands)
           e == Applied(Head(commands), d)
<1>1. /\ n \in Nat /\ n >= 1 /\ Head(commands) = commands[1]
      /\ Head(commands) \in Inversion
      /\ less \in Seq(Inversion) /\ Len(less) = n - 1
      /\ \A i \in 1..(n - 1) : less[i] = commands[i + 1]
  BY HeadTailProperties
<1>2. PICK states \in [0..n -> Document] :
        /\ \A i \in 0..n : WellFormed(states[i])
        /\ StandsFor(d, states[0])
        /\ \A i \in 1..n : LeadsTo(commands[i], states[i - 1], states[i])
        /\ StandsFor(states[n], goal)
  BY DEF Unwinds
<1> HIDE DEF n, less
<1>3. /\ states[0] \in Document /\ WellFormed(states[0])
      /\ LeadsTo(commands[1], states[0], states[1])
  BY <1>1, <1>2
<1>4. LeadsTo(Head(commands), d, states[1])
  BY <1>1, <1>2, <1>3, StandInLaw
<1>5. Accepts(Head(commands), d) /\ StandsFor(e, states[1])
  BY <1>4 DEF LeadsTo
<1> HIDE DEF e
<1> DEFINE after == [i \in 0..(n - 1) |-> states[i + 1]]
<1>6. /\ after \in [0..(n - 1) -> Document]
      /\ \A i \in 0..(n - 1) : WellFormed(after[i]) /\ after[i] = states[i + 1]
  BY <1>1, <1>2
<1> HIDE DEF after
<1>7. StandsFor(e, after[0]) /\ StandsFor(after[n - 1], goal)
  BY <1>1, <1>2, <1>5, <1>6
<1>8. ASSUME NEW i \in 1..(n - 1)
      PROVE  LeadsTo(less[i], after[i - 1], after[i])
  <2>1. i + 1 \in 1..n /\ i - 1 \in 0..(n - 1) /\ i \in 0..(n - 1)
    BY <1>1
  <2>2. LeadsTo(commands[i + 1], states[i + 1 - 1], states[i + 1])
    BY <1>2, <2>1
  <2>3. QED BY <1>1, <1>6, <2>1, <2>2
<1>9. Unwinds(less, e, goal)
  BY <1>1, <1>6, <1>7, <1>8 DEF Unwinds
<1>10. QED BY <1>5, <1>9 DEF less, e

-----------------------------------------------------------------------------
\* Taking copies out again

\* Sequences of slots that agree are one.
LEMMA SameSlots ==
  ASSUME NEW s \in Seq(Slot), NEW t \in Seq(Slot), Len(s) = Len(t),
         \A j \in 1..Len(s) : s[j] = t[j]
  PROVE  s = t
OBVIOUS

\* Document e without i of its pages, those that follow the first few.
Without(e, few, i) ==
  [slots |-> [j \in 1..(Len(e.slots) - i) |->
                IF j <= few THEN e.slots[j] ELSE e.slots[j + i]],
   removed |-> e.removed, next |-> e.next, revision |-> e.revision]

IsWithout(d, e, few, i) ==
  /\ d \in Document /\ WellFormed(d)
  /\ d.slots \in Seq(Slot) /\ Len(d.slots) = Len(e.slots) - i
  /\ d.removed = e.removed
  /\ \A j \in 1..few : d.slots[j] = e.slots[j]
  /\ \A j \in (few + 1)..(Len(e.slots) - i) : d.slots[j] = e.slots[j + i]

LEMMA WithoutFits ==
  ASSUME NEW e \in Document, WellFormed(e), NEW few \in Nat, NEW i \in Nat,
         few + i <= Len(e.slots)
  PROVE  IsWithout(Without(e, few, i), e, few, i)
<1> DEFINE d == Without(e, few, i)
           n == Len(e.slots)
           from == [j \in 1..(n - i) |-> IF j <= few THEN j ELSE j + i]
<1>1. /\ e.slots \in Seq(Slot) /\ e.removed \in SUBSET Slot /\ e.next \in Nat
      /\ e.revision \in Revision /\ n \in Nat /\ n - i \in Nat
      /\ \A j \in 1..n : e.slots[j] \in Slot
  BY ElementOfSeq DEF Document
<1>2. /\ d.slots = [j \in 1..(n - i) |-> e.slots[from[j]]]
      /\ d.removed = e.removed /\ d.next = e.next /\ d.revision = e.revision
      /\ d = [slots |-> d.slots, removed |-> d.removed, next |-> d.next,
              revision |-> d.revision]
  BY DEF Without
<1> HIDE DEF d, n
<1>3. /\ from \in [1..(n - i) -> 1..n]
      /\ \A j, k \in 1..(n - i) : from[j] = from[k] => j = k
  BY <1>1 DEF n
<1>4. /\ \A j \in 1..few : j \in 1..(n - i) /\ from[j] = j
      /\ \A j \in (few + 1)..(n - i) : j \in 1..(n - i) /\ from[j] = j + i
  BY <1>1 DEF n
<1> HIDE DEF from
<1>5. /\ d.slots \in Seq(Slot) /\ Len(d.slots) = n - i
      /\ \A j \in 1..(n - i) : d.slots[j] = e.slots[from[j]]
  <2>1. d.slots \in [1..(n - i) -> Slot]
    BY <1>1, <1>2, <1>3
  <2> DEFINE q == n - i
  <2>2. q \in Nat /\ d.slots \in [1..q -> Slot]
    BY <1>1, <2>1
  <2> HIDE DEF q
  <2>3. \A f \in [1..q -> Slot] : f \in Seq(Slot) /\ Len(f) = q
    BY <2>2
  <2>4. d.slots \in Seq(Slot) /\ Len(d.slots) = n - i
    BY <2>2, <2>3 DEF q
  <2>5. QED BY <1>2, <2>4
<1>6. d \in Document
  BY <1>1, <1>2, <1>5 DEF Document
<1>7. WellFormed(d)
  <2>1. /\ from \in [1..Len(d.slots) -> 1..Len(e.slots)]
        /\ \A j, k \in 1..Len(d.slots) : from[j] = from[k] => j = k
        /\ \A j \in 1..Len(d.slots) : d.slots[j] = e.slots[from[j]]
    BY <1>3, <1>5 DEF n
  <2>2. /\ \A t \in d.removed : t \in e.removed
        /\ d.next = e.next
    BY <1>2
  <2>3. QED BY <1>6, <2>1, <2>2, WellFormedSelection
<1>8. QED BY <1>2, <1>4, <1>5, <1>6, <1>7 DEF d, n, IsWithout

\* Removing the page after the first few takes it out of what is left.
LEMMA RemovalLeads ==
  ASSUME NEW d \in Document, WellFormed(d), NEW e \in Document,
         NEW k \in 1..Len(d.slots), Len(e.slots) = Len(d.slots) - 1,
         \A j \in 1..(k - 1) : e.slots[j] = d.slots[j],
         \A j \in k..(Len(d.slots) - 1) : e.slots[j] = d.slots[j + 1],
         e.removed \subseteq d.removed
  PROVE  LeadsTo([op |-> "remove", page |-> d.slots[k].id], d, e)
<1> DEFINE c == [op |-> "remove", page |-> d.slots[k].id]
           f == RemovePage(d, d.slots[k].id)
<1>1. /\ d.slots \in Seq(Slot) /\ e.slots \in Seq(Slot) /\ Len(d.slots) \in Nat
      /\ DOMAIN d.slots = 1..Len(d.slots)
  BY DEF Document
<1>2. CanRemove(d, d.slots[k].id) /\ IndexOf(d, d.slots[k].id) = k
  BY <1>1, IndexOfUnique DEF CanRemove, Holds
<1>3. f.slots = RemoveAt(d.slots, k) /\ d.removed \subseteq f.removed
  BY <1>2, RemovePageEffect
<1> HIDE DEF f
<1>4. /\ f.slots \in Seq(Slot) /\ Len(f.slots) = Len(d.slots) - 1
      /\ \A j \in 1..(Len(d.slots) - 1) :
           f.slots[j] = IF j < k THEN d.slots[j] ELSE d.slots[j + 1]
  <2>1. /\ RemoveAt(d.slots, k) \in Seq(Slot)
        /\ Len(RemoveAt(d.slots, k)) = Len(d.slots) - 1
        /\ \A j \in 1..(Len(d.slots) - 1) :
             RemoveAt(d.slots, k)[j] = IF j < k THEN d.slots[j] ELSE d.slots[j + 1]
    BY <1>1, SlotRemoved
  <2>2. QED BY <1>3, <2>1
<1>5. ASSUME NEW j \in 1..(Len(d.slots) - 1) PROVE f.slots[j] = e.slots[j]
  <2>1. CASE j < k
    BY <1>1, <1>4, <2>1
  <2>2. CASE ~(j < k)
    BY <1>1, <1>4, <2>2
  <2>3. QED BY <2>1, <2>2
<1>6. f.slots = e.slots
  BY <1>1, <1>4, <1>5, SameSlots
<1>7. Accepts(c, d) /\ Applied(c, d) = f
  BY <1>2 DEF Accepts, Applied, f
<1>8. QED BY <1>3, <1>6, <1>7 DEF LeadsTo, StandsFor

\* One copy of several is taken out: the i-th to go, the g-th of those there were.
LEMMA CopyTaken ==
  ASSUME NEW e \in Document, WellFormed(e),
         NEW n \in Nat, NEW at \in Nat, at + n <= Len(e.slots), NEW i \in 1..n,
         NEW b \in Nat, NEW c \in Nat, NEW g \in 1..n, at <= c, c <= at + n - i,
         \/ b = c /\ at + g = c + i
         \/ b = c + 1 /\ at + g = c + 1
  PROVE  LeadsTo([op |-> "remove", page |-> e.slots[at + g].id],
                 Without(e, b, i - 1), Without(e, c, i))
<1> DEFINE p == i - 1
           s == Without(e, b, p)
           t == Without(e, c, i)
           l == Len(e.slots)
<1>1. l \in Nat /\ p \in Nat /\ i \in Nat
  BY DEF Document
<1>2. at + n <= l
  OBVIOUS
<1> HIDE DEF l
<1>3. /\ s \in Document /\ WellFormed(s) /\ s.removed = e.removed
      /\ Len(s.slots) = l - p
      /\ \A j \in 1..b : s.slots[j] = e.slots[j]
      /\ \A j \in (b + 1)..(l - p) : s.slots[j] = e.slots[j + p]
  <2>1. b + p <= l
    BY <1>1, <1>2
  <2> HIDE DEF p
  <2>2. IsWithout(s, e, b, p)
    BY <1>1, <2>1, WithoutFits DEF l
  <2>3. QED BY <2>2 DEF IsWithout, l
<1>4. /\ t \in Document /\ t.removed = e.removed
      /\ Len(t.slots) = l - i
      /\ \A j \in 1..c : t.slots[j] = e.slots[j]
      /\ \A j \in (c + 1)..(l - i) : t.slots[j] = e.slots[j + i]
  <2>1. c + i <= l
    BY <1>1, <1>2
  <2>2. IsWithout(t, e, c, i)
    BY <1>1, <2>1, WithoutFits DEF l
  <2>3. QED BY <2>2 DEF IsWithout, l
<1>5. p = i - 1
  OBVIOUS
<1> HIDE DEF s, t, p
<1>6. c + 1 \in 1..Len(s.slots)
  BY <1>1, <1>2, <1>3, <1>5
<1>7. s.slots[c + 1] = e.slots[at + g]
  <2>1. CASE b = c /\ at + g = c + i
    <3>1. c + 1 \in (b + 1)..(l - p) /\ c + 1 + p = at + g
      BY <1>1, <1>2, <1>3, <1>5, <1>6, <2>1
    <3>2. QED BY <1>3, <3>1
  <2>2. CASE b = c + 1 /\ at + g = c + 1
    <3>1. c + 1 \in 1..b
      BY <2>2
    <3>2. QED BY <1>3, <2>2, <3>1
  <2>3. QED BY <2>1, <2>2
<1>8. ASSUME NEW j \in 1..c PROVE t.slots[j] = s.slots[j]
  <2>1. j \in 1..b
    OBVIOUS
  <2>2. QED BY <1>3, <1>4, <2>1
<1>9. ASSUME NEW j \in (c + 1)..(Len(s.slots) - 1) PROVE t.slots[j] = s.slots[j + 1]
  <2>1. j \in (c + 1)..(l - i)
    BY <1>1, <1>2, <1>3, <1>5
  <2>2. j + 1 \in (b + 1)..(l - p) /\ j + 1 + p = j + i
    BY <1>1, <1>2, <1>5, <2>1
  <2>3. QED BY <1>3, <1>4, <2>1, <2>2
<1>10. Len(t.slots) = Len(s.slots) - 1 /\ t.removed \subseteq s.removed
  BY <1>1, <1>2, <1>3, <1>4, <1>5
<1> DEFINE k == c + 1
<1>11. /\ k \in 1..Len(s.slots)
       /\ \A j \in 1..(k - 1) : t.slots[j] = s.slots[j]
       /\ \A j \in k..(Len(s.slots) - 1) : t.slots[j] = s.slots[j + 1]
  <2>1. k - 1 = c
    OBVIOUS
  <2>2. QED BY <1>6, <1>8, <1>9, <2>1
<1> HIDE DEF k
<1>12. LeadsTo([op |-> "remove", page |-> s.slots[k].id], s, t)
  BY <1>3, <1>4, <1>10, <1>11, RemovalLeads
<1>13. QED BY <1>7, <1>12 DEF k, s, t, p

\* The commands take n pages out: the i-th takes out the gone[i]-th of them and
\* leaves those there still are behind the first cut[i] pages.
TakesOut(commands, cut, gone, at, n, first) ==
  /\ commands \in Seq(Inversion) /\ Len(commands) = n
  /\ cut \in [0..n -> Nat] /\ cut[n] = at
  /\ gone \in [1..n -> 1..n]
  /\ \A i \in 0..n : at <= cut[i] /\ cut[i] <= at + n - i
  /\ \A i \in 1..n :
       /\ commands[i] = [op |-> "remove", page |-> first + gone[i] - 1]
       /\ \/ cut[i - 1] = cut[i] /\ at + gone[i] = cut[i] + i
          \/ cut[i - 1] = cut[i] + 1 /\ at + gone[i] = cut[i] + 1

\* Taken out one by one, the copies leave what was there.
LEMMA BlockUnwinds ==
  ASSUME NEW d \in Document, NEW e \in Document, WellFormed(e),
         NEW n \in Nat, NEW at \in 0..Len(d.slots), NEW first \in Nat,
         Block(e, d, at, n, first),
         NEW commands, NEW cut, NEW gone, TakesOut(commands, cut, gone, at, n, first)
  PROVE  Unwinds(commands, e, Pages(d.slots))
<1> DEFINE m == Len(d.slots)
           states == [i \in 0..n |-> Without(e, cut[i], i)]
<1>1. /\ d.slots \in Seq(Slot) /\ e.slots \in Seq(Slot)
      /\ m \in Nat /\ at \in Nat /\ at <= m /\ Len(e.slots) = m + n
      /\ \A j \in 1..at : j \in 1..(m + n) /\ e.slots[j] = d.slots[j]
      /\ \A j \in 1..n : at + j \in 1..(m + n) /\ e.slots[at + j].id = first + j - 1
      /\ \A j \in (at + 1)..m : j + n \in 1..(m + n) /\ e.slots[j + n] = d.slots[j]
  <2>1. /\ d.slots \in Seq(Slot) /\ e.slots \in Seq(Slot)
        /\ m \in Nat /\ at \in Nat /\ at <= m /\ Len(e.slots) = m + n
    BY DEF Document, Block
  <2>2. \A j \in 1..(m + n) :
          /\ j <= at => e.slots[j] = d.slots[j]
          /\ ~(j <= at) /\ j <= at + n => e.slots[j].id = first + (j - at) - 1
          /\ ~(j <= at) /\ ~(j <= at + n) => e.slots[j] = d.slots[j - n]
    BY DEF Block
  <2> HIDE DEF m
  <2>3. ASSUME NEW j \in 1..at PROVE j \in 1..(m + n) /\ e.slots[j] = d.slots[j]
    BY <2>1, <2>2
  <2>4. ASSUME NEW j \in 1..n
        PROVE  at + j \in 1..(m + n) /\ e.slots[at + j].id = first + j - 1
    <3>1. /\ at + j \in 1..(m + n) /\ ~(at + j <= at) /\ at + j <= at + n
          /\ at + j - at = j
      BY <2>1
    <3>2. QED BY <2>2, <3>1
  <2>5. ASSUME NEW j \in (at + 1)..m
        PROVE  j + n \in 1..(m + n) /\ e.slots[j + n] = d.slots[j]
    <3>1. /\ j + n \in 1..(m + n) /\ ~(j + n <= at) /\ ~(j + n <= at + n)
          /\ j + n - n = j
      BY <2>1
    <3>2. QED BY <2>2, <3>1
  <2>6. QED BY <2>1, <2>3, <2>4, <2>5
<1> HIDE DEF m
<1>2. /\ cut \in [0..n -> Nat] /\ cut[n] = at /\ gone \in [1..n -> 1..n]
      /\ Len(commands) = n
      /\ \A i \in 0..n : at <= cut[i] /\ cut[i] <= at + n - i
  BY DEF TakesOut
<1>3. ASSUME NEW i \in 0..n
      PROVE  /\ states[i] = Without(e, cut[i], i)
             /\ states[i] \in Document /\ WellFormed(states[i])
             /\ states[i].slots \in Seq(Slot) /\ Len(states[i].slots) = m + n - i
             /\ states[i].removed = e.removed
             /\ \A j \in 1..cut[i] : states[i].slots[j] = e.slots[j]
             /\ \A j \in (cut[i] + 1)..(m + n - i) : states[i].slots[j] = e.slots[j + i]
  <2>1. states[i] = Without(e, cut[i], i)
    OBVIOUS
  <2>2. i \in Nat /\ cut[i] \in Nat /\ cut[i] + i <= Len(e.slots)
    BY <1>2, <1>1
  <2> HIDE DEF states
  <2>3. IsWithout(states[i], e, cut[i], i)
    BY <2>1, <2>2, WithoutFits
  <2>4. Len(e.slots) = m + n /\ m \in Nat
    BY <1>1
  <2>5. /\ states[i] \in Document /\ WellFormed(states[i])
        /\ states[i].slots \in Seq(Slot) /\ Len(states[i].slots) = Len(e.slots) - i
        /\ states[i].removed = e.removed
        /\ \A j \in 1..cut[i] : states[i].slots[j] = e.slots[j]
        /\ \A j \in (cut[i] + 1)..(Len(e.slots) - i) : states[i].slots[j] = e.slots[j + i]
    BY <2>3 DEF IsWithout
  <2>6. m + n - i = Len(e.slots) - i
    BY <2>4
  <2> DEFINE left == m + n - i
             lost == Len(e.slots) - i
  <2>7. left = lost
    BY <2>6
  <2> HIDE DEF left, lost
  <2>8. QED BY <2>1, <2>5, <2>7, Zenon DEF left, lost
<1>4. states \in [0..n -> Document] /\ \A i \in 0..n : WellFormed(states[i])
  <2>1. states = [i \in 0..n |-> states[i]]
    OBVIOUS
  <2> HIDE DEF states
  <2>2. QED BY <1>3, <2>1
<1> HIDE DEF states
<1>5. StandsFor(e, states[0])
  <2>1. 0 \in 0..n
    OBVIOUS
  <2>2. ASSUME NEW j \in 1..(m + n) PROVE states[0].slots[j] = e.slots[j]
    <3>1. CASE j \in 1..cut[0]
      BY <1>3, <2>1, <3>1
    <3>2. CASE j \in (cut[0] + 1)..(m + n - 0)
      <4>1. states[0].slots[j] = e.slots[j + 0]
        BY <1>3, <2>1, <3>2
      <4>2. QED BY <4>1
    <3>3. cut[0] \in Nat
      BY <1>2, <2>1
    <3>4. QED BY <1>1, <3>1, <3>2, <3>3
  <2>3. /\ states[0].slots \in Seq(Slot) /\ Len(states[0].slots) = m + n
        /\ states[0].removed = e.removed
    BY <1>1, <1>3, <2>1
  <2>4. states[0].slots = e.slots
    BY <1>1, <2>2, <2>3, SameSlots
  <2>5. QED BY <2>3, <2>4 DEF StandsFor
<1>6. StandsFor(states[n], Pages(d.slots))
  <2>1. n \in 0..n
    OBVIOUS
  <2>2. /\ states[n].slots \in Seq(Slot) /\ Len(states[n].slots) = m
        /\ \A j \in 1..at : states[n].slots[j] = e.slots[j]
        /\ \A j \in (at + 1)..m : states[n].slots[j] = e.slots[j + n]
    <3>1. m + n - n = m
      BY <1>1
    <3>2. QED BY <1>2, <1>3, <2>1, <3>1
  <2>3. ASSUME NEW j \in 1..m PROVE states[n].slots[j] = d.slots[j]
    <3>1. CASE j \in 1..at
      BY <1>1, <2>2, <3>1
    <3>2. CASE j \in (at + 1)..m
      BY <1>1, <2>2, <3>2
    <3>3. QED BY <1>1, <3>1, <3>2
  <2>4. states[n].slots = d.slots
    BY <1>1, <2>2, <2>3, SameSlots DEF m
  <2>5. QED BY <2>4 DEF StandsFor, Pages
<1>7. ASSUME NEW i \in 1..n PROVE LeadsTo(commands[i], states[i - 1], states[i])
  <2>1. /\ i \in 0..n /\ i - 1 \in 0..n /\ gone[i] \in 1..n
        /\ cut[i - 1] \in Nat /\ cut[i] \in Nat /\ at \in Nat
        /\ at + n <= Len(e.slots)
    <3>1. i \in 0..n /\ i - 1 \in 0..n
      OBVIOUS
    <3>2. gone[i] \in 1..n /\ \A j \in 0..n : cut[j] \in Nat
      BY <1>2
    <3>3. at \in Nat /\ at + n <= Len(e.slots)
      BY <1>1
    <3>4. QED BY <3>1, <3>2, <3>3
  <2>2. /\ at <= cut[i] /\ cut[i] <= at + n - i
        /\ \/ cut[i - 1] = cut[i] /\ at + gone[i] = cut[i] + i
           \/ cut[i - 1] = cut[i] + 1 /\ at + gone[i] = cut[i] + 1
        /\ commands[i] = [op |-> "remove", page |-> first + gone[i] - 1]
    BY <2>1 DEF TakesOut
  <2>3. LeadsTo([op |-> "remove", page |-> e.slots[at + gone[i]].id],
                Without(e, cut[i - 1], i - 1), Without(e, cut[i], i))
    BY <1>1, <2>1, <2>2, CopyTaken
  <2>4. e.slots[at + gone[i]].id = first + gone[i] - 1
    BY <1>1, <2>1
  <2>5. states[i] = Without(e, cut[i], i) /\ states[i - 1] = Without(e, cut[i - 1], i - 1)
    BY <1>3, <2>1
  <2>6. QED BY <2>2, <2>3, <2>4, <2>5
<1>8. QED BY <1>2, <1>4, <1>5, <1>6, <1>7 DEF Unwinds

\* The commands that take imported pages out again.
LEMMA RemovalsUndo ==
  ASSUME NEW ids \in Seq(PageId)
  PROVE  Removals(ids) \in Seq(Inversion)
<1>1. Len(ids) \in Nat /\ DOMAIN ids = 1..Len(ids)
  OBVIOUS
<1>2. \A i \in 1..Len(ids) : [op |-> "remove", page |-> ids[i]] \in Inversion
  BY <1>1, ElementOfSeq DEF Inversion, RemoveCommand
<1>3. QED BY <1>1, <1>2 DEF Removals

LEMMA FreshIdsAreIds ==
  ASSUME NEW d \in Document, NEW n \in Nat
  PROVE  FreshIds(d, n) \in Seq(PageId)
<1>1. \A i \in 1..n : d.next + i - 1 \in PageId
  BY DEF Document, PageId
<1>2. QED BY <1>1 DEF FreshIds

LEMMA ReversedIds ==
  ASSUME NEW ids \in Seq(PageId)
  PROVE  Reverse(ids) \in Seq(PageId)
<1>1. Len(ids) \in Nat
  OBVIOUS
<1>2. \A i \in 1..Len(ids) : Len(ids) - i + 1 \in 1..Len(ids)
  BY <1>1
<1>3. \A i \in 1..Len(ids) : ids[Len(ids) - i + 1] \in PageId
  BY <1>2, ElementOfSeq
<1>4. QED BY <1>1, <1>3 DEF Reverse

\* ImportPages::apply hands back the copies first to last.
LEMMA CopiesUnwindForwards ==
  ASSUME NEW d \in Document, NEW e \in Document, WellFormed(e), NEW n \in Nat,
         NEW at \in 0..Len(d.slots), Block(e, d, at, n, d.next)
  PROVE  Unwinds(Removals(FreshIds(d, n)), e, Pages(d.slots))
<1> DEFINE cut == [i \in 0..n |-> at]
           gone == [i \in 1..n |-> i]
           commands == Removals(FreshIds(d, n))
<1>1. d.next \in Nat /\ at \in Nat
  BY DEF Document
<1>2. /\ commands \in Seq(Inversion) /\ Len(commands) = n
      /\ \A i \in 1..n : commands[i] = [op |-> "remove", page |-> d.next + i - 1]
  <2>1. commands \in Seq(Inversion)
    BY FreshIdsAreIds, RemovalsUndo
  <2>2. commands = [i \in 1..n |-> [op |-> "remove", page |-> d.next + i - 1]]
    BY DEF Removals, FreshIds
  <2> HIDE DEF commands
  <2>3. Len(commands) = n
    BY <2>1, <2>2
  <2>4. QED BY <2>1, <2>2, <2>3
<1> HIDE DEF commands
<1>3. /\ cut \in [0..n -> Nat] /\ \A i \in 0..n : cut[i] = at
      /\ gone \in [1..n -> 1..n] /\ \A i \in 1..n : gone[i] = i
  BY <1>1
<1> HIDE DEF cut, gone
<1>4. cut[n] = at /\ \A i \in 0..n : at <= cut[i] /\ cut[i] <= at + n - i
  BY <1>1, <1>3
<1>5. \A i \in 1..n : /\ cut[i - 1] = cut[i] /\ at + gone[i] = cut[i] + i
                      /\ commands[i] = [op |-> "remove", page |-> d.next + gone[i] - 1]
  <2>1. ASSUME NEW i \in 1..n
        PROVE  i \in 0..n /\ i - 1 \in 0..n
    OBVIOUS
  <2>2. QED BY <1>2, <1>3, <2>1
<1>6. Unwinds(commands, e, Pages(d.slots))
  <2>1. TakesOut(commands, cut, gone, at, n, d.next)
    BY <1>2, <1>3, <1>4, <1>5 DEF TakesOut
  <2>2. QED BY <1>1, <2>1, BlockUnwinds
<1>7. QED BY <1>6 DEF commands

\* Merge::apply hands them back last to first.
LEMMA CopiesUnwindBackwards ==
  ASSUME NEW d \in Document, NEW e \in Document, WellFormed(e), NEW n \in Nat,
         NEW at \in 0..Len(d.slots), Block(e, d, at, n, d.next)
  PROVE  Unwinds(Removals(Reverse(FreshIds(d, n))), e, Pages(d.slots))
<1> DEFINE cut == [i \in 0..n |-> at + n - i]
           gone == [i \in 1..n |-> n - i + 1]
           ids == FreshIds(d, n)
           commands == Removals(Reverse(ids))
<1>1. d.next \in Nat /\ at \in Nat
  BY DEF Document
<1>2. /\ commands \in Seq(Inversion) /\ Len(commands) = n
      /\ \A i \in 1..n :
           commands[i] = [op |-> "remove", page |-> d.next + (n - i + 1) - 1]
  <2>1. ids \in Seq(PageId) /\ ids = [i \in 1..n |-> d.next + i - 1]
    BY FreshIdsAreIds DEF FreshIds
  <2> HIDE DEF ids
  <2>2. Reverse(ids) \in Seq(PageId) /\ commands \in Seq(Inversion)
    BY <2>1, ReversedIds, RemovalsUndo
  <2>3. Len(ids) = n
    BY <2>1
  <2>4. Reverse(ids) = [i \in 1..n |-> ids[n - i + 1]]
    BY <2>1, <2>3 DEF Reverse
  <2>5. commands = [i \in 1..n |-> [op |-> "remove", page |-> ids[n - i + 1]]]
    BY <2>4 DEF Removals
  <2> HIDE DEF commands
  <2>6. ASSUME NEW i \in 1..n
        PROVE  commands[i] = [op |-> "remove", page |-> d.next + (n - i + 1) - 1]
    <3>1. n - i + 1 \in 1..n
      OBVIOUS
    <3>2. QED BY <2>1, <2>5, <3>1
  <2>7. Len(commands) = n
    BY <2>2, <2>5
  <2>8. QED BY <2>2, <2>6, <2>7
<1> HIDE DEF commands
<1>3. /\ cut \in [0..n -> Nat] /\ \A i \in 0..n : cut[i] = at + n - i
      /\ gone \in [1..n -> 1..n] /\ \A i \in 1..n : gone[i] = n - i + 1
  BY <1>1
<1> HIDE DEF cut, gone
<1>4. cut[n] = at /\ \A i \in 0..n : at <= cut[i] /\ cut[i] <= at + n - i
  BY <1>1, <1>3
<1>5. \A i \in 1..n : /\ cut[i - 1] = cut[i] + 1 /\ at + gone[i] = cut[i] + 1
                      /\ commands[i] = [op |-> "remove", page |-> d.next + gone[i] - 1]
  <2>1. ASSUME NEW i \in 1..n
        PROVE  /\ cut[i - 1] = cut[i] + 1 /\ at + gone[i] = cut[i] + 1
               /\ commands[i] = [op |-> "remove", page |-> d.next + gone[i] - 1]
    <3>1. i \in 0..n /\ i - 1 \in 0..n
      OBVIOUS
    <3>2. /\ cut[i - 1] = at + n - (i - 1) /\ cut[i] = at + n - i
          /\ gone[i] = n - i + 1
      BY <1>3, <3>1
    <3>3. QED BY <1>1, <1>2, <3>2
  <2>2. QED BY <2>1
<1>6. Unwinds(commands, e, Pages(d.slots))
  <2>1. TakesOut(commands, cut, gone, at, n, d.next)
    BY <1>2, <1>3, <1>4, <1>5 DEF TakesOut
  <2>2. QED BY <1>1, <2>1, BlockUnwinds
<1>7. QED BY <1>6 DEF commands, ids

\* One block appended after another is one block.
LEMMA BlocksJoin ==
  ASSUME NEW d \in Document, NEW e \in Document, NEW f \in Document,
         NEW n \in Nat, NEW k \in Nat, NEW first \in Nat,
         Block(e, d, Len(d.slots), n, first),
         Block(f, e, Len(e.slots), k, first + n)
  PROVE  Block(f, d, Len(d.slots), n + k, first)
<1> DEFINE m == Len(d.slots)
<1>1. m \in Nat
  BY DEF Document
<1>2. /\ Len(e.slots) = m + n
      /\ \A j \in 1..(m + n) :
           IF j <= m THEN e.slots[j] = d.slots[j]
           ELSE IF j <= m + n THEN e.slots[j].id = first + (j - m) - 1
           ELSE e.slots[j] = d.slots[j - n]
  BY DEF Block
<1>3. /\ Len(f.slots) = m + n + k
      /\ \A j \in 1..(m + n + k) :
           IF j <= m + n THEN f.slots[j] = e.slots[j]
           ELSE IF j <= m + n + k THEN f.slots[j].id = first + n + (j - (m + n)) - 1
           ELSE f.slots[j] = e.slots[j - k]
  BY <1>2 DEF Block
<1> HIDE DEF m
<1>4. ASSUME NEW j \in 1..(m + (n + k))
      PROVE  IF j <= m THEN f.slots[j] = d.slots[j]
             ELSE IF j <= m + (n + k) THEN f.slots[j].id = first + (j - m) - 1
             ELSE f.slots[j] = d.slots[j - (n + k)]
  <2>1. j \in 1..(m + n + k) /\ j \in Int
    BY <1>1
  <2>2. CASE j <= m
    <3>1. j \in 1..(m + n) /\ j <= m + n
      BY <1>1, <2>1, <2>2
    <3>2. f.slots[j] = e.slots[j] /\ e.slots[j] = d.slots[j]
      BY <1>2, <1>3, <2>1, <2>2, <3>1
    <3>3. QED BY <2>2, <3>2
  <2>3. CASE ~(j <= m) /\ j <= m + n
    <3>1. j \in 1..(m + n)
      BY <1>1, <2>1, <2>3
    <3>2. f.slots[j] = e.slots[j] /\ e.slots[j].id = first + (j - m) - 1
      BY <1>2, <1>3, <2>1, <2>3, <3>1
    <3>3. j <= m + (n + k)
      BY <1>1, <2>1
    <3>4. QED BY <2>3, <3>2, <3>3
  <2>4. CASE ~(j <= m + n)
    <3>1. j <= m + n + k /\ j <= m + (n + k) /\ ~(j <= m)
      BY <1>1, <2>1, <2>4
    <3>2. f.slots[j].id = first + n + (j - (m + n)) - 1
      BY <1>3, <2>1, <2>4, <3>1
    <3>3. first + n + (j - (m + n)) - 1 = first + (j - m) - 1
      BY <1>1, <2>1
    <3>4. QED BY <3>1, <3>2, <3>3
  <2>5. QED BY <2>2, <2>3, <2>4
<1>5. Len(f.slots) = m + (n + k)
  BY <1>1, <1>3
<1>6. QED BY <1>4, <1>5 DEF Block, m

-----------------------------------------------------------------------------
\* The inductive invariant

\* An inverse that is kept restores its pages when it is applied to document d.
Restores(inverse, d) == Unwinds(inverse.commands, d, Pages(inverse.pages))

\* What a sequence has done leads back to a document with the pages its target
\* had, from which a kept inverse of the target can go on.
Undoable(start) ==
  /\ start.slots = before
  /\ Unwinds(inverses, docs[target], start)
  /\ \A k \in kept : k.home = target => Restores(k, start)

KeptRestore == \A k \in kept : (Running /\ k.home = target) \/ Restores(k, docs[k.home])

\* What has been done can be undone while a sequence runs, and a sequence runs
\* only on a document it is bound to. The kept inverse of any other document, and
\* of every document when none runs, restores the pages it was collected for.
CompositeInvariant ==
  /\ TypeOK
  /\ Running => target \in binding
  /\ Running => \E start \in Document : Undoable(start)
  /\ KeptRestore

LEMMA TypesOfDocs ==
  ASSUME TypeOK, NEW d \in Docs
  PROVE  /\ docs[d] \in Document /\ WellFormed(docs[d])
         /\ docs[d].slots \in Seq(Slot) /\ docs[d].next \in Nat
BY DEF TypeOK, Document

\* When a call returns nothing runs any more.
LEMMA Returned ==
  ASSUME TypeOK, NEW how \in {"ok", "error", "rollbackFailed"}, Return(how),
         docs' \in [Docs -> Document], \A d \in Docs : WellFormed(docs'[d]),
         changes' \in 0..MaxChanges,
         kept' \subseteq KeptInverse, Cardinality(kept') <= 1,
         \A k \in kept' : Restores(k, docs'[k.home])
  PROVE  CompositeInvariant' /\ ~Running'
<1>1. ~Running' /\ (Idle' \/ phase' = "rollbackFailed")
  BY DEF Return, Running, Idle
<1>2. target' \in Docs
  BY CompositeAssumption DEF Return
<1>3. /\ binding' \subseteq Docs /\ todo' = <<>> /\ inverses' = <<>> /\ before' = <<>>
  BY DEF Return
<1>4. TypeOK'
  BY <1>1, <1>2, <1>3 DEF TypeOK
<1>5. KeptRestore'
  BY DEF KeptRestore, Restores
<1>6. QED BY <1>1, <1>4, <1>5 DEF CompositeInvariant

\* A sequence begins with nothing to unwind.
LEMMA Begun ==
  ASSUME TypeOK, NEW d \in Docs, NEW commands \in Seq(Inversion),
         NEW bound \in SUBSET Docs, d \in bound,
         NEW mode \in {"choosing", "applying"}, Begin(d, mode, commands, bound),
         docs' \in [Docs -> Document], \A e \in Docs : WellFormed(docs'[e]),
         changes' \in 0..MaxChanges,
         kept' \subseteq KeptInverse, Cardinality(kept') <= 1,
         \A k \in kept' : Restores(k, docs'[k.home])
  PROVE  CompositeInvariant'
<1>1. Running'
  BY DEF Begin, Running
<1>2. /\ target' = d /\ binding' = bound /\ todo' = commands /\ inverses' = <<>>
      /\ before' = docs'[d].slots
  BY DEF Begin
<1>3. docs'[d] \in Document /\ WellFormed(docs'[d]) /\ docs'[d].slots \in Seq(Slot)
  BY DEF Document
<1>4. TypeOK'
  BY <1>1, <1>2, <1>3 DEF TypeOK
<1>5. Unwinds(<<>>, docs'[d], docs'[d])
  BY <1>3, UnwindsNothing
<1>6. PICK start \in Document : start = docs'[d]
  BY <1>3
<1>7. Undoable(start)'
  BY <1>2, <1>5, <1>6 DEF Undoable, Restores
<1>8. KeptRestore'
  BY DEF KeptRestore, Restores
<1>9. QED BY <1>2, <1>4, <1>7, <1>8 DEF CompositeInvariant

LEMMA CompositeInitially == Init => CompositeInvariant
<1> SUFFICES ASSUME Init PROVE CompositeInvariant
  OBVIOUS
<1>1. \A d \in Docs : docs[d] \in Document /\ WellFormed(docs[d])
  <2>1. ASSUME NEW d \in Docs
        PROVE  docs[d] \in Document /\ WellFormed(docs[d])
    <3>1. docs[d] \in {Opened(r) : r \in UNION {[1..n -> Turns] : n \in PageCounts}}
      BY DEF Init
    <3>2. PICK r \in UNION {[1..n -> Turns] : n \in PageCounts} : docs[d] = Opened(r)
      BY <3>1
    <3>3. PICK n \in PageCounts : r \in [1..n -> Turns]
      BY <3>2
    <3>4. n \in Nat /\ r \in [1..n -> Rotations]
      BY <3>3, CompositeAssumption
    <3>5. QED BY <3>2, <3>4, OpenedWellFormed
  <2>2. QED BY <2>1
<1>2. docs \in [Docs -> Document]
  BY <1>1 DEF Init
<1>3. target \in Docs
  BY CompositeAssumption DEF Init
<1>4. Cardinality(kept) <= 1
  BY FS_EmptySet DEF Init
<1>5. changes \in 0..MaxChanges
  BY CompositeAssumption DEF Init
<1>6. TypeOK
  BY <1>1, <1>2, <1>3, <1>4, <1>5 DEF Init, TypeOK, Idle
<1>7. QED BY <1>6 DEF Init, CompositeInvariant, KeptRestore, Running

-----------------------------------------------------------------------------
\* A running sequence

\* The target moves on while the sequence keeps running.
LEMMA TargetMoves ==
  ASSUME TypeOK, NEW e \in Document, WellFormed(e),
         docs' = [docs EXCEPT ![target] = e]
  PROVE  /\ docs' \in [Docs -> Document]
         /\ \A d \in Docs : WellFormed(docs'[d])
         /\ docs'[target] = e
BY DEF TypeOK

LEMMA PerformStep ==
  ASSUME CompositeInvariant, Running, NEW c \in Command, Perform(c),
         todo' \in Seq(Inversion),
         UNCHANGED <<target, binding, before, kept, changes>>
  PROVE  CompositeInvariant' /\ Running'
<1> DEFINE d == docs[target]
<1>1. /\ TypeOK /\ target \in Docs /\ target \in binding
      /\ d \in Document /\ WellFormed(d)
      /\ inverses \in Seq(Inversion)
      /\ KeptRestore /\ kept \subseteq KeptInverse
      /\ docs \in [Docs -> Document]
  BY DEF CompositeInvariant, TypeOK
<1>2. PICK start \in Document : Undoable(start)
  BY DEF CompositeInvariant
<1>3. CASE Accepts(c, d)
  <2>1. /\ docs' = [docs EXCEPT ![target] = Applied(c, d)]
        /\ inverses' = <<InverseOf(c, d)>> \o inverses
        /\ phase' = phase
    BY <1>3 DEF Perform, Collected
  <2>2. /\ Applied(c, d) \in Document /\ WellFormed(Applied(c, d))
        /\ InverseOf(c, d) \in Inversion
    BY <1>1, <1>3, CommandStep
  <2>3. /\ docs' \in [Docs -> Document]
        /\ \A e \in Docs : WellFormed(docs'[e])
        /\ docs'[target] = Applied(c, d)
    BY <1>1, <2>1, <2>2, TargetMoves
  <2>4. Unwinds(<<InverseOf(c, d)>> \o inverses, Applied(c, d), start)
    BY <1>2, <1>1, <1>3, UnwindsMore DEF Undoable
  <2>5. Running'
    BY <2>1 DEF Running
  <2>6. inverses' \in Seq(Inversion)
    BY <1>1, <2>1, <2>2
  <2>7. TypeOK'
    BY <1>1, <2>3, <2>5, <2>6 DEF TypeOK, KeptInverse
  <2>8. Undoable(start)'
    BY <1>2, <2>1, <2>3, <2>4 DEF Undoable, Restores
  <2>9. KeptRestore'
    <3>1. ASSUME NEW k \in kept, ~(Running /\ k.home = target)
          PROVE  Restores(k, docs[k.home]) /\ docs'[k.home] = docs[k.home]
      BY <1>1, <2>1, <3>1 DEF KeptRestore, KeptInverse
    <3>2. QED BY <2>5, <3>1 DEF KeptRestore, Restores
  <2>10. QED BY <1>1, <2>5, <2>7, <2>8, <2>9 DEF CompositeInvariant
<1>4. CASE ~Accepts(c, d)
  <2>1. phase' = "rollingBack" /\ docs' = docs /\ inverses' = inverses
    BY <1>4 DEF Perform
  <2>2. Running'
    BY <2>1 DEF Running
  <2>3. TypeOK'
    BY <1>1, <2>1, <2>2 DEF TypeOK, KeptInverse
  <2>4. Undoable(start)' /\ KeptRestore'
    BY <1>2, <1>1, <2>1, <2>2 DEF Undoable, KeptRestore, Restores
  <2>5. QED BY <1>1, <2>2, <2>3, <2>4 DEF CompositeInvariant
<1>5. QED BY <1>3, <1>4

LEMMA ApplyNextKeeps ==
  ASSUME CompositeInvariant, ApplyNext
  PROVE  CompositeInvariant' /\ Running'
<1>1. TypeOK /\ todo \in Seq(Inversion)
  BY DEF CompositeInvariant, TypeOK
<1>2. UNCHANGED <<target, binding, before, kept, changes>>
  BY DEF ApplyNext
<1>3. CASE phase = "choosing" /\ (\E c \in AnyCommand : Perform(c)) /\ UNCHANGED todo
  <2>1. PICK c \in AnyCommand : Perform(c)
    BY <1>3
  <2>2. 0..(MaxIds - 1) \subseteq Nat
    BY CompositeAssumption
  <2>3. c \in Command
    BY <2>2
    DEF AnyCommand, Command, Inversion, RemoveCommand, RestoreCommand,
        RotateCommand, MoveCommand, InsertCommand, PageId
  <2>4. QED BY <1>1, <1>2, <1>3, <2>1, <2>3, PerformStep DEF Running
<1>4. CASE /\ phase = "applying" /\ todo # <<>>
           /\ Perform(Head(todo)) /\ todo' = Tail(todo)
  <2>1. Head(todo) \in Command /\ Tail(todo) \in Seq(Inversion)
    BY <1>1, <1>4, HeadTailProperties DEF Command
  <2>2. QED BY <1>2, <1>4, <2>1, PerformStep DEF Running
<1>5. QED BY <1>3, <1>4 DEF ApplyNext

\* An inverse a call hands back replaces the one that was kept.
LEMMA KeptOne ==
  ASSUME NEW d \in Docs, NEW bound \in SUBSET Docs, NEW commands \in Seq(Inversion),
         NEW pages \in Seq(Slot),
         kept' = {[home |-> d, binding |-> bound, commands |-> commands, pages |-> pages]}
  PROVE  kept' \subseteq KeptInverse /\ Cardinality(kept') <= 1
<1>1. kept' \subseteq KeptInverse
  BY DEF KeptInverse
<1>2. Cardinality(kept') = 1
  BY FS_Singleton
<1>3. QED BY <1>1, <1>2

\* When nothing is left to be undone, the target stands in for what it was, and a
\* kept inverse of it restores what it would have.
LEMMA KeptGoesOn ==
  ASSUME KeptRestore, NEW start, Undoable(start), inverses = <<>>, NEW k \in kept
  PROVE  Restores(k, docs[k.home])
<1>1. CASE k.home = target
  <2>1. StandsFor(docs[target], start)
    BY UnwoundPages DEF Undoable
  <2>2. Restores(k, start)
    BY <1>1 DEF Undoable
  <2>3. QED BY <1>1, <2>1, <2>2, StandInUnwinds DEF Restores
<1>2. QED BY <1>1 DEF KeptRestore

LEMMA FinishKeeps ==
  ASSUME CompositeInvariant, Finish
  PROVE  CompositeInvariant' /\ phase' = "ok"
<1>1. TypeOK
  BY DEF CompositeInvariant
<1>2. kept' \subseteq KeptInverse /\ Cardinality(kept') <= 1
  <2>1. CASE inverses = <<>>
    BY <1>1, <2>1 DEF Finish, TypeOK, KeptInverse
  <2>2. CASE inverses # <<>>
    <3>1. kept' = {[home |-> target, binding |-> binding, commands |-> inverses,
                    pages |-> before]}
      BY <2>2 DEF Finish
    <3>2. /\ target \in Docs /\ binding \in SUBSET Docs
          /\ inverses \in Seq(Inversion) /\ before \in Seq(Slot)
      BY <1>1 DEF TypeOK
    <3>3. QED BY <3>1, <3>2, KeptOne
  <2>3. QED BY <2>1, <2>2
<1>3. Return("ok") /\ docs' = docs /\ changes' = changes
  BY DEF Finish
<1>4. ASSUME NEW k \in kept' PROVE Restores(k, docs'[k.home])
  <2>1. PICK start \in Document : Undoable(start)
    BY DEF CompositeInvariant, Finish, Running
  <2>2. CASE inverses = <<>>
    BY <1>3, <2>1, <2>2, KeptGoesOn DEF Finish, CompositeInvariant
  <2>3. CASE inverses # <<>>
    <3>1. k.home = target /\ k.commands = inverses /\ k.pages = before
      BY <2>3 DEF Finish
    <3>2. Unwinds(inverses, docs[target], Pages(before))
      BY <2>1, UnwindsToPages DEF Undoable
    <3>3. QED BY <1>3, <3>1, <3>2 DEF Restores
  <2>4. QED BY <2>2, <2>3
<1>5. CompositeInvariant'
  BY <1>1, <1>2, <1>3, <1>4, Returned DEF TypeOK
<1>6. QED BY <1>3, <1>5 DEF Return

\* A step of the rollback is accepted, and its last one has brought back the pages.
LEMMA RollBackKeeps ==
  ASSUME CompositeInvariant, RollBack
  PROVE  /\ CompositeInvariant'
         /\ ~Running' => phase' = "error" /\ docs'[target].slots = before
<1> DEFINE d == docs[target]
<1>1. /\ TypeOK /\ target \in Docs /\ target \in binding
      /\ d \in Document /\ WellFormed(d)
      /\ inverses \in Seq(Inversion)
      /\ KeptRestore /\ kept \subseteq KeptInverse
      /\ docs \in [Docs -> Document]
      /\ kept' = kept /\ changes' = changes
  BY DEF CompositeInvariant, TypeOK, RollBack, Running
<1>2. PICK start \in Document : Undoable(start)
  BY DEF CompositeInvariant, RollBack, Running
<1>3. CASE inverses = <<>>
  <2>1. Return("error") /\ docs' = docs
    BY <1>3 DEF RollBack
  <2>2. d.slots = before
    BY <1>2, <1>3, UnwoundPages DEF Undoable, StandsFor
  <2>3. kept' \subseteq KeptInverse /\ Cardinality(kept') <= 1
    BY <1>1 DEF TypeOK, KeptInverse
  <2>4. \A k \in kept' : Restores(k, docs'[k.home])
    BY <1>2, <1>1, <1>3, <2>1, KeptGoesOn
  <2>5. CompositeInvariant'
    BY <1>1, <2>1, <2>3, <2>4, Returned DEF TypeOK
  <2>6. QED BY <2>1, <2>2, <2>5 DEF Return
<1>4. CASE inverses # <<>>
  <2> DEFINE e == Applied(Head(inverses), d)
  <2>1. Accepts(Head(inverses), d) /\ Unwinds(Tail(inverses), e, start)
    BY <1>2, <1>1, <1>4, UnwindsLess DEF Undoable
  <2>2. /\ phase = "rollingBack" /\ docs' = [docs EXCEPT ![target] = e]
        /\ inverses' = Tail(inverses)
        /\ UNCHANGED <<phase, target, binding, todo, before>>
    BY <1>4, <2>1 DEF RollBack
  <2>3. Head(inverses) \in Command /\ Tail(inverses) \in Seq(Inversion)
    BY <1>1, <1>4, HeadTailProperties DEF Command
  <2>4. e \in Document /\ WellFormed(e)
    BY <1>1, <2>1, <2>3, CommandStep
  <2> HIDE DEF e
  <2>5. /\ docs' \in [Docs -> Document]
        /\ \A f \in Docs : WellFormed(docs'[f])
        /\ docs'[target] = e
    BY <1>1, <2>2, <2>4, TargetMoves
  <2>6. Running'
    BY <2>2 DEF Running
  <2>7. TypeOK'
    BY <1>1, <2>2, <2>3, <2>5, <2>6 DEF TypeOK, KeptInverse
  <2>8. Undoable(start)'
    BY <1>2, <1>1, <2>1, <2>2, <2>5 DEF Undoable, Restores
  <2>9. KeptRestore'
    <3>1. ASSUME NEW k \in kept, ~(Running /\ k.home = target)
          PROVE  Restores(k, docs[k.home]) /\ docs'[k.home] = docs[k.home]
      BY <1>1, <2>2, <3>1 DEF KeptRestore, KeptInverse, Running
    <3>2. QED BY <1>1, <2>2, <2>6, <3>1 DEF KeptRestore, Restores
  <2>10. QED BY <1>1, <2>2, <2>6, <2>7, <2>8, <2>9 DEF CompositeInvariant
<1>5. QED BY <1>3, <1>4

-----------------------------------------------------------------------------
\* Calls

LEMMA ChangeCounts ==
  ASSUME TypeOK, Change
  PROVE  changes' \in 0..MaxChanges
BY CompositeAssumption DEF TypeOK, Change

\* Between calls every kept inverse restores its pages.
LEMMA KeptRestoresWhenIdle ==
  ASSUME CompositeInvariant, Idle, docs' = docs, kept' = kept
  PROVE  \A k \in kept' : Restores(k, docs'[k.home])
BY DEF CompositeInvariant, KeptRestore, Idle, Running

LEMMA ApplySequenceKeeps ==
  ASSUME CompositeInvariant, ApplySequence
  PROVE  CompositeInvariant'
<1>1. TypeOK
  BY DEF CompositeInvariant
<1>2. PICK d \in Docs : Begin(d, "choosing", <<>>, Docs)
  BY DEF ApplySequence
<1>3. docs' = docs /\ kept' = kept /\ changes' \in 0..MaxChanges
  BY <1>1, ChangeCounts DEF ApplySequence
<1>4. <<>> \in Seq(Inversion) /\ Docs \in SUBSET Docs
  OBVIOUS
<1>5. kept' \subseteq KeptInverse /\ Cardinality(kept') <= 1
  BY <1>1, <1>3 DEF TypeOK, KeptInverse
<1>6. \A k \in kept' : Restores(k, docs'[k.home])
  BY <1>3, KeptRestoresWhenIdle DEF ApplySequence, Change
<1>7. QED BY <1>1, <1>2, <1>3, <1>4, <1>5, <1>6, Begun DEF TypeOK

LEMMA ApplyKeptKeeps ==
  ASSUME CompositeInvariant, ApplyKept
  PROVE  CompositeInvariant'
<1>1. TypeOK /\ docs' = docs /\ kept' = kept /\ changes' = changes
  BY DEF CompositeInvariant, ApplyKept
<1>2. PICK d \in Docs, inverse \in kept :
        /\ MayApplyTo(inverse, d)
        /\ Begin(d, "applying", inverse.commands, inverse.binding)
  BY DEF ApplyKept
<1>3. /\ inverse.commands \in Seq(Inversion) /\ inverse.binding \in SUBSET Docs
      /\ d \in inverse.binding
  BY <1>1, <1>2 DEF TypeOK, KeptInverse, MayApplyTo
<1>4. kept' \subseteq KeptInverse /\ Cardinality(kept') <= 1
  BY <1>1 DEF TypeOK, KeptInverse
<1>5. \A k \in kept' : Restores(k, docs'[k.home])
  BY <1>1, KeptRestoresWhenIdle DEF ApplyKept
<1>6. QED BY <1>1, <1>2, <1>3, <1>4, <1>5, Begun DEF TypeOK

\* Some pages of a document that stand together, by identity.
LEMMA RangeOfPages ==
  ASSUME NEW d \in Document, NEW k \in Nat, NEW m \in Nat, k <= m, m <= PageCount(d)
  PROVE  /\ SubSeq(PageIds(d), k + 1, m) \in Seq(PageId)
         /\ \A i \in DOMAIN SubSeq(PageIds(d), k + 1, m) :
              Holds(d, SubSeq(PageIds(d), k + 1, m)[i])
<1> DEFINE ids == PageIds(d)
           range == SubSeq(ids, k + 1, m)
<1>1. d.slots \in Seq(Slot) /\ Len(d.slots) \in Nat /\ DOMAIN d.slots = 1..Len(d.slots)
  BY DEF Document
<1>2. \A i \in 1..Len(d.slots) : d.slots[i].id \in PageId
  <2>1. \A i \in 1..Len(d.slots) : d.slots[i] \in Slot
    BY <1>1, ElementOfSeq
  <2>2. QED BY <2>1 DEF Slot
<1>3. \A i \in 1..Len(d.slots) : ids[i] = d.slots[i].id
  BY <1>1 DEF PageIds
<1> HIDE DEF ids
<1>4. \A i \in (k + 1)..m : i \in 1..Len(d.slots) /\ ids[i] \in PageId
  BY <1>1, <1>2, <1>3 DEF PageCount
<1>5. k + 1 \in Int /\ m \in Int
  OBVIOUS
<1>6. /\ range \in Seq(PageId)
      /\ Len(range) = IF k + 1 <= m THEN m - (k + 1) + 1 ELSE 0
      /\ \A i \in 1..(m - (k + 1) + 1) : range[i] = ids[k + 1 + i - 1]
  BY <1>4, <1>5, SubSeqProperties
<1>7. DOMAIN range = 1..(m - k)
  BY <1>6
<1>8. ASSUME NEW i \in DOMAIN range PROVE Holds(d, range[i])
  <2>1. i \in 1..(m - k) /\ k + i \in 1..Len(d.slots) /\ range[i] = ids[k + i]
    BY <1>1, <1>6, <1>7 DEF PageCount
  <2>2. QED BY <1>1, <1>3, <2>1 DEF Holds
<1>9. QED BY <1>6, <1>8 DEF ids

LEMMA AllPagesImported ==
  ASSUME NEW d \in Document, NEW source \in Document, WellFormed(d), WellFormed(source)
  PROVE  LET e == WithAllPagesOf(d, source)
             n == PageCount(source)
         IN  /\ e \in Document /\ WellFormed(e)
             /\ e.next = d.next + n
             /\ Block(e, d, Len(d.slots), n, d.next)
<1> DEFINE ids == PageIds(source)
           n == PageCount(source)
           at == PageCount(d)
<1>1. ids \in Seq(PageId) /\ Len(ids) = n
  <2>1. \A i \in 1..Len(source.slots) : source.slots[i] \in Slot
    BY ElementOfSeq DEF Document
  <2>2. \A i \in 1..Len(source.slots) : source.slots[i].id \in PageId
    BY <2>1 DEF Slot
  <2>3. DOMAIN source.slots = 1..Len(source.slots) /\ Len(source.slots) \in Nat
    BY DEF Document
  <2>4. QED BY <2>2, <2>3 DEF PageIds, PageCount
<1>2. at \in Nat /\ at = Len(d.slots)
  BY DEF PageCount, Document
<1>3. CanImport(d, source, ids, at)
  BY <1>2 DEF CanImport, PageIds, Holds
<1> HIDE DEF ids, at, n
<1> DEFINE e == ImportPages(d, source, ids, at)
<1>4. e \in Document /\ WellFormed(e)
  BY <1>1, <1>2, <1>3, ImportWellFormed
<1>5. e.next = d.next + Len(ids) /\ Block(e, d, at, Len(ids), d.next)
  BY <1>1, <1>2, <1>3, ImportLayout
<1> HIDE DEF e
<1>6. e = WithAllPagesOf(d, source)
  BY DEF WithAllPagesOf, e, ids, at
<1>7. QED BY <1>1, <1>2, <1>4, <1>5, <1>6 DEF n

\* Merge::apply of one source, once or twice, and what it hands back.
LEMMA MergeUnwinds ==
  ASSUME NEW d \in Document, NEW source \in Document, WellFormed(d), WellFormed(source),
         NEW count \in 1..2
  PROVE  LET once == WithAllPagesOf(d, source)
             merged == IF count = 1 THEN once ELSE WithAllPagesOf(once, source)
             copies == FreshIds(d, count * PageCount(source))
         IN  /\ merged \in Document /\ WellFormed(merged)
             /\ Unwinds(Removals(Reverse(copies)), merged, Pages(d.slots))
<1> DEFINE once == WithAllPagesOf(d, source)
           twice == WithAllPagesOf(once, source)
           merged == IF count = 1 THEN once ELSE twice
           n == PageCount(source)
           at == Len(d.slots)
<1>1. n \in Nat /\ at \in Nat /\ at \in 0..Len(d.slots) /\ d.next \in Nat
  BY DEF PageCount, Document
<1>2. /\ once \in Document /\ WellFormed(once)
      /\ once.next = d.next + n /\ Block(once, d, at, n, d.next)
  BY AllPagesImported
<1> HIDE DEF once
<1>3. /\ twice \in Document /\ WellFormed(twice)
      /\ Block(twice, once, Len(once.slots), n, d.next + n)
  BY <1>2, AllPagesImported
<1> HIDE DEF twice, n
<1>4. Block(twice, d, at, n + n, d.next)
  BY <1>1, <1>2, <1>3, BlocksJoin
<1> HIDE DEF at
<1>5. /\ merged \in Document /\ WellFormed(merged)
      /\ Block(merged, d, at, count * n, d.next) /\ count * n \in Nat
  <2>1. CASE count = 1
    BY <1>1, <1>2, <2>1
  <2>2. CASE count = 2
    BY <1>1, <1>3, <1>4, <2>2
  <2>3. QED BY <2>1, <2>2
<1> HIDE DEF merged
<1> DEFINE k == count * n
<1>6. k \in Nat /\ Block(merged, d, at, k, d.next)
  BY <1>5
<1> HIDE DEF k
<1>7. Unwinds(Removals(Reverse(FreshIds(d, k))), merged, Pages(d.slots))
  BY <1>1, <1>5, <1>6, CopiesUnwindBackwards
<1>8. QED BY <1>5, <1>7 DEF k, n, merged, once, twice

LEMMA ImportUnwinds ==
  ASSUME NEW d \in Document, NEW source \in Document, WellFormed(d), WellFormed(source),
         NEW ids \in Seq(PageId), NEW at \in Nat, CanImport(d, source, ids, at)
  PROVE  Unwinds(Removals(FreshIds(d, Len(ids))), ImportPages(d, source, ids, at),
                 Pages(d.slots))
<1> DEFINE e == ImportPages(d, source, ids, at)
           n == Len(ids)
<1>1. e \in Document /\ WellFormed(e) /\ Block(e, d, at, n, d.next)
  BY ImportLayout, ImportWellFormed
<1>2. n \in Nat /\ at \in 0..Len(d.slots)
  BY DEF CanImport, PageCount, Document
<1> HIDE DEF e, n
<1>3. Unwinds(Removals(FreshIds(d, n)), e, Pages(d.slots))
  BY <1>1, <1>2, CopiesUnwindForwards
<1>4. QED BY <1>3 DEF e, n

LEMMA ImportKeeps ==
  ASSUME TypeOK, NEW d \in Docs, NEW imported \in Document, WellFormed(imported),
         NEW undoing \in Seq(Inversion), Unwinds(undoing, imported, Pages(docs[d].slots)),
         NEW bound \in SUBSET Docs,
         Import(d, imported, undoing, bound), changes' \in 0..MaxChanges
  PROVE  CompositeInvariant'
<1>1. /\ docs' = [docs EXCEPT ![d] = imported]
      /\ kept' = {[home |-> d, binding |-> bound, commands |-> undoing,
                   pages |-> docs[d].slots]}
      /\ Return("ok")
  BY DEF Import
<1>2. docs' \in [Docs -> Document] /\ \A e \in Docs : WellFormed(docs'[e])
  BY <1>1 DEF TypeOK
<1>3. docs[d].slots \in Seq(Slot)
  BY TypesOfDocs
<1>4. kept' \subseteq KeptInverse /\ Cardinality(kept') <= 1
  BY <1>1, <1>3, KeptOne
<1>5. \A k \in kept' : Restores(k, docs'[k.home])
  BY <1>1, <1>2 DEF Restores, TypeOK
<1>6. QED BY <1>1, <1>2, <1>4, <1>5, Returned

LEMMA ImportSelectionKeeps ==
  ASSUME CompositeInvariant, ImportSelection
  PROVE  CompositeInvariant'
<1>1. TypeOK /\ changes' \in 0..MaxChanges
  BY ChangeCounts DEF CompositeInvariant, ImportSelection
<1>2. PICK d \in Docs, source \in Docs, at \in 0..(MaxIds - 1) :
        \E p, q \in KnownIds(docs[source]) : \E ids \in {<<>>, <<p>>, <<p, q>>} :
          /\ CanImport(docs[d], docs[source], ids, at)
          /\ Import(d, ImportPages(docs[d], docs[source], ids, at),
                    Removals(FreshIds(docs[d], Len(ids))), Docs)
  BY DEF ImportSelection
<1>3. PICK p \in KnownIds(docs[source]), q \in KnownIds(docs[source]) :
        \E ids \in {<<>>, <<p>>, <<p, q>>} :
          /\ CanImport(docs[d], docs[source], ids, at)
          /\ Import(d, ImportPages(docs[d], docs[source], ids, at),
                    Removals(FreshIds(docs[d], Len(ids))), Docs)
  BY <1>2
<1>4. PICK ids \in {<<>>, <<p>>, <<p, q>>} :
        /\ CanImport(docs[d], docs[source], ids, at)
        /\ Import(d, ImportPages(docs[d], docs[source], ids, at),
                  Removals(FreshIds(docs[d], Len(ids))), Docs)
  BY <1>3
<1>5. /\ docs[d] \in Document /\ WellFormed(docs[d])
      /\ docs[source] \in Document /\ WellFormed(docs[source])
  BY <1>1, TypesOfDocs
<1>6. KnownIds(docs[source]) \subseteq PageId
  <2>1. /\ docs[source].slots \in Seq(Slot) /\ docs[source].removed \in SUBSET Slot
        /\ DOMAIN docs[source].slots = 1..Len(docs[source].slots)
    BY <1>5 DEF Document
  <2>2. \A i \in DOMAIN docs[source].slots : docs[source].slots[i] \in Slot
    BY <2>1, ElementOfSeq
  <2>3. QED BY <2>1, <2>2 DEF KnownIds, Slot
<1>7. ids \in Seq(PageId) /\ Len(ids) \in Nat
  <2>1. p \in PageId /\ q \in PageId
    BY <1>6
  <2>2. <<>> \in Seq(PageId) /\ <<p>> \in Seq(PageId) /\ <<p, q>> \in Seq(PageId)
    BY <2>1
  <2>3. ids \in Seq(PageId)
    BY <2>2
  <2>4. QED BY <2>3
<1>8. at \in Nat
  BY CompositeAssumption
<1>9. /\ ImportPages(docs[d], docs[source], ids, at) \in Document
      /\ WellFormed(ImportPages(docs[d], docs[source], ids, at))
  BY <1>4, <1>5, <1>7, <1>8, ImportWellFormed
<1>10. Removals(FreshIds(docs[d], Len(ids))) \in Seq(Inversion)
  BY <1>5, <1>7, FreshIdsAreIds, RemovalsUndo
<1>11. Docs \in SUBSET Docs
  OBVIOUS
<1>12. Unwinds(Removals(FreshIds(docs[d], Len(ids))),
                ImportPages(docs[d], docs[source], ids, at), Pages(docs[d].slots))
  BY <1>4, <1>5, <1>7, <1>8, ImportUnwinds
<1>13. QED BY <1>1, <1>4, <1>9, <1>10, <1>11, <1>12, ImportKeeps

LEMMA MergeKeeps ==
  ASSUME CompositeInvariant, Merge
  PROVE  CompositeInvariant'
<1>1. TypeOK /\ changes' \in 0..MaxChanges
  BY ChangeCounts DEF CompositeInvariant, Merge
<1> DEFINE once(d, source) == WithAllPagesOf(docs[d], docs[source])
           merged(d, source, count) ==
             IF count = 1 THEN once(d, source)
             ELSE WithAllPagesOf(once(d, source), docs[source])
           copies(d, source, count) == FreshIds(docs[d], count * PageCount(docs[source]))
<1>2. PICK d \in Docs, source \in Docs, count \in 1..2 :
        Import(d, merged(d, source, count), Removals(Reverse(copies(d, source, count))), Docs)
  BY DEF Merge
<1>3. /\ docs[d] \in Document /\ WellFormed(docs[d])
      /\ docs[source] \in Document /\ WellFormed(docs[source])
  BY <1>1, TypesOfDocs
<1>4. /\ merged(d, source, count) \in Document
      /\ WellFormed(merged(d, source, count))
      /\ Unwinds(Removals(Reverse(copies(d, source, count))), merged(d, source, count),
                 Pages(docs[d].slots))
  BY <1>3, MergeUnwinds
<1>5. Removals(Reverse(copies(d, source, count))) \in Seq(Inversion)
  <2>1. PageCount(docs[source]) \in Nat
    BY <1>3 DEF PageCount, Document
  <2>2. count * PageCount(docs[source]) \in Nat
    <3>1. count = 1 \/ count = 2
      OBVIOUS
    <3>2. QED BY <2>1, <3>1
  <2>3. copies(d, source, count) \in Seq(PageId)
    BY <1>3, <2>2, FreshIdsAreIds
  <2> HIDE DEF copies
  <2>4. QED BY <2>3, ReversedIds, RemovalsUndo
<1>6. Docs \in SUBSET Docs
  OBVIOUS
<1> HIDE DEF merged, copies
<1>7. QED BY <1>1, <1>2, <1>4, <1>5, <1>6, ImportKeeps

LEMMA ExtractRangeKeeps ==
  ASSUME CompositeInvariant, ExtractRange
  PROVE  CompositeInvariant'
<1>1. TypeOK /\ changes' \in 0..MaxChanges
  BY ChangeCounts DEF CompositeInvariant, ExtractRange
<1> DEFINE range(source, start, end) == SubSeq(PageIds(docs[source]), start + 1, end)
           imported(d, source, ids) ==
             ImportPages(docs[d], docs[source], ids, PageCount(docs[d]))
<1>2. PICK d \in Docs, source \in Docs, start \in 0..MaxIds, end \in 0..MaxIds :
        /\ start <= end /\ end <= PageCount(docs[source])
        /\ Import(d, imported(d, source, range(source, start, end)),
                  Removals(FreshIds(docs[d], Len(range(source, start, end)))), {d})
  BY DEF ExtractRange
<1>3. /\ docs[d] \in Document /\ WellFormed(docs[d])
      /\ docs[source] \in Document /\ WellFormed(docs[source])
  BY <1>1, TypesOfDocs
<1>4. start \in Nat /\ end \in Nat
  BY CompositeAssumption
<1> DEFINE ids == range(source, start, end)
<1>5. /\ ids \in Seq(PageId)
      /\ \A i \in DOMAIN ids : Holds(docs[source], ids[i])
  BY <1>2, <1>3, <1>4, RangeOfPages
<1> HIDE DEF range
<1>6. PageCount(docs[d]) \in Nat
  BY <1>3 DEF PageCount, Document
<1>7. CanImport(docs[d], docs[source], ids, PageCount(docs[d]))
  BY <1>5, <1>6 DEF CanImport
<1> HIDE DEF ids
<1>8. /\ imported(d, source, ids) \in Document
      /\ WellFormed(imported(d, source, ids))
  BY <1>3, <1>5, <1>6, <1>7, ImportWellFormed
<1>9. Unwinds(Removals(FreshIds(docs[d], Len(ids))), imported(d, source, ids),
               Pages(docs[d].slots))
  BY <1>3, <1>5, <1>6, <1>7, ImportUnwinds
<1> HIDE DEF imported
<1>10. Removals(FreshIds(docs[d], Len(ids))) \in Seq(Inversion)
  <2>1. Len(ids) \in Nat
    BY <1>5
  <2>2. QED BY <1>3, <2>1, FreshIdsAreIds, RemovalsUndo
<1>11. Import(d, imported(d, source, ids), Removals(FreshIds(docs[d], Len(ids))), {d})
  BY <1>2 DEF ids
<1>12. {d} \in SUBSET Docs
  OBVIOUS
<1>13. QED BY <1>1, <1>8, <1>10, <1>11, <1>12, <1>9, ImportKeeps

LEMMA SplitAtKeeps ==
  ASSUME CompositeInvariant, SplitAt
  PROVE  CompositeInvariant'
<1>1. TypeOK /\ changes' \in 0..MaxChanges
  BY ChangeCounts DEF CompositeInvariant, SplitAt
<1> DEFINE tailOf(document, boundary) ==
             SubSeq(PageIds(docs[document]), boundary + 1, PageCount(docs[document]))
           imported(receiver, document, ids) ==
             ImportPages(docs[receiver], docs[document], ids, PageCount(docs[receiver]))
<1>2. PICK document \in Docs : \E receiver \in Docs \ {document},
                                  boundary \in 0..PageCount(docs[document]) :
        /\ docs' = [docs EXCEPT ![receiver] =
                      imported(receiver, document, tailOf(document, boundary))]
        /\ kept' = {}
        /\ Begin(document, "applying", Removals(tailOf(document, boundary)), {document})
  BY DEF SplitAt
<1>3. PICK receiver \in Docs \ {document}, boundary \in 0..PageCount(docs[document]) :
        /\ docs' = [docs EXCEPT ![receiver] =
                      imported(receiver, document, tailOf(document, boundary))]
        /\ kept' = {}
        /\ Begin(document, "applying", Removals(tailOf(document, boundary)), {document})
  BY <1>2
<1>4. /\ docs[document] \in Document /\ WellFormed(docs[document])
      /\ docs[receiver] \in Document /\ WellFormed(docs[receiver])
      /\ PageCount(docs[document]) \in Nat /\ PageCount(docs[receiver]) \in Nat
  BY <1>1, TypesOfDocs DEF PageCount, Document
<1> DEFINE ids == tailOf(document, boundary)
<1>5. /\ ids \in Seq(PageId)
      /\ \A i \in DOMAIN ids : Holds(docs[document], ids[i])
  <2>1. boundary \in Nat /\ boundary <= PageCount(docs[document])
    BY <1>4
  <2>2. QED BY <1>4, <2>1, RangeOfPages
<1> HIDE DEF tailOf
<1>6. CanImport(docs[receiver], docs[document], ids, PageCount(docs[receiver]))
  BY <1>4, <1>5 DEF CanImport
<1>7. /\ docs' = [docs EXCEPT ![receiver] = imported(receiver, document, ids)]
      /\ kept' = {}
      /\ Begin(document, "applying", Removals(ids), {document})
  BY <1>3
<1> HIDE DEF ids
<1>8. /\ imported(receiver, document, ids) \in Document
      /\ WellFormed(imported(receiver, document, ids))
  BY <1>4, <1>5, <1>6, ImportWellFormed
<1> HIDE DEF imported
<1>9. docs' \in [Docs -> Document] /\ \A e \in Docs : WellFormed(docs'[e])
  BY <1>1, <1>7, <1>8 DEF TypeOK
<1>10. Removals(ids) \in Seq(Inversion)
  BY <1>5, RemovalsUndo
<1>11. kept' \subseteq KeptInverse /\ Cardinality(kept') <= 1
  BY <1>7, FS_EmptySet
<1>12. {document} \in SUBSET Docs /\ document \in {document}
  OBVIOUS
<1>13. QED BY <1>1, <1>7, <1>9, <1>10, <1>11, <1>12, Begun

-----------------------------------------------------------------------------
\* Replaying

\* What unwinds can be replayed: each document on the way stands in for the one
\* the command was computed for.
LEMMA UnwoundReplays ==
  ASSUME NEW d \in Document, WellFormed(d), NEW commands \in Seq(Inversion), NEW pages,
         Unwinds(commands, d, Pages(pages))
  PROVE  Replays(commands, d, pages)
<1> DEFINE n == Len(commands)
           Step(i, from) == IF i = 0 THEN d ELSE Applied(commands[i], from[i - 1])
           after == CHOOSE f : f = [i \in 0..n |-> Step(i, f)]
           Built(k) == \E f : f = [i \in 0..k |-> Step(i, f)]
<1>1. n \in Nat /\ \A i \in 1..n : commands[i] \in Inversion
  BY ElementOfSeq
<1>2. Replays(commands, d, pages)
        <=> /\ \A i \in 1..n : Accepts(commands[i], after[i - 1])
            /\ after[n].slots = pages
  BY DEF Replays
<1> HIDE DEF n
<1>3. \A k \in Nat : Built(k)
  <2> DEFINE T == {k \in Nat : Built(k)}
  <2>1. 0 \in T
    <3> DEFINE f == [i \in 0..0 |-> d]
    <3>1. f = [i \in 0..0 |-> Step(i, f)]
      OBVIOUS
    <3> HIDE DEF f
    <3>2. Built(0)
      BY <3>1, Zenon
    <3> HIDE DEF Built
    <3>3. QED BY <3>2
  <2>2. ASSUME NEW k \in Nat, k \in T PROVE k + 1 \in T
    <3>1. PICK f : f = [i \in 0..k |-> Step(i, f)]
      BY <2>2
    <3> DEFINE g == [i \in 0..(k + 1) |->
                       IF i = k + 1 THEN Applied(commands[k + 1], f[k]) ELSE f[i]]
    <3>2. ASSUME NEW i \in 0..(k + 1) PROVE g[i] = Step(i, g)
      <4>1. CASE i = k + 1
        BY <4>1
      <4>2. CASE i # k + 1
        <5>1. i \in 0..k /\ g[i] = f[i]
          BY <4>2
        <5>2. f[i] = Step(i, f)
          BY <3>1, <5>1
        <5>3. i # 0 => i - 1 \in 0..(k + 1) /\ i - 1 # k + 1
          BY <5>1
        <5>4. i # 0 => g[i - 1] = f[i - 1]
          BY <5>3
        <5>5. QED BY <5>1, <5>2, <5>4
      <4>3. QED BY <4>1, <4>2
    <3>3. g = [i \in 0..(k + 1) |-> g[i]]
      OBVIOUS
    <3> HIDE DEF g
    <3>4. g = [i \in 0..(k + 1) |-> Step(i, g)]
      BY <3>2, <3>3
    <3>5. Built(k + 1)
      BY <3>4, Zenon
    <3>6. k + 1 \in Nat
      OBVIOUS
    <3> HIDE DEF Built
    <3>7. QED BY <3>5, <3>6
  <2> HIDE DEF T
  <2>3. \A k \in Nat : k \in T
    BY <2>1, <2>2, EveryNumber
  <2>4. QED BY <2>3 DEF T
<1>4. after = [i \in 0..n |-> Step(i, after)]
  <2>1. Built(n)
    BY <1>1, <1>3
  <2>2. QED BY <2>1
<1>5. \A i \in 0..n : after[i] = Step(i, after)
  BY <1>4
<1> HIDE DEF after
<1>6. PICK states \in [0..n -> Document] :
        /\ \A i \in 0..n : WellFormed(states[i])
        /\ StandsFor(d, states[0])
        /\ \A i \in 1..n : LeadsTo(commands[i], states[i - 1], states[i])
        /\ StandsFor(states[n], Pages(pages))
  BY DEF Unwinds, n
<1> DEFINE Follows(i) ==
      /\ after[i] \in Document /\ WellFormed(after[i]) /\ StandsFor(after[i], states[i])
<1>7. Follows(0)
  BY <1>1, <1>5, <1>6
<1>8. ASSUME NEW i \in 1..n, Follows(i - 1)
      PROVE  Accepts(commands[i], after[i - 1]) /\ Follows(i)
  <2>1. i \in 0..n /\ i - 1 \in 0..n /\ i # 0
    BY <1>1
  <2>2. LeadsTo(commands[i], states[i - 1], states[i])
    BY <1>6
  <2>3. states[i - 1] \in Document /\ WellFormed(states[i - 1])
    BY <1>6, <2>1
  <2>4. LeadsTo(commands[i], after[i - 1], states[i])
    BY <1>1, <1>8, <2>2, <2>3, StandInLaw
  <2>5. after[i] = Applied(commands[i], after[i - 1])
    BY <1>5, <2>1
  <2>6. Accepts(commands[i], after[i - 1]) /\ StandsFor(after[i], states[i])
    BY <2>4, <2>5 DEF LeadsTo
  <2>7. commands[i] \in Command
    BY <1>1 DEF Command
  <2>8. after[i] \in Document /\ WellFormed(after[i])
    BY <1>8, <2>5, <2>6, <2>7, CommandStep
  <2>9. QED BY <2>6, <2>8
<1>9. \A i \in 0..n : Follows(i)
  <2> DEFINE T == {i \in Nat : i \in 0..n => Follows(i)}
  <2>1. 0 \in T
    BY <1>7
  <2>2. ASSUME NEW i \in Nat, i \in T PROVE i + 1 \in T
    <3>1. CASE i + 1 \in 0..n
      <4>1. i \in 0..n /\ i + 1 \in 1..n /\ i + 1 - 1 = i
        BY <1>1, <3>1
      <4>2. Follows(i + 1 - 1)
        BY <2>2, <4>1
      <4>3. Follows(i + 1)
        BY <1>8, <4>1, <4>2
      <4>4. QED BY <4>3
    <3>2. CASE i + 1 \notin 0..n
      BY <3>2
    <3>3. QED BY <3>1, <3>2
  <2> HIDE DEF T
  <2>3. \A i \in Nat : i \in T
    BY <2>1, <2>2, EveryNumber
  <2>4. QED BY <1>1, <2>3 DEF T
<1>10. \A i \in 1..n : Accepts(commands[i], after[i - 1])
  <2>1. ASSUME NEW i \in 1..n PROVE Accepts(commands[i], after[i - 1])
    <3>1. i - 1 \in 0..n
      BY <1>1
    <3>2. QED BY <1>8, <1>9, <3>1
  <2>2. QED BY <2>1
<1>11. after[n].slots = pages
  BY <1>1, <1>6, <1>9 DEF StandsFor, Pages
<1>12. QED BY <1>2, <1>10, <1>11

-----------------------------------------------------------------------------
\* The theorems

LEMMA CompositeInvariantInductive == CompositeInvariant /\ [Next]_vars => CompositeInvariant'
<1> SUFFICES ASSUME CompositeInvariant, [Next]_vars PROVE CompositeInvariant'
  OBVIOUS
<1>1. CASE ApplyNext
  BY <1>1, ApplyNextKeeps
<1>2. CASE Finish
  BY <1>2, FinishKeeps
<1>3. CASE RollBack
  BY <1>3, RollBackKeeps
<1>4. CASE ApplySequence
  BY <1>4, ApplySequenceKeeps
<1>5. CASE ApplyKept
  BY <1>5, ApplyKeptKeeps
<1>6. CASE ImportSelection
  BY <1>6, ImportSelectionKeeps
<1>7. CASE Merge
  BY <1>7, MergeKeeps
<1>8. CASE ExtractRange
  BY <1>8, ExtractRangeKeeps
<1>9. CASE SplitAt
  BY <1>9, SplitAtKeeps
<1>10. CASE UNCHANGED vars
  BY <1>10
  DEF vars, call, CompositeInvariant, TypeOK, KeptInverse, Running, Idle, Undoable,
      KeptRestore, Restores
<1>11. QED
  BY <1>1, <1>2, <1>3, <1>4, <1>5, <1>6, <1>7, <1>8, <1>9, <1>10 DEF Next

LEMMA CompositeInvariantHolds == Spec => []CompositeInvariant
BY CompositeInitially, CompositeInvariantInductive, PTL DEF Spec

\* The documents stay well formed through every import, merge, extraction, split,
\* sequence and rollback: pages copied between documents whose identities all
\* count from 0 never share one (PageMap::insert_slot), and every inverse a call
\* hands back allocates no identity.
THEOREM CompositeTypes == Spec => []TypeOK
BY CompositeInvariantHolds, PTL DEF CompositeInvariant

\* Undoing a composite command, whichever it was, and redoing it, is never refused
\* and brings back every page in its place: the inverse of a sequence, of an import,
\* a merge or an extraction, and the inverse collected while one was applied
\* (Sequence::apply, ImportPages::apply, Merge::apply, BoundInverse::apply).
THEOREM KeptInversesRestore == Spec => []KeptInverseRestores
<1>1. CompositeInvariant => KeptInverseRestores
  <2> SUFFICES ASSUME CompositeInvariant, NEW k \in kept, ~(Running /\ k.home = target)
               PROVE  Replays(k.commands, docs[k.home], k.pages)
    BY DEF KeptInverseRestores
  <2>1. /\ k.commands \in Seq(Inversion) /\ k.home \in Docs
        /\ docs[k.home] \in Document /\ WellFormed(docs[k.home])
    BY DEF CompositeInvariant, TypeOK, KeptInverse
  <2>2. Unwinds(k.commands, docs[k.home], Pages(k.pages))
    BY DEF CompositeInvariant, KeptRestore, Restores
  <2>3. QED BY <2>1, <2>2, UnwoundReplays
<1>2. QED BY <1>1, CompositeInvariantHolds, PTL

\* A Sequence takes effect as a whole or leaves the pages as they were, and no
\* rollback is ever refused (Sequence::apply and roll_back).
THEOREM SequencesAreAtomic == Spec => AllOrNothing
<1> DEFINE Atomic ==
      Running /\ ~Running' =>
        \/ phase' = "ok"
        \/ phase' = "error" /\ docs'[target].slots = before
<1>1. ASSUME CompositeInvariant, [Next]_vars PROVE [Atomic]_vars
  <2> SUFFICES ASSUME Running, ~Running' PROVE Atomic
    BY DEF Atomic
  <2>1. ~Idle
    BY DEF Running, Idle
  <2>2. ~UNCHANGED vars
    BY DEF vars, call, Running
  <2>3. CASE ApplyNext
    BY <1>1, <2>3, ApplyNextKeeps
  <2>4. CASE Finish
    BY <1>1, <2>4, FinishKeeps
  <2>5. CASE RollBack
    BY <1>1, <2>5, RollBackKeeps
  <2>6. QED
    BY <1>1, <2>1, <2>2, <2>3, <2>4, <2>5
    DEF Next, ApplySequence, ApplyKept, ImportSelection, Merge, ExtractRange, SplitAt,
        Change
<1>2. QED BY <1>1, CompositeInvariantHolds, PTL DEF Spec, AllOrNothing, Atomic

\* A sequence changes the document it runs on and no other, and runs only on one
\* its binding names (BoundInverse::apply).
THEOREM InversesStayHome == Spec => InverseStaysHome
<1> DEFINE Home ==
      \A d \in Docs : Running /\ docs'[d] # docs[d] => d = target /\ d \in binding
<1>1. ASSUME CompositeInvariant, [Next]_vars PROVE [Home]_vars
  <2> SUFFICES ASSUME Running, NEW d \in Docs, docs'[d] # docs[d]
               PROVE  d = target /\ d \in binding
    BY DEF Home
  <2>1. ~Idle /\ target \in binding
    BY <1>1 DEF Running, Idle, CompositeInvariant
  <2>2. ~UNCHANGED vars
    BY DEF vars
  <2>3. docs \in [Docs -> Document]
    BY <1>1 DEF CompositeInvariant, TypeOK
  <2>4. ApplyNext => d = target
    BY <2>3 DEF ApplyNext, Perform
  <2>5. RollBack => d = target
    BY <2>3 DEF RollBack
  <2>6. ~Finish
    BY DEF Finish
  <2>7. QED
    BY <1>1, <2>1, <2>2, <2>4, <2>5, <2>6
    DEF Next, ApplySequence, ApplyKept, ImportSelection, Merge, ExtractRange, SplitAt,
        Change
<1>2. QED BY <1>1, CompositeInvariantHolds, PTL DEF Spec, InverseStaysHome, Home
=============================================================================
