------------------------- MODULE EditHistoryProofs -------------------------
(***************************************************************************)
(* The undo history is sound for every limit, every number of pages and    *)
(* every counter width: undo and redo are never refused, they show exactly *)
(* the pages that were there before, and no edit, undo or redo loses a     *)
(* page or brings an identity back that nothing names any more.            *)
(*                                                                         *)
(* The argument: a command's inverse brings back what the command changed  *)
(* (InverseLaw), and an inverse computed for one document works on any     *)
(* other that shows the same pages with at least the same trash            *)
(* (StandInLaw), such as the document a later undo and redo produced. That *)
(* no page is lost follows from looking at a document as the set of its    *)
(* slots: only turning a page replaces one, by one of the same identity,   *)
(* and only inserting adds one, under the next identity.                   *)
(***************************************************************************)
EXTENDS EditHistory, PageMapProofs

-----------------------------------------------------------------------------
\* The inductive invariant

HistoryInvariant ==
  /\ TypeOK
  /\ PageIdentity
  /\ HistoryWithinLimit
  /\ EntriesReplayTimeline

\* The typing facts each step starts from.
LEMMA HistoryTyping ==
  ASSUME TypeOK
  PROVE  /\ Len(undo) \in Nat /\ Len(redo) \in Nat
         /\ DOMAIN undo = 1..Len(undo) /\ DOMAIN redo = 1..Len(redo)
         /\ Len(timeline) = Len(undo) + Len(redo) + 1
         /\ DOMAIN timeline = 1..Len(timeline)
         /\ \A i \in 1..Len(undo) : undo[i] \in Inversion
         /\ \A i \in 1..Len(redo) : redo[i] \in Inversion
         /\ \A i \in 1..Len(timeline) : timeline[i] \in Document
         /\ Limit \in Nat /\ Limit >= 1
<1>1. undo \in Seq(Inversion) /\ redo \in Seq(Inversion) /\ timeline \in Seq(Document)
  BY DEF TypeOK
<1>2. QED BY <1>1, EditHistoryAssumption, LenProperties, ElementOfSeq DEF TypeOK

LEMMA OpenedIsFine ==
  ASSUME NEW d \in OpenedDocuments
  PROVE  d \in Document /\ WellFormed(d)
<1>1. PICK n \in PageCounts : \E r \in [1..n -> Rotations] : d = Opened(r)
  BY DEF OpenedDocuments
<1>2. n \in Nat
  BY EditHistoryAssumption
<1>3. QED BY <1>1, <1>2, OpenedWellFormed

\* A history with nothing to undo or redo.
LEMMA FreshHistory ==
  ASSUME NEW d \in Document, WellFormed(d),
         doc' = d, undo' = <<>>, redo' = <<>>, timeline' = <<d>>
  PROVE  HistoryInvariant'
<1>1. TypeOK'
  BY DEF TypeOK
<1>2. PageIdentity'
  BY DEF PageIdentity
<1>3. HistoryWithinLimit'
  BY EditHistoryAssumption DEF HistoryWithinLimit
<1>4. EntriesReplayTimeline'
  BY DEF EntriesReplayTimeline
<1>5. QED BY <1>1, <1>2, <1>3, <1>4 DEF HistoryInvariant

\* Vec::pop on either stack.
LEMMA FrontProperties ==
  ASSUME NEW S, NEW s \in Seq(S), Len(s) >= 1
  PROVE  /\ Front(s) \in Seq(S)
         /\ Len(Front(s)) = Len(s) - 1
         /\ \A i \in 1..(Len(s) - 1) : Front(s)[i] = s[i]
<1>1. PICK k \in Int : k = Len(s) - 1 /\ k >= 0
  BY LenProperties
<1> DEFINE front == SubSeq(s, 1, k)
<1>2. \A i \in 1..k : s[i] \in S
  BY <1>1, ElementOfSeq
<1>3. front \in Seq(S)
  BY <1>2, SubSeqProperties
<1>4. Len(front) = k /\ \A i \in 1..k : front[i] = s[i]
  BY <1>1, <1>2, SubSeqProperties
<1>5. QED BY <1>1, <1>3, <1>4 DEF Front

LEMMA EntriesPopped ==
  ASSUME NEW entries \in Seq(Inversion), Len(entries) >= 1
  PROVE  /\ Front(entries) \in Seq(Inversion)
         /\ Len(Front(entries)) = Len(entries) - 1
         /\ \A i \in 1..(Len(entries) - 1) : Front(entries)[i] = entries[i]
BY FrontProperties

LEMMA UndoStep ==
  ASSUME HistoryInvariant, Undo
  PROVE  /\ HistoryInvariant'
         /\ StandsFor(doc', timeline[Len(undo)])
<1> DEFINE n == Len(undo)
           m == Len(redo)
           c == undo[n]
           inverse == InverseOf(c, doc)
<1>1. /\ TypeOK /\ PageIdentity /\ HistoryWithinLimit /\ EntriesReplayTimeline
  BY DEF HistoryInvariant
<1>2. /\ n \in Nat /\ m \in Nat /\ n >= 1
      /\ undo \in Seq(Inversion) /\ redo \in Seq(Inversion)
      /\ timeline \in Seq(Document) /\ Len(timeline) = n + m + 1
      /\ doc \in Document /\ c \in Inversion
      /\ WellFormed(doc)
  BY <1>1, HistoryTyping DEF Undo, TypeOK, PageIdentity
<1>3. /\ LeadsTo(c, doc, timeline[n])
      /\ doc = timeline[n + 1]
      /\ timeline[n] \in Document /\ WellFormed(timeline[n])
  BY <1>1, <1>2, HistoryTyping DEF EntriesReplayTimeline, PageIdentity
<1>4. /\ Accepts(c, doc) /\ doc' = Applied(c, doc)
      /\ redo' = Append(redo, inverse)
      /\ timeline' = [timeline EXCEPT ![n] = doc']
      /\ undo' = Front(undo)
  BY DEF Undo, Last
<1>5. /\ doc' \in Document /\ WellFormed(doc')
      /\ inverse \in Inversion
      /\ LeadsTo(inverse, doc', doc)
  BY <1>2, <1>4, CommandStep, InverseLaw DEF Command
<1>6. StandsFor(doc', timeline[n])
  BY <1>3, <1>4 DEF LeadsTo
<1> HIDE DEF c, inverse
<1>7. /\ undo' \in Seq(Inversion) /\ Len(undo') = n - 1
      /\ \A i \in 1..(n - 1) : undo'[i] = undo[i]
  BY <1>2, <1>4, EntriesPopped
<1>8. /\ redo' \in Seq(Inversion) /\ Len(redo') = m + 1
      /\ \A i \in 1..m : redo'[i] = redo[i]
      /\ redo'[m + 1] = inverse
  BY <1>2, <1>4, <1>5, AppendProperties
<1>9. /\ timeline' \in Seq(Document) /\ Len(timeline') = n + m + 1
      /\ timeline'[n] = doc'
      /\ \A i \in 1..(n + m + 1) : i # n => timeline'[i] = timeline[i]
      /\ DOMAIN timeline' = 1..(n + m + 1)
  BY <1>2, <1>4, <1>5, ExceptSeq, LenProperties
<1> HIDE DEF n, m
<1>10. TypeOK'
  BY <1>2, <1>5, <1>7, <1>8, <1>9 DEF TypeOK
<1>11. PageIdentity'
  BY <1>1, <1>2, <1>5, <1>9, HistoryTyping DEF PageIdentity
<1>12. HistoryWithinLimit'
  BY <1>1, <1>2, <1>7, <1>8 DEF HistoryWithinLimit, n, m
<1>13. EntriesReplayTimeline'
  <2>1. ASSUME NEW i \in 1..(n - 1)
        PROVE  LeadsTo(undo'[i], timeline'[i + 1], timeline'[i])
    <3>1. /\ i \in 1..n /\ i # n /\ i + 1 \in 1..(n + m + 1) /\ i \in 1..(n + m + 1)
      BY <1>2
    <3>2. /\ LeadsTo(undo[i], timeline[i + 1], timeline[i])
          /\ undo[i] \in Inversion
          /\ timeline'[i] = timeline[i] /\ undo'[i] = undo[i]
      BY <1>1, <1>7, <1>9, <3>1, HistoryTyping DEF EntriesReplayTimeline, n
    <3>3. CASE i + 1 # n
      BY <1>9, <3>1, <3>2, <3>3
    <3>4. CASE i + 1 = n
      BY <1>3, <1>5, <1>6, <1>9, <3>2, <3>4, StandInLaw
    <3>5. QED BY <3>3, <3>4
  <2>2. ASSUME NEW i \in 1..(m + 1)
        PROVE  LeadsTo(redo'[i], timeline'[(n + m + 1) - i], timeline'[(n + m + 1) - i + 1])
    <3>1. CASE i = m + 1
      <4>1. (n + m + 1) - i = n /\ (n + m + 1) - i + 1 = n + 1 /\ n + 1 \in 1..(n + m + 1)
        BY <1>2, <3>1
      <4>2. timeline'[n + 1] = doc
        BY <1>2, <1>3, <1>9, <4>1
      <4>3. QED BY <1>5, <1>8, <1>9, <3>1, <4>1, <4>2
    <3>2. CASE i # m + 1
      <4>1. /\ i \in 1..m
            /\ (n + m + 1) - i \in 1..(n + m + 1) /\ (n + m + 1) - i # n
            /\ (n + m + 1) - i + 1 \in 1..(n + m + 1) /\ (n + m + 1) - i + 1 # n
        BY <1>2, <3>2
      <4>2. LeadsTo(redo[i], timeline[(n + m + 1) - i], timeline[(n + m + 1) - i + 1])
        BY <1>1, <1>2, <4>1 DEF EntriesReplayTimeline, m
      <4>3. QED BY <1>8, <1>9, <4>1, <4>2
    <3>3. QED BY <3>1, <3>2
  <2>3. doc' = timeline'[Len(undo') + 1]
    BY <1>2, <1>7, <1>9
  <2>4. QED BY <1>7, <1>8, <1>9, <2>1, <2>2, <2>3 DEF EntriesReplayTimeline
<1>14. QED BY <1>6, <1>10, <1>11, <1>12, <1>13 DEF HistoryInvariant, n

LEMMA RedoStep ==
  ASSUME HistoryInvariant, Redo
  PROVE  /\ HistoryInvariant'
         /\ StandsFor(doc', timeline[Len(undo) + 2])
         /\ Len(undo) + 2 <= Len(timeline)
<1> DEFINE n == Len(undo)
           m == Len(redo)
           c == redo[m]
           inverse == InverseOf(c, doc)
<1>1. /\ TypeOK /\ PageIdentity /\ HistoryWithinLimit /\ EntriesReplayTimeline
  BY DEF HistoryInvariant
<1>2. /\ n \in Nat /\ m \in Nat /\ m >= 1
      /\ undo \in Seq(Inversion) /\ redo \in Seq(Inversion)
      /\ timeline \in Seq(Document) /\ Len(timeline) = n + m + 1
      /\ doc \in Document /\ c \in Inversion
      /\ WellFormed(doc)
  BY <1>1, HistoryTyping DEF Redo, TypeOK, PageIdentity
<1>3. /\ LeadsTo(c, doc, timeline[n + 2])
      /\ doc = timeline[n + 1]
      /\ timeline[n + 2] \in Document /\ WellFormed(timeline[n + 2])
  <2>1. /\ (n + m + 1) - m = n + 1 /\ (n + m + 1) - m + 1 = n + 2
        /\ m \in 1..m /\ n + 2 \in 1..(n + m + 1)
    BY <1>2
  <2>2. LeadsTo(c, timeline[n + 1], timeline[n + 2]) /\ doc = timeline[n + 1]
    BY <1>1, <1>2, <2>1 DEF EntriesReplayTimeline
  <2>3. QED BY <1>1, <1>2, <2>1, <2>2, HistoryTyping DEF PageIdentity
<1>4. /\ Accepts(c, doc) /\ doc' = Applied(c, doc)
      /\ undo' = Append(undo, inverse)
      /\ timeline' = [timeline EXCEPT ![n + 2] = doc']
      /\ redo' = Front(redo)
  BY DEF Redo, Last
<1>5. /\ doc' \in Document /\ WellFormed(doc')
      /\ inverse \in Inversion
      /\ LeadsTo(inverse, doc', doc)
  BY <1>2, <1>4, CommandStep, InverseLaw DEF Command
<1>6. StandsFor(doc', timeline[n + 2])
  BY <1>3, <1>4 DEF LeadsTo
<1> HIDE DEF c, inverse
<1>7. /\ redo' \in Seq(Inversion) /\ Len(redo') = m - 1
      /\ \A i \in 1..(m - 1) : redo'[i] = redo[i]
  BY <1>2, <1>4, EntriesPopped
<1>8. /\ undo' \in Seq(Inversion) /\ Len(undo') = n + 1
      /\ \A i \in 1..n : undo'[i] = undo[i]
      /\ undo'[n + 1] = inverse
  BY <1>2, <1>4, <1>5, AppendProperties
<1>9. /\ timeline' \in Seq(Document) /\ Len(timeline') = n + m + 1
      /\ timeline'[n + 2] = doc'
      /\ \A i \in 1..(n + m + 1) : i # n + 2 => timeline'[i] = timeline[i]
      /\ DOMAIN timeline' = 1..(n + m + 1)
  BY <1>2, <1>4, <1>5, ExceptSeq, LenProperties
<1> HIDE DEF n, m
<1>10. TypeOK'
  BY <1>2, <1>5, <1>7, <1>8, <1>9 DEF TypeOK
<1>11. PageIdentity'
  BY <1>1, <1>2, <1>5, <1>9, HistoryTyping DEF PageIdentity
<1>12. HistoryWithinLimit'
  BY <1>1, <1>2, <1>7, <1>8 DEF HistoryWithinLimit, n, m
<1>13. EntriesReplayTimeline'
  <2>1. ASSUME NEW i \in 1..(n + 1)
        PROVE  LeadsTo(undo'[i], timeline'[i + 1], timeline'[i])
    <3>1. i \in 1..(n + m + 1) /\ i # n + 2 /\ timeline'[i] = timeline[i]
      BY <1>2, <1>9
    <3>2. CASE i = n + 1
      <4>1. timeline'[i + 1] = doc' /\ timeline'[i] = doc /\ undo'[i] = inverse
        BY <1>2, <1>3, <1>8, <1>9, <3>1, <3>2
      <4>2. QED BY <1>5, <4>1
    <3>3. CASE i # n + 1
      <4>1. i \in 1..n /\ i + 1 \in 1..(n + m + 1) /\ i + 1 # n + 2
        BY <1>2, <3>3
      <4>2. LeadsTo(undo[i], timeline[i + 1], timeline[i])
        BY <1>1, <4>1 DEF EntriesReplayTimeline, n
      <4>3. QED BY <1>8, <1>9, <3>1, <4>1, <4>2
    <3>4. QED BY <3>2, <3>3
  <2>2. ASSUME NEW i \in 1..(m - 1)
        PROVE  LeadsTo(redo'[i], timeline'[(n + m + 1) - i], timeline'[(n + m + 1) - i + 1])
    <3> DEFINE k == (n + m + 1) - i
    <3>1. /\ i \in 1..m /\ k \in Nat /\ k >= n + 2
          /\ k \in 1..(n + m + 1) /\ k + 1 \in 1..(n + m + 1) /\ k + 1 # n + 2
      BY <1>2
    <3>2. /\ LeadsTo(redo[i], timeline[k], timeline[k + 1])
          /\ redo[i] \in Inversion
      BY <1>1, <1>2, <3>1, HistoryTyping DEF EntriesReplayTimeline, m
    <3> HIDE DEF k
    <3>3. timeline'[k + 1] = timeline[k + 1] /\ redo'[i] = redo[i]
      BY <1>7, <1>9, <3>1
    <3>4. CASE k # n + 2
      <4>1. LeadsTo(redo'[i], timeline'[k], timeline'[k + 1])
        BY <1>9, <3>1, <3>2, <3>3, <3>4
      <4>2. QED BY <4>1 DEF k
    <3>5. CASE k = n + 2
      <4>1. LeadsTo(redo'[i], timeline'[k], timeline'[k + 1])
        BY <1>3, <1>5, <1>6, <1>9, <3>2, <3>3, <3>5, StandInLaw
      <4>2. QED BY <4>1 DEF k
    <3>6. QED BY <3>4, <3>5
  <2>3. doc' = timeline'[Len(undo') + 1]
    BY <1>2, <1>8, <1>9
  <2>4. QED BY <1>7, <1>8, <1>9, <2>1, <2>2, <2>3 DEF EntriesReplayTimeline
<1>14. n + 2 <= Len(timeline)
  BY <1>2
<1>15. QED BY <1>6, <1>10, <1>11, <1>12, <1>13, <1>14 DEF HistoryInvariant, n

\* Dropping the oldest entry, and the oldest document.
LEMMA TailOfEntries ==
  ASSUME NEW s \in Seq(Inversion), Len(s) >= 1
  PROVE  /\ Tail(s) \in Seq(Inversion)
         /\ Len(Tail(s)) = Len(s) - 1
         /\ \A i \in 1..(Len(s) - 1) : Tail(s)[i] = s[i + 1]
BY HeadTailProperties

LEMMA TailOfTimeline ==
  ASSUME NEW s \in Seq(Document), Len(s) >= 1
  PROVE  /\ Tail(s) \in Seq(Document)
         /\ Len(Tail(s)) = Len(s) - 1
         /\ \A i \in 1..(Len(s) - 1) : Tail(s)[i] = s[i + 1]
BY HeadTailProperties

\* What recording an edit does to the stack and to the timeline.
LEMMA ApplyRecords ==
  ASSUME HistoryInvariant, NEW c \in Command, Apply(c)
  PROVE  LET n == Len(undo)
             drop == IF n = Limit THEN 1 ELSE 0
         IN  /\ doc' \in Document /\ WellFormed(doc')
             /\ redo' = <<>>
             /\ undo' \in Seq(Inversion) /\ Len(undo') = n + 1 - drop
             /\ timeline' \in Seq(Document) /\ Len(timeline') = n + 2 - drop
             /\ \A i \in 1..(n - drop) : undo'[i] = undo[i + drop]
             /\ undo'[n + 1 - drop] = InverseOf(c, doc)
             /\ \A i \in 1..(n + 1 - drop) : timeline'[i] = timeline[i + drop]
             /\ timeline'[n + 2 - drop] = doc'
             /\ LeadsTo(InverseOf(c, doc), doc', doc)
<1> DEFINE n == Len(undo)
           inverse == InverseOf(c, doc)
           kept == SubSeq(timeline, 1, n + 1)
           grown == Append(kept, doc')
           entries == Append(undo, inverse)
           drop == IF n = Limit THEN 1 ELSE 0
<1>1. /\ TypeOK /\ PageIdentity /\ HistoryWithinLimit /\ EntriesReplayTimeline
  BY DEF HistoryInvariant
<1>2. /\ n \in Nat /\ Len(redo) \in Nat /\ Limit \in Nat /\ Limit >= 1 /\ n <= Limit
      /\ undo \in Seq(Inversion)
      /\ timeline \in Seq(Document) /\ Len(timeline) >= n + 1
      /\ \A i \in 1..(n + 1) : timeline[i] \in Document
      /\ doc \in Document /\ WellFormed(doc)
  BY <1>1, HistoryTyping DEF TypeOK, PageIdentity, HistoryWithinLimit
<1>3. /\ Accepts(c, doc) /\ doc' = Applied(c, doc)
  BY DEF Apply
<1>4. /\ doc' \in Document /\ WellFormed(doc')
      /\ doc'.revision # doc.revision
      /\ inverse \in Inversion
      /\ LeadsTo(inverse, doc', doc)
  BY <1>2, <1>3, CommandStep, InverseLaw
<1>5. /\ undo' = Newest(entries, Limit)
      /\ redo' = <<>>
      /\ timeline' = Newest(grown, Limit + 1)
  BY <1>4 DEF Apply
<1> HIDE DEF inverse
<1>6. /\ kept \in Seq(Document) /\ Len(kept) = n + 1
      /\ \A i \in 1..(n + 1) : kept[i] = timeline[i]
  BY <1>2, SubSeqProperties
<1> HIDE DEF kept
<1>7. /\ grown \in Seq(Document) /\ Len(grown) = n + 2
      /\ \A i \in 1..(n + 1) : grown[i] = timeline[i]
      /\ grown[n + 2] = doc'
  BY <1>2, <1>4, <1>6, AppendProperties
<1>8. /\ entries \in Seq(Inversion) /\ Len(entries) = n + 1
      /\ \A i \in 1..n : entries[i] = undo[i]
      /\ entries[n + 1] = inverse
  BY <1>2, <1>4, AppendProperties
<1> HIDE DEF grown, entries
<1>9. CASE n < Limit
  <2>1. undo' = entries
    BY <1>2, <1>5, <1>8, <1>9 DEF Newest
  <2>2. timeline' = grown
    BY <1>2, <1>5, <1>7, <1>9 DEF Newest
  <2>3. drop = 0
    BY <1>2, <1>9
  <2>4. QED BY <1>2, <1>4, <1>5, <1>7, <1>8, <2>1, <2>2, <2>3 DEF inverse
<1>10. CASE n = Limit
  <2>1. /\ undo' \in Seq(Inversion) /\ Len(undo') = n
        /\ \A i \in 1..n : undo'[i] = entries[i + 1]
    BY <1>2, <1>5, <1>8, <1>10, TailOfEntries DEF Newest
  <2>2. /\ timeline' \in Seq(Document) /\ Len(timeline') = n + 1
        /\ \A i \in 1..(n + 1) : timeline'[i] = grown[i + 1]
    BY <1>2, <1>5, <1>7, <1>10, TailOfTimeline DEF Newest
  <2>3. drop = 1
    BY <1>10
  <2>4. /\ \A i \in 1..(n - 1) : undo'[i] = undo[i + 1]
        /\ undo'[n] = inverse
    BY <1>2, <1>8, <1>10, <2>1
  <2>5. ASSUME NEW i \in 1..n
        PROVE  timeline'[i] = timeline[i + 1]
    <3>1. n \in Nat /\ i \in 1..(n + 1) /\ i + 1 \in 1..(n + 1)
      BY <1>2
    <3>2. timeline'[i] = grown[i + 1]
      BY <2>2, <3>1
    <3>3. QED BY <1>7, <3>1, <3>2
  <2>6. timeline'[n + 1] = doc'
    <3>1. n \in Nat /\ n + 1 \in 1..(n + 1) /\ (n + 1) + 1 = n + 2
      BY <1>2
    <3>2. QED BY <1>7, <2>2, <3>1
  <2>7. QED BY <1>2, <1>4, <1>5, <2>1, <2>2, <2>3, <2>4, <2>5, <2>6 DEF inverse
<1>11. QED BY <1>2, <1>9, <1>10

LEMMA ApplyStep ==
  ASSUME HistoryInvariant, NEW c \in Command, Apply(c)
  PROVE  HistoryInvariant'
<1> DEFINE n == Len(undo)
           drop == IF n = Limit THEN 1 ELSE 0
           inverse == InverseOf(c, doc)
<1>1. /\ TypeOK /\ PageIdentity /\ HistoryWithinLimit /\ EntriesReplayTimeline
  BY DEF HistoryInvariant
<1>2. /\ n \in Nat /\ Len(redo) \in Nat /\ Limit \in Nat /\ Limit >= 1 /\ n <= Limit
      /\ Len(timeline) = n + Len(redo) + 1
      /\ DOMAIN timeline = 1..Len(timeline)
      /\ drop \in {0, 1} /\ n + 1 - drop <= Limit /\ n >= drop
  BY <1>1, HistoryTyping DEF HistoryWithinLimit
<1>3. /\ doc' \in Document /\ WellFormed(doc')
      /\ redo' = <<>>
      /\ undo' \in Seq(Inversion) /\ Len(undo') = n + 1 - drop
      /\ timeline' \in Seq(Document) /\ Len(timeline') = n + 2 - drop
      /\ \A i \in 1..(n - drop) : undo'[i] = undo[i + drop]
      /\ undo'[n + 1 - drop] = inverse
      /\ \A i \in 1..(n + 1 - drop) : timeline'[i] = timeline[i + drop]
      /\ timeline'[n + 2 - drop] = doc'
      /\ LeadsTo(inverse, doc', doc)
  BY ApplyRecords
<1> HIDE DEF n, drop, inverse
<1>4. TypeOK'
  BY <1>2, <1>3 DEF TypeOK
<1>5. PageIdentity'
  <2>1. DOMAIN timeline' = 1..(n + 2 - drop)
    BY <1>3, LenProperties
  <2>2. ASSUME NEW i \in 1..(n + 2 - drop) PROVE WellFormed(timeline'[i])
    <3>1. CASE i = n + 2 - drop
      BY <1>3, <3>1
    <3>2. CASE i # n + 2 - drop
      <4>1. i \in 1..(n + 1 - drop) /\ i + drop \in DOMAIN timeline
        BY <1>2, <3>2
      <4>2. QED BY <1>1, <1>3, <4>1 DEF PageIdentity
    <3>3. QED BY <3>1, <3>2
  <2>3. QED BY <1>3, <2>1, <2>2 DEF PageIdentity
<1>6. HistoryWithinLimit'
  BY <1>2, <1>3 DEF HistoryWithinLimit
<1>7. EntriesReplayTimeline'
  <2>1. ASSUME NEW i \in 1..(n + 1 - drop)
        PROVE  LeadsTo(undo'[i], timeline'[i + 1], timeline'[i])
    <3>1. timeline'[i] = timeline[i + drop]
      BY <1>3
    <3>2. CASE i = n + 1 - drop
      <4>1. i + drop = n + 1 /\ i + 1 = n + 2 - drop
        BY <1>2, <3>2
      <4>2. timeline[n + 1] = doc
        BY <1>1 DEF EntriesReplayTimeline, n
      <4>3. QED BY <1>3, <3>1, <3>2, <4>1, <4>2
    <3>3. CASE i # n + 1 - drop
      <4>1. /\ i \in 1..(n - drop) /\ i + drop \in 1..n
            /\ i + 1 \in 1..(n + 1 - drop) /\ (i + 1) + drop = (i + drop) + 1
        BY <1>2, <3>3
      <4>2. LeadsTo(undo[i + drop], timeline[(i + drop) + 1], timeline[i + drop])
        BY <1>1, <4>1 DEF EntriesReplayTimeline, n
      <4>3. undo'[i] = undo[i + drop] /\ timeline'[i + 1] = timeline[(i + drop) + 1]
        BY <1>3, <4>1
      <4>4. QED BY <3>1, <4>2, <4>3
    <3>4. QED BY <3>2, <3>3
  <2>2. 1..Len(redo') = {}
    BY <1>3
  <2>3. doc' = timeline'[Len(undo') + 1]
    <3>1. Len(undo') + 1 = n + 2 - drop
      BY <1>2, <1>3
    <3>2. QED BY <1>3, <3>1
  <2>4. QED BY <1>3, <2>1, <2>2, <2>3 DEF EntriesReplayTimeline
<1>8. QED BY <1>4, <1>5, <1>6, <1>7 DEF HistoryInvariant

\* A command the actions take is one of Command.
LEMMA AppliedCommands ==
  ASSUME TypeOK, ApplyRemove \/ ApplyRestore \/ ApplyRotate \/ ApplyMove \/ ApplyInsert
  PROVE  \E c \in Command : Apply(c)
<1>1. KnownIds(doc) \subseteq PageId
  <2>1. doc.slots \in Seq(Slot) /\ doc.removed \subseteq Slot
    BY DEF TypeOK, Document
  <2>2. \A i \in DOMAIN doc.slots : doc.slots[i] \in Slot
    BY <2>1, LenProperties, ElementOfSeq
  <2>3. QED BY <2>1, <2>2 DEF KnownIds, Slot
<1>2. Position \subseteq Nat
  BY EditHistoryAssumption DEF Position
<1> USE DEF Command, Inversion
<1>3. CASE ApplyRemove
  BY <1>1, <1>3 DEF ApplyRemove, RemoveCommand
<1>4. CASE ApplyRestore
  BY <1>1, <1>2, <1>4 DEF ApplyRestore, RestoreCommand
<1>5. CASE ApplyRotate
  BY <1>1, <1>5 DEF ApplyRotate, RotateCommand
<1>6. CASE ApplyMove
  BY <1>1, <1>2, <1>6 DEF ApplyMove, MoveCommand
<1>7. CASE ApplyInsert
  BY <1>2, <1>7 DEF ApplyInsert, InsertCommand
<1>8. QED BY <1>3, <1>4, <1>5, <1>6, <1>7

LEMMA PurgeIsFine ==
  ASSUME NEW d \in Document, WellFormed(d)
  PROVE  /\ PurgeTrash(d) \in Document /\ WellFormed(PurgeTrash(d))
         /\ PurgeTrash(d).slots = d.slots
<1>1. /\ PurgeTrash(d) \in Document
      /\ PurgeTrash(d).slots = d.slots /\ PurgeTrash(d).removed = {}
      /\ PurgeTrash(d).next = d.next
  BY DEF PurgeTrash, Document
<1>2. QED BY <1>1 DEF WellFormed, KnownIds

\* The invariant holds at the start and every step keeps it.
LEMMA HistoryInvariantInductive ==
  /\ Init => HistoryInvariant
  /\ HistoryInvariant /\ [Next]_vars => HistoryInvariant'
<1>1. ASSUME Init PROVE HistoryInvariant
  <2>1. doc \in Document /\ WellFormed(doc)
    BY <1>1, OpenedIsFine DEF Init
  <2>2. /\ TypeOK /\ PageIdentity /\ HistoryWithinLimit
    BY <1>1, <2>1, EditHistoryAssumption
    DEF Init, TypeOK, PageIdentity, HistoryWithinLimit
  <2>3. EntriesReplayTimeline
    BY <1>1 DEF Init, EntriesReplayTimeline
  <2>4. QED BY <2>2, <2>3 DEF HistoryInvariant
<1>2. ASSUME HistoryInvariant, [Next]_vars PROVE HistoryInvariant'
  <2>1. CASE ApplyRemove \/ ApplyRestore \/ ApplyRotate \/ ApplyMove \/ ApplyInsert
    BY <1>2, <2>1, AppliedCommands, ApplyStep DEF HistoryInvariant
  <2>2. CASE Undo
    BY <1>2, <2>2, UndoStep
  <2>3. CASE Redo
    BY <1>2, <2>3, RedoStep
  <2>4. CASE Compact
    <3>1. doc' \in Document /\ WellFormed(doc')
      BY <1>2, <2>4, PurgeIsFine DEF Compact, HistoryInvariant, TypeOK, PageIdentity
    <3>2. QED BY <2>4, <3>1, FreshHistory DEF Compact
  <2>5. CASE InstallDocument
    <3>1. doc' \in Document /\ WellFormed(doc')
      BY <2>5, OpenedIsFine DEF InstallDocument
    <3>2. QED BY <2>5, <3>1, FreshHistory DEF InstallDocument
  <2>6. CASE UNCHANGED vars
    BY <1>2, <2>6
    DEF vars, HistoryInvariant, TypeOK, PageIdentity, HistoryWithinLimit, EntriesReplayTimeline
  <2>7. QED BY <1>2, <2>1, <2>2, <2>3, <2>4, <2>5, <2>6 DEF Next
<1>3. QED BY <1>1, <1>2

LEMMA HistoryInvariantHolds == Spec => []HistoryInvariant
BY HistoryInvariantInductive, PTL DEF Spec

-----------------------------------------------------------------------------
\* The theorems

\* The stacks divide the timeline between them, and together never outgrow the
\* limit, for every limit; all types hold.
THEOREM HistoryHolds == Spec => []HistoryOK
BY HistoryInvariantHolds, PTL DEF HistoryInvariant, HistoryOK

\* No identity ever names two pages of any document within reach.
THEOREM PageIdentityHolds == Spec => []PageIdentity
BY HistoryInvariantHolds, PTL DEF HistoryInvariant

\* Every queued entry replays the document it was recorded for.
THEOREM EntriesReplay == Spec => []EntriesReplayTimeline
BY HistoryInvariantHolds, PTL DEF HistoryInvariant

\* Undo and redo are never refused by the document.
THEOREM HistoryNeverRefused == Spec => []NextEntryApplies
<1>1. HistoryInvariant => NextEntryApplies
  <2> SUFFICES ASSUME HistoryInvariant PROVE NextEntryApplies
    OBVIOUS
  <2>1. TypeOK /\ EntriesReplayTimeline
    BY DEF HistoryInvariant
  <2>2. /\ Len(undo) \in Nat /\ Len(redo) \in Nat
        /\ undo \in Seq(Inversion) /\ redo \in Seq(Inversion)
        /\ Len(timeline) = Len(undo) + Len(redo) + 1
    BY <2>1, HistoryTyping DEF TypeOK
  <2>3. ASSUME undo # <<>> PROVE Accepts(Last(undo), doc)
    <3>1. Len(undo) \in 1..Len(undo)
      BY <2>2, <2>3, EmptySeq
    <3>2. QED BY <2>1, <3>1 DEF EntriesReplayTimeline, LeadsTo, Last
  <2>4. ASSUME redo # <<>> PROVE Accepts(Last(redo), doc)
    <3>1. Len(redo) \in 1..Len(redo)
      BY <2>2, <2>4, EmptySeq
    <3>2. Len(timeline) - Len(redo) = Len(undo) + 1
      BY <2>2
    <3>3. QED BY <2>1, <3>1, <3>2 DEF EntriesReplayTimeline, LeadsTo, Last
  <2>5. QED BY <2>3, <2>4 DEF NextEntryApplies
<1>2. QED BY <1>1, HistoryInvariantHolds, PTL

-----------------------------------------------------------------------------
\* The history implements a timeline

LEMMA PageListsOf ==
  ASSUME NEW T \in Seq(Document)
  PROVE  LET P == [i \in DOMAIN T |-> T[i].slots]
         IN  /\ P \in Seq(Seq(Slot))
             /\ Len(P) = Len(T)
             /\ \A i \in 1..Len(T) : P[i] = T[i].slots /\ P[i] \in Seq(Slot)
<1>1. /\ DOMAIN T = 1..Len(T) /\ Len(T) \in Nat
      /\ \A i \in 1..Len(T) : T[i] \in Document
  BY LenProperties, ElementOfSeq
<1>2. \A i \in 1..Len(T) : T[i].slots \in Seq(Slot)
  BY <1>1 DEF Document
<1>3. [i \in DOMAIN T |-> T[i].slots] = [i \in 1..Len(T) |-> T[i].slots]
  BY <1>1
<1>4. QED BY <1>1, <1>2, <1>3

LEMMA PageListsTyping ==
  ASSUME TypeOK, TypeOK'
  PROVE  /\ PageLists \in Seq(Seq(Slot)) /\ PageLists' \in Seq(Seq(Slot))
         /\ Len(PageLists) = Len(timeline) /\ Len(PageLists') = Len(timeline')
         /\ \A i \in 1..Len(timeline) : PageLists[i] = timeline[i].slots
         /\ \A i \in 1..Len(timeline') :
              PageLists'[i] = timeline'[i].slots /\ PageLists'[i] \in Seq(Slot)
<1>1. timeline \in Seq(Document) /\ timeline' \in Seq(Document)
  BY DEF TypeOK
<1>2. QED BY <1>1, PageListsOf DEF PageLists

\* An edit appends to the line what it shows, and drops what was undone.
LEMMA ApplyExtendsLine ==
  ASSUME HistoryInvariant, HistoryInvariant', NEW c \in Command, Apply(c)
  PROVE  Line!Edit
<1> DEFINE n == Len(undo)
           drop == IF n = Limit THEN 1 ELSE 0
           H == PageLists
           G == PageLists'
<1>1. TypeOK /\ TypeOK'
  BY DEF HistoryInvariant
<1>2. /\ n \in Nat /\ Len(redo) \in Nat /\ Limit \in Nat /\ Limit >= 1 /\ n <= Limit
      /\ Len(timeline) = n + Len(redo) + 1
      /\ drop \in {0, 1} /\ n >= drop
  BY <1>1, HistoryTyping DEF HistoryInvariant, HistoryWithinLimit
<1>3. /\ Len(undo') = n + 1 - drop
      /\ Len(timeline') = n + 2 - drop
      /\ \A i \in 1..(n + 1 - drop) : timeline'[i] = timeline[i + drop]
  BY ApplyRecords
<1>4. /\ H \in Seq(Seq(Slot)) /\ Len(H) = Len(timeline)
      /\ \A i \in 1..Len(timeline) : H[i] = timeline[i].slots
  BY <1>1, PageListsTyping
<1>5. /\ G \in Seq(Seq(Slot)) /\ Len(G) = Len(timeline')
      /\ \A i \in 1..Len(timeline') : G[i] = timeline'[i].slots /\ G[i] \in Seq(Slot)
  BY <1>1, PageListsTyping
<1> DEFINE last == G[Len(G)]
           kept == SubSeq(H, 1, n + 1)
           grown == Append(kept, last)
<1>6. Len(G) > 0 /\ last \in Seq(Slot) /\ Len(G) = n + 2 - drop
  BY <1>2, <1>3, <1>5
<1> HIDE DEF H, G, n, drop
<1>7. /\ kept \in Seq(Seq(Slot)) /\ Len(kept) = n + 1
      /\ \A i \in 1..(n + 1) : kept[i] = H[i]
  <2>1. \A i \in 1..(n + 1) : H[i] \in Seq(Slot)
    BY <1>2, <1>4, ElementOfSeq
  <2>2. QED BY <1>2, <2>1, SubSeqProperties
<1> HIDE DEF kept, last
<1>8. /\ grown \in Seq(Seq(Slot)) /\ Len(grown) = n + 2
      /\ \A i \in 1..(n + 1) : grown[i] = H[i]
      /\ grown[n + 2] = last
  BY <1>2, <1>6, <1>7, AppendProperties
<1> HIDE DEF grown
<1>9. ASSUME NEW i \in 1..(n + 1 - drop) PROVE G[i] = H[i + drop]
  <2>1. i \in 1..Len(timeline') /\ i + drop \in 1..Len(timeline)
    BY <1>2, <1>3
  <2>2. G[i] = timeline'[i].slots /\ H[i + drop] = timeline[i + drop].slots
    BY <1>4, <1>5, <2>1
  <2>3. QED BY <1>3, <2>2
<1>10. G = Line!Bounded(grown)
  <2>1. CASE n < Limit
    <3>1. Line!Bounded(grown) = grown
      BY <1>2, <1>8, <2>1 DEF Line!Bounded
    <3>2. drop = 0
      BY <1>2, <2>1 DEF drop
    <3>3. Len(G) = n + 2 /\ last = G[n + 2]
      BY <1>2, <1>6, <3>2 DEF last
    <3>4. ASSUME NEW i \in 1..(n + 2) PROVE G[i] = grown[i]
      <4>1. CASE i = n + 2
        BY <1>8, <3>3, <4>1
      <4>2. CASE i # n + 2
        <5>1. i \in 1..(n + 1) /\ i + 0 = i
          BY <1>2, <4>2
        <5>2. G[i] = H[i]
          BY <1>2, <1>9, <3>2, <5>1
        <5>3. QED BY <1>8, <5>1, <5>2
      <4>3. QED BY <4>1, <4>2
    <3>5. G = grown
      BY <1>5, <1>8, <3>3, <3>4, SeqEqual
    <3>6. QED BY <3>1, <3>5
  <2>2. CASE n = Limit
    <3>1. drop = 1
      BY <2>2 DEF drop
    <3>2. Line!Bounded(grown) = Tail(grown)
      BY <1>2, <1>8, <2>2 DEF Line!Bounded
    <3>3. /\ Tail(grown) \in Seq(Seq(Slot)) /\ Len(Tail(grown)) = n + 1
          /\ \A i \in 1..(n + 1) : Tail(grown)[i] = grown[i + 1]
      <4>1. grown # <<>>
        BY <1>2, <1>8, EmptySeq
      <4>2. QED BY <1>2, <1>8, <4>1, HeadTailProperties
    <3>4. Len(G) = n + 1 /\ last = G[n + 1]
      BY <1>2, <1>6, <3>1 DEF last
    <3>5. ASSUME NEW i \in 1..(n + 1) PROVE G[i] = Tail(grown)[i]
      <4>1. CASE i = n + 1
        <5>1. i + 1 = n + 2
          BY <1>2, <4>1
        <5>2. Tail(grown)[i] = last
          BY <1>8, <3>3, <5>1
        <5>3. QED BY <3>4, <4>1, <5>2
      <4>2. CASE i # n + 1
        <5>1. i \in 1..(n + 1 - drop) /\ i + 1 \in 1..(n + 1)
          BY <1>2, <3>1, <4>2
        <5>2. G[i] = H[i + 1]
          BY <1>9, <3>1, <5>1
        <5>3. QED BY <1>8, <3>3, <5>1, <5>2
      <4>3. QED BY <4>1, <4>2
    <3>6. G = Tail(grown)
      BY SMTT(30), <1>5, <3>3, <3>4, <3>5, SeqEqual
    <3>7. QED BY <3>2, <3>6
  <2>3. QED BY <1>2, <2>1, <2>2
<1>11. Len(undo') + 1 = Len(G)
  BY <1>2, <1>3, <1>6
<1>12. QED
  BY <1>6, <1>10, <1>11 DEF Line!Edit, H, G, n, last, kept, grown

\* Every step of the history is a step of the line.
LEMMA StepsWalkTimeline ==
  ASSUME HistoryInvariant, HistoryInvariant', [Next]_vars
  PROVE  [Line!Next]_<<PageLists, Len(undo) + 1>>
<1>1. TypeOK /\ TypeOK' /\ EntriesReplayTimeline
  BY DEF HistoryInvariant
<1>3. /\ PageLists \in Seq(Seq(Slot)) /\ PageLists' \in Seq(Seq(Slot))
      /\ Len(PageLists) = Len(timeline) /\ Len(PageLists') = Len(timeline')
      /\ \A i \in 1..Len(timeline) : PageLists[i] = timeline[i].slots
      /\ \A i \in 1..Len(timeline') :
           PageLists'[i] = timeline'[i].slots /\ PageLists'[i] \in Seq(Slot)
  BY <1>1, PageListsTyping
<1>4. /\ Len(undo) \in Nat /\ Len(redo) \in Nat
      /\ Len(timeline) = Len(undo) + Len(redo) + 1
      /\ undo \in Seq(Inversion) /\ redo \in Seq(Inversion)
      /\ timeline \in Seq(Document)
  BY <1>1, HistoryTyping DEF TypeOK
<1>5. CASE ApplyRemove \/ ApplyRestore \/ ApplyRotate \/ ApplyMove \/ ApplyInsert
  BY <1>1, <1>5, AppliedCommands, ApplyExtendsLine DEF Line!Next
<1>6. CASE Undo
  <2>1. /\ StandsFor(doc', timeline[Len(undo)])
        /\ doc' \in Document
    BY <1>1, <1>6, UndoStep DEF TypeOK
  <2>2. /\ undo # <<>> /\ undo' = Front(undo)
        /\ timeline' = [timeline EXCEPT ![Len(undo)] = doc']
    BY <1>6 DEF Undo
  <2>3. Len(undo) >= 1 /\ Len(undo') = Len(undo) - 1
    BY <1>4, <2>2, EmptySeq, EntriesPopped
  <2>4. /\ Len(timeline') = Len(timeline)
        /\ \A i \in 1..Len(timeline) :
             timeline'[i] = IF i = Len(undo) THEN doc' ELSE timeline[i]
    BY <1>4, <2>1, <2>2, <2>3, ExceptSeq
  <2>5. \A i \in 1..Len(timeline) : PageLists'[i] = PageLists[i]
    BY <1>3, <2>1, <2>4 DEF StandsFor
  <2>6. PageLists' = PageLists
    BY <1>3, <2>4, <2>5, SeqEqual
  <2>7. Line!Undo
    BY <1>4, <2>3, <2>6 DEF Line!Undo
  <2>8. QED BY <2>7 DEF Line!Next
<1>7. CASE Redo
  <2>1. /\ StandsFor(doc', timeline[Len(undo) + 2])
        /\ Len(undo) + 2 <= Len(timeline)
        /\ doc' \in Document
    BY <1>1, <1>7, RedoStep DEF TypeOK
  <2>2. /\ timeline' = [timeline EXCEPT ![Len(undo) + 2] = doc']
        /\ undo' = Append(undo, InverseOf(Last(redo), doc))
    BY <1>7 DEF Redo
  <2>3. Len(undo') = Len(undo) + 1
    BY <1>4, <2>2
  <2>4. /\ Len(timeline') = Len(timeline)
        /\ \A i \in 1..Len(timeline) :
             timeline'[i] = IF i = Len(undo) + 2 THEN doc' ELSE timeline[i]
    BY <1>4, <2>1, <2>2, ExceptSeq
  <2>5. \A i \in 1..Len(timeline) : PageLists'[i] = PageLists[i]
    BY <1>3, <2>1, <2>4 DEF StandsFor
  <2>6. PageLists' = PageLists
    BY <1>3, <2>4, <2>5, SeqEqual
  <2>7. Line!Redo
    BY <1>3, <1>4, <2>1, <2>3, <2>6 DEF Line!Redo
  <2>8. QED BY <2>7 DEF Line!Next
<1>8. CASE Compact \/ InstallDocument
  <2>1. timeline' = <<doc'>> /\ undo' = <<>>
    BY <1>8 DEF Compact, InstallDocument
  <2>2. Len(timeline') = 1 /\ 1 \in 1..Len(timeline')
    BY <2>1
  <2>3. Line!Restart
    BY <1>3, <2>1, <2>2 DEF Line!Restart
  <2>4. QED BY <2>3 DEF Line!Next
<1>9. CASE UNCHANGED vars
  BY <1>9 DEF vars, PageLists
<1>10. QED BY <1>5, <1>6, <1>7, <1>8, <1>9 DEF Next

\* Replaying stored inverses is walking a line of page lists: what undo and
\* redo show is what was there before, whatever the limit.
THEOREM HistoryWalksTimeline == Spec => WalksTimeline
<1>1. Init => Line!Init
  <2> SUFFICES ASSUME Init PROVE Line!Init
    OBVIOUS
  <2>1. HistoryInvariant
    BY HistoryInvariantInductive
  <2>2. timeline \in Seq(Document)
    BY <2>1 DEF HistoryInvariant, TypeOK
  <2>3. Len(timeline) = 1 /\ Len(undo) = 0
    BY DEF Init
  <2>4. 1 \in 1..Len(timeline)
    BY <2>3
  <2>5. Len(PageLists) = 1 /\ PageLists[1] \in Seq(Slot)
    BY <2>2, <2>3, <2>4, PageListsOf DEF PageLists
  <2>6. QED BY <2>3, <2>5 DEF Line!Init
<1>2. HistoryInvariant /\ HistoryInvariant' /\ [Next]_vars
        => [Line!Next]_<<PageLists, Len(undo) + 1>>
  BY StepsWalkTimeline
<1>3. QED
  BY <1>1, <1>2, HistoryInvariantHolds, PTL DEF Spec, WalksTimeline, Line!Spec

-----------------------------------------------------------------------------
\* What one command does to the slots

LEMMA CommandAccounts ==
  ASSUME NEW d \in Document, WellFormed(d), NEW c \in Command, Accepts(c, d)
  PROVE  LET e == Applied(c, d)
         IN  /\ d.removed \subseteq Everything(e)
             /\ \A s \in Everything(d) : \E t \in Everything(e) : t.id = s.id
             /\ \A t \in Everything(e) :
                  t.id = d.next \/ \E s \in Everything(d) : s.id = t.id
<1> DEFINE e == Applied(c, d)
<1>1. d.slots \in Seq(Slot) /\ d.removed \subseteq Slot
  BY DEF Document
<1>2. CASE c \in RemoveCommand
  <2>1. CanRemove(d, c.page) /\ e = RemovePage(d, c.page)
    BY <1>2 DEF RemoveCommand, Accepts, Applied
  <2>2. PICK i \in 1..Len(d.slots) :
          e.slots = RemoveAt(d.slots, i) /\ e.removed = d.removed \cup {d.slots[i]}
    BY <2>1, RemovePageEffect
  <2>3. Everything(e) = Everything(d)
    BY <1>1, <2>2, MappedAfterRemove DEF Everything
  <2>4. QED BY <2>3 DEF Everything
<1>3. CASE c \in RestoreCommand
  <2>1. c.at \in Nat /\ CanRestore(d, c.page, c.at) /\ e = RestorePage(d, c.page, c.at)
    BY <1>3 DEF RestoreCommand, Accepts, Applied
  <2>2. PICK s \in d.removed :
          /\ s \in Slot /\ c.at + 1 \in 1..(Len(d.slots) + 1)
          /\ e.slots = InsertAt(d.slots, c.at + 1, s)
          /\ e.removed = d.removed \ {s}
    BY <2>1, RestorePageEffect
  <2>3. Everything(e) = Everything(d)
    BY <1>1, <2>2, MappedAfterInsert DEF Everything
  <2>4. QED BY <2>3 DEF Everything
<1>4. CASE c \in MoveCommand
  <2>1. c.to \in Nat /\ CanMove(d, c.page, c.to) /\ e = MovePage(d, c.page, c.to)
    BY <1>4 DEF MoveCommand, Accepts, Applied
  <2>2. PICK i \in 1..Len(d.slots) :
          /\ d.slots[i] \in Slot /\ c.to + 1 \in 1..Len(d.slots)
          /\ RemoveAt(d.slots, i) \in Seq(Slot)
          /\ e.slots = InsertAt(RemoveAt(d.slots, i), c.to + 1, d.slots[i])
          /\ e.removed = d.removed
    BY <2>1, MovePageEffect
  <2>3. c.to + 1 \in 1..(Len(RemoveAt(d.slots, i)) + 1)
    BY <1>1, <2>2, SlotRemoved, LenProperties
  <2>4. Mapped(e.slots) = Mapped(RemoveAt(d.slots, i)) \cup {d.slots[i]}
    BY <2>2, <2>3, MappedAfterInsert
  <2>5. Everything(e) = Everything(d)
    BY <1>1, <2>2, <2>4, MappedAfterRemove DEF Everything
  <2>6. QED BY <2>5 DEF Everything
<1>5. CASE c \in RotateCommand
  <2>1. CanRotate(d, c.page) /\ c.rotation \in Rotations /\ e = SetRotation(d, c.page, c.rotation)
    BY <1>5 DEF RotateCommand, Accepts, Applied
  <2> DEFINE i == IndexOf(d, c.page)
  <2>2. /\ i \in 1..Len(d.slots) /\ d.slots[i].id = c.page
        /\ e.slots = [d.slots EXCEPT ![i] = [id |-> c.page, rotation |-> c.rotation]]
        /\ e.removed = d.removed
    BY <2>1, SetRotationEffect
  <2> HIDE DEF i
  <2>3. /\ Len(e.slots) = Len(d.slots)
        /\ \A j \in 1..Len(d.slots) : e.slots[j].id = d.slots[j].id
    BY <1>1, <2>2
  <2>4. QED BY <2>2, <2>3 DEF Everything, Mapped
<1>6. CASE c \in InsertCommand
  <2>1. c.at \in Nat /\ CanInsert(d, c.at) /\ e = InsertPage(d, c.at)
    BY <1>6 DEF InsertCommand, Accepts, Applied
  <2>2. /\ [id |-> d.next, rotation |-> 0] \in Slot /\ c.at + 1 \in 1..(Len(d.slots) + 1)
        /\ e.slots = InsertAt(d.slots, c.at + 1, [id |-> d.next, rotation |-> 0])
        /\ e.removed = d.removed
    BY <2>1, InsertPageEffect
  <2>3. Everything(e) = Everything(d) \cup {[id |-> d.next, rotation |-> 0]}
    BY <1>1, <2>2, MappedAfterInsert DEF Everything
  <2>4. QED BY <2>3 DEF Everything
<1>7. QED BY <1>2, <1>3, <1>4, <1>5, <1>6 DEF Command, Inversion

\* The same, as the property says it.
LEMMA CommandKeepsPages ==
  ASSUME TypeOK, WellFormed(doc), NEW c \in Command, Accepts(c, doc),
         doc' = Applied(c, doc)
  PROVE  PageKept /\ IdentityStaysRetired
<1>1. doc \in Document /\ doc' \in Document
  BY CommandStep DEF TypeOK
<1>2. /\ KnownIds(doc) = {s.id : s \in Everything(doc)}
      /\ KnownIds(doc') = {s.id : s \in Everything(doc')}
  BY <1>1, SlotDocuments, KnownIdsAsSet
<1>3. /\ doc.removed \subseteq Everything(doc')
      /\ \A s \in Everything(doc) : \E t \in Everything(doc') : t.id = s.id
      /\ \A t \in Everything(doc') :
           t.id = doc.next \/ \E s \in Everything(doc) : s.id = t.id
  BY <1>1, CommandAccounts
<1>4. KnownIds(doc) \subseteq KnownIds(doc')
  BY <1>2, <1>3
<1>5. DOMAIN doc'.slots = 1..Len(doc'.slots)
  BY <1>1 DEF Document
<1>6. \A s \in doc.removed :
        s \in doc'.removed \/ \E i \in DOMAIN doc'.slots : doc'.slots[i] = s
  BY <1>3, <1>5 DEF Everything, Mapped
<1>7. \A p \in KnownIds(doc') : p = doc.next \/ p \in KnownIds(doc)
  BY <1>2, <1>3
<1>8. \A p \in 0..(doc.next - 1) : p # doc.next
  BY <1>1 DEF Document
<1>9. QED BY <1>4, <1>6, <1>7, <1>8 DEF PageKept, IdentityStaysRetired

-----------------------------------------------------------------------------
\* The theorem

LEMMA StepAccounts ==
  ASSUME HistoryInvariant, [Next]_vars
  PROVE  [/\ ~Compact /\ ~InstallDocument => PageKept
          /\ ~InstallDocument => IdentityStaysRetired]_vars
<1>1. TypeOK /\ WellFormed(doc) /\ doc \in Document
  BY DEF HistoryInvariant, TypeOK, PageIdentity
<1>2. CASE ApplyRemove \/ ApplyRestore \/ ApplyRotate \/ ApplyMove \/ ApplyInsert
  <2>1. PICK c \in Command : Apply(c)
    BY <1>1, <1>2, AppliedCommands
  <2>2. QED BY <1>1, <2>1, CommandKeepsPages DEF Apply
<1>3. CASE Undo
  <2>1. Last(undo) \in Command
    <3>1. undo \in Seq(Inversion) /\ undo # <<>>
      BY <1>1, <1>3 DEF TypeOK, Undo
    <3>2. Len(undo) \in 1..Len(undo)
      BY <3>1, EmptySeq, LenProperties
    <3>3. QED BY <3>1, <3>2 DEF Last, Command
  <2>2. QED BY <1>1, <1>3, <2>1, CommandKeepsPages DEF Undo
<1>4. CASE Redo
  <2>1. Last(redo) \in Command
    <3>1. redo \in Seq(Inversion) /\ redo # <<>>
      BY <1>1, <1>4 DEF TypeOK, Redo
    <3>2. Len(redo) \in 1..Len(redo)
      BY <3>1, EmptySeq, LenProperties
    <3>3. QED BY <3>1, <3>2 DEF Last, Command
  <2>2. QED BY <1>1, <1>4, <2>1, CommandKeepsPages DEF Redo
<1>5. CASE Compact
  <2>1. KnownIds(doc') \subseteq KnownIds(doc)
    BY <1>5 DEF Compact, PurgeTrash, KnownIds
  <2>2. IdentityStaysRetired
    BY <2>1 DEF IdentityStaysRetired
  <2>3. QED BY <1>5, <2>2
<1>6. CASE InstallDocument
  BY <1>6
<1>7. CASE UNCHANGED vars
  BY <1>7
<1>8. QED BY <1>2, <1>3, <1>4, <1>5, <1>6, <1>7 DEF Next

\* No edit, undo or redo loses a page, and no identity that was given up is
\* handed out again, in any history of any length.
THEOREM NoPageIsLost == Spec => PagesAccountedFor
BY HistoryInvariantHolds, StepAccounts, PTL DEF PagesAccountedFor, Spec
=============================================================================
