---------------------------- MODULE RenderProofs ----------------------------
(***************************************************************************)
(* What the render service does for any file, scale, capacity and budget:  *)
(* its channel, queue, cache and answers stay what they should be, an      *)
(* answer shows the page its request was made for, and the service keeps   *)
(* the contract of RenderContract. And what the viewer makes of the        *)
(* service for any document: its caches follow the document, and what its  *)
(* canvas waits for is on its way.                                         *)
(*                                                                         *)
(* Four parts, after lemmas about the sums and selections the worker       *)
(* makes over its cache. The types. Then SessionInvariant: a request in    *)
(* the channel says under which revision it was made, not which pages the  *)
(* worker will look it up in, so what is inductive is that the channel     *)
(* read message by message leads the worker's snapshot through versions    *)
(* of the document, each request standing where the snapshot has arrived   *)
(* at its own version. Then the refinement, by counting: how many          *)
(* submissions of a request wait in channel and queue, and how many        *)
(* answers to it are on their way. Then the viewer, by the same count: of  *)
(* a request of the document drawn, no more is on its way than the two     *)
(* caches wait for (ViewerInvariant), which every answer absorbed and      *)
(* every submission marked keeps, one after the other (AbsorbedSoFar).     *)
(***************************************************************************)
EXTENDS RenderSession, Viewer, PageMapProofs, FiniteSetTheorems

-----------------------------------------------------------------------------
\* Sums and selections over the tile cache. Both are recursive functions over its
\* entries.

Entry == [request : Request, tile : Tile]

\* The bytes of a cache, counted entry by entry.
Sums(c, f) ==
  /\ f \in [0..Len(c) -> Nat]
  /\ f[0] = 0
  /\ \A i \in 1..Len(c) : f[i] = f[i - 1] + c[i].request.scale

LEMMA BytesAreCounted ==
  ASSUME NEW c \in Seq(Entry)
  PROVE  \E f : Sums(c, f) /\ CachedBytes(c) = f[Len(c)]
<1> DEFINE n == Len(c)
           F == [p \in (1..n) \X Nat |-> p[2] + c[p[1]].request.scale]
           Step(f) == [i \in 0..n |-> IF i = 0 THEN 0 ELSE f[i - 1] + c[i].request.scale]
           bytes == CHOOSE f : f = Step(f)
<1>1. n \in Nat
  OBVIOUS
<1>2. \A i \in 1..n : c[i].request.scale \in Nat
  <2>1. \A i \in 1..n : c[i] \in Entry
    OBVIOUS
  <2>2. QED BY <2>1, RenderServiceAssumption DEF Entry, Request
<1>3. F \in [(1..n) \X Nat -> Nat]
  BY <1>2
<1>4. PICK f \in [0..n -> Nat] : f[0] = 0 /\ \A i \in 1..n : f[i] = F[<<i, f[i - 1]>>]
  <2> HIDE DEF F, n
  <2>1. 0 \in Nat
    OBVIOUS
  <2>2. PICK f : Recurs(n, Nat, 0, F, f)
    BY <1>1, <1>3, <2>1, RecursionDefines
  <2>3. QED BY <2>2 DEF Recurs
<1>5. \A i \in 1..n : f[i] = f[i - 1] + c[i].request.scale
  <2>1. \A i \in 1..n : <<i, f[i - 1]>> \in (1..n) \X Nat
    BY SMTT(30), <1>1
  <2>2. QED BY <1>4, <2>1
<1>6. f = Step(f)
  BY <1>1, <1>4, <1>5
<1>7. bytes = Step(bytes)
  BY <1>6
<1>8. CachedBytes(c) = bytes[n]
  BY DEF CachedBytes
<1> HIDE DEF bytes
<1>9. bytes[0] = 0 /\ \A i \in 1..n : bytes[i] = bytes[i - 1] + c[i].request.scale
  BY <1>1, <1>7
<1> DEFINE T == {k \in Nat : k <= n => bytes[k] \in Nat}
<1>10. 0 \in T
  BY <1>9
<1>11. ASSUME NEW k \in Nat, k \in T PROVE k + 1 \in T
  <2>1. CASE ~(k + 1 <= n)
    BY <2>1
  <2>2. CASE k + 1 <= n
    <3>1. k + 1 \in 1..n /\ bytes[k] \in Nat
      BY <1>1, <1>11, <2>2
    <3>2. QED BY SMTT(30), <1>2, <1>9, <3>1
  <2>3. QED BY <2>1, <2>2
<1> HIDE DEF T
<1>12. \A k \in Nat : k \in T
  BY <1>10, <1>11, EveryNumber
<1>13. \A k \in 0..n : bytes[k] \in Nat
  BY <1>1, <1>12 DEF T
<1>14. bytes \in [0..n -> Nat]
  BY <1>7, <1>13
<1>15. QED BY <1>8, <1>9, <1>14 DEF Sums

\* Two counts that grow by the same steps, one of them from a later place.
GrowAlike(n, off, f, g) ==
  /\ \A i \in 0..n : f[off + i] \in Nat /\ g[i] \in Nat
  /\ \A i \in 1..n : f[off + i] + g[i - 1] = f[off + i - 1] + g[i]

GrewAlike(n, off, f, g) == f[off + n] + g[0] = f[off] + g[n]

LEMMA SameGrowth ==
  ASSUME NEW n \in Nat, NEW off \in Nat, NEW f, NEW g, GrowAlike(n, off, f, g)
  PROVE  GrewAlike(n, off, f, g)
<1> DEFINE T == {k \in Nat : k <= n => f[off + k] + g[0] = f[off] + g[k]}
<1>1. 0 \in T
  OBVIOUS
<1>2. ASSUME NEW k \in Nat, k \in T PROVE k + 1 \in T
  <2>1. CASE ~(k + 1 <= n)
    BY <2>1
  <2>2. CASE k + 1 <= n
    <3>1. f[off + k] + g[0] = f[off] + g[k]
      BY <1>2, <2>2
    <3>2. k + 1 \in 1..n /\ k \in 0..n /\ k + 1 \in 0..n /\ 0 \in 0..n
      BY <2>2
    <3>3. off + (k + 1) - 1 = off + k /\ (k + 1) - 1 = k /\ off + 0 = off
      OBVIOUS
    <3>4. f[off + (k + 1)] + g[k] = f[off + k] + g[k + 1]
      BY <3>2, <3>3 DEF GrowAlike
    <3>5. /\ f[off + k] \in Nat /\ f[off] \in Nat /\ g[k] \in Nat /\ g[0] \in Nat
          /\ f[off + (k + 1)] \in Nat /\ g[k + 1] \in Nat
      BY <3>2, <3>3 DEF GrowAlike
    <3> DEFINE p == f[off + k]
               q == g[0]
               r == f[off]
               s == g[k]
               x == f[off + (k + 1)]
               y == g[k + 1]
    <3>6. /\ p \in Nat /\ q \in Nat /\ r \in Nat /\ s \in Nat /\ x \in Nat /\ y \in Nat
          /\ p + q = r + s /\ x + s = p + y
      BY <3>1, <3>4, <3>5
    <3>7. (k + 1 <= n => x + q = r + y) => k + 1 \in T
      OBVIOUS
    <3> HIDE DEF p, q, r, s, x, y, T
    <3>8. x + q = r + y
      BY <3>6
    <3>9. QED BY <3>7, <3>8
  <2>3. QED BY <2>1, <2>2
<1> HIDE DEF T
<1>3. n \in T
  BY <1>1, <1>2, EveryNumber
<1>4. QED BY <1>3 DEF T, GrewAlike

LEMMA BytesOfJoin ==
  ASSUME NEW a \in Seq(Entry), NEW b \in Seq(Entry)
  PROVE  CachedBytes(a \o b) = CachedBytes(a) + CachedBytes(b)
<1> DEFINE c == a \o b
<1>1. /\ c \in Seq(Entry) /\ Len(c) = Len(a) + Len(b)
      /\ \A i \in 1..Len(a) : c[i] = a[i]
      /\ \A i \in 1..Len(b) : c[Len(a) + i] = b[i]
  OBVIOUS
<1>2. Len(a) \in Nat /\ Len(b) \in Nat
  OBVIOUS
<1> HIDE DEF c
<1>3. PICK f : Sums(c, f) /\ CachedBytes(c) = f[Len(c)]
  BY <1>1, BytesAreCounted
<1>4. PICK g : Sums(a, g) /\ CachedBytes(a) = g[Len(a)]
  BY BytesAreCounted
<1>5. PICK h : Sums(b, h) /\ CachedBytes(b) = h[Len(b)]
  BY BytesAreCounted
<1>6. /\ \A i \in 1..Len(a) : a[i].request.scale \in Nat
      /\ \A i \in 1..Len(b) : b[i].request.scale \in Nat
  <2>1. \A i \in 1..Len(a) : a[i] \in Entry
    OBVIOUS
  <2>2. \A i \in 1..Len(b) : b[i] \in Entry
    OBVIOUS
  <2>3. QED BY <2>1, <2>2, RenderServiceAssumption DEF Entry, Request
<1>7. \A i \in 0..Len(c) : f[i] \in Nat
  BY <1>3 DEF Sums
<1>8. f[0] = 0 /\ g[0] = 0 /\ h[0] = 0
  BY <1>3, <1>4, <1>5 DEF Sums
<1>9. f[Len(a)] = g[Len(a)]
  <2>1. \A i \in 0..Len(a) : f[0 + i] \in Nat /\ g[i] \in Nat
    <3>1. \A i \in 0..Len(a) : i \in 0..Len(c) /\ 0 + i = i
      BY <1>1, <1>2
    <3>2. QED BY <1>4, <1>7, <3>1 DEF Sums
  <2>2. ASSUME NEW i \in 1..Len(a) PROVE f[0 + i] + g[i - 1] = f[0 + i - 1] + g[i]
    <3>1. i \in 1..Len(c) /\ 0 + i = i /\ 0 + i - 1 = i - 1 /\ i - 1 \in 0..Len(a)
      BY <1>1, <1>2
    <3>2. f[i] = f[i - 1] + a[i].request.scale /\ g[i] = g[i - 1] + a[i].request.scale
      BY <1>1, <1>3, <1>4, <3>1 DEF Sums
    <3>3. f[i - 1] \in Nat /\ g[i - 1] \in Nat /\ a[i].request.scale \in Nat
      BY <1>6, <2>1, <3>1
    <3>4. QED BY <3>1, <3>2, <3>3
  <2>3. GrowAlike(Len(a), 0, f, g)
    BY <2>1, <2>2 DEF GrowAlike
  <2>4. GrewAlike(Len(a), 0, f, g)
    BY <1>2, <2>3, SameGrowth
  <2>5. f[Len(a)] \in Nat /\ g[Len(a)] \in Nat /\ 0 + Len(a) = Len(a)
    BY <1>2, <2>1
  <2>6. QED BY <1>8, <2>4, <2>5 DEF GrewAlike
<1>10. f[Len(a) + Len(b)] = f[Len(a)] + h[Len(b)]
  <2>1. \A i \in 0..Len(b) : f[Len(a) + i] \in Nat /\ h[i] \in Nat
    <3>1. \A i \in 0..Len(b) : Len(a) + i \in 0..Len(c)
      BY <1>1, <1>2
    <3>2. QED BY <1>5, <1>7, <3>1 DEF Sums
  <2>2. ASSUME NEW i \in 1..Len(b)
        PROVE  f[Len(a) + i] + h[i - 1] = f[Len(a) + i - 1] + h[i]
    <3>1. /\ Len(a) + i \in 1..Len(c) /\ i - 1 \in 0..Len(b)
          /\ Len(a) + i - 1 = Len(a) + (i - 1)
      BY <1>1, <1>2
    <3>2. /\ f[Len(a) + i] = f[Len(a) + i - 1] + b[i].request.scale
          /\ h[i] = h[i - 1] + b[i].request.scale
      <4>1. c[Len(a) + i] = b[i]
        BY <1>1
      <4>2. f[Len(a) + i] = f[Len(a) + i - 1] + c[Len(a) + i].request.scale
        BY <1>3, <3>1 DEF Sums
      <4>3. QED BY <1>5, <4>1, <4>2 DEF Sums
    <3>3. f[Len(a) + i - 1] \in Nat /\ h[i - 1] \in Nat /\ b[i].request.scale \in Nat
      BY <1>6, <2>1, <3>1
    <3>4. QED BY <3>2, <3>3
  <2>3. GrowAlike(Len(b), Len(a), f, h)
    BY <2>1, <2>2 DEF GrowAlike
  <2>4. GrewAlike(Len(b), Len(a), f, h)
    BY <1>2, <2>3, SameGrowth
  <2>5. f[Len(a) + Len(b)] \in Nat
    BY <1>2, <2>1
  <2>6. QED BY <1>8, <2>4, <2>5 DEF GrewAlike
<1>11. QED BY <1>1, <1>3, <1>4, <1>5, <1>9, <1>10 DEF c

LEMMA EmptyHasNoBytes == <<>> \in Seq(Entry) /\ CachedBytes(<<>>) = 0
<1>1. <<>> \in Seq(Entry) /\ Len(<<>>) = 0
  OBVIOUS
<1>2. PICK f : Sums(<<>>, f) /\ CachedBytes(<<>>) = f[Len(<<>>)]
  BY <1>1, BytesAreCounted
<1>3. QED BY <1>1, <1>2 DEF Sums

LEMMA BytesOfAppend ==
  ASSUME NEW c \in Seq(Entry), NEW e \in Entry
  PROVE  CachedBytes(Append(c, e)) = CachedBytes(c) + e.request.scale
<1>1. <<e>> \in Seq(Entry) /\ Len(<<e>>) = 1 /\ <<e>>[1] = e
  OBVIOUS
<1>2. PICK f : Sums(<<e>>, f) /\ CachedBytes(<<e>>) = f[Len(<<e>>)]
  BY <1>1, BytesAreCounted
<1>3. e.request.scale \in Nat
  BY RenderServiceAssumption DEF Entry, Request
<1>4. CachedBytes(<<e>>) = e.request.scale
  <2>1. 1 \in 1..1 /\ 1 - 1 = 0
    OBVIOUS
  <2>2. f[1] = f[0] + e.request.scale /\ f[0] = 0
    BY <1>1, <1>2, <2>1 DEF Sums
  <2>3. QED BY <1>1, <1>2, <1>3, <2>2
<1>5. Append(c, e) = c \o <<e>>
  BY AppendIsConcat
<1>6. QED BY <1>1, <1>4, <1>5, BytesOfJoin

LEMMA BytesAreNatural ==
  ASSUME NEW c \in Seq(Entry)
  PROVE  CachedBytes(c) \in Nat
<1>1. PICK f : Sums(c, f) /\ CachedBytes(c) = f[Len(c)]
  BY BytesAreCounted
<1>2. Len(c) \in 0..Len(c)
  BY LenProperties
<1>3. QED BY <1>1, <1>2 DEF Sums

-----------------------------------------------------------------------------
\* What the operations of the cache keep: they add no entry of their own but the
\* one they are given, and the bytes stay within the budget (TileCache::get,
\* insert and retain_revision).

DrawnFrom(t, c) == \A i \in 1..Len(t) : \E j \in 1..Len(c) : t[i] = c[j]

LEMMA TouchedKeeps ==
  ASSUME NEW c \in Seq(Entry), NEW r, Cached(c, r)
  PROVE  /\ CachedAt(c, r) \in 1..Len(c) /\ c[CachedAt(c, r)].request = r
         /\ Touched(c, r) \in Seq(Entry)
         /\ DrawnFrom(Touched(c, r), c)
         /\ CachedBytes(Touched(c, r)) = CachedBytes(c)
<1> DEFINE k == CachedAt(c, r)
<1>1. k \in 1..Len(c) /\ c[k].request = r
  <2>1. DOMAIN c = 1..Len(c)
    BY LenProperties
  <2>2. \E i \in 1..Len(c) : c[i].request = r
    BY <2>1 DEF Cached
  <2>3. QED BY <2>1, <2>2 DEF CachedAt
<1>2. Touched(c, r) = Append(RemoveAt(c, k), c[k])
  BY DEF Touched
<1> HIDE DEF k
<1>3. Len(c) \in Nat /\ c[k] \in Entry
  BY <1>1, ElementOfSeq, LenProperties
<1> DEFINE before == SubSeq(c, 1, k - 1)
           after == SubSeq(c, k + 1, Len(c))
           upto == SubSeq(c, 1, k)
<1>4. before \in Seq(Entry) /\ after \in Seq(Entry) /\ upto \in Seq(Entry)
  <2>1. /\ \A j \in 1..(k - 1) : c[j] \in Entry
        /\ \A j \in (k + 1)..Len(c) : c[j] \in Entry
        /\ \A j \in 1..k : c[j] \in Entry
    BY <1>1, ElementOfSeq, LenProperties
  <2>2. QED BY <2>1, <1>1, <1>3, SubSeqProperties
<1>5. RemoveAt(c, k) = before \o after
  BY DEF RemoveAt
<1>6. upto = Append(before, c[k])
  BY <1>1, SubSeqRecursiveSecond
<1>7. c = upto \o after
  <2>1. c = SubSeq(c, 1, Len(c))
    BY SubSeqFull
  <2>2. /\ 1 \in 1..(Len(c) + 1) /\ k \in (1 - 1)..Len(c) /\ Len(c) \in k..Len(c)
    BY <1>1, <1>3
  <2>3. SubSeq(c, 1, k) \o SubSeq(c, k + 1, Len(c)) = SubSeq(c, 1, Len(c))
    BY <2>2, ConcatAdjacentSubSeq
  <2>4. QED BY <2>1, <2>3
<1> HIDE DEF before, after, upto
<1>8. CachedBytes(c) = CachedBytes(before) + c[k].request.scale + CachedBytes(after)
  <2>1. CachedBytes(c) = CachedBytes(upto) + CachedBytes(after)
    BY <1>4, <1>7, BytesOfJoin
  <2>2. CachedBytes(upto) = CachedBytes(before) + c[k].request.scale
    BY <1>3, <1>4, <1>6, BytesOfAppend
  <2>3. QED BY <2>1, <2>2
<1>9. /\ RemoveAt(c, k) \in Seq(Entry)
      /\ CachedBytes(RemoveAt(c, k)) = CachedBytes(before) + CachedBytes(after)
  BY <1>4, <1>5, BytesOfJoin, ConcatProperties
<1>10. CachedBytes(Append(RemoveAt(c, k), c[k])) = CachedBytes(c)
  <2>1. c[k].request.scale \in Nat
    BY <1>3, RenderServiceAssumption DEF Entry, Request
  <2>2. CachedBytes(before) \in Nat /\ CachedBytes(after) \in Nat
    BY <1>4, BytesAreNatural
  <2>3. CachedBytes(Append(RemoveAt(c, k), c[k])) = CachedBytes(RemoveAt(c, k)) + c[k].request.scale
    BY <1>3, <1>9, BytesOfAppend
  <2>4. QED BY <1>8, <1>9, <2>1, <2>2, <2>3
<1>11. DrawnFrom(Append(RemoveAt(c, k), c[k]), c)
  <2>1. /\ Len(RemoveAt(c, k)) = Len(c) - 1
        /\ \A j \in 1..(Len(c) - 1) :
             RemoveAt(c, k)[j] = IF j < k THEN c[j] ELSE c[j + 1]
    BY <1>1, RemoveAtProperties
  <2>2. /\ Len(Append(RemoveAt(c, k), c[k])) = Len(c)
        /\ \A i \in 1..(Len(c) - 1) : Append(RemoveAt(c, k), c[k])[i] = RemoveAt(c, k)[i]
        /\ Append(RemoveAt(c, k), c[k])[Len(c)] = c[k]
    BY <1>3, <1>9, <2>1, AppendProperties
  <2>3. ASSUME NEW i \in 1..Len(c) PROVE \E j \in 1..Len(c) : Append(RemoveAt(c, k), c[k])[i] = c[j]
    <3>1. CASE i = Len(c)
      BY <1>1, <2>2, <3>1
    <3>2. CASE i # Len(c)
      <4>1. i \in 1..(Len(c) - 1) /\ i + 1 \in 1..Len(c)
        BY <1>3, <3>2
      <4>2. QED BY <2>1, <2>2, <4>1
    <3>3. QED BY <3>1, <3>2
  <2>4. QED BY <2>2, <2>3 DEF DrawnFrom
<1>12. Append(RemoveAt(c, k), c[k]) \in Seq(Entry)
  BY <1>3, <1>9
<1>13. QED BY <1>1, <1>2, <1>10, <1>11, <1>12 DEF k

LEMMA TrimmedFits ==
  ASSUME NEW c \in Seq(Entry), NEW n \in Nat, n <= CacheBudget
  PROVE  /\ Trimmed(c, n) \in Seq(Entry)
         /\ DrawnFrom(Trimmed(c, n), c)
         /\ CachedBytes(Trimmed(c, n)) + n <= CacheBudget
<1> DEFINE Fits(k) == CachedBytes(SubSeq(c, k + 1, Len(c))) + n <= CacheBudget
           T == {k \in 0..Len(c) : Fits(k)}
           k == CHOOSE k \in 0..Len(c) : Fits(k) /\ \A j \in 0..(k - 1) : ~Fits(j)
<1>1. Len(c) \in Nat
  BY LenProperties
<1>2. SubSeq(c, Len(c) + 1, Len(c)) = <<>>
  BY <1>1, SubSeqEmpty
<1>3. Len(c) \in T
  <2>1. CachedBytes(SubSeq(c, Len(c) + 1, Len(c))) = 0
    BY <1>2, EmptyHasNoBytes
  <2>2. QED BY <1>1, <2>1
<1>4. PICK m \in T : \A i \in T : m <= i
  <2>1. T \in SUBSET Nat /\ T # {}
    BY <1>1, <1>3
  <2> HIDE DEF T
  <2>2. QED BY <2>1, LeastNumber
<1>5. m \in 0..Len(c) /\ Fits(m) /\ \A j \in 0..(m - 1) : ~Fits(j)
  <2>1. \A j \in 0..(m - 1) : j \in 0..Len(c) /\ ~(m <= j)
    BY <1>1, <1>4
  <2>2. QED BY <1>4, <2>1
<1>6. k \in 0..Len(c) /\ Fits(k)
  <2> HIDE DEF Fits
  <2>1. \E i \in 0..Len(c) : Fits(i) /\ \A j \in 0..(i - 1) : ~Fits(j)
    BY <1>5
  <2>2. QED BY <2>1
<1>7. Trimmed(c, n) = SubSeq(c, k + 1, Len(c))
  BY DEF Trimmed
<1> HIDE DEF k
<1>8. \A i \in (k + 1)..Len(c) : c[i] \in Entry
  BY <1>1, <1>6, ElementOfSeq
<1>9. SubSeq(c, k + 1, Len(c)) \in Seq(Entry)
  BY <1>1, <1>6, <1>8, SubSeqProperties
<1>10. DrawnFrom(SubSeq(c, k + 1, Len(c)), c)
  <2>1. /\ Len(SubSeq(c, k + 1, Len(c))) = Len(c) - k
        /\ \A i \in 1..(Len(c) - k) : SubSeq(c, k + 1, Len(c))[i] = c[k + i]
    BY <1>1, <1>6, <1>8, SubSeqProperties
  <2>2. \A i \in 1..(Len(c) - k) : k + i \in 1..Len(c)
    BY <1>1, <1>6
  <2>3. QED BY <2>1, <2>2 DEF DrawnFrom
<1>11. QED BY <1>6, <1>7, <1>9, <1>10

LEMMA InsertedFits ==
  ASSUME NEW c \in Seq(Entry), CachedBytes(c) <= CacheBudget,
         NEW r \in Request, NEW t \in Tile
  PROVE  /\ Inserted(c, r, t) \in Seq(Entry)
         /\ \A i \in 1..Len(Inserted(c, r, t)) :
              \/ Inserted(c, r, t)[i] = [request |-> r, tile |-> t]
              \/ \E j \in 1..Len(c) : Inserted(c, r, t)[i] = c[j]
         /\ CachedBytes(Inserted(c, r, t)) <= CacheBudget
<1>1. r.scale \in Nat
  BY RenderServiceAssumption DEF Request
<1>2. CASE r.scale > CacheBudget
  BY <1>2 DEF Inserted
<1>3. CASE ~(r.scale > CacheBudget)
  <2> DEFINE e == [request |-> r, tile |-> t]
             kept == Trimmed(c, r.scale)
  <2>1. r.scale <= CacheBudget
    BY <1>1, <1>3, RenderServiceAssumption
  <2>2. /\ kept \in Seq(Entry) /\ DrawnFrom(kept, c)
        /\ CachedBytes(kept) + r.scale <= CacheBudget
    BY <1>1, <2>1, TrimmedFits
  <2>3. e \in Entry /\ e.request.scale = r.scale
    BY DEF Entry
  <2>4. Inserted(c, r, t) = Append(kept, e)
    BY <1>3 DEF Inserted
  <2> HIDE DEF e, kept
  <2>5. Append(kept, e) \in Seq(Entry) /\ CachedBytes(Append(kept, e)) <= CacheBudget
    BY <2>2, <2>3, BytesOfAppend
  <2>6. \A i \in 1..Len(Append(kept, e)) :
          Append(kept, e)[i] = e \/ \E j \in 1..Len(c) : Append(kept, e)[i] = c[j]
    <3>1. /\ Len(Append(kept, e)) = Len(kept) + 1
          /\ \A i \in 1..Len(kept) : Append(kept, e)[i] = kept[i]
          /\ Append(kept, e)[Len(kept) + 1] = e
      BY <2>2, <2>3, AppendProperties
    <3>2. Len(kept) \in Nat
      BY <2>2, LenProperties
    <3>3. \A i \in 1..Len(Append(kept, e)) : i \in 1..Len(kept) \/ i = Len(kept) + 1
      BY <3>1, <3>2
    <3>4. QED BY <2>2, <3>1, <3>3 DEF DrawnFrom
  <2>7. QED BY <2>4, <2>5, <2>6 DEF e
<1>4. QED BY <1>2, <1>3

\* What the first n entries of c leave behind is k: entries of c of that revision,
\* no heavier than those n were, which f counts.
Leaves(c, revision, f, n, k) ==
  /\ k \in Seq(Entry)
  /\ \A i \in 1..Len(k) : k[i].request.revision = revision
  /\ DrawnFrom(k, c)
  /\ CachedBytes(k) <= f[n]

LEMMA LeavesGoOn ==
  ASSUME NEW c \in Seq(Entry), NEW revision, NEW f, Sums(c, f),
         NEW n \in 1..Len(c), NEW k, Leaves(c, revision, f, n - 1, k)
  PROVE  /\ c[n].request.revision = revision => Leaves(c, revision, f, n, Append(k, c[n]))
         /\ Leaves(c, revision, f, n, k)
<1>1. c[n] \in Entry /\ Len(c) \in Nat
  BY ElementOfSeq, LenProperties
<1>2. c[n].request.scale \in Nat
  BY <1>1, RenderServiceAssumption DEF Entry, Request
<1>3. f[n] = f[n - 1] + c[n].request.scale
  BY DEF Sums
<1>4. f[n - 1] \in Nat /\ f[n] \in Nat
  <2>1. n - 1 \in 0..Len(c) /\ n \in 0..Len(c)
    BY <1>1
  <2>2. QED BY <2>1 DEF Sums
<1>5. k \in Seq(Entry) /\ CachedBytes(k) \in Nat /\ CachedBytes(k) <= f[n - 1]
  BY BytesAreNatural DEF Leaves
<1>6. Leaves(c, revision, f, n, k)
  <2>1. CachedBytes(k) <= f[n]
    BY <1>2, <1>3, <1>4, <1>5
  <2>2. QED BY <2>1 DEF Leaves
<1>7. ASSUME c[n].request.revision = revision
      PROVE  Leaves(c, revision, f, n, Append(k, c[n]))
  <2> DEFINE l == Append(k, c[n])
  <2>1. /\ l \in Seq(Entry) /\ Len(l) = Len(k) + 1
        /\ \A i \in 1..Len(k) : l[i] = k[i]
        /\ l[Len(k) + 1] = c[n]
    BY <1>1, <1>5, AppendProperties
  <2>2. CachedBytes(l) = CachedBytes(k) + c[n].request.scale
    BY <1>1, <1>5, BytesOfAppend
  <2>3. CachedBytes(l) <= f[n]
    BY <1>2, <1>3, <1>4, <1>5, <2>2
  <2> HIDE DEF l
  <2>4. \A i \in 1..Len(l) : i \in 1..Len(k) \/ i = Len(k) + 1
    BY <1>5, <2>1, LenProperties
  <2>5. \A i \in 1..Len(l) : l[i].request.revision = revision
    BY <1>7, <2>1, <2>4 DEF Leaves
  <2>6. DrawnFrom(l, c)
    BY <2>1, <2>4 DEF Leaves, DrawnFrom
  <2>7. Leaves(c, revision, f, n, l)
    BY <2>1, <2>3, <2>5, <2>6 DEF Leaves
  <2>8. QED BY <2>7 DEF l
<1>8. QED BY <1>6, <1>7

LEMMA OfRevisionKeeps ==
  ASSUME NEW c \in Seq(Entry), NEW revision
  PROVE  /\ OfRevision(c, revision) \in Seq(Entry)
         /\ \A i \in 1..Len(OfRevision(c, revision)) :
              OfRevision(c, revision)[i].request.revision = revision
         /\ DrawnFrom(OfRevision(c, revision), c)
         /\ CachedBytes(OfRevision(c, revision)) <= CachedBytes(c)
<1> DEFINE n == Len(c)
           Keep(i, k) == IF c[i].request.revision = revision THEN Append(k, c[i]) ELSE k
           F == [p \in (1..n) \X Seq(Entry) |-> Keep(p[1], p[2])]
           Step(k) == [i \in 0..n |-> IF i = 0 THEN <<>>
                                      ELSE IF c[i].request.revision = revision
                                           THEN Append(k[i - 1], c[i])
                                      ELSE k[i - 1]]
           kept == CHOOSE k : k = Step(k)
<1>1. n \in Nat /\ \A i \in 1..n : c[i] \in Entry
  BY ElementOfSeq, LenProperties
<1>2. F \in [(1..n) \X Seq(Entry) -> Seq(Entry)]
  <2>1. ASSUME NEW i \in 1..n, NEW k \in Seq(Entry) PROVE Keep(i, k) \in Seq(Entry)
    BY <1>1, AppendProperties
  <2> HIDE DEF Keep
  <2>2. QED BY <2>1
<1>3. PICK k : Recurs(n, Seq(Entry), <<>>, F, k)
  <2> HIDE DEF F, n
  <2>1. <<>> \in Seq(Entry)
    BY EmptyHasNoBytes
  <2>2. QED BY <1>1, <1>2, <2>1, RecursionDefines
<1>4. k \in [0..n -> Seq(Entry)] /\ k[0] = <<>>
  BY <1>3 DEF Recurs
<1>5. ASSUME NEW i \in 1..n PROVE k[i] = Keep(i, k[i - 1])
  <2>1. i - 1 \in 0..n
    BY <1>1
  <2>2. <<i, k[i - 1]>> \in (1..n) \X Seq(Entry)
    BY <1>4, <2>1
  <2>3. F[<<i, k[i - 1]>>] = Keep(i, k[i - 1])
    BY <2>2
  <2>4. QED BY <1>3, <2>3 DEF Recurs
<1>6. k = Step(k)
  <2>1. \A i \in 0..n : i # 0 => i \in 1..n
    BY <1>1
  <2>2. DOMAIN k = 0..n /\ DOMAIN Step(k) = 0..n
    BY <1>4
  <2>3. ASSUME NEW i \in 0..n PROVE k[i] = Step(k)[i]
    BY <1>4, <1>5, <2>1
  <2>4. k = [i \in 0..n |-> k[i]]
    BY <1>4
  <2> HIDE DEF F
  <2>5. QED BY <2>3, <2>4
<1>7. kept = Step(kept)
  BY <1>6
<1>8. OfRevision(c, revision) = kept[n]
  BY DEF OfRevision
<1> HIDE DEF kept, F
<1>9. kept[0] = <<>> /\ \A i \in 1..n : kept[i] = Keep(i, kept[i - 1])
  <2>1. 0 \in 0..n /\ \A i \in 1..n : i \in 0..n /\ i # 0
    BY <1>1
  <2>2. \A i \in 0..n : Step(kept)[i] = IF i = 0 THEN <<>> ELSE Keep(i, kept[i - 1])
    OBVIOUS
  <2> HIDE DEF Step, Keep, n
  <2>3. \A i \in 0..n : kept[i] = IF i = 0 THEN <<>> ELSE Keep(i, kept[i - 1])
    BY <1>7, <2>2
  <2>4. QED BY <2>1, <2>3
<1>10. PICK f : Sums(c, f) /\ CachedBytes(c) = f[n]
  BY BytesAreCounted
<1> DEFINE T == {i \in Nat : i <= n => Leaves(c, revision, f, i, kept[i])}
<1>11. 0 \in T
  <2>1. f[0] = 0 /\ kept[0] = <<>>
    BY <1>9, <1>10 DEF Sums
  <2>2. Leaves(c, revision, f, 0, <<>>)
    BY <2>1, EmptyHasNoBytes DEF Leaves, DrawnFrom
  <2>3. QED BY <2>1, <2>2
<1>12. ASSUME NEW i \in Nat, i \in T PROVE i + 1 \in T
  <2>1. CASE ~(i + 1 <= n)
    BY <2>1
  <2>2. CASE i + 1 <= n
    <3> HIDE DEF n
    <3>1. i + 1 \in 1..n /\ (i + 1) - 1 = i
      BY <1>1, <2>2
    <3>2. Leaves(c, revision, f, i, kept[i])
      BY <1>12, <1>1, <2>2
    <3>3. kept[i + 1] = Keep(i + 1, kept[i])
      BY <1>9, <3>1
    <3>4. Leaves(c, revision, f, i + 1, kept[i + 1])
      BY <1>10, <3>1, <3>2, <3>3, LeavesGoOn DEF n
    <3>5. QED BY <3>4
  <2>3. QED BY <2>1, <2>2
<1> HIDE DEF T
<1>13. n \in T
  BY <1>1, <1>11, <1>12, EveryNumber
<1>14. Leaves(c, revision, f, n, kept[n])
  BY <1>1, <1>13 DEF T
<1>15. QED BY <1>8, <1>10, <1>14 DEF Leaves

-----------------------------------------------------------------------------
\* Messages and answers

LEMMA AnswersAreTyped ==
  ASSUME NEW r \in Request
  PROVE  Failed(r) \in Response /\ \A t \in Tile : Ready(r, t) \in Response
BY DEF Failed, Ready, Response

LEMMA MessagesAreTyped ==
  /\ \A r \in Request : [kind |-> "render", request |-> r] \in Message
  /\ \A s \in Snapshot : [kind |-> "rebind", snapshot |-> s] \in Message
  /\ [kind |-> "shutdown"] \in Message
  /\ \A m \in Message : /\ m.kind = "render" => m.request \in Request
                        /\ m.kind = "rebind" => m.snapshot \in Snapshot
BY DEF Message

LEMMA SnapshotsAreTyped ==
  ASSUME NEW d \in Document
  PROVE  /\ SnapshotOf(d) \in Snapshot
         /\ SnapshotOf(d).revision = d.revision /\ SnapshotOf(d).pages = d.slots
BY DEF Document, Snapshot, SnapshotOf

\* PageMap::find_index on the pages of a snapshot, which may not be well formed
\* for all that is known of it.
LEMMA FirstIndex ==
  ASSUME NEW pages \in Seq(Slot), NEW p, \E i \in DOMAIN pages : pages[i].id = p
  PROVE  IndexOf([slots |-> pages], p) \in 1..Len(pages)
<1> DEFINE T == {i \in 1..Len(pages) : pages[i].id = p}
<1>1. DOMAIN pages = 1..Len(pages) /\ Len(pages) \in Nat
  BY LenProperties
<1>2. PICK i \in T : \A j \in T : i <= j
  <2>1. T \in SUBSET Nat /\ T # {}
    BY <1>1
  <2> HIDE DEF T
  <2>2. QED BY <2>1, LeastNumber
<1>3. [slots |-> pages].slots = pages
  OBVIOUS
<1>4. \E k \in DOMAIN pages : pages[k].id = p /\ \A j \in DOMAIN pages : pages[j].id = p => k <= j
  BY <1>1, <1>2
<1>5. QED BY <1>1, <1>3, <1>4 DEF IndexOf

\* What a rebind answers the backlog with, the newest first.
BacklogAnswers(b) == [i \in DOMAIN b |-> Failed(Reverse(b)[i])]

LEMMA BacklogIsRefused ==
  ASSUME NEW b \in Seq(Request)
  PROVE  /\ BacklogAnswers(b) \in Seq(Response)
         /\ \A i \in 1..Len(BacklogAnswers(b)) : BacklogAnswers(b)[i].answer = "failed"
<1>1. DOMAIN b = 1..Len(b) /\ Len(b) \in Nat
  BY LenProperties
<1>2. ASSUME NEW i \in 1..Len(b)
      PROVE  /\ Failed(Reverse(b)[i]) \in Response
             /\ Failed(Reverse(b)[i]).answer = "failed"
  <2>1. Len(b) - i + 1 \in 1..Len(b)
    BY <1>1
  <2>2. b[Len(b) - i + 1] \in Request
    BY <2>1, ElementOfSeq
  <2>3. Reverse(b)[i] = b[Len(b) - i + 1]
    BY DEF Reverse
  <2>4. QED BY <2>2, <2>3, AnswersAreTyped DEF Failed
<1>3. BacklogAnswers(b) = [i \in 1..Len(b) |-> Failed(Reverse(b)[i])]
  BY <1>1 DEF BacklogAnswers
<1>4. QED BY <1>1, <1>2, <1>3

\* What a queue holds after Backlog::push and Backlog::pop_newest.
LEMMA PushedIsBounded ==
  ASSUME NEW b \in Seq(Request), IsInjective(b), Len(b) <= Capacity, NEW r \in Request
  PROVE  /\ Bounded(Pushed(b, r)) \in Seq(Request)
         /\ IsInjective(Bounded(Pushed(b, r)))
         /\ Len(Bounded(Pushed(b, r))) <= Capacity
         /\ \A i \in 1..Len(Bounded(Pushed(b, r))) :
              \/ Bounded(Pushed(b, r))[i] = r
              \/ \E j \in 1..Len(b) : Bounded(Pushed(b, r))[i] = b[j]
         /\ Superseded(Pushed(b, r)) \in Seq(Response)
         /\ \A i \in 1..Len(Superseded(Pushed(b, r))) :
              Superseded(Pushed(b, r))[i].answer = "failed"
<1>1. Capacity \in Nat /\ Capacity > 0 /\ Len(b) \in Nat /\ DOMAIN b = 1..Len(b)
  BY RenderServiceAssumption, LenProperties
<1>2. <<>> \in Seq(Response) /\ Len(<<>>) = 0
  OBVIOUS
<1>3. CASE r \in ToSet(b)
  <2>1. Pushed(b, r) = b
    BY <1>3 DEF Pushed
  <2>2. Bounded(b) = b /\ Superseded(b) = <<>>
    BY <1>1 DEF Bounded, Superseded
  <2>3. QED BY <1>2, <2>1, <2>2
<1>4. CASE r \notin ToSet(b)
  <2> DEFINE q == Append(b, r)
  <2>1. /\ q \in Seq(Request) /\ Len(q) = Len(b) + 1 /\ q # <<>>
        /\ \A i \in 1..Len(b) : q[i] = b[i]
        /\ q[Len(b) + 1] = r
    BY AppendProperties
  <2>2. Pushed(b, r) = q
    BY <1>4 DEF Pushed
  <2> HIDE DEF q
  <2>3. DOMAIN q = 1..Len(q) /\ \A i \in 1..Len(q) : i \in 1..Len(b) \/ i = Len(b) + 1
    BY <1>1, <2>1, LenProperties
  <2>4. \A i \in 1..Len(b) : b[i] # r
    BY <1>1, <1>4 DEF ToSet
  <2>5. IsInjective(q)
    BY <1>1, <2>1, <2>3, <2>4 DEF IsInjective
  <2>6. \A i \in 1..Len(q) : q[i] = r \/ \E j \in 1..Len(b) : q[i] = b[j]
    BY <2>1, <2>3
  <2>7. CASE Len(q) <= Capacity
    <3>1. Bounded(q) = q /\ Superseded(q) = <<>>
      BY <1>1, <2>1, <2>7 DEF Bounded, Superseded
    <3>2. QED BY <1>2, <2>1, <2>2, <2>5, <2>6, <2>7, <3>1
  <2>8. CASE Len(q) > Capacity
    <3> DEFINE s == Tail(q)
    <3>1. /\ s \in Seq(Request) /\ Len(s) = Len(q) - 1 /\ Head(q) \in Request
          /\ \A i \in 1..Len(s) : s[i] = q[i + 1]
      BY <2>1, HeadTailProperties
    <3>2. Bounded(q) = s /\ Superseded(q) = <<Failed(Head(q))>>
      BY <2>8 DEF Bounded, Superseded
    <3> HIDE DEF s
    <3>3. DOMAIN s = 1..Len(s) /\ \A i \in 1..Len(s) : i + 1 \in 1..Len(q)
      BY <1>1, <2>1, <3>1, LenProperties
    <3>4. IsInjective(s)
      <4>1. ASSUME NEW i \in 1..Len(s), NEW j \in 1..Len(s), s[i] = s[j] PROVE i = j
        <5>1. i + 1 = j + 1
          BY SMTT(30), <2>3, <2>5, <3>1, <3>3, <4>1 DEF IsInjective
        <5>2. QED BY <5>1
      <4>2. QED BY <3>3, <4>1 DEF IsInjective
    <3>5. \A i \in 1..Len(s) : s[i] = r \/ \E j \in 1..Len(b) : s[i] = b[j]
      BY <2>6, <3>1, <3>3
    <3>6. Failed(Head(q)) \in Response /\ Failed(Head(q)).answer = "failed"
      BY <3>1, AnswersAreTyped DEF Failed
    <3>7. /\ <<Failed(Head(q))>> \in Seq(Response)
          /\ \A i \in 1..Len(<<Failed(Head(q))>>) : <<Failed(Head(q))>>[i].answer = "failed"
      BY <3>6
    <3>8. Len(s) <= Capacity
      BY <1>1, <2>1, <3>1
    <3>9. QED BY <2>2, <3>1, <3>2, <3>4, <3>5, <3>7, <3>8
  <2>9. QED BY <1>1, <2>1, <2>7, <2>8
<1>5. QED BY <1>3, <1>4

LEMMA FrontOfQueue ==
  ASSUME NEW b \in Seq(Request), IsInjective(b), b # <<>>
  PROVE  /\ Last(b) \in Request /\ Last(b) = b[Len(b)] /\ Len(b) \in 1..Len(b)
         /\ Front(b) \in Seq(Request) /\ Len(Front(b)) = Len(b) - 1
         /\ \A i \in 1..(Len(b) - 1) : Front(b)[i] = b[i]
         /\ IsInjective(Front(b))
<1>1. Len(b) \in Nat /\ Len(b) > 0 /\ DOMAIN b = 1..Len(b)
  BY EmptySeq, LenProperties
<1>2. \A i \in 1..Len(b) : b[i] \in Request
  BY ElementOfSeq
<1>3. /\ Front(b) \in Seq(Request) /\ Len(Front(b)) = Len(b) - 1
      /\ \A i \in 1..(Len(b) - 1) : Front(b)[i] = b[i]
  <2>1. \A i \in 1..(Len(b) - 1) : b[i] \in Request
    BY <1>1, <1>2
  <2>2. QED BY <1>1, <2>1, SubSeqProperties DEF Front
<1>4. DOMAIN Front(b) = 1..(Len(b) - 1)
  BY <1>3, LenProperties
<1>5. IsInjective(Front(b))
  BY <1>1, <1>3, <1>4 DEF IsInjective
<1>6. QED BY <1>1, <1>2, <1>3, <1>5 DEF Last

-----------------------------------------------------------------------------
\* Types and bounds

DocumentTypes ==
  /\ doc \in Document
  /\ WellFormed(doc)
  /\ doc.revision <= MaxEdits
  /\ versions \in Seq(Seq(Slot))
  /\ Len(versions) = doc.revision + 1
  /\ versions[doc.revision + 1] = doc.slots

BacklogTypes ==
  /\ backlog \in Seq(Request)
  /\ IsInjective(backlog)
  /\ Len(backlog) <= Capacity

CacheTypes == tiles \in Seq(Entry) /\ CachedBytes(tiles) <= CacheBudget

ChannelTypes ==
  /\ phase \in {"opening", "accepting", "serving", "failing", "gone"}
  /\ dropped \in BOOLEAN
  /\ inbox \in Seq(Message)
  /\ snapshot \in Snapshot
  /\ replies \in Seq(Response)
  /\ outbox \in Seq(Response)

\* The service's own, whoever calls it.
ServiceTypes == BacklogTypes /\ CacheTypes /\ ChannelTypes

SessionTypes == DocumentTypes /\ BacklogTypes /\ CacheTypes /\ ChannelTypes

LEMMA TypesAreEnough == SessionTypes => TypeOK
BY DEF SessionTypes, DocumentTypes, BacklogTypes, CacheTypes, ChannelTypes, TypeOK,
       ServiceTypeOK, Entry

\* An edit yields a document at the next revision: the counter does not wrap
\* before the bound on edits.
LEMMA EditsAdvance ==
  ASSUME doc \in Document, WellFormed(doc), doc.revision < MaxEdits, NEW d \in Edited
  PROVE  /\ d \in Document /\ WellFormed(d) /\ d.slots \in Seq(Slot)
         /\ d.revision = doc.revision + 1
<1>1. /\ doc.revision \in Nat /\ doc.revision + 1 < RevisionModulus
      /\ RevisionModulus \in Nat
  BY PageMapAssumption, RenderSessionAssumption DEF Document, Revision
<1>2. AdvanceRevision(doc.revision) = doc.revision + 1
  BY <1>1 DEF AdvanceRevision
<1>3. \A e : e \in Document /\ WellFormed(e) /\ e.revision = doc.revision + 1
             => e.slots \in Seq(Slot)
  BY DEF Document
<1>4. \A slots, removed, next :
        Mutated(doc, slots, removed, next).revision = doc.revision + 1
  BY <1>2 DEF Mutated
<1>5. CASE d \in {RemovePage(doc, p) : p \in {q \in KnownIds(doc) : CanRemove(doc, q)}}
  <2>1. PICK p : CanRemove(doc, p) /\ d = RemovePage(doc, p)
    BY <1>5
  <2>2. d \in Document /\ WellFormed(d)
    BY <2>1, RemovePageEffect, RemoveWellFormed
  <2>3. d.revision = doc.revision + 1
    BY <1>4, <2>1 DEF RemovePage
  <2>4. QED BY <1>3, <2>2, <2>3
<1>6. CASE d \in {MovePage(doc, p, 0) : p \in {q \in KnownIds(doc) : CanMove(doc, q, 0)}}
  <2>1. PICK p : CanMove(doc, p, 0) /\ d = MovePage(doc, p, 0)
    BY <1>6
  <2>2. 0 \in Nat
    OBVIOUS
  <2>3. d \in Document /\ WellFormed(d)
    BY <2>1, <2>2, MovePageEffect, MoveWellFormed
  <2>4. d.revision = doc.revision + 1
    BY <1>4, <2>1 DEF MovePage
  <2>5. QED BY <1>3, <2>3, <2>4
<1>7. CASE d \in {SetRotation(doc, p, r) : p \in {q \in KnownIds(doc) : CanRotate(doc, q)},
                                         r \in Rotations}
  <2>1. PICK p \in KnownIds(doc), r \in Rotations :
             CanRotate(doc, p) /\ d = SetRotation(doc, p, r)
    BY <1>7
  <2>2. d \in Document /\ WellFormed(d)
    BY <2>1, SetRotationEffect, SetRotationWellFormed
  <2>3. d.revision = doc.revision + 1
    BY <1>4, <2>1 DEF SetRotation
  <2>4. QED BY <1>3, <2>2, <2>3
<1>8. CASE d \in {InsertPage(doc, at) : at \in {n \in {0} : doc.next \in NamedPages}}
  <2>1. d = InsertPage(doc, 0)
    BY <1>8
  <2>2. 0 \in Nat /\ CanInsert(doc, 0)
    BY LenProperties DEF CanInsert, PageCount, Document
  <2>3. d \in Document /\ WellFormed(d)
    BY <2>1, <2>2, InsertPageEffect, InsertWellFormed
  <2>4. d.revision = doc.revision + 1
    BY <1>4, <2>1 DEF InsertPage
  <2>5. QED BY <1>3, <2>3, <2>4
<1>9. QED BY <1>5, <1>6, <1>7, <1>8 DEF Edited

\* What an edit does to the document, told as the invariant needs it.
LEMMA EditKeepsDocument ==
  ASSUME DocumentTypes, Edit
  PROVE  /\ DocumentTypes'
         /\ doc'.revision = doc.revision + 1
         /\ \A n \in 0..doc.revision : versions'[n + 1] = versions[n + 1]
         /\ Rebind(doc')
<1>1. PICK d \in Edited : doc' = d /\ versions' = Append(versions, d.slots) /\ Rebind(d)
  BY DEF Edit
<1>2. doc \in Document /\ WellFormed(doc) /\ doc.revision < MaxEdits
  BY DEF DocumentTypes, Edit
<1>3. /\ d \in Document /\ WellFormed(d) /\ d.slots \in Seq(Slot)
      /\ d.revision = doc.revision + 1
  BY <1>2, EditsAdvance
<1>4. doc.revision \in Nat /\ MaxEdits \in Nat
  BY <1>2, PageMapAssumption, RenderSessionAssumption DEF Document, Revision
<1>5. versions \in Seq(Seq(Slot)) /\ Len(versions) = doc.revision + 1
  BY DEF DocumentTypes
<1>6. /\ versions' \in Seq(Seq(Slot)) /\ Len(versions') = d.revision + 1
      /\ versions'[d.revision + 1] = d.slots
      /\ \A n \in 1..(doc.revision + 1) : versions'[n] = versions[n]
  BY <1>1, <1>3, <1>5, AppendProperties
<1>7. d.revision <= MaxEdits
  BY <1>2, <1>3, <1>4
<1>8. \A n \in 0..doc.revision : n + 1 \in 1..(doc.revision + 1)
  BY <1>4
<1>9. DocumentTypes'
  BY <1>1, <1>3, <1>6, <1>7 DEF DocumentTypes
<1>10. QED BY <1>1, <1>3, <1>6, <1>8, <1>9

LEMMA RasterizedIsTyped ==
  ASSUME snapshot \in Snapshot, NEW r \in Request, Renderable(r)
  PROVE  Rasterized(r) \in Tile
<1>1. snapshot.pages \in Seq(Slot)
  BY DEF Snapshot
<1>2. IndexOf([slots |-> snapshot.pages], r.page) \in 1..Len(snapshot.pages)
  BY <1>1, FirstIndex DEF Renderable
<1>3. snapshot.pages[IndexOf([slots |-> snapshot.pages], r.page)] \in Slot
  BY <1>1, <1>2, ElementOfSeq
<1>4. FileIndex(r.page) \in Nat
  BY DEF FileIndex, Request, PageId
<1>5. QED BY <1>3, <1>4 DEF Rasterized, Tile, Slot

LEMMA TypesHoldInitially ==
  ASSUME Init
  PROVE  SessionTypes
<1>1. PICK r \in [1..FilePages -> Rotations] : doc = Opened(r)
  BY DEF Init
<1>2. doc \in Document /\ WellFormed(doc) /\ doc.revision = 0
  BY <1>1, OpenedWellFormed, RenderServiceAssumption DEF Opened
<1>3. MaxEdits \in Nat
  BY PageMapAssumption, RenderSessionAssumption
<1>4. doc.slots \in Seq(Slot)
  BY <1>2 DEF Document
<1>5. versions = <<doc.slots>> /\ InitService(doc, "opening")
  BY DEF Init
<1>6. DocumentTypes
  <2>1. /\ versions \in Seq(Seq(Slot)) /\ Len(versions) = 0 + 1 /\ versions[0 + 1] = doc.slots
    BY <1>4, <1>5
  <2>2. QED BY <1>2, <1>3, <2>1 DEF DocumentTypes
<1>7. BacklogTypes
  BY <1>5, RenderServiceAssumption DEF InitService, BacklogTypes, IsInjective
<1>8. CacheTypes
  BY <1>5, EmptyHasNoBytes, RenderServiceAssumption DEF InitService, CacheTypes
<1>9. ChannelTypes
  <2>1. SnapshotOf(doc) \in Snapshot
    BY <1>2, SnapshotsAreTyped
  <2>2. /\ phase = "opening" /\ dropped = FALSE /\ inbox = <<>>
        /\ snapshot = SnapshotOf(doc) /\ replies = <<>> /\ outbox = <<>>
    BY <1>5 DEF InitService
  <2>3. <<>> \in Seq(Message) /\ <<>> \in Seq(Response)
    OBVIOUS
  <2>4. QED BY <2>1, <2>2, <2>3 DEF ChannelTypes
<1>10. QED BY <1>6, <1>7, <1>8, <1>9 DEF SessionTypes

\* The worker's end empties what it owns.
LEMMA ExitKeepsTypes ==
  ASSUME ServiceTypes, Exit, replies' = replies
  PROVE  ServiceTypes'
<1>1. BacklogTypes'
  BY RenderServiceAssumption DEF Exit, BacklogTypes, IsInjective
<1>2. CacheTypes'
  BY EmptyHasNoBytes, RenderServiceAssumption DEF Exit, CacheTypes
<1>3. ChannelTypes'
  BY DEF Exit, ServiceTypes, ChannelTypes
<1>4. QED BY <1>1, <1>2, <1>3 DEF ServiceTypes

LEMMA ReceivedIsTyped ==
  ASSUME ChannelTypes, inbox # <<>>
  PROVE  /\ Head(inbox) \in Message /\ Tail(inbox) \in Seq(Message)
         /\ Head(inbox) = inbox[1] /\ Len(Tail(inbox)) = Len(inbox) - 1
         /\ \A i \in 1..(Len(inbox) - 1) : Tail(inbox)[i] = inbox[i + 1]
         /\ Head(inbox).kind = "render" => Head(inbox).request \in Request
         /\ Head(inbox).kind = "rebind" => Head(inbox).snapshot \in Snapshot
<1>1. inbox \in Seq(Message)
  BY DEF ChannelTypes
<1>2. QED BY <1>1, HeadTailProperties, MessagesAreTyped

LEMMA SentIsTyped ==
  ASSUME replies \in Seq(Response), NEW answers \in Seq(Response)
  PROVE  Send(answers) \in Seq(Response)
BY ConcatProperties DEF Send

\* An answer of the type of a response keeps all types but the cache's.
LEMMA AnswerKeepsTypes ==
  ASSUME ServiceTypes, NEW r \in Request, NEW response \in Response, Answer(r, response)
  PROVE  BacklogTypes' /\ ChannelTypes'
<1>1. /\ backlog \in Seq(Request) /\ IsInjective(backlog) /\ Len(backlog) <= Capacity
      /\ ChannelTypes
  BY DEF ServiceTypes, BacklogTypes
<1>2. CASE backlog = <<>>
  <2>1. Front(backlog) = <<>>
    <3>1. Len(backlog) - 1 \in Int /\ 1 \in Int /\ Len(backlog) - 1 < 1
      BY <1>2
    <3>2. QED BY <3>1, SubSeqEmpty DEF Front
  <2>2. backlog' = <<>>
    BY <2>1 DEF Answer
  <2>3. BacklogTypes'
    BY <2>2, RenderServiceAssumption DEF BacklogTypes, IsInjective
  <2>4. ChannelTypes'
    BY <1>1 DEF Answer, ChannelTypes
  <2>5. QED BY <2>3, <2>4
<1>3. CASE backlog # <<>>
  <2>1. /\ Front(backlog) \in Seq(Request) /\ IsInjective(Front(backlog))
        /\ Len(Front(backlog)) = Len(backlog) - 1
    BY <1>1, <1>3, FrontOfQueue
  <2>2. Len(Front(backlog)) <= Capacity
    BY <1>1, <2>1, LenProperties, RenderServiceAssumption
  <2>3. backlog' = Front(backlog)
    BY DEF Answer
  <2>4. BacklogTypes'
    BY <2>1, <2>2, <2>3 DEF BacklogTypes
  <2>5. ChannelTypes'
    BY <1>1 DEF Answer, ChannelTypes
  <2>6. QED BY <2>4, <2>5
<1>4. QED BY <1>2, <1>3

LEMMA WorkerKeepsTypes ==
  ASSUME ServiceTypes, Worker
  PROVE  ServiceTypes'
<1>1. BacklogTypes /\ CacheTypes /\ ChannelTypes
  BY DEF ServiceTypes
<1>2. CASE OpenFile
  BY <1>1, <1>2 DEF OpenFile, ServiceTypes, BacklogTypes, CacheTypes, ChannelTypes
<1>3. CASE AcceptRender
  <2> DEFINE r == Head(inbox).request
  <2>1. inbox # <<>> /\ Head(inbox).kind = "render"
    BY <1>3 DEF AcceptRender, Receive
  <2>2. r \in Request /\ Tail(inbox) \in Seq(Message)
    BY <1>1, <2>1, ReceivedIsTyped
  <2>3. /\ backlog' = Bounded(Pushed(backlog, r))
        /\ replies' = Send(Superseded(Pushed(backlog, r)))
        /\ inbox' = Tail(inbox)
        /\ UNCHANGED <<phase, dropped, snapshot, tiles, outbox>>
    BY <1>3 DEF AcceptRender
  <2> HIDE DEF r
  <2>4. BacklogTypes' /\ Superseded(Pushed(backlog, r)) \in Seq(Response)
    BY <1>1, <2>2, <2>3, PushedIsBounded DEF BacklogTypes
  <2>5. replies' \in Seq(Response)
    BY <1>1, <2>3, <2>4, SentIsTyped DEF ChannelTypes
  <2>6. CacheTypes' /\ ChannelTypes'
    BY <1>1, <2>2, <2>3, <2>5 DEF CacheTypes, ChannelTypes
  <2>7. QED BY <1>1, <2>4, <2>6 DEF ServiceTypes
<1>4. CASE AcceptRebind
  <2> DEFINE answers == [i \in DOMAIN backlog |-> Failed(Reverse(backlog)[i])]
  <2>1. inbox # <<>> /\ Head(inbox).kind = "rebind"
    BY <1>4 DEF AcceptRebind, Receive
  <2>2. Head(inbox).snapshot \in Snapshot /\ Tail(inbox) \in Seq(Message)
    BY <1>1, <2>1, ReceivedIsTyped
  <2>3. /\ replies' = Send(answers)
        /\ backlog' = <<>>
        /\ snapshot' = Head(inbox).snapshot
        /\ tiles' = OfRevision(tiles, snapshot'.revision)
        /\ inbox' = Tail(inbox)
        /\ UNCHANGED <<phase, dropped, outbox>>
    BY <1>4 DEF AcceptRebind
  <2>4. answers \in Seq(Response)
    BY <1>1, BacklogIsRefused DEF BacklogTypes, BacklogAnswers
  <2> HIDE DEF answers
  <2>5. replies' \in Seq(Response)
    BY <1>1, <2>3, <2>4, SentIsTyped DEF ChannelTypes
  <2>6. BacklogTypes'
    BY <2>3, RenderServiceAssumption DEF BacklogTypes, IsInjective
  <2>7. CacheTypes'
    <3>1. /\ OfRevision(tiles, snapshot'.revision) \in Seq(Entry)
          /\ CachedBytes(OfRevision(tiles, snapshot'.revision)) <= CachedBytes(tiles)
          /\ CachedBytes(OfRevision(tiles, snapshot'.revision)) \in Nat
      BY <1>1, OfRevisionKeeps, BytesAreNatural DEF CacheTypes
    <3>2. CachedBytes(tiles) \in Nat /\ CachedBytes(tiles) <= CacheBudget
      BY <1>1, BytesAreNatural DEF CacheTypes
    <3>3. CachedBytes(tiles') <= CacheBudget
      BY <2>3, <3>1, <3>2, RenderServiceAssumption
    <3>4. QED BY <2>3, <3>1, <3>3 DEF CacheTypes
  <2>8. ChannelTypes'
    BY <1>1, <2>2, <2>3, <2>5 DEF ChannelTypes
  <2>9. QED BY <1>1, <2>6, <2>7, <2>8 DEF ServiceTypes
<1>5. CASE AcceptShutdown
  BY <1>5, ExitKeepsTypes DEF AcceptShutdown
<1>6. CASE StopAccepting
  BY <1>1, <1>6 DEF StopAccepting, ServiceTypes, BacklogTypes, CacheTypes, ChannelTypes
<1>7. ASSUME NEW r \in ToSet(backlog) PROVE r \in Request
  <2>1. DOMAIN backlog = 1..Len(backlog)
    BY <1>1, LenProperties DEF BacklogTypes
  <2>2. QED BY <1>1, <1>7, <2>1, ElementOfSeq DEF BacklogTypes, ToSet
<1>8. CASE ServeCached
  <2>1. PICK r \in ToSet(backlog) :
          /\ Cached(tiles, r)
          /\ Answer(r, Ready(r, tiles[CachedAt(tiles, r)].tile))
          /\ tiles' = Touched(tiles, r)
    BY <1>8 DEF ServeCached
  <2>2. /\ CachedAt(tiles, r) \in 1..Len(tiles)
        /\ Touched(tiles, r) \in Seq(Entry)
        /\ CachedBytes(Touched(tiles, r)) = CachedBytes(tiles)
    BY <1>1, <2>1, TouchedKeeps DEF CacheTypes
  <2>3. tiles[CachedAt(tiles, r)].tile \in Tile
    <3>1. tiles[CachedAt(tiles, r)] \in Entry
      BY <1>1, <2>2, ElementOfSeq DEF CacheTypes
    <3>2. QED BY <3>1 DEF Entry
  <2>4. BacklogTypes' /\ ChannelTypes'
    <3>1. r \in Request
      BY <1>7
    <3>2. Ready(r, tiles[CachedAt(tiles, r)].tile) \in Response
      BY <2>3, <3>1, AnswersAreTyped
    <3>3. QED BY <2>1, <3>1, <3>2, AnswerKeepsTypes
  <2>5. CacheTypes'
    BY <1>1, <2>1, <2>2 DEF CacheTypes
  <2>6. QED BY <1>1, <2>4, <2>5 DEF ServiceTypes
<1>9. CASE ServeRasterized
  <2>1. PICK r \in ToSet(backlog) :
          /\ Renderable(r)
          /\ Answer(r, Ready(r, Rasterized(r)))
          /\ tiles' = Inserted(tiles, r, Rasterized(r))
    BY <1>9 DEF ServeRasterized
  <2>2. r \in Request /\ Rasterized(r) \in Tile
    BY <1>1, <1>7, <2>1, RasterizedIsTyped DEF ChannelTypes
  <2>3. BacklogTypes' /\ ChannelTypes'
    <3>1. Ready(r, Rasterized(r)) \in Response
      BY <2>2, AnswersAreTyped
    <3>2. QED BY <2>1, <2>2, <3>1, AnswerKeepsTypes
  <2>4. CacheTypes'
    BY <1>1, <2>1, <2>2, InsertedFits DEF CacheTypes
  <2>5. QED BY <1>1, <2>3, <2>4 DEF ServiceTypes
<1>10. CASE ServeRefused
  <2>1. PICK r \in ToSet(backlog) : Answer(r, Failed(r)) /\ tiles' = tiles
    BY <1>10 DEF ServeRefused
  <2>2. r \in Request /\ Failed(r) \in Response
    BY <1>7, AnswersAreTyped
  <2>3. BacklogTypes' /\ ChannelTypes'
    BY <2>1, <2>2, AnswerKeepsTypes
  <2>4. CacheTypes'
    BY <1>1, <2>1 DEF CacheTypes
  <2>5. QED BY <1>1, <2>3, <2>4 DEF ServiceTypes
<1>11. CASE ServeNobody
  BY <1>11, ExitKeepsTypes DEF ServeNobody
<1>12. CASE FailRequest
  <2>1. /\ Head(inbox).request \in Request /\ Tail(inbox) \in Seq(Message)
    BY <1>1, <1>12, ReceivedIsTyped DEF FailRequest
  <2>2. Append(replies, Failed(Head(inbox).request)) \in Seq(Response)
    BY <1>1, <2>1, AnswersAreTyped, AppendProperties DEF ChannelTypes
  <2>3. QED
    BY <1>1, <1>12, <2>1, <2>2
    DEF FailRequest, ServiceTypes, BacklogTypes, CacheTypes, ChannelTypes
<1>13. CASE FailRebind
  <2>1. Tail(inbox) \in Seq(Message)
    BY <1>1, <1>13, ReceivedIsTyped DEF FailRebind
  <2>2. QED
    BY <1>1, <1>13, <2>1
    DEF FailRebind, ServiceTypes, BacklogTypes, CacheTypes, ChannelTypes
<1>14. CASE FailExit
  BY <1>14, ExitKeepsTypes DEF FailExit
<1>15. QED
  BY <1>2, <1>3, <1>4, <1>5, <1>6, <1>8, <1>9, <1>10, <1>11, <1>12, <1>13, <1>14
  DEF Worker

LEMMA WorkKeepsTypes ==
  ASSUME SessionTypes, Worker \/ Panic, UNCHANGED <<doc, versions>>
  PROVE  SessionTypes'
<1>1. ServiceTypes /\ DocumentTypes'
  BY DEF SessionTypes, ServiceTypes, DocumentTypes
<1>2. ServiceTypes'
  BY <1>1, WorkerKeepsTypes, ExitKeepsTypes DEF Panic
<1>3. QED BY <1>1, <1>2 DEF SessionTypes, ServiceTypes

LEMMA TypesAreKept == SessionTypes /\ [Next]_vars => SessionTypes'
<1> SUFFICES ASSUME SessionTypes, [Next]_vars PROVE SessionTypes'
  OBVIOUS
<1>1. DocumentTypes /\ BacklogTypes /\ CacheTypes /\ ChannelTypes
  BY DEF SessionTypes
<1>2. CASE Edit
  <2>1. DocumentTypes' /\ Rebind(doc')
    BY <1>1, <1>2, EditKeepsDocument
  <2>2. SnapshotOf(doc') \in Snapshot
    BY <2>1, SnapshotsAreTyped DEF DocumentTypes
  <2>3. [kind |-> "rebind", snapshot |-> SnapshotOf(doc')] \in Message
    BY <2>2, MessagesAreTyped
  <2>4. inbox' \in Seq(Message)
    BY <1>1, <2>1, <2>3, AppendProperties DEF Rebind, ChannelTypes
  <2>5. QED
    BY <1>1, <2>1, <2>4 DEF Rebind, SessionTypes, BacklogTypes, CacheTypes, ChannelTypes
<1>3. CASE Ask
  <2>1. PICK p \in NamedPages, s \in Scales :
          Submit([page |-> p, revision |-> doc.revision, scale |-> s])
    BY <1>3 DEF Ask
  <2> DEFINE r == [page |-> p, revision |-> doc.revision, scale |-> s]
  <2>2. r \in Request
    <3>1. p \in Nat
      BY RenderServiceAssumption DEF NamedPages
    <3>2. doc.revision \in Revision
      BY <1>1 DEF DocumentTypes, Document
    <3>3. QED BY <3>1, <3>2 DEF Request, PageId
  <2>3. Submit(r)
    BY <2>1
  <2> HIDE DEF r
  <2>4. Failed(r) \in Response /\ [kind |-> "render", request |-> r] \in Message
    BY <2>2, AnswersAreTyped, MessagesAreTyped
  <2>5. inbox' \in Seq(Message) /\ outbox' \in Seq(Response)
    <3>1. /\ Append(inbox, [kind |-> "render", request |-> r]) \in Seq(Message)
          /\ Append(outbox, Failed(r)) \in Seq(Response)
      BY <1>1, <2>4, AppendProperties DEF ChannelTypes
    <3>2. QED BY <1>1, <2>3, <3>1 DEF Submit, ChannelTypes
  <2>6. QED
    BY <1>1, <1>3, <2>3, <2>5
    DEF Ask, Submit, SessionTypes, DocumentTypes, BacklogTypes, CacheTypes, ChannelTypes
<1>4. CASE Collect
  BY <1>1, <1>4
  DEF Collect, Poll, SessionTypes, DocumentTypes, BacklogTypes, CacheTypes, ChannelTypes
<1>5. CASE Drop
  <2>1. inbox' \in Seq(Message)
    BY <1>1, <1>5, MessagesAreTyped, AppendProperties DEF Drop, DropHandle, ChannelTypes
  <2>2. QED
    BY <1>1, <1>5, <2>1
    DEF Drop, DropHandle, SessionTypes, DocumentTypes, BacklogTypes, CacheTypes,
        ChannelTypes
<1>6. CASE Work
  BY <1>6, WorkKeepsTypes DEF Work
<1>7. CASE Die
  BY <1>7, WorkKeepsTypes DEF Die
<1>8. CASE UNCHANGED vars
  BY <1>1, <1>8
  DEF vars, SessionTypes, DocumentTypes, BacklogTypes, CacheTypes, ChannelTypes
<1>9. QED BY <1>2, <1>3, <1>4, <1>5, <1>6, <1>7, <1>8 DEF Next

\* Nothing is queued twice, and neither the backlog nor the cache outgrows its
\* bound, however requests, rebinds, hits and evictions follow each other
\* (Backlog::push, TileCache::insert).
THEOREM ServiceTypesHold == Spec => []TypeOK
<1>1. Init => SessionTypes
  BY TypesHoldInitially
<1>2. QED BY <1>1, TypesAreKept, TypesAreEnough, PTL DEF Spec

-----------------------------------------------------------------------------
\* No tile shows another picture than its request names. A request carries the
\* revision it was made at, and the worker draws it with whatever snapshot it has
\* when it comes to it. The two agree because the channel keeps its order: read
\* message by message, it carries the worker's snapshot forward through the
\* document's versions, and each request in it is of the version reached there.

\* The revision the worker is at when it has read message m.
RevisionAfter(m) == IF m.kind = "render" THEN m.request.revision ELSE m.snapshot.revision

\* The one it is at when, from snapshot s, it comes to place i of the messages b.
RevisionBefore(b, s, i) == IF i = 1 THEN s.revision ELSE RevisionAfter(b[i - 1])

Ordered(b, s) ==
  \A i \in 1..Len(b) :
    b[i].kind = "render" => b[i].request.revision = RevisionBefore(b, s, i)

EndsAt(b, s, revision) == RevisionBefore(b, s, Len(b) + 1) = revision

LEMMA OrderedAppend ==
  ASSUME NEW b \in Seq(Message), NEW s, NEW m \in Message, NEW revision,
         Ordered(b, s), EndsAt(b, s, revision),
         m.kind = "render" => m.request.revision = revision
  PROVE  /\ Ordered(Append(b, m), s)
         /\ EndsAt(Append(b, m), s, RevisionAfter(m))
<1> DEFINE c == Append(b, m)
<1>1. /\ Len(c) = Len(b) + 1 /\ Len(b) \in Nat
      /\ \A i \in 1..Len(b) : c[i] = b[i]
      /\ c[Len(b) + 1] = m
  BY AppendProperties, LenProperties
<1> HIDE DEF c
<1>2. \A i \in 1..(Len(b) + 1) : RevisionBefore(c, s, i) = RevisionBefore(b, s, i)
  <2>1. ASSUME NEW i \in 1..(Len(b) + 1), i # 1 PROVE c[i - 1] = b[i - 1]
    <3>1. i - 1 \in 1..Len(b)
      BY <1>1, <2>1
    <3>2. QED BY <1>1, <3>1
  <2>2. QED BY <2>1 DEF RevisionBefore
<1>3. ASSUME NEW i \in 1..Len(c), c[i].kind = "render"
      PROVE  c[i].request.revision = RevisionBefore(c, s, i)
  <2>1. CASE i = Len(b) + 1
    BY <1>1, <1>2, <1>3, <2>1 DEF EndsAt
  <2>2. CASE i # Len(b) + 1
    <3>1. i \in 1..Len(b) /\ i \in 1..(Len(b) + 1)
      BY <1>1, <2>2
    <3>2. QED BY <1>1, <1>2, <1>3, <3>1 DEF Ordered
  <2>3. QED BY <2>1, <2>2
<1>4. RevisionBefore(c, s, Len(c) + 1) = RevisionAfter(m)
  <2>1. Len(c) + 1 # 1 /\ (Len(c) + 1) - 1 = Len(b) + 1
    BY <1>1
  <2>2. QED BY <1>1, <2>1 DEF RevisionBefore
<1>5. QED BY <1>3, <1>4 DEF Ordered, EndsAt, c

LEMMA OrderedTail ==
  ASSUME NEW b \in Seq(Message), b # <<>>, NEW s, NEW t,
         Ordered(b, s), t.revision = RevisionAfter(Head(b))
  PROVE  /\ Ordered(Tail(b), t)
         /\ \A revision : EndsAt(b, s, revision) => EndsAt(Tail(b), t, revision)
<1> DEFINE c == Tail(b)
<1>1. /\ Len(c) = Len(b) - 1 /\ Len(b) \in Nat /\ Len(b) > 0
      /\ \A i \in 1..Len(c) : c[i] = b[i + 1]
      /\ Head(b) = b[1]
  BY HeadTailProperties, LenProperties, EmptySeq
<1> HIDE DEF c
<1>2. \A i \in 1..(Len(c) + 1) : RevisionBefore(c, t, i) = RevisionBefore(b, s, i + 1)
  <2>1. ASSUME NEW i \in 1..(Len(c) + 1)
        PROVE  RevisionBefore(c, t, i) = RevisionBefore(b, s, i + 1)
    <3>1. i + 1 # 1 /\ (i + 1) - 1 = i
      BY <1>1
    <3>2. RevisionBefore(b, s, i + 1) = RevisionAfter(b[i])
      BY <3>1 DEF RevisionBefore
    <3>3. CASE i = 1
      BY <1>1, <3>2, <3>3 DEF RevisionBefore
    <3>4. CASE i # 1
      <4>1. i - 1 \in 1..Len(c) /\ (i - 1) + 1 = i
        BY <1>1, <3>4
      <4>2. c[i - 1] = b[i]
        BY <1>1, <4>1
      <4>3. QED BY <3>2, <3>4, <4>2 DEF RevisionBefore
    <3>5. QED BY <3>3, <3>4
  <2>2. QED BY <2>1
<1>3. ASSUME NEW i \in 1..Len(c), c[i].kind = "render"
      PROVE  c[i].request.revision = RevisionBefore(c, t, i)
  <2>1. i + 1 \in 1..Len(b) /\ i \in 1..(Len(c) + 1)
    BY <1>1
  <2>2. QED BY <1>1, <1>2, <1>3, <2>1 DEF Ordered
<1>4. RevisionBefore(c, t, Len(c) + 1) = RevisionBefore(b, s, Len(b) + 1)
  <2>1. Len(c) + 1 \in 1..(Len(c) + 1) /\ (Len(c) + 1) + 1 = Len(b) + 1
    BY <1>1
  <2>2. QED BY <1>2, <2>1
<1>5. QED BY <1>3, <1>4 DEF Ordered, EndsAt, c

\* Whether s is one of the versions v the document d went through.
IsVersion(v, d, s) == s.revision <= d.revision /\ s.pages = v[s.revision + 1]

SnapshotsAreVersions ==
  /\ IsVersion(versions, doc, snapshot)
  /\ \A i \in 1..Len(inbox) :
       inbox[i].kind = "rebind" => IsVersion(versions, doc, inbox[i].snapshot)

\* The channel is in order up to the worker's last breath, and ends at the
\* document's revision while there is somebody to submit.
InboxInOrder ==
  phase \notin {"failing", "gone"} =>
    /\ Ordered(inbox, snapshot)
    /\ ~dropped => EndsAt(inbox, snapshot, doc.revision)

PictureIn(v, r) ==
  LET pages == [slots |-> v[r.revision + 1]]
  IN  [place |-> r.page + 1, rotation |-> pages.slots[IndexOf(pages, r.page)].rotation]

BacklogIsCurrent(b, s) == \A i \in 1..Len(b) : b[i].revision = s.revision

TilesAreCurrent(v, s, c) ==
  \A i \in 1..Len(c) :
    c[i].request.revision = s.revision /\ c[i].tile = PictureIn(v, c[i].request)

AnswersAreHonest(v, d, a) ==
  \A i \in 1..Len(a) :
    a[i].answer = "ready" =>
      a[i].request.revision <= d.revision /\ a[i].tile = PictureIn(v, a[i].request)

PicturesMatch ==
  /\ BacklogIsCurrent(backlog, snapshot)
  /\ TilesAreCurrent(versions, snapshot, tiles)
  /\ AnswersAreHonest(versions, doc, replies)

SessionInvariant == SessionTypes /\ SnapshotsAreVersions /\ InboxInOrder /\ PicturesMatch

LEMMA InvariantIsEnough == SessionInvariant => TilesMatchRequests
<1> SUFFICES ASSUME SessionInvariant PROVE TilesMatchRequests
  OBVIOUS
<1>1. \A r : Pictured(r) = PictureIn(versions, r)
  BY DEF Pictured, PictureIn
<1>2. DOMAIN backlog = 1..Len(backlog) /\ DOMAIN tiles = 1..Len(tiles)
      /\ DOMAIN replies = 1..Len(replies)
  BY LenProperties
  DEF SessionInvariant, SessionTypes, BacklogTypes, CacheTypes, ChannelTypes
<1>3. PicturesMatch
  BY DEF SessionInvariant
<1> HIDE DEF SessionInvariant
<1>4. QED
  BY <1>1, <1>2, <1>3
  DEF PicturesMatch, BacklogIsCurrent, TilesAreCurrent, AnswersAreHonest,
      TilesMatchRequests

\* Answers that refuse are honest, and so is one that shows the right picture.
LEMMA HonestSend ==
  ASSUME replies \in Seq(Response), NEW answers \in Seq(Response), NEW v, NEW d,
         AnswersAreHonest(v, d, replies),
         \A i \in 1..Len(answers) : answers[i].answer = "failed"
  PROVE  AnswersAreHonest(v, d, Send(answers))
<1>1. CASE dropped
  BY <1>1 DEF Send
<1>2. CASE ~dropped
  <2> DEFINE c == replies \o answers
  <2>1. /\ Len(c) = Len(replies) + Len(answers)
        /\ \A i \in 1..(Len(replies) + Len(answers)) :
             c[i] = IF i <= Len(replies) THEN replies[i] ELSE answers[i - Len(replies)]
    BY ConcatProperties
  <2>2. Len(replies) \in Nat /\ Len(answers) \in Nat
    BY LenProperties
  <2> HIDE DEF c
  <2>3. ASSUME NEW i \in 1..Len(c), c[i].answer = "ready"
        PROVE  i \in 1..Len(replies) /\ c[i] = replies[i]
    <3>1. CASE i <= Len(replies)
      BY <2>1, <2>2, <3>1
    <3>2. CASE ~(i <= Len(replies))
      <4>1. i - Len(replies) \in 1..Len(answers)
        BY <2>1, <2>2, <3>2
      <4>2. c[i] = answers[i - Len(replies)]
        BY <2>1, <3>2
      <4>3. QED BY <2>3, <4>1, <4>2
    <3>3. QED BY <3>1, <3>2
  <2>4. AnswersAreHonest(v, d, c)
    BY <2>3 DEF AnswersAreHonest
  <2>5. QED BY <1>2, <2>4 DEF Send, c
<1>3. QED BY <1>1, <1>2

LEMMA HonestAppend ==
  ASSUME NEW a \in Seq(Response), NEW e \in Response, NEW v, NEW d,
         AnswersAreHonest(v, d, a),
         e.answer = "ready" =>
           e.request.revision <= d.revision /\ e.tile = PictureIn(v, e.request)
  PROVE  AnswersAreHonest(v, d, Append(a, e))
<1> DEFINE c == Append(a, e)
<1>1. /\ Len(c) = Len(a) + 1 /\ Len(a) \in Nat
      /\ \A i \in 1..Len(a) : c[i] = a[i]
      /\ c[Len(a) + 1] = e
  BY AppendProperties, LenProperties
<1> HIDE DEF c
<1>2. \A i \in 1..Len(c) : i \in 1..Len(a) \/ i = Len(a) + 1
  BY <1>1
<1>3. AnswersAreHonest(v, d, c)
  BY <1>1, <1>2 DEF AnswersAreHonest
<1>4. QED BY <1>3 DEF c

\* Versions that go on: what was said of the past stays true.
GoesOn(v, d, w, e) ==
  /\ d.revision \in Nat /\ e.revision = d.revision + 1
  /\ \A n \in 0..d.revision : w[n + 1] = v[n + 1]

LEMMA PastStays ==
  ASSUME NEW v, NEW d, NEW w, NEW e, GoesOn(v, d, w, e)
  PROVE  /\ \A s \in Snapshot : IsVersion(v, d, s) => IsVersion(w, e, s)
         /\ \A s \in Snapshot, c \in Seq(Entry) :
              IsVersion(v, d, s) /\ TilesAreCurrent(v, s, c) => TilesAreCurrent(w, s, c)
         /\ \A a \in Seq(Response) : AnswersAreHonest(v, d, a) => AnswersAreHonest(w, e, a)
<1>1. /\ d.revision \in Nat /\ e.revision = d.revision + 1
      /\ \A n \in 0..d.revision : w[n + 1] = v[n + 1]
  BY DEF GoesOn
<1>2. \A n \in Revision : n \in Nat
  BY PageMapAssumption DEF Revision
<1>3. \A n \in Nat : n <= d.revision => n \in 0..d.revision /\ n <= e.revision
  BY <1>1
<1>4. \A r : r.revision \in 0..d.revision => PictureIn(w, r) = PictureIn(v, r)
  BY <1>1 DEF PictureIn
<1>5. ASSUME NEW s \in Snapshot, IsVersion(v, d, s) PROVE IsVersion(w, e, s)
  <2>1. s.revision \in Nat
    BY <1>2 DEF Snapshot
  <2>2. QED BY <1>1, <1>3, <1>5, <2>1 DEF IsVersion
<1>6. ASSUME NEW s \in Snapshot, NEW c \in Seq(Entry),
             IsVersion(v, d, s), TilesAreCurrent(v, s, c)
      PROVE  TilesAreCurrent(w, s, c)
  <2>1. s.revision \in 0..d.revision
    BY <1>2, <1>3, <1>6 DEF Snapshot, IsVersion
  <2>2. QED BY <1>4, <1>6, <2>1 DEF TilesAreCurrent
<1>7. ASSUME NEW a \in Seq(Response), AnswersAreHonest(v, d, a)
      PROVE  AnswersAreHonest(w, e, a)
  <2>1. ASSUME NEW i \in 1..Len(a), a[i].answer = "ready"
        PROVE  a[i].request.revision <= e.revision /\ a[i].tile = PictureIn(w, a[i].request)
    <3>1. a[i] \in Response
      BY ElementOfSeq
    <3>2. a[i].request \in Request
      BY <3>1 DEF Response
    <3>3. a[i].request.revision \in Nat
      BY <1>2, <3>2 DEF Request
    <3>4. /\ a[i].request.revision <= d.revision
          /\ a[i].tile = PictureIn(v, a[i].request)
      BY <1>7, <2>1 DEF AnswersAreHonest
    <3>5. QED BY <1>3, <1>4, <3>3, <3>4
  <2>2. QED BY <2>1 DEF AnswersAreHonest
<1>8. QED BY <1>5, <1>6, <1>7

LEMMA InvariantHoldsInitially ==
  ASSUME Init
  PROVE  SessionInvariant
<1>1. SessionTypes
  BY TypesHoldInitially
<1>2. doc \in Document /\ doc.revision \in Nat /\ versions[doc.revision + 1] = doc.slots
  BY <1>1, PageMapAssumption DEF SessionTypes, DocumentTypes, Document, Revision
<1>3. /\ dropped = FALSE /\ inbox = <<>> /\ backlog = <<>> /\ tiles = <<>>
      /\ replies = <<>> /\ snapshot = SnapshotOf(doc)
  BY DEF Init, InitService
<1>4. snapshot.revision = doc.revision /\ snapshot.pages = doc.slots
  BY <1>2, <1>3, SnapshotsAreTyped
<1>5. IsVersion(versions, doc, snapshot)
  BY <1>2, <1>4 DEF IsVersion
<1>6. Len(<<>>) = 0 /\ 1..0 = {}
  OBVIOUS
<1>7. SnapshotsAreVersions
  BY <1>3, <1>5, <1>6 DEF SnapshotsAreVersions
<1>8. InboxInOrder
  BY <1>3, <1>4, <1>6 DEF InboxInOrder, Ordered, EndsAt, RevisionBefore
<1>9. PicturesMatch
  BY <1>3, <1>6 DEF PicturesMatch, BacklogIsCurrent, TilesAreCurrent, AnswersAreHonest
<1>10. QED BY <1>1, <1>7, <1>8, <1>9 DEF SessionInvariant

LEMMA EditKeepsInvariant ==
  ASSUME SessionInvariant, SessionTypes', Edit
  PROVE  SessionInvariant'
<1>1. /\ SessionTypes /\ DocumentTypes /\ DocumentTypes' /\ ChannelTypes
      /\ SnapshotsAreVersions /\ InboxInOrder /\ PicturesMatch
  BY DEF SessionInvariant, SessionTypes
<1>2. /\ doc'.revision = doc.revision + 1
      /\ \A n \in 0..doc.revision : versions'[n + 1] = versions[n + 1]
      /\ Rebind(doc')
  BY <1>1, EditKeepsDocument
<1>3. doc.revision \in Nat
  BY <1>1, PageMapAssumption DEF DocumentTypes, Document, Revision
<1>4. GoesOn(versions, doc, versions', doc')
  BY <1>2, <1>3 DEF GoesOn
<1> DEFINE m == [kind |-> "rebind", snapshot |-> SnapshotOf(doc')]
<1>5. /\ snapshot' = snapshot /\ tiles' = tiles /\ replies' = replies /\ backlog' = backlog
      /\ phase' = phase /\ dropped' = dropped /\ ~dropped
      /\ inbox' = IF phase = "gone" THEN inbox ELSE Append(inbox, m)
  BY <1>2 DEF Rebind
<1>6. /\ SnapshotOf(doc') \in Snapshot /\ SnapshotOf(doc').revision = doc'.revision
      /\ SnapshotOf(doc').pages = doc'.slots
  BY <1>1, SnapshotsAreTyped DEF DocumentTypes
<1>7. m \in Message /\ m.kind = "rebind" /\ m.snapshot = SnapshotOf(doc')
  BY <1>6, MessagesAreTyped
<1>8. RevisionAfter(m) = doc'.revision
  BY <1>6, <1>7 DEF RevisionAfter
<1> HIDE DEF m
<1>9. /\ snapshot \in Snapshot /\ inbox \in Seq(Message) /\ replies \in Seq(Response)
      /\ tiles \in Seq(Entry)
  BY <1>1 DEF ChannelTypes, SessionTypes, CacheTypes
<1>10. /\ \A i \in 1..Len(inbox) : inbox[i].kind = "rebind" => inbox[i].snapshot \in Snapshot
  BY <1>9, ElementOfSeq, MessagesAreTyped
<1>11. /\ Len(Append(inbox, m)) = Len(inbox) + 1 /\ Len(inbox) \in Nat
       /\ \A i \in 1..Len(inbox) : Append(inbox, m)[i] = inbox[i]
       /\ Append(inbox, m)[Len(inbox) + 1] = m
  BY <1>7, <1>9, AppendProperties, LenProperties
<1>12. IsVersion(versions', doc', SnapshotOf(doc'))
  <2>1. doc'.revision \in Nat
    BY <1>2, <1>3
  <2>2. QED BY <1>1, <1>6, <2>1 DEF IsVersion, DocumentTypes
<1>13. SnapshotsAreVersions'
  <2>1. IsVersion(versions', doc', snapshot')
    BY <1>1, <1>4, <1>5, <1>9, PastStays DEF SnapshotsAreVersions
  <2>2. \A i \in 1..Len(inbox) :
          inbox[i].kind = "rebind" => IsVersion(versions', doc', inbox[i].snapshot)
    BY <1>1, <1>4, <1>10, PastStays DEF SnapshotsAreVersions
  <2>3. \A i \in 1..Len(inbox') :
          inbox'[i].kind = "rebind" => IsVersion(versions', doc', inbox'[i].snapshot)
    <3>1. CASE phase = "gone"
      BY <1>5, <2>2, <3>1
    <3>2. CASE phase # "gone"
      <4>1. \A i \in 1..Len(inbox') : i \in 1..Len(inbox) \/ i = Len(inbox) + 1
        BY <1>5, <1>11, <3>2
      <4>2. QED BY <1>5, <1>7, <1>11, <1>12, <2>2, <3>2, <4>1
    <3>3. QED BY <3>1, <3>2
  <2>4. QED BY <2>1, <2>3 DEF SnapshotsAreVersions
<1>14. InboxInOrder'
  <2>1. ASSUME phase \notin {"failing", "gone"}
        PROVE  Ordered(inbox', snapshot') /\ EndsAt(inbox', snapshot', doc'.revision)
    <3>1. Ordered(inbox, snapshot) /\ EndsAt(inbox, snapshot, doc.revision)
      BY <1>1, <1>5, <2>1 DEF InboxInOrder
    <3>2. inbox' = Append(inbox, m)
      BY <1>5, <2>1
    <3>3. QED BY <1>5, <1>7, <1>8, <1>9, <3>1, <3>2, OrderedAppend
  <2>2. QED BY <1>5, <2>1 DEF InboxInOrder
<1>15. PicturesMatch'
  <2>1. TilesAreCurrent(versions', snapshot', tiles')
    BY <1>1, <1>4, <1>5, <1>9, PastStays DEF SnapshotsAreVersions, PicturesMatch
  <2>2. AnswersAreHonest(versions', doc', replies')
    BY <1>1, <1>4, <1>5, <1>9, PastStays DEF PicturesMatch
  <2>3. BacklogIsCurrent(backlog', snapshot')
    BY <1>1, <1>5 DEF PicturesMatch
  <2>4. QED BY <2>1, <2>2, <2>3 DEF PicturesMatch
<1>16. QED BY <1>13, <1>14, <1>15 DEF SessionInvariant

LEMMA AskKeepsInvariant ==
  ASSUME SessionInvariant, SessionTypes', Ask
  PROVE  SessionInvariant'
<1>1. /\ SessionTypes /\ DocumentTypes /\ ChannelTypes
      /\ SnapshotsAreVersions /\ InboxInOrder /\ PicturesMatch
  BY DEF SessionInvariant, SessionTypes
<1>2. PICK p \in NamedPages, s \in Scales :
        Submit([page |-> p, revision |-> doc.revision, scale |-> s])
  BY DEF Ask
<1> DEFINE r == [page |-> p, revision |-> doc.revision, scale |-> s]
           m == [kind |-> "render", request |-> r]
<1>3. /\ snapshot' = snapshot /\ tiles' = tiles /\ replies' = replies /\ backlog' = backlog
      /\ phase' = phase /\ dropped' = dropped /\ ~dropped
      /\ doc' = doc /\ versions' = versions
      /\ inbox' = IF phase = "gone" THEN inbox ELSE Append(inbox, m)
  BY <1>2 DEF Ask, Submit
<1>4. r \in Request /\ r.revision = doc.revision
  <2>1. p \in Nat
    BY RenderServiceAssumption DEF NamedPages
  <2>2. doc.revision \in Revision
    BY <1>1 DEF DocumentTypes, Document
  <2>3. QED BY <2>1, <2>2 DEF Request, PageId
<1>5. m \in Message /\ m.kind = "render" /\ m.request = r
  BY <1>4, MessagesAreTyped
<1> HIDE DEF m, r
<1>6. RevisionAfter(m) = doc.revision
  BY <1>4, <1>5 DEF RevisionAfter
<1>7. inbox \in Seq(Message) /\ Len(inbox) \in Nat
  BY <1>1, LenProperties DEF ChannelTypes
<1>8. /\ Len(Append(inbox, m)) = Len(inbox) + 1
      /\ \A i \in 1..Len(inbox) : Append(inbox, m)[i] = inbox[i]
      /\ Append(inbox, m)[Len(inbox) + 1] = m
  BY <1>5, <1>7, AppendProperties
<1>9. SnapshotsAreVersions'
  <2>1. \A i \in 1..Len(inbox') :
          inbox'[i].kind = "rebind" => i \in 1..Len(inbox) /\ inbox'[i] = inbox[i]
    <3>1. CASE phase = "gone"
      BY <1>3, <3>1
    <3>2. CASE phase # "gone"
      <4>1. \A i \in 1..Len(inbox') : i \in 1..Len(inbox) \/ i = Len(inbox) + 1
        BY <1>3, <1>7, <1>8, <3>2
      <4>2. QED BY <1>3, <1>5, <1>8, <3>2, <4>1
    <3>3. QED BY <3>1, <3>2
  <2>2. QED BY <1>1, <1>3, <2>1 DEF SnapshotsAreVersions
<1>10. InboxInOrder'
  <2>1. ASSUME phase \notin {"failing", "gone"}
        PROVE  Ordered(inbox', snapshot') /\ EndsAt(inbox', snapshot', doc'.revision)
    <3>1. Ordered(inbox, snapshot) /\ EndsAt(inbox, snapshot, doc.revision)
      BY <1>1, <1>3, <2>1 DEF InboxInOrder
    <3>2. inbox' = Append(inbox, m)
      BY <1>3, <2>1
    <3>3. m.request.revision = doc.revision
      BY <1>4, <1>5
    <3>4. QED BY <1>3, <1>5, <1>6, <1>7, <3>1, <3>2, <3>3, OrderedAppend
  <2>2. QED BY <1>3, <2>1 DEF InboxInOrder
<1>11. PicturesMatch'
  BY <1>1, <1>3 DEF PicturesMatch
<1>12. QED BY <1>9, <1>10, <1>11 DEF SessionInvariant

LEMMA DropKeepsInvariant ==
  ASSUME SessionInvariant, SessionTypes', Drop
  PROVE  SessionInvariant'
<1>1. /\ SessionTypes /\ ChannelTypes
      /\ SnapshotsAreVersions /\ InboxInOrder /\ PicturesMatch
  BY DEF SessionInvariant, SessionTypes
<1> DEFINE m == [kind |-> "shutdown"]
<1>2. /\ snapshot' = snapshot /\ tiles' = tiles /\ replies' = <<>> /\ backlog' = backlog
      /\ phase' = phase /\ dropped' = TRUE /\ ~dropped
      /\ doc' = doc /\ versions' = versions
      /\ inbox' = IF phase = "gone" THEN inbox ELSE Append(inbox, m)
  BY DEF Drop, DropHandle
<1>3. m \in Message /\ m.kind = "shutdown"
  BY MessagesAreTyped
<1> HIDE DEF m
<1>4. inbox \in Seq(Message) /\ Len(inbox) \in Nat
  BY <1>1, LenProperties DEF ChannelTypes
<1>5. /\ Len(Append(inbox, m)) = Len(inbox) + 1
      /\ \A i \in 1..Len(inbox) : Append(inbox, m)[i] = inbox[i]
      /\ Append(inbox, m)[Len(inbox) + 1] = m
  BY <1>3, <1>4, AppendProperties
<1>6. SnapshotsAreVersions'
  <2>1. \A i \in 1..Len(inbox') :
          inbox'[i].kind = "rebind" => i \in 1..Len(inbox) /\ inbox'[i] = inbox[i]
    <3>1. CASE phase = "gone"
      BY <1>2, <3>1
    <3>2. CASE phase # "gone"
      <4>1. \A i \in 1..Len(inbox') : i \in 1..Len(inbox) \/ i = Len(inbox) + 1
        BY <1>2, <1>4, <1>5, <3>2
      <4>2. QED BY <1>2, <1>3, <1>5, <3>2, <4>1
    <3>3. QED BY <3>1, <3>2
  <2>2. QED BY <1>1, <1>2, <2>1 DEF SnapshotsAreVersions
<1>7. InboxInOrder'
  <2>1. ASSUME phase \notin {"failing", "gone"} PROVE Ordered(inbox', snapshot')
    <3>1. Ordered(inbox, snapshot) /\ EndsAt(inbox, snapshot, doc.revision)
      BY <1>1, <1>2, <2>1 DEF InboxInOrder
    <3>2. inbox' = Append(inbox, m)
      BY <1>2, <2>1
    <3>3. QED BY <1>2, <1>3, <1>4, <3>1, <3>2, OrderedAppend
  <2>2. QED BY <1>2, <2>1 DEF InboxInOrder
<1>8. PicturesMatch'
  <2>1. Len(<<>>) = 0 /\ 1..0 = {}
    OBVIOUS
  <2>2. QED BY <1>1, <1>2, <2>1 DEF PicturesMatch, AnswersAreHonest
<1>9. QED BY <1>6, <1>7, <1>8 DEF SessionInvariant

LEMMA ExitKeepsInvariant ==
  ASSUME SessionInvariant, SessionTypes', Exit, replies' = replies,
         UNCHANGED <<doc, versions>>
  PROVE  SessionInvariant'
<1>1. Len(<<>>) = 0 /\ 1..0 = {}
  OBVIOUS
<1>2. SnapshotsAreVersions /\ PicturesMatch
  BY DEF SessionInvariant
<1>3. SnapshotsAreVersions'
  BY <1>1, <1>2 DEF Exit, SnapshotsAreVersions
<1>4. InboxInOrder'
  BY DEF Exit, InboxInOrder
<1>5. PicturesMatch'
  BY <1>1, <1>2 DEF Exit, PicturesMatch, BacklogIsCurrent, TilesAreCurrent
<1>6. QED BY <1>3, <1>4, <1>5 DEF SessionInvariant

\* The part of the invariant about the channel, when the worker reads a message.
LEMMA ReadingKeepsOrder ==
  ASSUME ChannelTypes, SnapshotsAreVersions, InboxInOrder,
         phase = "accepting", inbox # <<>>,
         inbox' = Tail(inbox), UNCHANGED <<phase, dropped, doc, versions>>,
         IsVersion(versions, doc, snapshot'),
         snapshot'.revision = RevisionAfter(Head(inbox))
  PROVE  SnapshotsAreVersions' /\ InboxInOrder'
<1>1. /\ Len(Tail(inbox)) = Len(inbox) - 1 /\ Len(inbox) \in Nat
      /\ \A i \in 1..(Len(inbox) - 1) : Tail(inbox)[i] = inbox[i + 1]
  BY ReceivedIsTyped, LenProperties DEF ChannelTypes
<1>2. \A i \in 1..(Len(inbox) - 1) : i + 1 \in 1..Len(inbox)
  BY <1>1
<1>3. SnapshotsAreVersions'
  BY <1>1, <1>2 DEF SnapshotsAreVersions
<1>4. Ordered(inbox, snapshot) /\ (~dropped => EndsAt(inbox, snapshot, doc.revision))
  BY DEF InboxInOrder
<1>5. /\ Ordered(Tail(inbox), snapshot')
      /\ ~dropped => EndsAt(Tail(inbox), snapshot', doc.revision)
  BY <1>4, OrderedTail DEF ChannelTypes
<1>6. InboxInOrder'
  BY <1>5 DEF InboxInOrder
<1>7. QED BY <1>3, <1>6

\* The worker answers its newest request with the picture it asks for, or refuses.
LEMMA AnswerKeepsPictures ==
  ASSUME SessionInvariant, NEW r \in ToSet(backlog), NEW response \in Response,
         Answer(r, response), UNCHANGED <<doc, versions>>,
         response.answer = "ready" =>
           response.request = r /\ response.tile = PictureIn(versions, r),
         TilesAreCurrent(versions, snapshot, tiles')
  PROVE  SnapshotsAreVersions' /\ InboxInOrder' /\ PicturesMatch'
<1>1. /\ SessionTypes /\ BacklogTypes /\ ChannelTypes
      /\ SnapshotsAreVersions /\ InboxInOrder /\ PicturesMatch
  BY DEF SessionInvariant, SessionTypes
<1>2. /\ phase = "serving" /\ phase' = "accepting" /\ dropped' = dropped
      /\ inbox' = inbox /\ snapshot' = snapshot /\ doc' = doc /\ versions' = versions
      /\ replies' = Append(replies, response) /\ backlog' = Front(backlog)
  BY DEF Answer
<1>3. backlog \in Seq(Request) /\ IsInjective(backlog) /\ DOMAIN backlog = 1..Len(backlog)
  BY <1>1, LenProperties DEF BacklogTypes
<1>4. PICK k \in 1..Len(backlog) : backlog[k] = r
  BY <1>3 DEF ToSet
<1>5. backlog # <<>> /\ r.revision = snapshot.revision
  BY <1>1, <1>4 DEF PicturesMatch, BacklogIsCurrent
<1>6. SnapshotsAreVersions'
  BY <1>1, <1>2 DEF SnapshotsAreVersions
<1>7. InboxInOrder'
  BY <1>1, <1>2 DEF InboxInOrder
<1>8. BacklogIsCurrent(backlog', snapshot')
  <2>1. /\ Len(Front(backlog)) = Len(backlog) - 1
        /\ \A i \in 1..(Len(backlog) - 1) : Front(backlog)[i] = backlog[i]
    BY <1>3, <1>5, FrontOfQueue
  <2>2. \A i \in 1..(Len(backlog) - 1) : i \in 1..Len(backlog)
    BY <1>3, LenProperties
  <2>3. QED BY SMTT(30), <1>1, <1>2, <2>1, <2>2 DEF PicturesMatch, BacklogIsCurrent
<1>9. AnswersAreHonest(versions', doc', replies')
  <2>1. snapshot.revision <= doc.revision
    BY <1>1 DEF SnapshotsAreVersions, IsVersion
  <2>2. replies \in Seq(Response) /\ AnswersAreHonest(versions, doc, replies)
    BY <1>1 DEF ChannelTypes, PicturesMatch
  <2>3. response.answer = "ready" =>
          /\ response.request.revision <= doc.revision
          /\ response.tile = PictureIn(versions, response.request)
    BY <1>5, <2>1
  <2>4. QED BY <1>2, <2>2, <2>3, HonestAppend
<1>10. QED BY <1>2, <1>6, <1>7, <1>8, <1>9 DEF PicturesMatch

LEMMA WorkKeepsInvariant ==
  ASSUME SessionInvariant, SessionTypes', Worker, UNCHANGED <<doc, versions>>
  PROVE  SessionInvariant'
<1>1. /\ SessionTypes /\ BacklogTypes /\ CacheTypes /\ ChannelTypes
      /\ SnapshotsAreVersions /\ InboxInOrder /\ PicturesMatch
      /\ doc' = doc /\ versions' = versions
  BY DEF SessionInvariant, SessionTypes
<1>2. /\ BacklogIsCurrent(backlog, snapshot) /\ TilesAreCurrent(versions, snapshot, tiles)
      /\ AnswersAreHonest(versions, doc, replies)
  BY <1>1 DEF PicturesMatch
<1>3. /\ backlog \in Seq(Request) /\ IsInjective(backlog) /\ Len(backlog) <= Capacity
      /\ tiles \in Seq(Entry) /\ CachedBytes(tiles) <= CacheBudget
      /\ replies \in Seq(Response) /\ inbox \in Seq(Message) /\ snapshot \in Snapshot
  BY <1>1 DEF BacklogTypes, CacheTypes, ChannelTypes
<1>4. IsVersion(versions, doc, snapshot)
  BY <1>1 DEF SnapshotsAreVersions
<1>5. \A c : DrawnFrom(c, tiles) => TilesAreCurrent(versions, snapshot, c)
  BY <1>2 DEF DrawnFrom, TilesAreCurrent
<1>6. CASE OpenFile
  <2>1. UNCHANGED <<dropped, inbox, backlog, snapshot, tiles, replies>> /\ phase = "opening"
    BY <1>6 DEF OpenFile
  <2>2. QED
    BY <1>1, <2>1 DEF SessionInvariant, SnapshotsAreVersions, InboxInOrder, PicturesMatch
<1>7. CASE AcceptRender
  <2> DEFINE r == Head(inbox).request
  <2>1. /\ phase = "accepting" /\ inbox # <<>> /\ Head(inbox).kind = "render"
        /\ backlog' = Bounded(Pushed(backlog, r))
        /\ replies' = Send(Superseded(Pushed(backlog, r)))
        /\ inbox' = Tail(inbox)
        /\ UNCHANGED <<phase, dropped, snapshot, tiles>>
    BY <1>7 DEF AcceptRender, Receive
  <2>2. r \in Request /\ Head(inbox) = inbox[1]
    BY <1>1, <2>1, ReceivedIsTyped
  <2>3. r.revision = snapshot.revision
    <3>1. Ordered(inbox, snapshot)
      BY <1>1, <2>1 DEF InboxInOrder
    <3>2. 1 \in 1..Len(inbox)
      BY <1>3, <2>1, LenProperties, EmptySeq
    <3>3. inbox[1].request.revision = RevisionBefore(inbox, snapshot, 1)
      BY <2>1, <2>2, <3>1, <3>2 DEF Ordered
    <3>4. QED BY <2>2, <3>3 DEF RevisionBefore
  <2>4. snapshot'.revision = RevisionAfter(Head(inbox))
    BY <2>1, <2>3 DEF RevisionAfter
  <2>5. SnapshotsAreVersions' /\ InboxInOrder'
    BY <1>1, <1>4, <2>1, <2>4, ReadingKeepsOrder
  <2> HIDE DEF r
  <2>6. /\ \A i \in 1..Len(Bounded(Pushed(backlog, r))) :
             \/ Bounded(Pushed(backlog, r))[i] = r
             \/ \E j \in 1..Len(backlog) : Bounded(Pushed(backlog, r))[i] = backlog[j]
        /\ Superseded(Pushed(backlog, r)) \in Seq(Response)
        /\ \A i \in 1..Len(Superseded(Pushed(backlog, r))) :
             Superseded(Pushed(backlog, r))[i].answer = "failed"
    BY <1>3, <2>2, PushedIsBounded
  <2>7. BacklogIsCurrent(backlog', snapshot')
    BY <1>2, <2>1, <2>3, <2>6 DEF BacklogIsCurrent
  <2>8. AnswersAreHonest(versions', doc', replies')
    BY <1>1, <1>2, <1>3, <2>1, <2>6, HonestSend
  <2>9. PicturesMatch'
    BY <1>1, <1>2, <2>1, <2>7, <2>8 DEF PicturesMatch
  <2>10. QED BY <2>5, <2>9 DEF SessionInvariant
<1>8. CASE AcceptRebind
  <2> DEFINE answers == [i \in DOMAIN backlog |-> Failed(Reverse(backlog)[i])]
  <2>1. /\ phase = "accepting" /\ inbox # <<>> /\ Head(inbox).kind = "rebind"
        /\ replies' = Send(answers)
        /\ backlog' = <<>>
        /\ snapshot' = Head(inbox).snapshot
        /\ tiles' = OfRevision(tiles, snapshot'.revision)
        /\ inbox' = Tail(inbox)
        /\ UNCHANGED <<phase, dropped>>
    BY <1>8 DEF AcceptRebind, Receive
  <2>2. Head(inbox) = inbox[1] /\ 1 \in 1..Len(inbox)
    BY <1>1, <1>3, <2>1, ReceivedIsTyped, LenProperties, EmptySeq
  <2>3. IsVersion(versions, doc, snapshot')
    BY <1>1, <2>1, <2>2 DEF SnapshotsAreVersions
  <2>4. snapshot'.revision = RevisionAfter(Head(inbox))
    BY <2>1 DEF RevisionAfter
  <2>5. SnapshotsAreVersions' /\ InboxInOrder'
    BY <1>1, <2>1, <2>3, <2>4, ReadingKeepsOrder
  <2>6. answers \in Seq(Response) /\ \A i \in 1..Len(answers) : answers[i].answer = "failed"
    BY <1>3, BacklogIsRefused DEF BacklogAnswers
  <2>7. AnswersAreHonest(versions', doc', replies')
    <3> HIDE DEF answers
    <3>1. QED BY <1>1, <1>2, <1>3, <2>1, <2>6, HonestSend
  <2>8. BacklogIsCurrent(backlog', snapshot')
    BY <2>1 DEF BacklogIsCurrent
  <2>9. TilesAreCurrent(versions', snapshot', tiles')
    <3>1. /\ \A i \in 1..Len(tiles') : tiles'[i].request.revision = snapshot'.revision
          /\ DrawnFrom(tiles', tiles)
      BY <1>3, <2>1, OfRevisionKeeps
    <3>2. QED BY <1>1, <1>2, <3>1 DEF TilesAreCurrent, DrawnFrom
  <2>10. PicturesMatch'
    BY <2>7, <2>8, <2>9 DEF PicturesMatch
  <2>11. QED BY <2>5, <2>10 DEF SessionInvariant
<1>9. CASE AcceptShutdown
  BY <1>9, ExitKeepsInvariant DEF AcceptShutdown
<1>10. CASE StopAccepting
  <2>1. UNCHANGED <<dropped, inbox, backlog, snapshot, tiles, replies>> /\ phase = "accepting"
    BY <1>10 DEF StopAccepting
  <2>2. QED
    BY <1>1, <2>1 DEF SessionInvariant, SnapshotsAreVersions, InboxInOrder, PicturesMatch
<1>11. \A r \in ToSet(backlog) : r \in Request /\ r.revision = snapshot.revision
  <2>1. DOMAIN backlog = 1..Len(backlog)
    BY <1>3, LenProperties
  <2>2. QED BY <1>2, <1>3, <2>1, ElementOfSeq DEF ToSet, BacklogIsCurrent
<1>12. CASE ServeCached
  <2>1. PICK r \in ToSet(backlog) :
          /\ Cached(tiles, r)
          /\ Answer(r, Ready(r, tiles[CachedAt(tiles, r)].tile))
          /\ tiles' = Touched(tiles, r)
    BY <1>12 DEF ServeCached
  <2>2. /\ CachedAt(tiles, r) \in 1..Len(tiles)
        /\ tiles[CachedAt(tiles, r)].request = r
        /\ DrawnFrom(Touched(tiles, r), tiles)
    BY <1>3, <2>1, TouchedKeeps
  <2> DEFINE entry == tiles[CachedAt(tiles, r)]
             response == Ready(r, entry.tile)
  <2>3. entry \in Entry /\ entry.request = r /\ entry.tile = PictureIn(versions, entry.request)
    BY <1>2, <1>3, <2>2, ElementOfSeq DEF TilesAreCurrent
  <2> HIDE DEF entry
  <2>4. /\ response \in Response /\ response.request = r
        /\ response.tile = PictureIn(versions, r)
    BY <1>11, <2>3, AnswersAreTyped DEF Ready, Entry
  <2>5. Answer(r, response) /\ TilesAreCurrent(versions, snapshot, tiles')
    BY <1>5, <2>1, <2>2 DEF entry
  <2> HIDE DEF response
  <2>6. SnapshotsAreVersions' /\ InboxInOrder' /\ PicturesMatch'
    BY <2>4, <2>5, AnswerKeepsPictures
  <2>7. QED BY <2>6 DEF SessionInvariant
<1>13. CASE ServeRasterized
  <2>1. PICK r \in ToSet(backlog) :
          /\ Renderable(r)
          /\ Answer(r, Ready(r, Rasterized(r)))
          /\ tiles' = Inserted(tiles, r, Rasterized(r))
    BY <1>13 DEF ServeRasterized
  <2>2. r \in Request /\ Rasterized(r) \in Tile
    BY <1>3, <1>11, <2>1, RasterizedIsTyped
  <2>3. Rasterized(r) = PictureIn(versions, r)
    BY <1>4, <1>11, <2>1 DEF IsVersion, Rasterized, PictureIn, FileIndex
  <2> DEFINE t == Rasterized(r)
             response == Ready(r, t)
  <2> HIDE DEF t
  <2>4. response \in Response /\ response.request = r /\ response.tile = PictureIn(versions, r)
    BY <2>2, <2>3, AnswersAreTyped DEF Ready, t
  <2>5. TilesAreCurrent(versions, snapshot, tiles')
    <3>1. \A i \in 1..Len(Inserted(tiles, r, t)) :
            \/ Inserted(tiles, r, t)[i] = [request |-> r, tile |-> t]
            \/ \E j \in 1..Len(tiles) : Inserted(tiles, r, t)[i] = tiles[j]
      BY <1>3, <2>2, InsertedFits DEF t
    <3>2. t = PictureIn(versions, r) /\ r.revision = snapshot.revision
      BY <1>11, <2>1, <2>3 DEF t
    <3>3. tiles' = Inserted(tiles, r, t)
      BY <2>1 DEF t
    <3>4. QED BY <1>2, <3>1, <3>2, <3>3 DEF TilesAreCurrent
  <2>6. Answer(r, response)
    BY <2>1 DEF t
  <2> HIDE DEF response
  <2>7. SnapshotsAreVersions' /\ InboxInOrder' /\ PicturesMatch'
    BY <2>4, <2>5, <2>6, AnswerKeepsPictures
  <2>8. QED BY <2>7 DEF SessionInvariant
<1>14. CASE ServeRefused
  <2>1. PICK r \in ToSet(backlog) : Answer(r, Failed(r)) /\ tiles' = tiles
    BY <1>14 DEF ServeRefused
  <2>2. Failed(r) \in Response /\ Failed(r).answer = "failed"
    BY <1>11, <2>1, AnswersAreTyped DEF Failed
  <2>3. TilesAreCurrent(versions, snapshot, tiles')
    BY <1>2, <2>1
  <2>4. SnapshotsAreVersions' /\ InboxInOrder' /\ PicturesMatch'
    BY <2>1, <2>2, <2>3, AnswerKeepsPictures
  <2>5. QED BY <2>4 DEF SessionInvariant
<1>15. CASE ServeNobody
  BY <1>15, ExitKeepsInvariant DEF ServeNobody
<1>16. CASE FailRequest \/ FailRebind
  <2>1. /\ phase = "failing" /\ inbox # <<>> /\ inbox' = Tail(inbox)
        /\ UNCHANGED <<phase, dropped, backlog, snapshot, tiles>>
        /\ \/ replies' = replies
           \/ replies' = Append(replies, Failed(Head(inbox).request))
              /\ Head(inbox).kind = "render"
    BY <1>16 DEF FailRequest, FailRebind
  <2>2. /\ Len(Tail(inbox)) = Len(inbox) - 1 /\ Len(inbox) \in Nat
        /\ \A i \in 1..(Len(inbox) - 1) : Tail(inbox)[i] = inbox[i + 1]
        /\ Head(inbox).kind = "render" => Head(inbox).request \in Request
    BY <1>1, <1>3, <2>1, ReceivedIsTyped, LenProperties
  <2>3. \A i \in 1..(Len(inbox) - 1) : i + 1 \in 1..Len(inbox)
    BY <2>2
  <2>4. SnapshotsAreVersions'
    BY <1>1, <2>1, <2>2, <2>3 DEF SnapshotsAreVersions
  <2>5. InboxInOrder'
    BY <2>1 DEF InboxInOrder
  <2>6. AnswersAreHonest(versions', doc', replies')
    <3>1. CASE replies' = replies
      BY <1>1, <1>2, <3>1
    <3>2. CASE replies' # replies
      <4>1. /\ replies' = Append(replies, Failed(Head(inbox).request))
            /\ Head(inbox).request \in Request
        BY <2>1, <2>2, <3>2
      <4>2. /\ Failed(Head(inbox).request) \in Response
            /\ Failed(Head(inbox).request).answer = "failed"
        BY <4>1, AnswersAreTyped DEF Failed
      <4>3. QED BY <1>1, <1>2, <1>3, <4>1, <4>2, HonestAppend
    <3>3. QED BY <3>1, <3>2
  <2>7. PicturesMatch'
    BY <1>1, <1>2, <2>1, <2>6 DEF PicturesMatch
  <2>8. QED BY <2>4, <2>5, <2>7 DEF SessionInvariant
<1>17. CASE FailExit
  BY <1>17, ExitKeepsInvariant DEF FailExit
<1>18. QED
  BY <1>6, <1>7, <1>8, <1>9, <1>10, <1>12, <1>13, <1>14, <1>15, <1>16, <1>17 DEF Worker

LEMMA InvariantIsKept == SessionInvariant /\ [Next]_vars => SessionInvariant'
<1> SUFFICES ASSUME SessionInvariant, [Next]_vars PROVE SessionInvariant'
  OBVIOUS
<1>1. SessionTypes'
  BY TypesAreKept DEF SessionInvariant
<1>2. CASE Edit
  BY <1>1, <1>2, EditKeepsInvariant
<1>3. CASE Ask
  BY <1>1, <1>3, AskKeepsInvariant
<1>4. CASE Collect
  <2>1. /\ replies' = <<>>
        /\ UNCHANGED <<phase, dropped, inbox, backlog, snapshot, tiles, doc, versions>>
    BY <1>4 DEF Collect, Poll
  <2>2. Len(<<>>) = 0 /\ 1..0 = {}
    OBVIOUS
  <2>3. PicturesMatch'
    BY <2>1, <2>2 DEF SessionInvariant, PicturesMatch, AnswersAreHonest
  <2>4. QED
    BY <1>1, <2>1, <2>3 DEF SessionInvariant, SnapshotsAreVersions, InboxInOrder
<1>5. CASE Drop
  BY <1>1, <1>5, DropKeepsInvariant
<1>6. CASE Work
  BY <1>1, <1>6, WorkKeepsInvariant DEF Work
<1>7. CASE Die
  BY <1>1, <1>7, ExitKeepsInvariant DEF Die, Panic
<1>8. CASE UNCHANGED vars
  BY <1>1, <1>8
  DEF vars, SessionInvariant, SnapshotsAreVersions, InboxInOrder, PicturesMatch
<1>9. QED BY <1>2, <1>3, <1>4, <1>5, <1>6, <1>7, <1>8 DEF Next

\* Every tile, cached or on its way to the caller, shows the page its request names
\* as the document had it at the request's revision, for any file, any cache and
\* backlog, any number of edits and any pace of the worker (accept_message,
\* serve_one, TileCache::retain_revision).
THEOREM PicturesMatchRequests == Spec => []TilesMatchRequests
<1>1. Init => SessionInvariant
  BY InvariantHoldsInitially
<1>2. QED BY <1>1, InvariantIsKept, InvariantIsEnough, PTL DEF Spec

-----------------------------------------------------------------------------
\* Counting what a queue holds

Ones(p) == IF p THEN 1 ELSE 0

LEMMA CountIsNatural ==
  ASSUME NEW S, NEW s \in Seq(S), NEW T
  PROVE  /\ IsFiniteSet({i \in 1..Len(s) : s[i] \in T})
         /\ CountIn(s, T) \in Nat
<1> DEFINE A == {i \in 1..Len(s) : s[i] \in T}
<1>1. IsFiniteSet(1..Len(s))
  <2>1. Len(s) \in Int /\ 1 \in Int
    BY LenProperties
  <2>2. QED BY <2>1, FS_Interval
<1>2. A \in SUBSET (1..Len(s))
  OBVIOUS
<1>3. IsFiniteSet(A)
  BY <1>1, <1>2, FS_Subset
<1>4. QED BY <1>3, FS_CardinalityType DEF CountIn

LEMMA CountNothing ==
  ASSUME NEW T
  PROVE  CountIn(<<>>, T) = 0
<1>1. {i \in 1..Len(<<>>) : <<>>[i] \in T} = {}
  OBVIOUS
<1>2. QED BY <1>1, FS_EmptySet DEF CountIn

LEMMA CountAppend ==
  ASSUME NEW S, NEW s \in Seq(S), NEW e \in S, NEW T
  PROVE  CountIn(Append(s, e), T) = CountIn(s, T) + Ones(e \in T)
<1> DEFINE c == Append(s, e)
           A == {i \in 1..Len(s) : s[i] \in T}
           B == {i \in 1..Len(c) : c[i] \in T}
<1>1. /\ Len(c) = Len(s) + 1 /\ Len(s) \in Nat
      /\ \A i \in 1..Len(s) : c[i] = s[i]
      /\ c[Len(s) + 1] = e
  BY AppendProperties, LenProperties
<1> HIDE DEF c
<1>2. \A i : i \in 1..Len(c) <=> i \in 1..Len(s) \/ i = Len(s) + 1
  BY <1>1
<1>3. Len(s) + 1 \notin A
  BY <1>1
<1>4. IsFiniteSet(A) /\ Cardinality(A) \in Nat
  BY CountIsNatural DEF CountIn
<1>5. CASE e \in T
  <2>1. B = A \cup {Len(s) + 1}
    BY <1>1, <1>2, <1>5
  <2> HIDE DEF A, B
  <2>2. Cardinality(B) = Cardinality(A) + 1
    BY <1>3, <1>4, <2>1, FS_AddElement
  <2>3. QED BY <1>5, <2>2 DEF CountIn, Ones, A, B, c
<1>6. CASE e \notin T
  <2>1. B = A
    BY <1>1, <1>2, <1>6
  <2>2. Cardinality(A) + 0 = Cardinality(A)
    BY <1>4
  <2>3. QED BY <1>6, <2>1, <2>2 DEF CountIn, Ones, c
<1>7. QED BY <1>5, <1>6

LEMMA CountOne ==
  ASSUME NEW e, NEW T
  PROVE  CountIn(<<e>>, T) = Ones(e \in T)
<1>1. <<>> \in Seq({e}) /\ e \in {e} /\ Append(<<>>, e) = <<e>>
  OBVIOUS
<1>2. CountIn(<<e>>, T) = 0 + Ones(e \in T)
  <2>1. CountIn(Append(<<>>, e), T) = CountIn(<<>>, T) + Ones(e \in T)
    BY <1>1, CountAppend
  <2>2. CountIn(<<>>, T) = 0
    BY CountNothing
  <2>3. QED BY <1>1, <2>1, <2>2
<1>3. Ones(e \in T) \in Nat
  BY DEF Ones
<1>4. QED BY <1>2, <1>3

LEMMA CountJoin ==
  ASSUME NEW S, NEW a \in Seq(S), NEW b \in Seq(S), NEW T
  PROVE  CountIn(a \o b, T) = CountIn(a, T) + CountIn(b, T)
<1> DEFINE Adds(c) == CountIn(a \o c, T) = CountIn(a, T) + CountIn(c, T)
           N == {n \in Nat : \A c \in Seq(S) : Len(c) = n => Adds(c)}
<1>1. 0 \in N
  <2>1. ASSUME NEW c \in Seq(S), Len(c) = 0 PROVE Adds(c)
    <3>1. c = <<>>
      BY <2>1, EmptySeq
    <3>2. a \o <<>> = a
      BY ConcatEmptySeq
    <3>3. CountIn(a, T) \in Nat
      BY CountIsNatural
    <3>4. QED BY <3>1, <3>2, <3>3, CountNothing
  <2>2. QED BY <2>1
<1>2. ASSUME NEW n \in Nat, n \in N PROVE n + 1 \in N
  <2>1. ASSUME NEW c \in Seq(S), Len(c) = n + 1 PROVE Adds(c)
    <3>1. c # <<>>
      BY <2>1
    <3>2. PICK d \in Seq(S), e \in S : c = Append(d, e)
      BY <3>1, SequenceEmptyOrAppend
    <3>3. Len(d) = n
      BY <2>1, <3>2, AppendProperties, LenProperties
    <3>4. CountIn(a \o d, T) = CountIn(a, T) + CountIn(d, T)
      BY <1>2, <3>3
    <3>5. a \o c = Append(a \o d, e)
      <4>1. <<e>> \in Seq(S) /\ a \o d \in Seq(S)
        BY ConcatProperties
      <4>2. c = d \o <<e>> /\ Append(a \o d, e) = (a \o d) \o <<e>>
        BY <3>2, <4>1, AppendIsConcat
      <4>3. QED BY <4>1, <4>2, ConcatAssociative
    <3>6. a \o d \in Seq(S)
      BY ConcatProperties
    <3>7. /\ CountIn(a \o c, T) = CountIn(a \o d, T) + Ones(e \in T)
          /\ CountIn(c, T) = CountIn(d, T) + Ones(e \in T)
      BY ZenonT(120), <3>2, <3>5, <3>6, CountAppend
    <3>8. CountIn(a, T) \in Nat /\ CountIn(d, T) \in Nat /\ Ones(e \in T) \in Nat
      BY CountIsNatural DEF Ones
    <3>9. QED BY <3>4, <3>7, <3>8
  <2> HIDE DEF Adds
  <2>2. QED BY <2>1
<1> HIDE DEF N
<1>3. Len(b) \in N
  <2>1. Len(b) \in Nat
    BY LenProperties
  <2>2. QED BY <1>1, <1>2, <2>1, EveryNumber
<1>4. QED BY <1>3 DEF N

LEMMA CountTail ==
  ASSUME NEW S, NEW s \in Seq(S), s # <<>>, NEW T
  PROVE  CountIn(s, T) = CountIn(Tail(s), T) + Ones(Head(s) \in T)
<1>1. Head(s) \in S /\ Head(s) = s[1] /\ Tail(s) \in Seq(S) /\ <<Head(s)>> \in Seq(S)
  BY HeadTailProperties
<1>2. 1 \in 1..Len(s) /\ Len(s) \in 1..Len(s)
  BY LenProperties, EmptySeq
<1>3. s = <<Head(s)>> \o Tail(s)
  <2>1. SubSeq(s, 1, Len(s)) = <<s[1]>> \o SubSeq(s, 1 + 1, Len(s))
    BY <1>2, SubSeqRecursiveFirst
  <2>2. SubSeq(s, 1, Len(s)) = s /\ Tail(s) = SubSeq(s, 2, Len(s))
    BY SubSeqFull, TailIsSubSeq
  <2>3. QED BY <1>1, <2>1, <2>2
<1>4. CountIn(s, T) = CountIn(<<Head(s)>>, T) + CountIn(Tail(s), T)
  BY ZenonT(120), <1>1, <1>3, CountJoin
<1>5. CountIn(<<Head(s)>>, T) = Ones(Head(s) \in T)
  BY CountOne
<1>6. Ones(Head(s) \in T) \in Nat /\ CountIn(Tail(s), T) \in Nat
  BY <1>1, CountIsNatural DEF Ones
<1>7. QED BY <1>4, <1>5, <1>6

LEMMA CountFront ==
  ASSUME NEW S, NEW s \in Seq(S), s # <<>>, NEW T
  PROVE  CountIn(s, T) = CountIn(Front(s), T) + Ones(Last(s) \in T)
<1>1. Len(s) \in Nat /\ 1 \in 1..Len(s) /\ Len(s) \in 1..Len(s)
  BY LenProperties, EmptySeq
<1>2. Last(s) \in S /\ Last(s) = s[Len(s)]
  BY <1>1, ElementOfSeq DEF Last
<1>3. Front(s) \in Seq(S)
  <2>1. \A i \in 1..(Len(s) - 1) : s[i] \in S
    BY SMTT(30), <1>1, ElementOfSeq
  <2>2. QED BY <1>1, <2>1, SubSeqProperties DEF Front
<1>4. s = Append(Front(s), Last(s))
  <2>1. SubSeq(s, 1, Len(s)) = SubSeq(s, 1, Len(s) - 1) \o <<s[Len(s)]>>
    BY <1>1, SubSeqRecursiveSecond
  <2>2. SubSeq(s, 1, Len(s)) = s
    BY SubSeqFull
  <2>3. Append(Front(s), Last(s)) = Front(s) \o <<Last(s)>>
    BY <1>2, <1>3, AppendIsConcat
  <2>4. QED BY <1>2, <2>1, <2>2, <2>3 DEF Front
<1>5. QED BY ZenonT(60), <1>2, <1>3, <1>4, CountAppend

\* In a queue without repetitions, and in the answers a rebind makes of it, a request
\* is found once or not at all.
\* The places of s hold a member of T where the places k of queue b hold x, and k
\* takes every place once.
Placed(s, T, k, b, x, n) ==
  /\ n \in Nat /\ k \in [1..n -> 1..n] /\ Len(s) = n /\ DOMAIN b = 1..n
  /\ \A i, j \in 1..n : k[i] = k[j] => i = j
  /\ \A j \in 1..n : \E i \in 1..n : k[i] = j
  /\ \A i \in 1..n : s[i] \in T <=> b[k[i]] = x

LEMMA CountInjective ==
  ASSUME NEW s, NEW T, NEW k, NEW b, NEW x, NEW n,
         IsInjective(b), Placed(s, T, k, b, x, n)
  PROVE  CountIn(s, T) = Ones(x \in ToSet(b))
<1> USE DEF Placed
<1> DEFINE A == {i \in 1..Len(s) : s[i] \in T}
<1>1. CASE x \in ToSet(b)
  <2>1. PICK j \in 1..n : b[j] = x
    BY <1>1 DEF ToSet
  <2>2. PICK i \in 1..n : k[i] = j
    OBVIOUS
  <2>3. \A m \in 1..n : s[m] \in T <=> m = i
    <3>1. ASSUME NEW m \in 1..n, s[m] \in T PROVE m = i
      <4>1. b[k[m]] = b[j] /\ k[m] \in 1..n
        BY <2>1, <3>1
      <4>2. k[m] = j
        BY <4>1 DEF IsInjective
      <4>3. QED BY <2>2, <4>2
    <3>2. s[i] \in T
      BY <2>1, <2>2
    <3>3. QED BY <3>1, <3>2
  <2>4. A = {i}
    BY SMTT(30), <2>3
  <2>5. Cardinality(A) = 1
    BY <2>4, FS_Singleton
  <2>6. QED BY <1>1, <2>5 DEF CountIn, Ones
<1>2. CASE x \notin ToSet(b)
  <2>1. \A m \in 1..n : s[m] \notin T
    BY <1>2 DEF ToSet
  <2>2. A = {}
    BY <2>1
  <2>3. QED BY <1>2, <2>2, FS_EmptySet DEF CountIn, Ones
<1>3. QED BY <1>1, <1>2

-----------------------------------------------------------------------------
\* The service implements the contract.

\* How many submissions of request x the channel i and the backlog b hold, and how
\* many answers to it are among the handle's own o and the worker's a.
Asking(x) == {[kind |-> "render", request |-> x]}
Pending(i, b, x) == CountIn(i, Asking(x)) + CountIn(b, {x})
Delivered(o, a, x) == CountIn(o \o a, AnswersTo(x))

LEMMA PendingIsNatural ==
  ASSUME NEW i \in Seq(Message), NEW b \in Seq(Request), NEW x
  PROVE  Pending(i, b, x) \in Nat
<1>1. CountIn(i, Asking(x)) \in Nat
  BY CountIsNatural
<1>2. CountIn(b, {x}) \in Nat
  BY CountIsNatural
<1>3. QED BY <1>1, <1>2 DEF Pending

LEMMA DeliveredAdds ==
  ASSUME NEW o \in Seq(Response), NEW a \in Seq(Response), NEW x
  PROVE  /\ Delivered(o, a, x) = CountIn(o, AnswersTo(x)) + CountIn(a, AnswersTo(x))
         /\ CountIn(o, AnswersTo(x)) \in Nat /\ CountIn(a, AnswersTo(x)) \in Nat
         /\ Delivered(o, a, x) \in Nat
<1>1. CountIn(o \o a, AnswersTo(x)) = CountIn(o, AnswersTo(x)) + CountIn(a, AnswersTo(x))
  BY CountJoin
<1>2. CountIn(o, AnswersTo(x)) \in Nat /\ CountIn(a, AnswersTo(x)) \in Nat
  BY CountIsNatural
<1>3. QED BY <1>1, <1>2 DEF Delivered

LEMMA MappedNow ==
  /\ WaitingNow = [x \in Requests |-> IF dropped THEN 0 ELSE Pending(inbox, backlog, x)]
  /\ AnsweredNow = [x \in Requests |-> Delivered(outbox, replies, x)]
BY DEF WaitingNow, Waiting, Pending, Asking, AnsweredNow, Collected, Delivered

LEMMA MappedNext ==
  /\ WaitingNow' = [x \in Requests |-> IF dropped' THEN 0 ELSE Pending(inbox', backlog', x)]
  /\ AnsweredNow' = [x \in Requests |-> Delivered(outbox', replies', x)]
BY DEF WaitingNow, Waiting, Pending, Asking, AnsweredNow, Collected, Delivered

\* Steps the contract does not see.
LEMMA NothingShows ==
  ASSUME dropped' = dropped, phase # "gone" <=> phase' # "gone",
         \A x : dropped \/ Pending(inbox', backlog', x) = Pending(inbox, backlog, x),
         \A x : Delivered(outbox', replies', x) = Delivered(outbox, replies, x)
  PROVE  UNCHANGED Contract!contractVars
<1>1. WaitingNow' = WaitingNow
  BY MappedNow, MappedNext
<1>2. AnsweredNow' = AnsweredNow
  BY MappedNow, MappedNext
<1>3. Serving' = Serving
  BY DEF Serving
<1>4. QED BY <1>1, <1>2, <1>3 DEF Contract!contractVars

\* Steps that answer each request of a batch once.
LEMMA BatchAnswered ==
  ASSUME ChannelTypes, BacklogTypes, ChannelTypes', BacklogTypes',
         ~dropped, ~dropped', phase # "gone", phase' # "gone", NEW batch,
         \A x : Pending(inbox, backlog, x)
                  = Pending(inbox', backlog', x) + Ones(x \in batch),
         \A x : Delivered(outbox', replies', x)
                  = Delivered(outbox, replies, x) + Ones(x \in batch)
  PROVE  Contract!Next
<1> DEFINE seen == batch \cap Requests
<1>1. /\ WaitingNow = [x \in Requests |-> Pending(inbox, backlog, x)]
      /\ WaitingNow' = [x \in Requests |-> Pending(inbox', backlog', x)]
      /\ AnsweredNow = [x \in Requests |-> Delivered(outbox, replies, x)]
      /\ AnsweredNow' = [x \in Requests |-> Delivered(outbox', replies', x)]
  BY MappedNow, MappedNext
<1>2. /\ \A x : Pending(inbox, backlog, x) \in Nat
      /\ \A x : Pending(inbox', backlog', x) \in Nat
      /\ \A x : Delivered(outbox, replies, x) \in Nat
  BY PendingIsNatural, DeliveredAdds DEF ChannelTypes, BacklogTypes
<1>3. ASSUME NEW x \in Requests
      PROVE  /\ x \in seen => WaitingNow[x] > 0
             /\ WaitingNow'[x] = IF x \in seen THEN WaitingNow[x] - 1 ELSE WaitingNow[x]
             /\ AnsweredNow'[x] = IF x \in seen THEN AnsweredNow[x] + 1 ELSE AnsweredNow[x]
  <2>1. x \in batch <=> x \in seen
    OBVIOUS
  <2>2. /\ Pending(inbox, backlog, x) = Pending(inbox', backlog', x) + Ones(x \in batch)
        /\ Delivered(outbox', replies', x) = Delivered(outbox, replies, x) + Ones(x \in batch)
        /\ Pending(inbox, backlog, x) \in Nat /\ Pending(inbox', backlog', x) \in Nat
        /\ Delivered(outbox, replies, x) \in Nat
    BY <1>2
  <2>3. /\ WaitingNow[x] = Pending(inbox, backlog, x)
        /\ WaitingNow'[x] = Pending(inbox', backlog', x)
        /\ AnsweredNow[x] = Delivered(outbox, replies, x)
        /\ AnsweredNow'[x] = Delivered(outbox', replies', x)
    BY <1>1
  <2> HIDE DEF seen
  <2>4. CASE x \in batch
    BY <2>1, <2>2, <2>3, <2>4 DEF Ones
  <2>5. CASE x \notin batch
    BY <2>1, <2>2, <2>3, <2>5 DEF Ones
  <2>6. QED BY <2>4, <2>5
<1>4. seen \in SUBSET Requests
  OBVIOUS
<1> HIDE DEF seen
<1>5. WaitingNow' = [x \in Requests |-> IF x \in seen THEN WaitingNow[x] - 1 ELSE WaitingNow[x]]
  BY <1>1, <1>3
<1>6. AnsweredNow'
        = [x \in Requests |-> IF x \in seen THEN AnsweredNow[x] + 1 ELSE AnsweredNow[x]]
  BY <1>1, <1>3
<1>7. Serving' = Serving
  BY DEF Serving
<1>8. \A x \in seen : WaitingNow[x] > 0
  BY <1>3, <1>4
<1>9. Contract!Answer(seen)
  BY <1>5, <1>6, <1>7, <1>8 DEF Contract!Answer
<1>10. QED BY <1>4, <1>9 DEF Contract!Next

\* The worker's end, and the handle's.
LEMMA ServiceStops ==
  ASSUME ~Serving',
         dropped' \/ (inbox' = <<>> /\ backlog' = <<>>),
         \/ outbox' = outbox /\ replies' = replies
         \/ outbox' = <<>> /\ replies' = <<>>
  PROVE  Contract!Next
<1>1. WaitingNow' = Contract!None
  <2>1. \A x : (inbox' = <<>> /\ backlog' = <<>>) => Pending(inbox', backlog', x) = 0
    BY CountNothing DEF Pending
  <2>2. QED BY <2>1, MappedNext DEF Contract!None
<1>2. AnsweredNow' \in {AnsweredNow, Contract!None}
  <2>1. CASE outbox' = outbox /\ replies' = replies
    BY <2>1, MappedNow, MappedNext
  <2>2. CASE outbox' = <<>> /\ replies' = <<>>
    <3>1. <<>> \o <<>> = <<>>
      OBVIOUS
    <3>2. \A x : Delivered(<<>>, <<>>, x) = 0
      BY <3>1, CountNothing DEF Delivered
    <3>3. AnsweredNow' = [x \in Requests |-> 0]
      BY <2>2, <3>2, MappedNext
    <3>4. QED BY <3>3 DEF Contract!None
  <2>3. QED BY <2>1, <2>2
<1>3. Contract!Stop
  BY <1>1, <1>2 DEF Contract!Stop
<1>4. QED BY <1>3 DEF Contract!Next

\* What reading, queueing and answering do to the counts.

LEMMA ReadCounts ==
  ASSUME NEW i \in Seq(Message), i # <<>>, NEW x
  PROVE  /\ Head(i).kind = "render" =>
              CountIn(i, Asking(x)) = CountIn(Tail(i), Asking(x)) + Ones(x = Head(i).request)
         /\ Head(i).kind # "render" =>
              CountIn(i, Asking(x)) = CountIn(Tail(i), Asking(x))
<1>1. Head(i) \in Message /\ Tail(i) \in Seq(Message)
  BY HeadTailProperties
<1>2. CountIn(i, Asking(x)) = CountIn(Tail(i), Asking(x)) + Ones(Head(i) \in Asking(x))
  BY CountTail
<1>3. Head(i).kind = "render" => (Head(i) \in Asking(x) <=> x = Head(i).request)
  BY <1>1 DEF Message, Asking
<1>4. Head(i).kind # "render" => Head(i) \notin Asking(x)
  BY DEF Asking
<1>5. CountIn(Tail(i), Asking(x)) \in Nat
  BY <1>1, CountIsNatural
<1>6. CASE Head(i).kind = "render"
  BY <1>2, <1>3, <1>6 DEF Ones
<1>7. CASE Head(i).kind # "render"
  BY <1>2, <1>4, <1>5, <1>7 DEF Ones
<1>8. QED BY <1>6, <1>7

LEMMA WrittenCounts ==
  ASSUME NEW i \in Seq(Message), NEW m \in Message, NEW x
  PROVE  /\ m.kind = "render" =>
              CountIn(Append(i, m), Asking(x)) = CountIn(i, Asking(x)) + Ones(x = m.request)
         /\ m.kind # "render" => CountIn(Append(i, m), Asking(x)) = CountIn(i, Asking(x))
<1>1. CountIn(Append(i, m), Asking(x)) = CountIn(i, Asking(x)) + Ones(m \in Asking(x))
  BY CountAppend
<1>2. m.kind = "render" => (m \in Asking(x) <=> x = m.request)
  BY DEF Message, Asking
<1>3. m.kind # "render" => m \notin Asking(x)
  BY DEF Asking
<1>4. CountIn(i, Asking(x)) \in Nat
  BY CountIsNatural
<1>5. CASE m.kind = "render"
  BY <1>1, <1>2, <1>5 DEF Ones
<1>6. CASE m.kind # "render"
  BY <1>1, <1>3, <1>4, <1>6 DEF Ones
<1>7. QED BY <1>5, <1>6

LEMMA AnsweredCounts ==
  ASSUME NEW o \in Seq(Response), NEW a \in Seq(Response), NEW e \in Response, NEW x
  PROVE  Delivered(o, Append(a, e), x) = Delivered(o, a, x) + Ones(x = e.request)
<1>1. Append(a, e) \in Seq(Response)
  BY AppendProperties
<1>2. CountIn(Append(a, e), AnswersTo(x)) = CountIn(a, AnswersTo(x)) + Ones(e \in AnswersTo(x))
  BY CountAppend
<1>3. Ones(e \in AnswersTo(x)) = Ones(x = e.request) /\ Ones(x = e.request) \in Nat
  BY DEF AnswersTo, Ones
<1>4. /\ Delivered(o, Append(a, e), x)
           = CountIn(o, AnswersTo(x)) + CountIn(Append(a, e), AnswersTo(x))
      /\ Delivered(o, a, x) = CountIn(o, AnswersTo(x)) + CountIn(a, AnswersTo(x))
      /\ CountIn(o, AnswersTo(x)) \in Nat /\ CountIn(a, AnswersTo(x)) \in Nat
  BY ZenonT(60), <1>1, DeliveredAdds
<1>5. QED BY <1>2, <1>3, <1>4

LEMMA EditFitsContract ==
  ASSUME SessionTypes, SessionTypes', Edit
  PROVE  UNCHANGED Contract!contractVars
<1>1. DocumentTypes /\ ChannelTypes /\ DocumentTypes'
  BY DEF SessionTypes
<1>2. Rebind(doc')
  BY <1>1, EditKeepsDocument
<1> DEFINE m == [kind |-> "rebind", snapshot |-> SnapshotOf(doc')]
<1>3. m \in Message /\ m.kind = "rebind"
  BY <1>1, SnapshotsAreTyped, MessagesAreTyped DEF DocumentTypes
<1>4. /\ dropped' = dropped /\ phase' = phase /\ backlog' = backlog
      /\ outbox' = outbox /\ replies' = replies
      /\ inbox' = IF phase = "gone" THEN inbox ELSE Append(inbox, m)
  BY <1>2 DEF Rebind
<1> HIDE DEF m
<1>5. ASSUME NEW x PROVE CountIn(inbox', Asking(x)) = CountIn(inbox, Asking(x))
  BY <1>1, <1>3, <1>4, WrittenCounts DEF ChannelTypes
<1>6. \A x : Pending(inbox', backlog', x) = Pending(inbox, backlog, x)
  BY <1>4, <1>5 DEF Pending
<1>7. \A x : Delivered(outbox', replies', x) = Delivered(outbox, replies, x)
  BY <1>4
<1>8. QED BY <1>4, <1>6, <1>7, NothingShows

LEMMA AskFitsContract ==
  ASSUME SessionTypes, SessionTypes', Ask
  PROVE  Contract!Next
<1>1. DocumentTypes /\ ChannelTypes /\ BacklogTypes
  BY DEF SessionTypes
<1>2. PICK p \in NamedPages, s \in Scales :
        Submit([page |-> p, revision |-> doc.revision, scale |-> s])
  BY DEF Ask
<1> DEFINE r == [page |-> p, revision |-> doc.revision, scale |-> s]
           m == [kind |-> "render", request |-> r]
<1>3. Submit(r)
  BY <1>2
<1>4. doc.revision \in Revision /\ doc.revision \in Nat /\ doc.revision <= MaxEdits
  BY <1>1, PageMapAssumption DEF DocumentTypes, Document, Revision
<1>5. r \in Requests
  <2>1. doc.revision \in 0..MaxEdits
    BY <1>4, RenderSessionAssumption
  <2>2. QED BY <2>1 DEF Requests
<1>6. r \in Request
  <2>1. p \in Nat
    BY RenderServiceAssumption DEF NamedPages
  <2>2. QED BY <1>4, <2>1 DEF Request, PageId
<1> HIDE DEF r
<1>7. m \in Message /\ m.kind = "render" /\ m.request = r
  BY <1>6, MessagesAreTyped
<1>8. Failed(r) \in Response /\ Failed(r).request = r
  BY <1>6, AnswersAreTyped DEF Failed
<1> HIDE DEF m
<1>9. /\ ~dropped /\ dropped' = dropped /\ phase' = phase /\ backlog' = backlog
      /\ replies' = replies
  BY <1>3 DEF Submit
<1>10. CASE phase = "gone"
  <2>1. outbox' = Append(outbox, Failed(r)) /\ inbox' = inbox
    BY <1>3, <1>10 DEF Submit
  <2>2. ASSUME NEW x
        PROVE  Delivered(outbox', replies', x) = Delivered(outbox, replies, x) + Ones(x = r)
    <3>1. CountIn(outbox', AnswersTo(x)) = CountIn(outbox, AnswersTo(x)) + Ones(x = r)
      <4>1. Ones(Failed(r) \in AnswersTo(x)) = Ones(x = r)
        BY <1>8 DEF AnswersTo, Ones
      <4>2. QED BY <1>1, <1>8, <2>1, <4>1, CountAppend DEF ChannelTypes
    <3>2. /\ outbox \in Seq(Response) /\ replies \in Seq(Response)
          /\ Append(outbox, Failed(r)) \in Seq(Response)
      BY <1>1, <1>8, AppendProperties DEF ChannelTypes
    <3>3. /\ Delivered(outbox', replies', x)
               = CountIn(outbox', AnswersTo(x)) + CountIn(replies, AnswersTo(x))
          /\ Delivered(outbox, replies, x)
               = CountIn(outbox, AnswersTo(x)) + CountIn(replies, AnswersTo(x))
          /\ CountIn(outbox, AnswersTo(x)) \in Nat /\ CountIn(replies, AnswersTo(x)) \in Nat
      BY ZenonT(60), <1>9, <2>1, <3>2, DeliveredAdds
    <3>4. Ones(x = r) \in Nat
      BY DEF Ones
    <3>5. QED BY <3>1, <3>3, <3>4
  <2>3. WaitingNow' = WaitingNow
    BY <1>9, <2>1, MappedNow, MappedNext
  <2>4. AnsweredNow' = Contract!Sum(AnsweredNow, Contract!One(r))
    BY <2>2, MappedNow, MappedNext DEF Contract!Sum, Contract!One, Ones
  <2>5. ~Serving /\ Serving' = Serving
    BY <1>9, <1>10 DEF Serving
  <2>6. Contract!Reject(r)
    BY <2>3, <2>4, <2>5 DEF Contract!Reject
  <2>7. QED BY <1>5, <2>6 DEF Contract!Next
<1>11. CASE phase # "gone"
  <2>1. outbox' = outbox /\ inbox' = Append(inbox, m)
    BY <1>3, <1>11 DEF Submit, m
  <2>2. ASSUME NEW x
        PROVE  Pending(inbox', backlog', x) = Pending(inbox, backlog, x) + Ones(x = r)
    <3>1. CountIn(inbox', Asking(x)) = CountIn(inbox, Asking(x)) + Ones(x = r)
      BY <1>1, <1>7, <2>1, WrittenCounts DEF ChannelTypes
    <3>2. /\ CountIn(inbox, Asking(x)) \in Nat /\ CountIn(backlog, {x}) \in Nat
          /\ Ones(x = r) \in Nat
      BY <1>1, CountIsNatural DEF ChannelTypes, BacklogTypes, Ones
    <3>3. QED BY <1>9, <3>1, <3>2 DEF Pending
  <2>3. AnsweredNow' = AnsweredNow
    BY <1>9, <2>1, MappedNow, MappedNext
  <2>4. WaitingNow' = Contract!Sum(WaitingNow, Contract!One(r))
    BY <1>9, <2>2, MappedNow, MappedNext DEF Contract!Sum, Contract!One, Ones
  <2>5. Serving /\ Serving' = Serving
    BY <1>9, <1>11 DEF Serving
  <2>6. Contract!Ask(r)
    BY <2>3, <2>4, <2>5 DEF Contract!Ask
  <2>7. QED BY <1>5, <2>6 DEF Contract!Next
<1>12. QED BY <1>10, <1>11

LEMMA CollectFitsContract ==
  ASSUME SessionTypes, Collect
  PROVE  Contract!Next
<1>1. outbox' = <<>> /\ replies' = <<>> /\ UNCHANGED <<dropped, phase, inbox, backlog>>
  BY DEF Collect, Poll
<1>2. WaitingNow' = WaitingNow
  BY <1>1, MappedNow, MappedNext
<1>3. Serving' = Serving
  BY <1>1 DEF Serving
<1>4. AnsweredNow' = Contract!None
  <2>1. <<>> \o <<>> = <<>>
    OBVIOUS
  <2>2. \A x : Delivered(<<>>, <<>>, x) = 0
    BY <2>1, CountNothing DEF Delivered
  <2>3. QED BY <1>1, <2>2, MappedNext DEF Contract!None
<1>5. Contract!Collect
  BY <1>2, <1>3, <1>4 DEF Contract!Collect
<1>6. QED BY <1>5 DEF Contract!Next

LEMMA QueueCounts ==
  ASSUME NEW b \in Seq(Request), IsInjective(b), NEW x
  PROVE  /\ CountIn(b, {x}) = Ones(x \in ToSet(b))
         /\ CountIn(BacklogAnswers(b), AnswersTo(x)) = Ones(x \in ToSet(b))
<1> DEFINE n == Len(b)
           same == [i \in 1..n |-> i]
           turned == [i \in 1..n |-> n - i + 1]
           a == BacklogAnswers(b)
<1>1. n \in Nat /\ DOMAIN b = 1..n /\ \A i \in 1..n : b[i] \in Request
  BY LenProperties, ElementOfSeq
<1>2. CountIn(b, {x}) = Ones(x \in ToSet(b))
  <2>1. /\ same \in [1..n -> 1..n]
        /\ \A i, j \in 1..n : same[i] = same[j] => i = j
        /\ \A j \in 1..n : \E i \in 1..n : same[i] = j
        /\ \A i \in 1..n : b[i] \in {x} <=> b[same[i]] = x
    OBVIOUS
  <2> HIDE DEF same
  <2>2. Placed(b, {x}, same, b, x, n)
    BY <1>1, <2>1 DEF Placed
  <2> HIDE DEF n
  <2>3. QED BY <2>2, CountInjective
<1>3. CountIn(a, AnswersTo(x)) = Ones(x \in ToSet(b))
  <2>1. /\ turned \in [1..n -> 1..n]
        /\ \A i, j \in 1..n : turned[i] = turned[j] => i = j
    BY <1>1
  <2>2. \A j \in 1..n : \E i \in 1..n : turned[i] = j
    <3>1. ASSUME NEW j \in 1..n PROVE \E i \in 1..n : turned[i] = j
      <4>1. n - j + 1 \in 1..n /\ n - (n - j + 1) + 1 = j
        BY <1>1
      <4>2. turned[n - j + 1] = j
        BY <4>1
      <4>3. QED BY <4>1, <4>2
    <3>2. QED BY <3>1
  <2>3. a = [i \in 1..n |-> Failed(Reverse(b)[i])]
    BY <1>1 DEF BacklogAnswers
  <2>4. Len(a) = n
    BY <1>1, <2>3
  <2>5. ASSUME NEW i \in 1..n PROVE a[i] \in AnswersTo(x) <=> b[turned[i]] = x
    <3>1. turned[i] = n - i + 1 /\ turned[i] \in 1..n
      BY <2>1
    <3>2. a[i] = Failed(b[turned[i]])
      BY <2>3, <3>1 DEF Reverse
    <3>3. b[turned[i]] \in Request
      BY <1>1, <3>1
    <3>4. Failed(b[turned[i]]) \in Response /\ Failed(b[turned[i]]).request = b[turned[i]]
      BY <3>3, AnswersAreTyped DEF Failed
    <3>5. QED BY <3>2, <3>4 DEF AnswersTo
  <2> HIDE DEF turned, a, n
  <2>6. Placed(a, AnswersTo(x), turned, b, x, n)
    BY <1>1, <2>1, <2>2, <2>4, <2>5 DEF Placed
  <2>7. CountIn(a, AnswersTo(x)) = Ones(x \in ToSet(b))
    BY <2>6, CountInjective
  <2>8. QED BY <2>7 DEF a
<1>4. QED BY <1>2, <1>3

\* What a step of the service does to the counts: each request of a batch is answered
\* once, or a submission of request r is merged into an equal one that waits.
BatchIsAnswered(batch) ==
  /\ \A x : Pending(inbox, backlog, x) = Pending(inbox', backlog', x) + Ones(x \in batch)
  /\ \A x : Delivered(outbox', replies', x) = Delivered(outbox, replies, x) + Ones(x \in batch)

SubmissionIsMerged(r) ==
  /\ \A x : Pending(inbox, backlog, x) = Pending(inbox', backlog', x) + Ones(x = r)
  /\ \A x : Delivered(outbox', replies', x) = Delivered(outbox, replies, x)
  /\ Pending(inbox, backlog, r) > 1

LEMMA AcceptRenderCounts ==
  ASSUME ServiceTypes, ServiceTypes', AcceptRender, ~dropped
  PROVE  (\E r \in Request : SubmissionIsMerged(r)) \/ (\E batch : BatchIsAnswered(batch))
<1>1. /\ ChannelTypes /\ BacklogTypes /\ ChannelTypes' /\ BacklogTypes'
      /\ inbox \in Seq(Message) /\ backlog \in Seq(Request) /\ IsInjective(backlog)
      /\ replies \in Seq(Response) /\ outbox \in Seq(Response)
  BY DEF ServiceTypes, ChannelTypes, BacklogTypes
<1> DEFINE r == Head(inbox).request
<1>2. /\ outbox' = outbox
      /\ inbox # <<>> /\ Head(inbox).kind = "render" /\ inbox' = Tail(inbox)
      /\ backlog' = Bounded(Pushed(backlog, r))
      /\ replies' = Send(Superseded(Pushed(backlog, r)))
  BY DEF AcceptRender, Receive
<1>3. r \in Request
  BY <1>1, <1>2, ReceivedIsTyped
<1>4. \A x : CountIn(inbox, Asking(x)) = CountIn(inbox', Asking(x)) + Ones(x = r)
  BY <1>1, <1>2, ReadCounts
<1> HIDE DEF r
<1>5. \A x : CountIn(inbox', Asking(x)) \in Nat /\ CountIn(backlog, {x}) \in Nat
             /\ CountIn(backlog', {x}) \in Nat /\ Ones(x = r) \in Nat
  <2>1. inbox' \in Seq(Message) /\ backlog' \in Seq(Request)
    BY <1>1 DEF ChannelTypes, BacklogTypes
  <2>2. QED BY <1>1, <2>1, CountIsNatural DEF Ones
<1>6. CASE r \in ToSet(backlog)
  <2>1. backlog' = backlog /\ replies' = replies
    <3>1. Pushed(backlog, r) = backlog
      BY <1>6 DEF Pushed
    <3>2. ~(Len(backlog) > Capacity)
      BY <1>1, LenProperties, RenderServiceAssumption DEF BacklogTypes
    <3>3. Bounded(backlog) = backlog /\ Superseded(backlog) = <<>>
      BY <3>2 DEF Bounded, Superseded
    <3>4. Send(<<>>) = replies
      BY <1>1, ConcatEmptySeq DEF Send
    <3>5. QED BY <1>2, <3>1, <3>3, <3>4
  <2>2. \A x : Pending(inbox, backlog, x) = Pending(inbox', backlog', x) + Ones(x = r)
    BY <1>4, <1>5, <2>1 DEF Pending
  <2>3. \A x : Delivered(outbox', replies', x) = Delivered(outbox, replies, x)
    BY <1>2, <2>1
  <2>4. Pending(inbox, backlog, r) > 1
    <3>1. CountIn(backlog, {r}) = 1 /\ Ones(r = r) = 1
      BY <1>1, <1>6, QueueCounts DEF Ones
    <3>2. QED BY <1>4, <1>5, <3>1 DEF Pending
  <2>5. SubmissionIsMerged(r)
    BY <2>2, <2>3, <2>4 DEF SubmissionIsMerged
  <2>6. QED BY <1>3, <2>5
<1>7. CASE r \notin ToSet(backlog)
  <2> DEFINE q == Append(backlog, r)
  <2>1. q \in Seq(Request) /\ q # <<>> /\ Pushed(backlog, r) = q
    BY <1>1, <1>3, <1>7, AppendProperties DEF Pushed
  <2>2. ASSUME NEW x PROVE CountIn(q, {x}) = CountIn(backlog, {x}) + Ones(x = r)
    <3>1. Ones(r \in {x}) = Ones(x = r)
      BY DEF Ones
    <3>2. QED BY <1>1, <1>3, <3>1, CountAppend
  <2> HIDE DEF q
  <2>3. CASE ~(Len(q) > Capacity)
    <3>1. backlog' = q /\ Superseded(q) = <<>>
      BY <1>2, <2>1, <2>3 DEF Bounded, Superseded
    <3>2. replies' = replies
      BY <1>1, <1>2, <2>1, <3>1, ConcatEmptySeq DEF Send
    <3>3. ASSUME NEW x
          PROVE  Pending(inbox, backlog, x) = Pending(inbox', backlog', x) + Ones(x \in {})
      <4> DEFINE here == CountIn(inbox, Asking(x))
                 left == CountIn(inbox', Asking(x))
                 kept == CountIn(backlog, {x})
                 held == CountIn(backlog', {x})
                 one == Ones(x = r)
      <4>1. here = left + one
        BY <1>4
      <4>2. held = kept + one
        BY <2>2, <3>1
      <4>3. left \in Nat /\ kept \in Nat /\ held \in Nat /\ one \in Nat
        BY <1>5
      <4>4. Pending(inbox', backlog', x) = left + held /\ Pending(inbox, backlog, x) = here + kept
        BY DEF Pending
      <4>5. Ones(x \in {}) = 0
        BY DEF Ones
      <4> HIDE DEF here, left, kept, held, one
      <4>6. here + kept = (left + held) + 0
        BY <4>1, <4>2, <4>3
      <4>7. QED BY <4>4, <4>5, <4>6
    <3>4. ASSUME NEW x
          PROVE  Delivered(outbox', replies', x) = Delivered(outbox, replies, x) + Ones(x \in {})
      <4>1. Delivered(outbox, replies, x) \in Nat
        BY <1>1, DeliveredAdds
      <4>2. Ones(x \in {}) = 0
        BY DEF Ones
      <4>3. QED BY <1>2, <3>2, <4>1, <4>2
    <3>5. BatchIsAnswered({})
      BY <3>3, <3>4 DEF BatchIsAnswered
    <3>6. QED BY <3>5
  <2>4. CASE Len(q) > Capacity
    <3> DEFINE h == Head(q)
    <3>1. h \in Request /\ Tail(q) \in Seq(Request)
      BY <2>1, HeadTailProperties
    <3>2. backlog' = Tail(q) /\ Superseded(q) = <<Failed(h)>>
      BY <1>2, <2>1, <2>4 DEF Bounded, Superseded
    <3>3. \A x : CountIn(q, {x}) = CountIn(backlog', {x}) + Ones(x \in {h})
      <4>1. \A x : Ones(h \in {x}) = Ones(x \in {h})
        BY DEF Ones
      <4>2. QED BY <2>1, <3>2, <4>1, CountTail
    <3>4. Failed(h) \in Response /\ Failed(h).request = h
      BY <3>1, AnswersAreTyped DEF Failed
    <3> HIDE DEF h
    <3>5. replies' = Append(replies, Failed(h))
      <4>1. Append(replies, Failed(h)) = replies \o <<Failed(h)>>
        BY <1>1, <3>4, AppendIsConcat
      <4>2. QED BY <1>2, <2>1, <3>2, <4>1 DEF Send
    <3>6. ASSUME NEW x
          PROVE  Pending(inbox, backlog, x) = Pending(inbox', backlog', x) + Ones(x \in {h})
      <4> DEFINE here == CountIn(inbox, Asking(x))
                 left == CountIn(inbox', Asking(x))
                 kept == CountIn(backlog, {x})
                 held == CountIn(backlog', {x})
                 long == CountIn(q, {x})
                 one == Ones(x = r)
                 head == Ones(x \in {h})
      <4>1. here = left + one
        BY <1>4
      <4>2. long = kept + one
        BY <2>2
      <4>3. long = held + head
        BY <3>3
      <4>4. left \in Nat /\ kept \in Nat /\ held \in Nat /\ one \in Nat
        BY <1>5
      <4>5. head \in Nat
        BY DEF Ones
      <4>6. Pending(inbox', backlog', x) = left + held /\ Pending(inbox, backlog, x) = here + kept
        BY DEF Pending
      <4> HIDE DEF here, left, kept, held, one, long, head
      <4>7. here + kept = (left + held) + head
        BY <4>1, <4>2, <4>3, <4>4, <4>5
      <4>8. QED BY <4>6, <4>7 DEF head
    <3>7. ASSUME NEW x
          PROVE  Delivered(outbox', replies', x)
                   = Delivered(outbox, replies, x) + Ones(x \in {h})
      <4>1. Ones(x \in {h}) = Ones(x = h)
        BY DEF Ones
      <4>2. QED BY <1>1, <1>2, <3>4, <3>5, <4>1, AnsweredCounts
    <3>8. BatchIsAnswered({h})
      BY <3>6, <3>7 DEF BatchIsAnswered
    <3>9. QED BY <3>8
  <2>5. QED BY <2>3, <2>4
<1>8. QED BY <1>6, <1>7

\* A merge is one of the contract's, or nobody can see it.
LEMMA MergeFitsContract ==
  ASSUME ServiceTypes, ServiceTypes', ~dropped, ~dropped', phase # "gone", phase' # "gone",
         NEW r \in Request, SubmissionIsMerged(r)
  PROVE  Contract!Next \/ UNCHANGED Contract!contractVars
<1>1. AnsweredNow' = AnsweredNow
  BY MappedNow, MappedNext DEF SubmissionIsMerged
<1>2. Serving' = Serving
  BY DEF Serving
<1>3. \A x : Pending(inbox, backlog, x) = Pending(inbox', backlog', x) + Ones(x = r)
  BY DEF SubmissionIsMerged
<1>4. \A x : Pending(inbox', backlog', x) \in Nat
  BY PendingIsNatural DEF ServiceTypes, ChannelTypes, BacklogTypes
<1>5. CASE r \in Requests
  <2>1. WaitingNow[r] > 1
    BY <1>5, MappedNow DEF SubmissionIsMerged
  <2>2. WaitingNow' = Contract!Diff(WaitingNow, Contract!One(r))
    <3>1. ASSUME NEW x \in Requests
          PROVE  Pending(inbox', backlog', x) = Pending(inbox, backlog, x) - Ones(x = r)
      <4> DEFINE now == Pending(inbox, backlog, x)
                 next == Pending(inbox', backlog', x)
                 one == Ones(x = r)
      <4>1. now = next + one
        BY <1>3
      <4>2. next \in Nat /\ one \in Nat
        BY <1>4 DEF Ones
      <4> HIDE DEF now, next, one
      <4>3. next = now - one
        BY <4>1, <4>2
      <4>4. QED BY <4>3 DEF now, next, one
    <3>2. QED BY <3>1, MappedNow, MappedNext DEF Contract!Diff, Contract!One, Ones
  <2>3. Contract!Merge(r)
    BY <1>1, <1>2, <2>1, <2>2 DEF Contract!Merge
  <2>4. QED BY <1>5, <2>3 DEF Contract!Next
<1>6. CASE r \notin Requests
  <2>1. \A x \in Requests : Ones(x = r) = 0
    BY <1>6 DEF Ones
  <2>2. \A x \in Requests : Pending(inbox', backlog', x) = Pending(inbox, backlog, x)
    BY <1>3, <1>4, <2>1
  <2>3. WaitingNow' = WaitingNow
    BY <2>2, MappedNow, MappedNext
  <2>4. QED BY <1>1, <1>2, <2>3 DEF Contract!contractVars
<1>7. QED BY <1>5, <1>6

LEMMA AcceptRenderFitsContract ==
  ASSUME SessionTypes, SessionTypes', AcceptRender
  PROVE  Contract!Next \/ UNCHANGED Contract!contractVars
<1>1. ServiceTypes /\ ServiceTypes'
  BY DEF SessionTypes, ServiceTypes
<1>2. /\ phase = "accepting" /\ phase' = phase /\ dropped' = dropped /\ outbox' = outbox
      /\ replies' = Send(Superseded(Pushed(backlog, Head(inbox).request)))
  BY DEF AcceptRender, Receive
<1>3. CASE dropped
  <2>1. replies' = replies
    BY <1>2, <1>3 DEF Send
  <2>2. QED BY <1>2, <1>3, <2>1, NothingShows
<1>4. CASE ~dropped
  <2>1. CASE \E r \in Request : SubmissionIsMerged(r)
    BY <1>1, <1>2, <1>4, <2>1, MergeFitsContract
  <2>2. CASE \E batch : BatchIsAnswered(batch)
    BY <1>1, <1>2, <1>4, <2>2, BatchAnswered DEF ServiceTypes, BatchIsAnswered
  <2>3. QED BY <1>1, <1>4, <2>1, <2>2, AcceptRenderCounts
<1>5. QED BY <1>3, <1>4

LEMMA AcceptRebindFitsContract ==
  ASSUME SessionTypes, SessionTypes', AcceptRebind
  PROVE  Contract!Next \/ UNCHANGED Contract!contractVars
<1>1. /\ ChannelTypes /\ BacklogTypes /\ ChannelTypes' /\ BacklogTypes'
      /\ inbox \in Seq(Message) /\ backlog \in Seq(Request) /\ IsInjective(backlog)
      /\ replies \in Seq(Response) /\ outbox \in Seq(Response)
  BY DEF SessionTypes, ChannelTypes, BacklogTypes
<1>2. /\ phase = "accepting" /\ phase' = phase /\ dropped' = dropped /\ outbox' = outbox
      /\ inbox # <<>> /\ Head(inbox).kind = "rebind" /\ inbox' = Tail(inbox)
      /\ backlog' = <<>>
      /\ replies' = Send(BacklogAnswers(backlog))
  BY DEF AcceptRebind, Receive, BacklogAnswers
<1>3. CASE dropped
  <2>1. replies' = replies
    BY <1>2, <1>3 DEF Send
  <2>2. QED BY <1>2, <1>3, <2>1, NothingShows
<1>4. CASE ~dropped
  <2>1. ASSUME NEW x
        PROVE  Pending(inbox, backlog, x)
                 = Pending(inbox', backlog', x) + Ones(x \in ToSet(backlog))
    <3>1. CountIn(inbox, Asking(x)) = CountIn(inbox', Asking(x))
      BY <1>1, <1>2, ReadCounts
    <3>2. CountIn(backlog, {x}) = Ones(x \in ToSet(backlog)) /\ CountIn(backlog', {x}) = 0
      BY <1>1, <1>2, QueueCounts, CountNothing
    <3>3. CountIn(inbox', Asking(x)) \in Nat
      BY <1>1, CountIsNatural DEF ChannelTypes
    <3>4. Ones(x \in ToSet(backlog)) \in Nat
      BY DEF Ones
    <3>5. QED BY <3>1, <3>2, <3>3, <3>4 DEF Pending
  <2>2. ASSUME NEW x
        PROVE  Delivered(outbox', replies', x)
                 = Delivered(outbox, replies, x) + Ones(x \in ToSet(backlog))
    <3> DEFINE a == BacklogAnswers(backlog)
    <3>1. a \in Seq(Response)
      BY <1>1, BacklogIsRefused
    <3>2. CountIn(a, AnswersTo(x)) = Ones(x \in ToSet(backlog))
      BY <1>1, QueueCounts
    <3> HIDE DEF a
    <3>3. replies' = replies \o a /\ replies \o a \in Seq(Response)
      BY <1>1, <1>2, <1>4, <3>1, ConcatProperties DEF Send, a
    <3>4. CountIn(replies \o a, AnswersTo(x))
            = CountIn(replies, AnswersTo(x)) + CountIn(a, AnswersTo(x))
      BY <1>1, <3>1, CountJoin
    <3>5. /\ Delivered(outbox, replies \o a, x)
               = CountIn(outbox, AnswersTo(x)) + CountIn(replies \o a, AnswersTo(x))
          /\ Delivered(outbox, replies, x)
               = CountIn(outbox, AnswersTo(x)) + CountIn(replies, AnswersTo(x))
          /\ CountIn(outbox, AnswersTo(x)) \in Nat /\ CountIn(replies, AnswersTo(x)) \in Nat
      BY ZenonT(60), <1>1, <3>3, DeliveredAdds
    <3>6. Ones(x \in ToSet(backlog)) \in Nat
      BY DEF Ones
    <3>7. QED BY <1>2, <3>2, <3>3, <3>4, <3>5, <3>6
  <2>3. QED BY <1>1, <1>2, <1>4, <2>1, <2>2, BatchAnswered
<1>5. QED BY <1>3, <1>4

\* Answering the newest pending request, one way or another.
LEMMA AnswerCounts ==
  ASSUME ServiceTypes, ServiceTypes', NEW r \in ToSet(backlog), NEW response \in Response,
         response.request = r, Answer(r, response)
  PROVE  BatchIsAnswered({r})
<1>1. /\ ChannelTypes /\ BacklogTypes /\ ChannelTypes' /\ BacklogTypes'
      /\ inbox \in Seq(Message) /\ backlog \in Seq(Request)
      /\ replies \in Seq(Response) /\ outbox \in Seq(Response)
  BY DEF ServiceTypes, ChannelTypes, BacklogTypes
<1>2. /\ outbox' = outbox /\ inbox' = inbox /\ r = Last(backlog)
      /\ backlog' = Front(backlog) /\ replies' = Append(replies, response)
  BY DEF Answer
<1>3. backlog # <<>>
  <2>1. DOMAIN <<>> = {}
    OBVIOUS
  <2>2. QED BY <2>1 DEF ToSet
<1>4. ASSUME NEW x
      PROVE  Pending(inbox, backlog, x) = Pending(inbox', backlog', x) + Ones(x \in {r})
  <2>1. CountIn(backlog, {x}) = CountIn(backlog', {x}) + Ones(r \in {x})
    BY <1>1, <1>2, <1>3, CountFront
  <2>2. Ones(r \in {x}) = Ones(x \in {r}) /\ Ones(x \in {r}) \in Nat
    BY DEF Ones
  <2>3. CountIn(inbox, Asking(x)) \in Nat /\ CountIn(backlog', {x}) \in Nat
    BY <1>1, CountIsNatural DEF BacklogTypes
  <2>4. QED BY <1>2, <2>1, <2>2, <2>3 DEF Pending
<1>5. ASSUME NEW x
      PROVE  Delivered(outbox', replies', x) = Delivered(outbox, replies, x) + Ones(x \in {r})
  <2>1. Ones(x \in {r}) = Ones(x = r)
    BY DEF Ones
  <2>2. QED BY <1>1, <1>2, <2>1, AnsweredCounts
<1>6. QED BY <1>4, <1>5 DEF BatchIsAnswered

LEMMA AnswerFitsContract ==
  ASSUME SessionTypes, SessionTypes', NEW r \in ToSet(backlog), NEW response \in Response,
         response.request = r, Answer(r, response)
  PROVE  Contract!Next
<1>1. ServiceTypes /\ ServiceTypes'
  BY DEF SessionTypes, ServiceTypes
<1>2. phase # "gone" /\ phase' # "gone" /\ ~dropped /\ ~dropped'
  BY DEF Answer
<1>3. BatchIsAnswered({r})
  BY <1>1, AnswerCounts
<1>4. QED BY <1>1, <1>2, <1>3, BatchAnswered DEF ServiceTypes, BatchIsAnswered

\* The three ways to serve a request are answers to it.
LEMMA ServingAnswers ==
  ASSUME ServiceTypes, ServeCached \/ ServeRasterized \/ ServeRefused
  PROVE  \E r \in ToSet(backlog), response \in Response :
           response.request = r /\ Answer(r, response)
<1>1. /\ backlog \in Seq(Request) /\ DOMAIN backlog = 1..Len(backlog)
      /\ tiles \in Seq(Entry) /\ snapshot \in Snapshot
  BY LenProperties DEF ServiceTypes, BacklogTypes, CacheTypes, ChannelTypes
<1>2. \A r \in ToSet(backlog) : r \in Request
  BY <1>1, ElementOfSeq DEF ToSet
<1>3. CASE ServeCached
  <2>1. PICK r \in ToSet(backlog) :
          Cached(tiles, r) /\ Answer(r, Ready(r, tiles[CachedAt(tiles, r)].tile))
    BY <1>3 DEF ServeCached
  <2>2. tiles[CachedAt(tiles, r)] \in Entry
    BY <1>1, <2>1, TouchedKeeps, ElementOfSeq
  <2> DEFINE response == Ready(r, tiles[CachedAt(tiles, r)].tile)
  <2>3. response \in Response /\ response.request = r
    BY <1>2, <2>2, AnswersAreTyped DEF Ready, Entry
  <2>4. Answer(r, response)
    BY <2>1
  <2> HIDE DEF response
  <2>5. QED BY <2>3, <2>4
<1>4. CASE ServeRasterized
  <2>1. PICK r \in ToSet(backlog) : Renderable(r) /\ Answer(r, Ready(r, Rasterized(r)))
    BY <1>4 DEF ServeRasterized
  <2>2. Rasterized(r) \in Tile
    BY <1>1, <1>2, <2>1, RasterizedIsTyped
  <2> DEFINE response == Ready(r, Rasterized(r))
  <2>3. response \in Response /\ response.request = r
    BY <1>2, <2>2, AnswersAreTyped DEF Ready
  <2>4. Answer(r, response)
    BY <2>1
  <2> HIDE DEF response
  <2>5. QED BY <2>3, <2>4
<1>5. CASE ServeRefused
  <2>1. PICK r \in ToSet(backlog) : Answer(r, Failed(r))
    BY <1>5 DEF ServeRefused
  <2>2. Failed(r) \in Response /\ Failed(r).request = r
    BY <1>2, AnswersAreTyped DEF Failed
  <2>3. QED BY <2>1, <2>2
<1>6. QED BY <1>3, <1>4, <1>5

LEMMA FailingFitsContract ==
  ASSUME SessionTypes, SessionTypes', FailRequest \/ FailRebind
  PROVE  Contract!Next \/ UNCHANGED Contract!contractVars
<1>1. /\ ChannelTypes /\ BacklogTypes /\ ChannelTypes' /\ BacklogTypes'
      /\ inbox \in Seq(Message) /\ replies \in Seq(Response) /\ outbox \in Seq(Response)
  BY DEF SessionTypes, ChannelTypes
<1>2. CASE FailRebind
  <2>1. /\ inbox # <<>> /\ Head(inbox).kind = "rebind" /\ inbox' = Tail(inbox)
        /\ UNCHANGED <<phase, dropped, backlog, replies, outbox>>
    BY <1>2 DEF FailRebind
  <2>2. \A x : CountIn(inbox', Asking(x)) = CountIn(inbox, Asking(x))
    BY <1>1, <2>1, ReadCounts
  <2>3. \A x : Pending(inbox', backlog', x) = Pending(inbox, backlog, x)
    BY <2>1, <2>2 DEF Pending
  <2>4. QED BY <2>1, <2>3, NothingShows
<1>3. CASE FailRequest
  <2> DEFINE r == Head(inbox).request
  <2>1. /\ inbox # <<>> /\ Head(inbox).kind = "render" /\ inbox' = Tail(inbox)
        /\ phase = "failing" /\ ~dropped /\ UNCHANGED <<phase, dropped, backlog, outbox>>
        /\ replies' = Append(replies, Failed(r))
    BY <1>3 DEF FailRequest
  <2>2. r \in Request
    BY <1>1, <2>1, ReceivedIsTyped
  <2>3. Failed(r) \in Response /\ Failed(r).request = r
    BY <2>2, AnswersAreTyped DEF Failed
  <2>4. ASSUME NEW x
        PROVE  Pending(inbox, backlog, x) = Pending(inbox', backlog', x) + Ones(x \in {r})
    <3>1. CountIn(inbox, Asking(x)) = CountIn(inbox', Asking(x)) + Ones(x = r)
      BY <1>1, <2>1, ReadCounts
    <3>2. Ones(x \in {r}) = Ones(x = r) /\ Ones(x = r) \in Nat
      BY DEF Ones
    <3>3. CountIn(inbox', Asking(x)) \in Nat /\ CountIn(backlog, {x}) \in Nat
      BY <1>1, CountIsNatural DEF ChannelTypes, BacklogTypes
    <3>4. QED BY <2>1, <3>1, <3>2, <3>3 DEF Pending
  <2>5. ASSUME NEW x
        PROVE  Delivered(outbox', replies', x)
                 = Delivered(outbox, replies, x) + Ones(x \in {r})
    <3>1. Ones(x \in {r}) = Ones(x = r)
      BY DEF Ones
    <3>2. QED BY <1>1, <2>1, <2>3, <3>1, AnsweredCounts
  <2>6. ~dropped' /\ phase # "gone" /\ phase' # "gone"
    BY <2>1
  <2> HIDE DEF r
  <2>7. QED BY <1>1, <2>1, <2>4, <2>5, <2>6, BatchAnswered
<1>4. QED BY <1>2, <1>3

LEMMA EndFitsContract ==
  ASSUME Exit, replies' = replies
  PROVE  Contract!Next
<1>1. ~Serving' /\ inbox' = <<>> /\ backlog' = <<>> /\ outbox' = outbox
  BY DEF Exit, Serving
<1>2. QED BY <1>1, ServiceStops

LEMMA WorkFitsContract ==
  ASSUME SessionTypes, SessionTypes', Worker
  PROVE  Contract!Next \/ UNCHANGED Contract!contractVars
<1>1. CASE OpenFile \/ StopAccepting
  <2>1. /\ UNCHANGED <<dropped, inbox, backlog, replies, outbox>>
        /\ phase # "gone" /\ phase' # "gone"
    BY <1>1 DEF OpenFile, StopAccepting
  <2>2. QED BY <2>1, NothingShows
<1>2. CASE AcceptRender
  BY <1>2, AcceptRenderFitsContract
<1>3. CASE AcceptRebind
  BY <1>3, AcceptRebindFitsContract
<1>4. CASE AcceptShutdown \/ ServeNobody \/ FailExit
  BY <1>4, EndFitsContract DEF AcceptShutdown, ServeNobody, FailExit
<1>5. CASE ServeCached \/ ServeRasterized \/ ServeRefused
  <2>1. ServiceTypes
    BY DEF SessionTypes, ServiceTypes
  <2>2. PICK r \in ToSet(backlog), response \in Response :
          response.request = r /\ Answer(r, response)
    BY <1>5, <2>1, ServingAnswers
  <2>3. QED BY <2>2, AnswerFitsContract
<1>6. CASE FailRequest \/ FailRebind
  BY <1>6, FailingFitsContract
<1>7. QED BY <1>1, <1>2, <1>3, <1>4, <1>5, <1>6 DEF Worker

\* Every step is one of the contract's or shows nothing of it.
LEMMA StepFitsContract ==
  SessionTypes /\ SessionTypes' /\ [Next]_vars => [Contract!Next]_Contract!contractVars
<1> SUFFICES ASSUME SessionTypes, SessionTypes', [Next]_vars
             PROVE  Contract!Next \/ UNCHANGED Contract!contractVars
  OBVIOUS
<1>1. CASE Edit
  BY <1>1, EditFitsContract
<1>2. CASE Ask
  BY <1>2, AskFitsContract
<1>3. CASE Collect
  BY <1>3, CollectFitsContract
<1>4. CASE Drop
  <2>1. ~Serving' /\ dropped' /\ outbox' = <<>> /\ replies' = <<>>
    BY <1>4 DEF Drop, DropHandle, Serving
  <2>2. QED BY <2>1, ServiceStops
<1>5. CASE Work
  BY <1>5, WorkFitsContract DEF Work
<1>6. CASE Die
  BY <1>6, EndFitsContract DEF Die, Panic
<1>7. CASE UNCHANGED vars
  <2>1. UNCHANGED <<dropped, phase, inbox, backlog, replies, outbox>>
    BY <1>7 DEF vars
  <2>2. QED BY <2>1, NothingShows
<1>8. QED BY <1>1, <1>2, <1>3, <1>4, <1>5, <1>6, <1>7 DEF Next

LEMMA StartFitsContract == Init => Contract!Init
<1> SUFFICES ASSUME Init PROVE Contract!Init
  OBVIOUS
<1>1. /\ phase = "opening" /\ dropped = FALSE /\ inbox = <<>> /\ backlog = <<>>
      /\ outbox = <<>> /\ replies = <<>>
  BY DEF Init, InitService
<1>2. <<>> \o <<>> = <<>>
  OBVIOUS
<1>3. \A x : Pending(<<>>, <<>>, x) = 0 /\ Delivered(<<>>, <<>>, x) = 0
  BY <1>2, CountNothing DEF Pending, Delivered
<1>4. WaitingNow = Contract!None /\ AnsweredNow = Contract!None
  BY <1>1, <1>3, MappedNow DEF Contract!None
<1>5. Serving = TRUE
  BY <1>1 DEF Serving
<1>6. QED BY <1>4, <1>5 DEF Contract!Init

\* The service keeps the contract of every render service, whatever it is asked, in
\* whatever order its thread and its caller move: each submission is answered once
\* or merged into an equal one that still waits, and an answer is to a submission
\* (RenderService::submit and poll).
THEOREM ServiceKeepsContract == Spec => KeepsContract
<1>1. Init => SessionTypes
  BY TypesHoldInitially
<1>2. QED
  BY <1>1, TypesAreKept, StartFitsContract, StepFitsContract, PTL
  DEF Spec, KeepsContract, Contract!Spec

-----------------------------------------------------------------------------
\* The viewer's tile caches: what each operation of a surface's cache makes of it.

\* A cache of the document at that revision: no tile, request in flight or refusal
\* of any other, and a request is at most one of the three.
CacheSound(c, revision) ==
  /\ c \in Cache
  /\ \A i \in 1..Len(c.entries) : c.entries[i].request.revision = revision
  /\ \A r \in c.pending \cup c.failed : r.revision = revision /\ ~Cached(c.entries, r)
  /\ c.pending \cap c.failed = {}

LEMMA CacheFields ==
  /\ \A c \in Cache : /\ c.entries \in Seq(Entry)
                      /\ c.pending \in SUBSET Request /\ c.failed \in SUBSET Request
  /\ \A entries \in Seq(Entry), pending \in SUBSET Request, failed \in SUBSET Request :
       [entries |-> entries, pending |-> pending, failed |-> failed] \in Cache
BY DEF Cache, Entry

\* A cache with fewer requests and no new entries.
LEMMA LesserCacheSound ==
  ASSUME NEW c, NEW revision, CacheSound(c, revision),
         NEW entries \in Seq(Entry), DrawnFrom(entries, c.entries),
         NEW pending \in SUBSET c.pending, NEW failed \in SUBSET c.failed
  PROVE  CacheSound([entries |-> entries, pending |-> pending, failed |-> failed], revision)
<1> DEFINE d == [entries |-> entries, pending |-> pending, failed |-> failed]
<1>1. d.entries = entries /\ d.pending = pending /\ d.failed = failed
  OBVIOUS
<1>2. c \in Cache /\ c.entries \in Seq(Entry)
  BY CacheFields DEF CacheSound
<1>3. d \in Cache
  <2>1. pending \in SUBSET Request /\ failed \in SUBSET Request
    BY <1>2, CacheFields
  <2>2. QED BY <2>1, CacheFields
<1> HIDE DEF d
<1>4. \A i \in 1..Len(entries) : entries[i].request.revision = revision
  BY DEF DrawnFrom, CacheSound
<1>5. DOMAIN entries = 1..Len(entries) /\ DOMAIN c.entries = 1..Len(c.entries)
  BY <1>2, LenProperties
<1>6. \A r : Cached(entries, r) => Cached(c.entries, r)
  BY <1>5 DEF Cached, DrawnFrom
<1>7. CacheSound(d, revision)
  BY <1>1, <1>3, <1>4, <1>6 DEF CacheSound
<1>8. QED BY <1>7 DEF d

LEMMA EmptyCacheSound ==
  ASSUME NEW revision
  PROVE  CacheSound(Empty, revision) /\ Empty.pending = {}
<1>1. <<>> \in Seq(Entry) /\ Len(<<>>) = 0
  BY EmptyHasNoBytes
<1>2. Empty \in Cache
  BY <1>1, CacheFields DEF Empty
<1>3. QED BY <1>1, <1>2 DEF CacheSound, Empty

\* TileCache::mark_pending: what is wanted is in neither of the others.
LEMMA MarkedSound ==
  ASSUME NEW c, NEW revision, CacheSound(c, revision), NEW rs \in SUBSET Request,
         \A r \in rs : Wants(c, r) /\ r.revision = revision
  PROVE  /\ CacheSound(Marked(c, rs), revision)
         /\ Marked(c, rs).entries = c.entries
         /\ Marked(c, rs).pending = c.pending \cup rs
         /\ rs \cap c.pending = {}
<1>1. c \in Cache
  BY DEF CacheSound
<1>2. rs = {r \in rs : Wants(c, r)}
  OBVIOUS
<1> DEFINE d == Marked(c, rs)
<1>3. /\ d.entries = c.entries /\ d.pending = c.pending \cup rs /\ d.failed = c.failed
      /\ d \in Cache
  BY <1>1, <1>2 DEF Marked, Cache
<1> HIDE DEF d
<1>4. \A r \in rs : ~Cached(c.entries, r) /\ r \notin c.pending /\ r \notin c.failed
  BY DEF Wants
<1>5. CacheSound(d, revision)
  BY <1>3, <1>4 DEF CacheSound
<1>6. QED BY <1>3, <1>4, <1>5 DEF d

\* TileCache::insert and note_failed of whatever request.
LEMMA OthersAreEntries ==
  ASSUME NEW c \in Seq(Entry), NEW r
  PROVE  Others(c, r) \in Seq(Entry)
<1>1. CASE Cached(c, r)
  <2>1. CachedAt(c, r) \in 1..Len(c)
    BY <1>1, TouchedKeeps
  <2>2. RemoveAt(c, CachedAt(c, r)) \in Seq(Entry)
    BY <2>1, RemoveAtProperties
  <2>3. QED BY <1>1, <2>2 DEF Others
<1>2. CASE ~Cached(c, r)
  BY <1>2 DEF Others
<1>3. QED BY <1>1, <1>2

LEMMA FiledIsTyped ==
  ASSUME NEW c \in Cache, NEW a \in Response
  PROVE  Filed(c, a) \in Cache
<1> DEFINE r == a.request
<1>1. r \in Request /\ (a.answer = "ready" => a.tile \in Tile)
  BY DEF Response
<1> HIDE DEF r
<1>2. [c EXCEPT !.pending = @ \ {r}] \in Cache /\ Refused(c, r) \in Cache
  BY <1>1 DEF Cache, Refused
<1>3. ASSUME a.answer = "ready" PROVE Stored(c, r, a.tile) \in Cache
  <2> DEFINE e == [request |-> r, tile |-> a.tile]
  <2>1. e \in Entry
    BY <1>1, <1>3 DEF Entry
  <2>2. Others(c.entries, r) \in Seq(Entry)
    BY CacheFields, OthersAreEntries
  <2> HIDE DEF e
  <2>3. Append(Others(c.entries, r), e) \in Seq(Entry)
    BY <2>1, <2>2, AppendProperties
  <2>4. c.pending \ {r} \in SUBSET Request /\ c.failed \ {r} \in SUBSET Request
    BY CacheFields
  <2>5. QED BY <2>3, <2>4, CacheFields DEF Stored, e
<1>4. QED BY <1>2, <1>3 DEF Filed, r

\* A response to the document drawn is filed where it is waited for, and one to an
\* older document anywhere.
KeptTile(a) == a.request.revision = document.revision /\ a.answer = "ready"

LEMMA FiledSound ==
  ASSUME NEW c, CacheSound(c, document.revision), NEW a \in Response,
         a.request.revision = document.revision => a.request \in c.pending
  PROVE  /\ CacheSound(Filed(c, a), document.revision)
         /\ Filed(c, a).pending = c.pending \ {a.request}
         /\ Len(Filed(c, a).entries) = Len(c.entries) + Ones(KeptTile(a))
<1> DEFINE r == a.request
           revision == document.revision
<1>1. r \in Request /\ (a.answer = "ready" => a.tile \in Tile)
  BY DEF Response
<1>2. /\ c \in Cache /\ c.entries \in Seq(Entry) /\ DOMAIN c.entries = 1..Len(c.entries)
      /\ c.pending \in SUBSET Request /\ c.failed \in SUBSET Request /\ Len(c.entries) \in Nat
  BY CacheFields, LenProperties DEF CacheSound
<1>3. CASE r.revision # revision
  <2> DEFINE d == [entries |-> c.entries, pending |-> c.pending \ {r}, failed |-> c.failed]
  <2>1. Filed(c, a) = d
    BY <1>2, <1>3 DEF Filed, Cache
  <2>2. DrawnFrom(c.entries, c.entries)
    BY DEF DrawnFrom
  <2>3. c.pending \ {r} \in SUBSET c.pending /\ c.failed \in SUBSET c.failed
    OBVIOUS
  <2>4. CacheSound(d, revision)
    BY <1>2, <2>2, <2>3, LesserCacheSound
  <2>5. Ones(KeptTile(a)) = 0
    BY <1>3 DEF Ones, KeptTile
  <2>6. QED BY <1>2, <2>1, <2>4, <2>5
<1>4. CASE r.revision = revision /\ a.answer = "ready"
  <2> DEFINE e == [request |-> r, tile |-> a.tile]
             entries == Append(c.entries, e)
             d == [entries |-> entries, pending |-> c.pending \ {r}, failed |-> c.failed \ {r}]
  <2>1. r \in c.pending /\ ~Cached(c.entries, r)
    BY <1>4 DEF CacheSound
  <2>2. Filed(c, a) = d
    BY <1>4, <2>1 DEF Filed, Stored, Others
  <2>3. e \in Entry /\ e.request = r
    BY <1>1, <1>4 DEF Entry
  <2>4. /\ entries \in Seq(Entry) /\ Len(entries) = Len(c.entries) + 1
        /\ \A i \in 1..Len(c.entries) : entries[i] = c.entries[i]
        /\ entries[Len(c.entries) + 1] = e
    BY <1>2, <2>3, AppendProperties
  <2>5. /\ d.entries = entries /\ d.pending = c.pending \ {r} /\ d.failed = c.failed \ {r}
    OBVIOUS
  <2>6. d \in Cache
    <3>1. c.pending \ {r} \in SUBSET Request /\ c.failed \ {r} \in SUBSET Request
      BY <1>2
    <3> HIDE DEF entries
    <3>2. QED BY <2>4, <3>1, CacheFields
  <2> HIDE DEF d, e, entries
  <2>7. DOMAIN entries = 1..Len(entries)
    BY <2>4, LenProperties
  <2>8. \A i \in 1..Len(entries) : i \in 1..Len(c.entries) \/ i = Len(c.entries) + 1
    BY <1>2, <2>4
  <2>9. \A i \in 1..Len(entries) : entries[i].request.revision = revision
    BY <1>4, <2>3, <2>4, <2>8 DEF CacheSound
  <2>10. \A q : q # r /\ Cached(entries, q) => Cached(c.entries, q)
    BY <1>2, <2>3, <2>4, <2>7, <2>8 DEF Cached
  <2>11. CacheSound(d, revision)
    BY <2>5, <2>6, <2>9, <2>10 DEF CacheSound
  <2>12. Ones(KeptTile(a)) = 1
    BY <1>4 DEF Ones, KeptTile
  <2>13. QED BY <2>2, <2>4, <2>5, <2>11, <2>12
<1>5. CASE r.revision = revision /\ a.answer # "ready"
  <2> DEFINE d == [entries |-> c.entries, pending |-> c.pending \ {r}, failed |-> c.failed \cup {r}]
  <2>1. r \in c.pending /\ ~Cached(c.entries, r)
    BY <1>5 DEF CacheSound
  <2>2. Filed(c, a) = d
    BY <1>2, <1>5 DEF Filed, Refused, Cache
  <2>3. /\ d.entries = c.entries /\ d.pending = c.pending \ {r} /\ d.failed = c.failed \cup {r}
    OBVIOUS
  <2>4. d \in Cache
    <3>1. c.pending \ {r} \in SUBSET Request /\ c.failed \cup {r} \in SUBSET Request
      BY <1>1, <1>2
    <3>2. QED BY <1>2, <3>1, CacheFields
  <2> HIDE DEF d
  <2>5. CacheSound(d, revision)
    BY <1>5, <2>1, <2>3, <2>4 DEF CacheSound
  <2>6. Ones(KeptTile(a)) = 0 /\ Len(c.entries) + 0 = Len(c.entries)
    BY <1>2, <1>5 DEF Ones, KeptTile
  <2>7. QED BY <2>2, <2>3, <2>5, <2>6
<1>6. QED BY <1>3, <1>4, <1>5

\* TileCache::retain_revision: only what is of the new revision stays.
LEMMA RetainedSound ==
  ASSUME NEW c, NEW old, CacheSound(c, old), NEW revision
  PROVE  /\ CacheSound(Retained(c, revision), revision)
         /\ Retained(c, revision).pending = {r \in c.pending : r.revision = revision}
<1> DEFINE d == Retained(c, revision)
           entries == OfRevision(c.entries, revision)
<1>1. c \in Cache /\ c.entries \in Seq(Entry)
  BY CacheFields DEF CacheSound
<1>2. /\ entries \in Seq(Entry) /\ DrawnFrom(entries, c.entries)
      /\ \A i \in 1..Len(entries) : entries[i].request.revision = revision
  BY <1>1, OfRevisionKeeps
<1>3. /\ d.entries = entries
      /\ d.pending = {r \in c.pending : r.revision = revision}
      /\ d.failed = {r \in c.failed : r.revision = revision}
  BY DEF Retained
<1>4. d \in Cache
  <2>1. /\ {r \in c.pending : r.revision = revision} \in SUBSET Request
        /\ {r \in c.failed : r.revision = revision} \in SUBSET Request
    BY <1>1, CacheFields
  <2> HIDE DEF entries
  <2>2. [entries |-> entries, pending |-> {r \in c.pending : r.revision = revision},
         failed |-> {r \in c.failed : r.revision = revision}] \in Cache
    BY <1>2, <2>1, CacheFields
  <2>3. QED BY <2>2 DEF Retained, entries
<1> HIDE DEF d, entries
<1>5. DOMAIN entries = 1..Len(entries) /\ DOMAIN c.entries = 1..Len(c.entries)
  BY <1>1, <1>2, LenProperties
<1>6. \A r : Cached(entries, r) => Cached(c.entries, r)
  BY <1>2, <1>5 DEF Cached, DrawnFrom
<1>7. CacheSound(d, revision)
  BY <1>2, <1>3, <1>4, <1>6 DEF CacheSound
<1>8. QED BY <1>3, <1>7 DEF d

\* TileCache::evict_to_budget: the tiles left are some of those there were.
LEMMA EvictedSound ==
  ASSUME NEW c, NEW revision, CacheSound(c, revision), NEW n \in Nat, n <= Len(c.entries)
  PROVE  CacheSound(Evicted(c, n), revision) /\ Evicted(c, n).pending = c.pending
<1> DEFINE e == c.entries
           size == Len(e)
           Left(k) == SubSeq(e, k + 1, size)
           Enough(k) == CachedBytes(Left(k)) <= CanvasBudget \/ k = size - n
           T == {k \in 0..(size - n) : Enough(k)}
           k == CHOOSE k \in 0..(size - n) :
                  /\ CachedBytes(Left(k)) <= CanvasBudget \/ k = size - n
                  /\ \A j \in 0..(k - 1) : CachedBytes(Left(j)) > CanvasBudget
<1>1. c \in Cache /\ e \in Seq(Entry) /\ size \in Nat /\ size - n \in 0..size
  BY CacheFields, LenProperties DEF CacheSound
<1>2. PICK m \in T : \A i \in T : m <= i
  <2>1. T \in SUBSET Nat /\ size - n \in T
    BY <1>1
  <2> HIDE DEF T
  <2>2. QED BY <2>1, LeastNumber
<1>3. ASSUME NEW j \in 0..(m - 1) PROVE CachedBytes(Left(j)) > CanvasBudget
  <2>1. j \in 0..(size - n) /\ ~(m <= j)
    BY <1>1, <1>2
  <2>2. j \notin T
    BY <1>2, <2>1
  <2>3. ~(CachedBytes(Left(j)) <= CanvasBudget)
    BY <2>1, <2>2
  <2>4. CachedBytes(Left(j)) \in Nat
    <3>1. j + 1 \in 1..(size + 1) /\ \A i \in (j + 1)..size : i \in 1..size
      BY <1>1, <2>1
    <3>2. \A i \in (j + 1)..size : e[i] \in Entry
      BY <1>1, <3>1, ElementOfSeq
    <3>3. Left(j) \in Seq(Entry)
      BY <1>1, <3>1, <3>2, SubSeqProperties
    <3>4. QED BY <3>3, BytesAreNatural
  <2>5. QED BY <2>3, <2>4, ViewerAssumption
<1>4. k \in 0..(size - n)
  <2>1. /\ m \in 0..(size - n) /\ (CachedBytes(Left(m)) <= CanvasBudget \/ m = size - n)
        /\ \A j \in 0..(m - 1) : CachedBytes(Left(j)) > CanvasBudget
    BY <1>2, <1>3
  <2> HIDE DEF Left, size
  <2>2. QED BY <2>1
<1>5. Evicted(c, n) = [c EXCEPT !.entries = Left(k)]
  BY DEF Evicted
<1> HIDE DEF k
<1>6. k + 1 \in 1..(size + 1) /\ (\A i \in (k + 1)..size : i \in 1..size) /\ size \in k..size
  BY <1>1, <1>4
<1>7. \A i \in (k + 1)..size : e[i] \in Entry
  BY <1>1, <1>6, ElementOfSeq
<1>8. Left(k) \in Seq(Entry) /\ DrawnFrom(Left(k), e)
  <2>1. /\ Left(k) \in Seq(Entry) /\ Len(Left(k)) = size - k
        /\ \A i \in 1..(size - k) : Left(k)[i] = e[k + i]
    BY <1>1, <1>4, <1>6, <1>7, SubSeqProperties
  <2>2. \A i \in 1..(size - k) : k + i \in 1..size
    BY <1>1, <1>4
  <2>3. QED BY <2>1, <2>2 DEF DrawnFrom
<1>9. Evicted(c, n) = [entries |-> Left(k), pending |-> c.pending, failed |-> c.failed]
  BY <1>1, <1>5 DEF Cache
<1> HIDE DEF Left
<1>10. c.pending \in SUBSET c.pending /\ c.failed \in SUBSET c.failed
  OBVIOUS
<1>11. QED BY <1>8, <1>9, <1>10, LesserCacheSound

LEMMA TouchedLosesNothing ==
  ASSUME NEW c \in Seq(Entry), NEW r, Cached(c, r)
  PROVE  DrawnFrom(c, Touched(c, r))
<1> DEFINE k == CachedAt(c, r)
           left == RemoveAt(c, k)
           t == Append(left, c[k])
<1>1. k \in 1..Len(c) /\ Touched(c, r) = t
  BY TouchedKeeps DEF Touched
<1> HIDE DEF k
<1>2. Len(c) \in Nat /\ c[k] \in Entry
  BY <1>1, ElementOfSeq, LenProperties
<1>3. /\ left \in Seq(Entry) /\ Len(left) = Len(c) - 1
      /\ \A j \in 1..(Len(c) - 1) : left[j] = IF j < k THEN c[j] ELSE c[j + 1]
  BY <1>1, RemoveAtProperties
<1> HIDE DEF left
<1>4. /\ Len(t) = Len(c)
      /\ \A i \in 1..(Len(c) - 1) : t[i] = left[i]
      /\ t[Len(c)] = c[k]
  BY <1>2, <1>3, AppendProperties
<1> HIDE DEF t
<1>5. ASSUME NEW i \in 1..Len(c) PROVE \E j \in 1..Len(t) : c[i] = t[j]
  <2>1. CASE i < k
    <3>1. i \in 1..(Len(c) - 1) /\ i \in 1..Len(t)
      BY <1>1, <1>2, <1>4, <2>1
    <3>2. QED BY <1>3, <1>4, <2>1, <3>1
  <2>2. CASE i = k
    <3>1. Len(c) \in 1..Len(t)
      BY <1>2, <1>4
    <3>2. QED BY <1>4, <2>2, <3>1
  <2>3. CASE i > k
    <3>1. /\ i - 1 \in 1..(Len(c) - 1) /\ i - 1 \in 1..Len(t)
          /\ ~(i - 1 < k) /\ (i - 1) + 1 = i
      BY <1>1, <1>2, <1>4, <2>3
    <3>2. t[i - 1] = c[i]
      BY <1>3, <1>4, <3>1
    <3>3. QED BY <3>1, <3>2
  <2>4. QED BY <1>1, <2>1, <2>2, <2>3
<1>6. DrawnFrom(c, t)
  BY <1>5 DEF DrawnFrom
<1>7. QED BY <1>1, <1>6

LEMMA DrawnFromComposes ==
  ASSUME NEW a, NEW b, NEW c, DrawnFrom(a, b), DrawnFrom(b, c)
  PROVE  DrawnFrom(a, c)
<1>1. ASSUME NEW i \in 1..Len(a) PROVE \E j \in 1..Len(c) : a[i] = c[j]
  <2>1. PICK j \in 1..Len(b) : a[i] = b[j]
    BY DEF DrawnFrom
  <2>2. PICK k \in 1..Len(c) : b[j] = c[k]
    BY DEF DrawnFrom
  <2>3. QED BY <2>1, <2>2
<1>2. QED BY <1>1 DEF DrawnFrom

LEMMA CachedCarriesOver ==
  ASSUME NEW c \in Seq(Entry), NEW t \in Seq(Entry), DrawnFrom(c, t), NEW r, Cached(c, r)
  PROVE  Cached(t, r)
<1>1. DOMAIN c = 1..Len(c) /\ DOMAIN t = 1..Len(t)
  BY LenProperties
<1>2. QED BY <1>1 DEF Cached, DrawnFrom

\* TileCache::get of one request after the other: the entries change places.
Reordered(c) == {t \in Seq(Entry) : DrawnFrom(t, c) /\ DrawnFrom(c, t)}

LEMMA DrawnReorders ==
  ASSUME NEW c \in Cache, NEW rs, Len(rs) \in Nat,
         \A i \in 1..Len(rs) : Cached(c.entries, rs[i])
  PROVE  \E t \in Reordered(c.entries) : Drawn(c, rs) = [c EXCEPT !.entries = t]
<1> DEFINE n == Len(rs)
           e == c.entries
           S == Reordered(e)
           F == [p \in (1..n) \X S |-> Touched(p[2], rs[p[1]])]
           Step(f) == [i \in 0..n |-> IF i = 0 THEN e ELSE Touched(f[i - 1], rs[i])]
           drawn == CHOOSE f : f = Step(f)
<1>1. n \in Nat /\ e \in Seq(Entry) /\ e \in S
  BY CacheFields DEF Reordered, DrawnFrom
<1>2. ASSUME NEW i \in 1..n, NEW t \in S PROVE Touched(t, rs[i]) \in S
  <2>1. t \in Seq(Entry) /\ DrawnFrom(t, e) /\ DrawnFrom(e, t)
    BY DEF Reordered
  <2>2. Cached(t, rs[i])
    BY <1>1, <2>1, CachedCarriesOver
  <2> DEFINE u == Touched(t, rs[i])
  <2>3. u \in Seq(Entry) /\ DrawnFrom(u, t) /\ DrawnFrom(t, u)
    BY <2>1, <2>2, TouchedKeeps, TouchedLosesNothing
  <2> HIDE DEF u, e
  <2>4. DrawnFrom(u, e) /\ DrawnFrom(e, u)
    BY <2>1, <2>3, DrawnFromComposes
  <2>5. u \in S
    BY <2>3, <2>4 DEF Reordered
  <2>6. QED BY <2>5 DEF u
<1> HIDE DEF S
<1>3. F \in [(1..n) \X S -> S]
  BY <1>2
<1>4. PICK f : Recurs(n, S, e, F, f)
  <2> HIDE DEF F, n, e
  <2>1. QED BY <1>1, <1>3, RecursionDefines
<1>5. f \in [0..n -> S] /\ f[0] = e
  BY <1>4 DEF Recurs
<1>6. ASSUME NEW i \in 1..n PROVE f[i] = Touched(f[i - 1], rs[i])
  <2>1. i - 1 \in 0..n
    BY <1>1
  <2>2. <<i, f[i - 1]>> \in (1..n) \X S
    BY <1>5, <2>1
  <2>3. F[<<i, f[i - 1]>>] = Touched(f[i - 1], rs[i])
    BY <2>2
  <2>4. QED BY <1>4, <2>3 DEF Recurs
<1> HIDE DEF F
<1>7. f = Step(f)
  <2>1. \A i \in 0..n : i # 0 => i \in 1..n
    BY <1>1
  <2>2. \A i \in 0..n : f[i] = Step(f)[i]
    BY <1>5, <1>6, <2>1
  <2>3. f = [i \in 0..n |-> f[i]] /\ Step(f) = [i \in 0..n |-> Step(f)[i]]
    BY <1>5
  <2>4. QED BY <2>2, <2>3
<1>8. drawn = Step(drawn)
  BY <1>7
<1>9. Drawn(c, rs) = [c EXCEPT !.entries = drawn[n]]
  BY DEF Drawn
<1> HIDE DEF drawn
<1>10. drawn[0] = e /\ \A i \in 1..n : drawn[i] = Touched(drawn[i - 1], rs[i])
  <2>1. 0 \in 0..n /\ \A i \in 1..n : i \in 0..n /\ i # 0
    BY <1>1
  <2>2. \A i \in 0..n : Step(drawn)[i] = IF i = 0 THEN e ELSE Touched(drawn[i - 1], rs[i])
    OBVIOUS
  <2> HIDE DEF Step, n, e
  <2>3. \A i \in 0..n : drawn[i] = IF i = 0 THEN e ELSE Touched(drawn[i - 1], rs[i])
    BY <1>8, <2>2
  <2>4. QED BY <2>1, <2>3
<1> DEFINE T == {i \in Nat : i <= n => drawn[i] \in S}
<1>11. 0 \in T
  BY <1>1, <1>10
<1>12. ASSUME NEW i \in Nat, i \in T PROVE i + 1 \in T
  <2>1. CASE ~(i + 1 <= n)
    BY <2>1
  <2>2. CASE i + 1 <= n
    <3>1. i + 1 \in 1..n /\ (i + 1) - 1 = i /\ drawn[i] \in S
      BY <1>1, <1>12, <2>2
    <3>2. drawn[i + 1] = Touched(drawn[i], rs[i + 1])
      BY <1>10, <3>1
    <3>3. drawn[i + 1] \in S
      BY <1>2, <3>1, <3>2
    <3>4. QED BY <3>3
  <2>3. QED BY <2>1, <2>2
<1> HIDE DEF T
<1>13. n \in T
  BY <1>1, <1>11, <1>12, EveryNumber
<1>14. drawn[n] \in S
  BY <1>1, <1>13 DEF T
<1>15. QED BY <1>9, <1>14 DEF S

LEMMA DrawnSound ==
  ASSUME NEW c, NEW revision, CacheSound(c, revision), NEW rs, Len(rs) \in Nat,
         \A i \in 1..Len(rs) : Cached(c.entries, rs[i])
  PROVE  CacheSound(Drawn(c, rs), revision) /\ Drawn(c, rs).pending = c.pending
<1>1. c \in Cache
  BY DEF CacheSound
<1>2. PICK t \in Reordered(c.entries) : Drawn(c, rs) = [c EXCEPT !.entries = t]
  BY <1>1, DrawnReorders
<1>3. Drawn(c, rs) = [entries |-> t, pending |-> c.pending, failed |-> c.failed]
  BY <1>1, <1>2 DEF Cache
<1>4. /\ t \in Seq(Entry) /\ DrawnFrom(t, c.entries)
      /\ c.pending \in SUBSET c.pending /\ c.failed \in SUBSET c.failed
  BY DEF Reordered
<1>5. QED BY SMTT(60), <1>3, <1>4, LesserCacheSound

\* The elements of s in S, in their order: found in s, and no oftener than there.
Chosen(s, S, T, n, k) ==
  /\ k \in Seq(T)
  /\ \A i \in 1..Len(k) : k[i] \in S /\ \E j \in 1..n : k[i] = s[j]
  /\ IsInjective(s) => IsInjective(k)

LEMMA ChosenGoesOn ==
  ASSUME NEW T, NEW s \in Seq(T), NEW S, NEW n \in 1..Len(s), NEW k, Chosen(s, S, T, n - 1, k)
  PROVE  /\ Chosen(s, S, T, n, k)
         /\ s[n] \in S => Chosen(s, S, T, n, Append(k, s[n]))
<1>1. Len(s) \in Nat /\ DOMAIN s = 1..Len(s) /\ s[n] \in T
  BY ElementOfSeq, LenProperties
<1>2. k \in Seq(T) /\ Len(k) \in Nat /\ DOMAIN k = 1..Len(k)
  BY LenProperties DEF Chosen
<1>3. \A i \in 1..Len(k) : k[i] \in S /\ \E j \in 1..(n - 1) : k[i] = s[j]
  BY DEF Chosen
<1>4. \A j \in 1..(n - 1) : j \in 1..n /\ j \in 1..Len(s) /\ j # n
  BY <1>1
<1>5. Chosen(s, S, T, n, k)
  <2>1. \A i \in 1..Len(k) : k[i] \in S /\ \E j \in 1..n : k[i] = s[j]
    BY <1>3, <1>4
  <2>2. QED BY <2>1 DEF Chosen
<1>6. ASSUME s[n] \in S PROVE Chosen(s, S, T, n, Append(k, s[n]))
  <2> DEFINE l == Append(k, s[n])
  <2>1. /\ l \in Seq(T) /\ Len(l) = Len(k) + 1
        /\ \A i \in 1..Len(k) : l[i] = k[i]
        /\ l[Len(k) + 1] = s[n]
    BY <1>1, <1>2, AppendProperties
  <2> HIDE DEF l
  <2>2. DOMAIN l = 1..Len(l) /\ \A i \in 1..Len(l) : i \in 1..Len(k) \/ i = Len(k) + 1
    BY <1>2, <2>1, LenProperties
  <2>3. ASSUME NEW i \in 1..Len(l) PROVE l[i] \in S /\ \E j \in 1..n : l[i] = s[j]
    <3>1. CASE i \in 1..Len(k)
      <4>1. l[i] = k[i] /\ k[i] \in S
        BY <1>3, <2>1, <3>1
      <4>2. PICK j \in 1..(n - 1) : k[i] = s[j]
        BY <1>3, <3>1
      <4>3. QED BY <1>4, <4>1, <4>2
    <3>2. CASE i = Len(k) + 1
      <4>1. l[i] = s[n] /\ n \in 1..n
        BY <1>1, <2>1, <3>2
      <4>2. QED BY <1>6, <4>1
    <3>3. QED BY <2>2, <3>1, <3>2
  <2>4. ASSUME IsInjective(s) PROVE IsInjective(l)
    <3>1. \A i \in 1..Len(k) : k[i] # s[n]
      BY <1>1, <1>3, <1>4, <2>4 DEF IsInjective
    <3>2. \A i, j \in 1..Len(k) : k[i] = k[j] => i = j
      BY <1>2, <2>4 DEF Chosen, IsInjective
    <3>3. ASSUME NEW i \in 1..Len(l), NEW j \in 1..Len(l), l[i] = l[j] PROVE i = j
      BY <2>1, <2>2, <3>1, <3>2, <3>3
    <3>4. QED BY <2>2, <3>3 DEF IsInjective
  <2>5. Chosen(s, S, T, n, l)
    BY <2>1, <2>3, <2>4 DEF Chosen
  <2>6. QED BY <2>5 DEF l
<1>7. QED BY <1>5, <1>6

LEMMA AmongChooses ==
  ASSUME NEW T, NEW s \in Seq(T), NEW S
  PROVE  Chosen(s, S, T, Len(s), Among(s, S))
<1> DEFINE n == Len(s)
           Keep(i, k) == IF s[i] \in S THEN Append(k, s[i]) ELSE k
           F == [p \in (1..n) \X Seq(T) |-> Keep(p[1], p[2])]
           Step(k) == [i \in 0..n |-> IF i = 0 THEN <<>>
                                      ELSE IF s[i] \in S THEN Append(k[i - 1], s[i])
                                      ELSE k[i - 1]]
           kept == CHOOSE k : k = Step(k)
<1>1. n \in Nat /\ \A i \in 1..n : s[i] \in T
  BY ElementOfSeq, LenProperties
<1>2. F \in [(1..n) \X Seq(T) -> Seq(T)]
  <2>1. ASSUME NEW i \in 1..n, NEW k \in Seq(T) PROVE Keep(i, k) \in Seq(T)
    BY <1>1, AppendProperties
  <2> HIDE DEF Keep
  <2>2. QED BY <2>1
<1>3. PICK k : Recurs(n, Seq(T), <<>>, F, k)
  <2> HIDE DEF F, n
  <2>1. <<>> \in Seq(T)
    OBVIOUS
  <2>2. QED BY <1>1, <1>2, <2>1, RecursionDefines
<1>4. k \in [0..n -> Seq(T)] /\ k[0] = <<>>
  BY <1>3 DEF Recurs
<1>5. ASSUME NEW i \in 1..n PROVE k[i] = Keep(i, k[i - 1])
  <2>1. i - 1 \in 0..n
    BY <1>1
  <2>2. <<i, k[i - 1]>> \in (1..n) \X Seq(T)
    BY <1>4, <2>1
  <2>3. F[<<i, k[i - 1]>>] = Keep(i, k[i - 1])
    BY <2>2
  <2>4. QED BY <1>3, <2>3 DEF Recurs
<1>6. k = Step(k)
  <2>1. \A i \in 0..n : i # 0 => i \in 1..n
    BY <1>1
  <2>2. DOMAIN k = 0..n /\ DOMAIN Step(k) = 0..n
    BY <1>4
  <2>3. ASSUME NEW i \in 0..n PROVE k[i] = Step(k)[i]
    BY <1>4, <1>5, <2>1
  <2>4. k = [i \in 0..n |-> k[i]]
    BY <1>4
  <2> HIDE DEF F
  <2>5. QED BY <2>3, <2>4
<1>7. kept = Step(kept)
  BY <1>6
<1>8. Among(s, S) = kept[n]
  BY DEF Among
<1> HIDE DEF kept, F
<1>9. kept[0] = <<>> /\ \A i \in 1..n : kept[i] = Keep(i, kept[i - 1])
  <2>1. 0 \in 0..n /\ \A i \in 1..n : i \in 0..n /\ i # 0
    BY <1>1
  <2>2. \A i \in 0..n : Step(kept)[i] = IF i = 0 THEN <<>> ELSE Keep(i, kept[i - 1])
    OBVIOUS
  <2> HIDE DEF Step, Keep, n
  <2>3. \A i \in 0..n : kept[i] = IF i = 0 THEN <<>> ELSE Keep(i, kept[i - 1])
    BY <1>7, <2>2
  <2>4. QED BY <2>1, <2>3
<1> DEFINE C == {i \in Nat : i <= n => Chosen(s, S, T, i, kept[i])}
<1>10. 0 \in C
  <2>1. <<>> \in Seq(T) /\ Len(<<>>) = 0 /\ IsInjective(<<>>)
    BY DEF IsInjective
  <2>2. Chosen(s, S, T, 0, <<>>)
    BY <2>1 DEF Chosen
  <2>3. QED BY <1>9, <2>2
<1>11. ASSUME NEW i \in Nat, i \in C PROVE i + 1 \in C
  <2>1. CASE ~(i + 1 <= n)
    BY <2>1
  <2>2. CASE i + 1 <= n
    <3> HIDE DEF n
    <3>1. i + 1 \in 1..n /\ (i + 1) - 1 = i
      BY <1>1, <2>2
    <3>2. Chosen(s, S, T, i, kept[i])
      BY <1>11, <1>1, <2>2
    <3>3. kept[i + 1] = Keep(i + 1, kept[i])
      BY <1>9, <3>1
    <3>4. Chosen(s, S, T, i + 1, kept[i + 1])
      <4>1. PICK m \in 1..Len(s) : m = i + 1 /\ m - 1 = i
        BY <3>1 DEF n
      <4>2. PICK k1 : k1 = kept[i]
        OBVIOUS
      <4>3. Chosen(s, S, T, m - 1, k1)
        BY <3>2, <4>1, <4>2
      <4>4. Chosen(s, S, T, m, k1) /\ (s[m] \in S => Chosen(s, S, T, m, Append(k1, s[m])))
        BY <4>3, ChosenGoesOn
      <4>5. QED BY <3>3, <4>1, <4>2, <4>4
    <3>5. i + 1 \in Nat
      OBVIOUS
    <3> HIDE DEF Keep
    <3>6. QED BY <3>4, <3>5
  <2>3. QED BY <2>1, <2>2
<1> HIDE DEF C
<1>12. n \in C
  BY <1>1, <1>10, <1>11, EveryNumber
<1>13. QED BY <1>1, <1>8, <1>12 DEF C

-----------------------------------------------------------------------------
\* The viewer's requests

LEMMA RequestsAreTyped ==
  ASSUME document \in Document, NEW s \in Scales
  PROVE  /\ RequestsAt(s) \in SUBSET Request
         /\ IsFiniteSet(RequestsAt(s))
         /\ \A r \in RequestsAt(s) : r.revision = document.revision
         /\ \A i \in 1..Len(document.slots) :
              /\ RequestFor(document.slots[i].id, s) \in Request
              /\ RequestFor(document.slots[i].id, s).page = document.slots[i].id
         /\ Len(document.slots) \in Nat /\ DOMAIN document.slots = 1..Len(document.slots)
<1>1. /\ document.slots \in Seq(Slot) /\ document.revision \in Revision
      /\ Len(document.slots) \in Nat /\ DOMAIN document.slots = 1..Len(document.slots)
  BY LenProperties DEF Document
<1>2. \A i \in 1..Len(document.slots) : document.slots[i].id \in PageId
  <2>1. \A i \in 1..Len(document.slots) : document.slots[i] \in Slot
    BY <1>1, ElementOfSeq
  <2>2. QED BY <2>1 DEF Slot
<1>3. \A i \in 1..Len(document.slots) :
        /\ RequestFor(document.slots[i].id, s) \in Request
        /\ RequestFor(document.slots[i].id, s).page = document.slots[i].id
        /\ RequestFor(document.slots[i].id, s).revision = document.revision
  BY <1>1, <1>2 DEF RequestFor, Request
<1>4. RequestsAt(s) = {RequestFor(document.slots[i].id, s) : i \in 1..Len(document.slots)}
  BY <1>1 DEF RequestsAt, PagesShown
<1>5. IsFiniteSet(RequestsAt(s))
  <2> DEFINE f == [i \in 1..Len(document.slots) |-> RequestFor(document.slots[i].id, s)]
  <2>1. f \in [1..Len(document.slots) -> RequestsAt(s)]
    BY <1>4
  <2>2. \A r \in RequestsAt(s) : \E i \in 1..Len(document.slots) : f[i] = r
    BY <1>4
  <2> HIDE DEF f
  <2>3. f \in Surjection(1..Len(document.slots), RequestsAt(s))
    BY <2>1, <2>2 DEF Surjection
  <2>4. IsFiniteSet(1..Len(document.slots))
    BY <1>1, FS_Interval
  <2>5. QED BY <2>3, <2>4, FS_Surjection
<1>6. QED BY <1>1, <1>3, <1>4, <1>5

\* plan_render_requests: wanted requests, none of them twice.
LEMMA PlansAreSequences ==
  ASSUME NEW W \in SUBSET Request, IsFiniteSet(W), NEW plan \in Plans(W)
  PROVE  plan \in Seq(Request) /\ IsInjective(plan) /\ ToSet(plan) \in SUBSET W
<1> DEFINE n == IF Cardinality(W) < FrameRequests THEN Cardinality(W) ELSE FrameRequests
<1>1. n \in Nat
  BY FS_CardinalityType, ViewerAssumption
<1>2. PICK chosen \in SUBSET W : Cardinality(chosen) = n /\ plan \in SetToSeqs(chosen)
  BY DEF Plans
<1> HIDE DEF n
<1>3. /\ plan \in [1..n -> chosen]
      /\ \A i, j \in 1..n : i # j => plan[i] # plan[j]
  BY <1>2 DEF SetToSeqs
<1>4. DOMAIN plan = 1..n /\ plan \in Seq(Request)
  BY <1>1, <1>2, <1>3
<1>5. IsInjective(plan)
  BY <1>3, <1>4 DEF IsInjective
<1>6. ToSet(plan) \in SUBSET W
  BY <1>2, <1>3, <1>4 DEF ToSet
<1>7. QED BY <1>4, <1>5, <1>6

\* Submitting different requests asks once for each of them.
LEMMA RenderingCounts ==
  ASSUME NEW q \in Seq(Request), IsInjective(q)
  PROVE  /\ Rendering(q) \in Seq(Message)
         /\ \A i \in 1..Len(Rendering(q)) : Rendering(q)[i].kind = "render"
         /\ \A x : CountIn(Rendering(q), Asking(x)) = Ones(x \in ToSet(q))
<1> DEFINE n == Len(q)
           m == Rendering(q)
           same == [i \in 1..n |-> i]
<1>1. n \in Nat /\ DOMAIN q = 1..n /\ \A i \in 1..n : q[i] \in Request
  BY LenProperties, ElementOfSeq
<1>2. m = [i \in 1..n |-> [kind |-> "render", request |-> q[i]]]
  BY <1>1 DEF Rendering
<1>3. \A i \in 1..n : [kind |-> "render", request |-> q[i]] \in Message
  BY <1>1, MessagesAreTyped
<1> HIDE DEF n
<1>4. m \in Seq(Message) /\ Len(m) = n /\ \A i \in 1..n : m[i].kind = "render"
  BY <1>1, <1>2, <1>3
<1>5. ASSUME NEW x PROVE CountIn(m, Asking(x)) = Ones(x \in ToSet(q))
  <2>1. /\ same \in [1..n -> 1..n]
        /\ \A i, j \in 1..n : same[i] = same[j] => i = j
        /\ \A j \in 1..n : \E i \in 1..n : same[i] = j
        /\ \A i \in 1..n : m[i] \in Asking(x) <=> q[same[i]] = x
    BY <1>2 DEF Asking
  <2> HIDE DEF same, m
  <2>2. Placed(m, Asking(x), same, q, x, n)
    BY <1>1, <1>4, <2>1 DEF Placed
  <2>3. QED BY <2>2, CountInjective
<1>6. QED BY <1>4, <1>5

\* Something that is counted is there.
LEMMA CountedIsThere ==
  ASSUME NEW s, NEW T, CountIn(s, T) > 0
  PROVE  \E i \in 1..Len(s) : s[i] \in T
<1> SUFFICES ASSUME \A i \in 1..Len(s) : s[i] \notin T PROVE FALSE
  OBVIOUS
<1>1. {i \in 1..Len(s) : s[i] \in T} = {}
  OBVIOUS
<1>2. CountIn(s, T) = 0
  BY <1>1, FS_EmptySet DEF CountIn
<1>3. QED BY <1>2

\* How many elements of s from place n on are in T.
CountFrom(s, n, T) == CountIn(SubSeq(s, n, Len(s)), T)

LEMMA CountFromGoesOn ==
  ASSUME NEW S, NEW s \in Seq(S), NEW T
  PROVE  /\ CountFrom(s, 1, T) = CountIn(s, T)
         /\ CountFrom(s, Len(s) + 1, T) = 0
         /\ \A n \in 1..Len(s) :
              /\ CountFrom(s, n, T) = Ones(s[n] \in T) + CountFrom(s, n + 1, T)
              /\ CountFrom(s, n + 1, T) \in Nat
<1>1. Len(s) \in Nat /\ SubSeq(s, 1, Len(s)) = s /\ SubSeq(s, Len(s) + 1, Len(s)) = <<>>
  BY LenProperties, SubSeqFull, SubSeqEmpty
<1>2. ASSUME NEW n \in 1..Len(s)
      PROVE  /\ CountFrom(s, n, T) = Ones(s[n] \in T) + CountFrom(s, n + 1, T)
             /\ CountFrom(s, n + 1, T) \in Nat
  <2> DEFINE rest == SubSeq(s, n + 1, Len(s))
  <2>1. n + 1 \in 1..(Len(s) + 1) /\ Len(s) \in n..Len(s)
        /\ \A i \in (n + 1)..Len(s) : i \in 1..Len(s)
    BY <1>1
  <2>2. \A i \in (n + 1)..Len(s) : s[i] \in S
    BY <2>1, ElementOfSeq
  <2>3. rest \in Seq(S)
    BY <1>1, <2>1, <2>2, SubSeqProperties
  <2>4. SubSeq(s, n, Len(s)) = <<s[n]>> \o rest
    BY <2>1, SubSeqRecursiveFirst
  <2>5. s[n] \in S /\ <<s[n]>> \in Seq(S)
    BY ElementOfSeq
  <2> HIDE DEF rest
  <2>6. CountIn(<<s[n]>> \o rest, T) = CountIn(<<s[n]>>, T) + CountIn(rest, T)
    BY ZenonT(60), <2>3, <2>5, CountJoin
  <2>7. CountIn(<<s[n]>>, T) = Ones(s[n] \in T)
    BY CountOne
  <2>8. CountIn(rest, T) \in Nat
    BY <2>3, CountIsNatural
  <2>9. CountFrom(s, n, T) = CountIn(<<s[n]>> \o rest, T)
    BY <2>4 DEF CountFrom
  <2>10. CountFrom(s, n + 1, T) = CountIn(rest, T)
    BY DEF CountFrom, rest
  <2>11. QED BY <2>6, <2>7, <2>8, <2>9, <2>10
<1>3. QED BY <1>1, <1>2, CountNothing DEF CountFrom

-----------------------------------------------------------------------------
\* absorb_responses_routed: a response finds a cache that waits for it

\* What holds when the first n of the responses a are absorbed: no cache waits in vain,
\* for each request of the document there are no more submissions and answers to come
\* than caches that wait, and the canvas waits for none that has been answered.
AbsorbedSoFar(a, n, st) ==
  /\ CacheSound(st.canvas, document.revision)
  /\ CacheSound(st.rail, document.revision)
  /\ st.fresh \in Nat /\ st.fresh <= Len(st.canvas.entries)
  /\ \A x \in st.canvas.pending :
       x \in canvas.pending /\ \A i \in 1..n : a[i].request # x
  /\ \A x \in Request : x.revision >= document.revision =>
       Pending(inbox, backlog, x) + CountFrom(a, n + 1, AnswersTo(x))
         <= Ones(x \in st.canvas.pending) + Ones(x \in st.rail.pending)

LEMMA AbsorbedIsRouted ==
  ASSUME inbox \in Seq(Message), backlog \in Seq(Request), document \in Document,
         NEW a \in Seq(Response), NEW n \in 1..Len(a), NEW st, AbsorbedSoFar(a, n - 1, st)
  PROVE  LET r == a[n].request
         IN  /\ a[n] \in Response /\ r \in Request
             /\ r.revision >= document.revision => r \in st.canvas.pending \/ r \in st.rail.pending
             /\ \A x \in Request : x.revision >= document.revision =>
                  Pending(inbox, backlog, x) + CountFrom(a, n + 1, AnswersTo(x)) + Ones(x = r)
                    <= Ones(x \in st.canvas.pending) + Ones(x \in st.rail.pending)
<1> DEFINE r == a[n].request
           Rest(x) == CountFrom(a, n + 1, AnswersTo(x))
           Asked(x) == Pending(inbox, backlog, x)
<1>1. a[n] \in Response /\ r \in Request /\ n - 1 + 1 = n
  <2>1. a[n] \in Response
    BY ElementOfSeq
  <2>2. QED BY <2>1 DEF Response
<1>2. ASSUME NEW x \in Request, x.revision >= document.revision
      PROVE  /\ Asked(x) \in Nat /\ Rest(x) \in Nat
             /\ Asked(x) + Rest(x) + Ones(x = r)
                  <= Ones(x \in st.canvas.pending) + Ones(x \in st.rail.pending)
  <2> DEFINE here == CountFrom(a, n, AnswersTo(x))
             asked == Asked(x)
             rest == Rest(x)
             one == Ones(x = r)
             waiting == Ones(x \in st.canvas.pending) + Ones(x \in st.rail.pending)
  <2>1. asked \in Nat
    BY PendingIsNatural
  <2>2. here = Ones(a[n] \in AnswersTo(x)) + rest /\ rest \in Nat
    BY CountFromGoesOn
  <2>3. Ones(a[n] \in AnswersTo(x)) = one /\ one \in Nat
    BY <1>1 DEF AnswersTo, Ones
  <2>4. asked + here <= waiting
    BY <1>1, <1>2 DEF AbsorbedSoFar
  <2>5. waiting \in Nat
    BY DEF Ones
  <2> HIDE DEF here, asked, rest, one, waiting
  <2>6. asked + rest + one <= waiting
    BY <2>1, <2>2, <2>3, <2>4, <2>5
  <2>7. QED BY <2>1, <2>2, <2>6 DEF asked, rest, one, waiting
<1>3. ASSUME r.revision >= document.revision
      PROVE  r \in st.canvas.pending \/ r \in st.rail.pending
  <2>1. Asked(r) \in Nat /\ Rest(r) \in Nat
        /\ Asked(r) + Rest(r) + Ones(r = r)
             <= Ones(r \in st.canvas.pending) + Ones(r \in st.rail.pending)
    BY <1>1, <1>2, <1>3
  <2>2. Ones(r = r) = 1
    BY DEF Ones
  <2> HIDE DEF Asked, Rest, r
  <2>3. QED BY <2>1, <2>2 DEF Ones
<1>4. QED BY <1>1, <1>2, <1>3

LEMMA AbsorbedGoesOn ==
  ASSUME inbox \in Seq(Message), backlog \in Seq(Request), document \in Document,
         NEW a \in Seq(Response), NEW n \in 1..Len(a), NEW canvasNow, NEW railNow, NEW freshNow,
         AbsorbedSoFar(a, n - 1, [canvas |-> canvasNow, rail |-> railNow, fresh |-> freshNow])
  PROVE  AbsorbedSoFar(a, n,
           Absorbed([canvas |-> canvasNow, rail |-> railNow, fresh |-> freshNow], a[n]))
<1> DEFINE st == [canvas |-> canvasNow, rail |-> railNow, fresh |-> freshNow]
           r == a[n].request
           rev == document.revision
           toRail == r \notin canvasNow.pending /\ r \in railNow.pending
           newCanvas == IF toRail THEN canvasNow ELSE Filed(canvasNow, a[n])
           newRail == IF toRail THEN Filed(railNow, a[n]) ELSE railNow
           newFresh == IF toRail THEN freshNow ELSE freshNow + Ones(KeptTile(a[n]))
           new == [canvas |-> newCanvas, rail |-> newRail, fresh |-> newFresh]
<1>1. st.canvas = canvasNow /\ st.rail = railNow /\ st.fresh = freshNow
  OBVIOUS
<1>2. new.canvas = newCanvas /\ new.rail = newRail /\ new.fresh = newFresh
  OBVIOUS
<1>3. Absorbed(st, a[n]) = new
  BY DEF Absorbed, Ones, KeptTile
<1> HIDE DEF st, new
<1>4. /\ a[n] \in Response /\ r \in Request
      /\ r.revision >= rev => r \in canvasNow.pending \/ r \in railNow.pending
      /\ \A x \in Request : x.revision >= rev =>
           Pending(inbox, backlog, x) + CountFrom(a, n + 1, AnswersTo(x)) + Ones(x = r)
             <= Ones(x \in canvasNow.pending) + Ones(x \in railNow.pending)
  BY <1>1, AbsorbedIsRouted DEF st
<1>5. /\ CacheSound(canvasNow, rev) /\ CacheSound(railNow, rev)
      /\ freshNow \in Nat /\ freshNow <= Len(canvasNow.entries)
      /\ \A x \in canvasNow.pending :
           x \in canvas.pending /\ \A i \in 1..(n - 1) : a[i].request # x
  BY <1>1 DEF AbsorbedSoFar
<1>6. rev \in Nat /\ r.revision \in Nat /\ Len(canvasNow.entries) \in Nat
  <2>1. Revision \in SUBSET Nat
    BY PageMapAssumption DEF Revision
  <2>2. document.revision \in Revision /\ r.revision \in Revision
    BY <1>4 DEF Document, Request
  <2>3. QED BY <1>5, <2>1, <2>2, CacheFields, LenProperties DEF CacheSound
<1>7. r.revision = rev => r.revision >= rev
  BY <1>6
\* The cache it is filed in, and the other.
<1>8. /\ CacheSound(newCanvas, rev) /\ CacheSound(newRail, rev)
      /\ newFresh \in Nat /\ newFresh <= Len(newCanvas.entries)
      /\ newCanvas.pending = canvasNow.pending \ {r}
      /\ toRail => newRail.pending = railNow.pending \ {r}
      /\ ~toRail => newRail.pending = railNow.pending
  <2>1. CASE toRail
    <3>1. newCanvas = canvasNow /\ newRail = Filed(railNow, a[n]) /\ newFresh = freshNow
      BY <2>1
    <3>2. CacheSound(newRail, rev) /\ newRail.pending = railNow.pending \ {r}
      BY <1>4, <1>5, <2>1, <3>1, FiledSound
    <3>3. canvasNow.pending = canvasNow.pending \ {r}
      BY <2>1
    <3>4. QED BY <1>5, <2>1, <3>1, <3>2, <3>3
  <2>2. CASE ~toRail
    <3>1. /\ newCanvas = Filed(canvasNow, a[n]) /\ newRail = railNow
          /\ newFresh = freshNow + Ones(KeptTile(a[n]))
      BY <2>2
    <3>2. r.revision = rev => r \in canvasNow.pending
      BY <1>4, <1>7, <2>2
    <3>3. /\ CacheSound(newCanvas, rev) /\ newCanvas.pending = canvasNow.pending \ {r}
          /\ Len(newCanvas.entries) = Len(canvasNow.entries) + Ones(KeptTile(a[n]))
      BY <1>4, <1>5, <3>1, <3>2, FiledSound
    <3>4. Ones(KeptTile(a[n])) \in Nat
      BY DEF Ones
    <3>5. newFresh \in Nat /\ newFresh <= Len(newCanvas.entries)
      BY <1>5, <1>6, <3>1, <3>3, <3>4
    <3>6. QED BY <1>5, <2>2, <3>1, <3>3, <3>5
  <2>3. QED BY <2>1, <2>2
<1> HIDE DEF newCanvas, newRail, newFresh
<1>9. ASSUME NEW x \in newCanvas.pending
      PROVE  x \in canvas.pending /\ \A i \in 1..n : a[i].request # x
  <2>1. x \in canvasNow.pending /\ x # r
    BY <1>8, <1>9
  <2>2. \A i \in 1..n : i \in 1..(n - 1) \/ i = n
    OBVIOUS
  <2>3. QED BY <1>5, <2>1, <2>2
<1>10. ASSUME NEW x \in Request, x.revision >= rev
       PROVE  Pending(inbox, backlog, x) + CountFrom(a, n + 1, AnswersTo(x))
                <= Ones(x \in newCanvas.pending) + Ones(x \in newRail.pending)
  <2> DEFINE asked == Pending(inbox, backlog, x)
             rest == CountFrom(a, n + 1, AnswersTo(x))
  <2>1. asked \in Nat /\ rest \in Nat
    BY PendingIsNatural, CountFromGoesOn
  <2>2. asked + rest + Ones(x = r) <= Ones(x \in canvasNow.pending) + Ones(x \in railNow.pending)
    BY <1>4, <1>10
  <2> HIDE DEF asked, rest, r
  <2>3. CASE x # r
    <3>1. /\ x \in newCanvas.pending <=> x \in canvasNow.pending
      BY <1>8, <2>3
    <3>2. x \in newRail.pending <=> x \in railNow.pending
      BY <1>8, <2>3
    <3>3. asked + rest <= Ones(x \in newCanvas.pending) + Ones(x \in newRail.pending)
      BY <2>1, <2>2, <2>3, <3>1, <3>2 DEF Ones
    <3>4. QED BY <3>3 DEF asked, rest
  <2>4. CASE x = r
    <3>1. x \notin newCanvas.pending
      BY <1>8, <2>4
    <3>2. asked + rest + 1 <= Ones(x \in canvasNow.pending) + Ones(x \in railNow.pending)
      BY <2>2, <2>4 DEF Ones
    <3>3. asked + rest <= Ones(x \in newCanvas.pending) + Ones(x \in newRail.pending)
      <4>1. CASE toRail
        <5>1. x \notin newRail.pending /\ x \notin canvasNow.pending /\ x \in railNow.pending
          BY <1>8, <2>4, <4>1
        <5>2. QED BY <2>1, <3>1, <3>2, <5>1 DEF Ones
      <4>2. CASE ~toRail
        <5>1. x \in newRail.pending <=> x \in railNow.pending
          BY <1>8, <4>2
        <5>2. x \in canvasNow.pending
          BY <1>4, <1>10, <2>4, <4>2
        <5>3. QED BY <2>1, <3>1, <3>2, <5>1, <5>2 DEF Ones
      <4>3. QED BY <4>1, <4>2
    <3>4. QED BY <3>3 DEF asked, rest
  <2>5. QED BY <2>3, <2>4
<1>11. AbsorbedSoFar(a, n, new)
  BY <1>2, <1>8, <1>9, <1>10 DEF AbsorbedSoFar
<1>12. QED BY <1>3, <1>11 DEF st

Surfaces == [canvas : Cache, rail : Cache, fresh : Nat]

LEMMA AbsorbedIsTyped ==
  ASSUME NEW st \in Surfaces, NEW a \in Response
  PROVE  Absorbed(st, a) \in Surfaces
<1>1. st.canvas \in Cache /\ st.rail \in Cache /\ st.fresh \in Nat
  BY DEF Surfaces
<1>2. Filed(st.canvas, a) \in Cache /\ Filed(st.rail, a) \in Cache
  BY <1>1, FiledIsTyped
<1>3. st.fresh + Ones(KeptTile(a)) \in Nat
  BY <1>1 DEF Ones
<1>4. CASE a.request \notin st.canvas.pending /\ a.request \in st.rail.pending
  <2>1. Absorbed(st, a) = [st EXCEPT !.rail = Filed(st.rail, a)]
    BY <1>4 DEF Absorbed
  <2>2. QED BY <1>2, <2>1 DEF Surfaces
<1>5. CASE ~(a.request \notin st.canvas.pending /\ a.request \in st.rail.pending)
  <2>1. Absorbed(st, a)
          = [st EXCEPT !.canvas = Filed(st.canvas, a), !.fresh = st.fresh + Ones(KeptTile(a))]
    BY <1>5 DEF Absorbed, Ones, KeptTile
  <2>2. QED BY <1>2, <1>3, <2>1 DEF Surfaces
<1>6. QED BY <1>4, <1>5

LEMMA AllAreAbsorbed ==
  ASSUME inbox \in Seq(Message), backlog \in Seq(Request), document \in Document,
         canvas \in Cache, rail \in Cache, NEW a \in Seq(Response),
         AbsorbedSoFar(a, 0, [canvas |-> canvas, rail |-> rail, fresh |-> 0])
  PROVE  AbsorbedSoFar(a, Len(a), AbsorbedAll(a))
<1> DEFINE n == Len(a)
           base == [canvas |-> canvas, rail |-> rail, fresh |-> 0]
           F == [p \in (1..n) \X Surfaces |-> Absorbed(p[2], a[p[1]])]
           Step(f) == [i \in 0..n |-> IF i = 0 THEN base ELSE Absorbed(f[i - 1], a[i])]
           after == CHOOSE f : f = Step(f)
<1>1. n \in Nat /\ base \in Surfaces /\ \A i \in 1..n : a[i] \in Response
  BY ElementOfSeq, LenProperties DEF Surfaces
<1>2. F \in [(1..n) \X Surfaces -> Surfaces]
  BY <1>1, AbsorbedIsTyped
<1> HIDE DEF base
<1>3. PICK f : Recurs(n, Surfaces, base, F, f)
  <2> HIDE DEF F, n
  <2>1. QED BY <1>1, <1>2, RecursionDefines
<1>4. f \in [0..n -> Surfaces] /\ f[0] = base
  BY <1>3 DEF Recurs
<1>5. ASSUME NEW i \in 1..n PROVE f[i] = Absorbed(f[i - 1], a[i])
  <2>1. i - 1 \in 0..n
    BY <1>1
  <2>2. <<i, f[i - 1]>> \in (1..n) \X Surfaces
    BY <1>4, <2>1
  <2>3. F[<<i, f[i - 1]>>] = Absorbed(f[i - 1], a[i])
    BY <2>2
  <2>4. QED BY <1>3, <2>3 DEF Recurs
<1> HIDE DEF F
<1>6. f = Step(f)
  <2>1. \A i \in 0..n : i # 0 => i \in 1..n
    BY <1>1
  <2>2. \A i \in 0..n : f[i] = Step(f)[i]
    BY <1>4, <1>5, <2>1
  <2>3. f = [i \in 0..n |-> f[i]] /\ Step(f) = [i \in 0..n |-> Step(f)[i]]
    BY <1>4
  <2>4. QED BY <2>2, <2>3
<1>7. after = Step(after)
  BY <1>6
<1>8. AbsorbedAll(a) = after[n]
  BY DEF AbsorbedAll, base
<1> HIDE DEF after
<1>9. after[0] = base /\ \A i \in 1..n : after[i] = Absorbed(after[i - 1], a[i])
  <2>1. 0 \in 0..n /\ \A i \in 1..n : i \in 0..n /\ i # 0
    BY <1>1
  <2>2. \A i \in 0..n : Step(after)[i] = IF i = 0 THEN base ELSE Absorbed(after[i - 1], a[i])
    OBVIOUS
  <2> HIDE DEF Step, n
  <2>3. \A i \in 0..n : after[i] = IF i = 0 THEN base ELSE Absorbed(after[i - 1], a[i])
    BY <1>7, <2>2
  <2>4. QED BY <2>1, <2>3
<1> DEFINE Sound(i, st) == st \in Surfaces /\ AbsorbedSoFar(a, i, st)
           T == {i \in Nat : i <= n => Sound(i, after[i])}
<1>10. 0 \in T
  BY <1>1, <1>9 DEF base
<1>11. ASSUME NEW i \in Nat, i \in T PROVE i + 1 \in T
  <2>1. CASE ~(i + 1 <= n)
    BY <2>1
  <2>2. CASE i + 1 <= n
    <3>1. PICK m \in 1..n : m = i + 1 /\ m - 1 = i
      BY <1>1, <2>2
    <3>2. PICK c, r, k : /\ after[i] = [canvas |-> c, rail |-> r, fresh |-> k]
                         /\ [canvas |-> c, rail |-> r, fresh |-> k] \in Surfaces
                         /\ AbsorbedSoFar(a, i, [canvas |-> c, rail |-> r, fresh |-> k])
      <4>1. Sound(i, after[i])
        BY <1>1, <1>11, <2>2
      <4>2. after[i] = [canvas |-> after[i].canvas, rail |-> after[i].rail,
                        fresh |-> after[i].fresh]
        BY <4>1 DEF Surfaces
      <4>3. QED BY <4>1, <4>2
    <3> DEFINE st == [canvas |-> c, rail |-> r, fresh |-> k]
    <3>3. AbsorbedSoFar(a, m, Absorbed(st, a[m]))
      <4>1. AbsorbedSoFar(a, m - 1, [canvas |-> c, rail |-> r, fresh |-> k])
        BY <3>1, <3>2
      <4>2. QED BY <4>1, AbsorbedGoesOn
    <3>4. a[m] \in Response /\ st \in Surfaces
      BY <1>1, <3>2
    <3> HIDE DEF st
    <3>5. Absorbed(st, a[m]) \in Surfaces
      BY <3>4, AbsorbedIsTyped
    <3>6. after[i + 1] = Absorbed(st, a[m])
      BY <1>9, <3>1, <3>2 DEF st
    <3>7. Sound(i + 1, after[i + 1]) /\ i + 1 \in Nat
      BY <3>1, <3>3, <3>5, <3>6
    <3> HIDE DEF Sound
    <3>8. QED BY <3>7
  <2>3. QED BY <2>1, <2>2
<1> HIDE DEF T
<1>12. n \in T
  BY <1>1, <1>10, <1>11, EveryNumber
<1>13. QED BY <1>1, <1>8, <1>12 DEF T

-----------------------------------------------------------------------------
\* The viewer keeps its caches

\* How many submissions of x and answers to it are on their way.
Due(x) == Pending(inbox, backlog, x) + Delivered(outbox, replies, x)

\* Nothing in the application rebinds the service it opened, nor drops it.
ServiceIsUsed ==
  /\ phase \in {"accepting", "serving"}
  /\ dropped = FALSE
  /\ outbox = <<>>
  /\ \A i \in 1..Len(inbox) : inbox[i].kind = "render"

\* No revision comes twice: there are fewer edits than the counter has values.
DocumentDrawn ==
  /\ document \in Document
  /\ WellFormed(document)
  /\ acts \in 0..MaxActs
  /\ document.revision <= acts
  /\ frame \in {"between", "rail", "canvas"}
  /\ scale \in Scales

CachesSound == CacheSound(canvas, document.revision) /\ CacheSound(rail, document.revision)

\* Of the document drawn, no more is on its way than the two caches wait for, so that
\* an answer never finds its request settled; and what the canvas waits for is.
AwaitedByCaches ==
  /\ \A x \in Request : x.revision >= document.revision =>
       Due(x) <= Ones(x \in canvas.pending) + Ones(x \in rail.pending)
  /\ \A x \in canvas.pending : Due(x) > 0

ViewerInvariant ==
  ServiceTypes /\ ServiceIsUsed /\ DocumentDrawn /\ CachesSound /\ AwaitedByCaches

LEMMA UnderWayIfDue ==
  ASSUME ServiceTypes, NEW x, Due(x) > 0
  PROVE  UnderWay(x)
<1>1. /\ inbox \in Seq(Message) /\ backlog \in Seq(Request)
      /\ outbox \in Seq(Response) /\ replies \in Seq(Response)
  BY DEF ServiceTypes, BacklogTypes, ChannelTypes
<1>2. Collected \in Seq(Response)
  BY <1>1, ConcatProperties DEF Collected
<1>3. /\ DOMAIN inbox = 1..Len(inbox) /\ DOMAIN backlog = 1..Len(backlog)
      /\ DOMAIN Collected = 1..Len(Collected)
  BY <1>1, <1>2, LenProperties
<1>4. /\ CountIn(inbox, Asking(x)) \in Nat /\ CountIn(backlog, {x}) \in Nat
      /\ CountIn(Collected, AnswersTo(x)) \in Nat
  BY <1>1, <1>2, CountIsNatural
<1>5. Due(x) = CountIn(inbox, Asking(x)) + CountIn(backlog, {x}) + CountIn(Collected, AnswersTo(x))
  BY DEF Due, Pending, Delivered, Collected
<1>6. CASE CountIn(inbox, Asking(x)) > 0
  <2>1. PICK i \in 1..Len(inbox) : inbox[i] \in Asking(x)
    BY <1>6, CountedIsThere
  <2>2. QED BY <1>3, <2>1 DEF UnderWay, Asking, ToSet
<1>7. CASE CountIn(backlog, {x}) > 0
  <2>1. PICK i \in 1..Len(backlog) : backlog[i] \in {x}
    BY <1>7, CountedIsThere
  <2>2. QED BY <1>3, <2>1 DEF UnderWay, ToSet
<1>8. CASE CountIn(Collected, AnswersTo(x)) > 0
  <2>1. PICK i \in 1..Len(Collected) : Collected[i] \in AnswersTo(x)
    BY <1>8, CountedIsThere
  <2>2. QED BY <1>3, <2>1 DEF UnderWay, AnswersTo
<1>9. QED BY <1>4, <1>5, <1>6, <1>7, <1>8

LEMMA ViewerInvariantIsEnough ==
  ViewerInvariant => CachesFollowSnapshot /\ CanvasAwaitsLiveRequests
<1> SUFFICES ASSUME ViewerInvariant PROVE CachesFollowSnapshot /\ CanvasAwaitsLiveRequests
  OBVIOUS
<1>1. ServiceTypes /\ DocumentDrawn /\ CachesSound /\ AwaitedByCaches
  BY DEF ViewerInvariant
<1>2. canvas \in Cache /\ rail \in Cache
  BY <1>1 DEF CachesSound, CacheSound
<1>3. ServiceTypeOK
  BY <1>1
  DEF ServiceTypes, BacklogTypes, CacheTypes, ChannelTypes, ServiceTypeOK, Entry
<1>4. ViewerTypeOK
  BY <1>1, <1>2, <1>3 DEF ViewerTypeOK, DocumentDrawn
<1>5. \A c \in {canvas, rail} : CacheSound(c, document.revision)
  BY <1>1 DEF CachesSound
<1>6. \A c \in {canvas, rail} : DOMAIN c.entries = 1..Len(c.entries)
  BY <1>2, CacheFields, LenProperties
<1>7. CachesFollowSnapshot
  BY <1>4, <1>5, <1>6 DEF CachesFollowSnapshot, CacheSound
<1>8. CanvasAwaitsLiveRequests
  BY <1>1, UnderWayIfDue DEF AwaitedByCaches, CanvasAwaitsLiveRequests
<1>9. QED BY <1>7, <1>8

LEMMA ViewerInvariantStarts ==
  ASSUME ViewerInit
  PROVE  ViewerInvariant
<1>1. PICK r \in [1..FilePages -> Rotations] : document = Opened(r)
  BY DEF ViewerInit
<1>2. document \in Document /\ WellFormed(document) /\ document.revision = 0
  BY <1>1, OpenedWellFormed, RenderServiceAssumption DEF Opened
<1>3. /\ phase = "accepting" /\ dropped = FALSE /\ inbox = <<>> /\ backlog = <<>>
      /\ snapshot = SnapshotOf(document) /\ tiles = <<>> /\ replies = <<>> /\ outbox = <<>>
  BY DEF ViewerInit, InitService
<1>4. ServiceTypes
  <2>1. <<>> \in Seq(Message) /\ <<>> \in Seq(Response) /\ SnapshotOf(document) \in Snapshot
    BY <1>2, SnapshotsAreTyped
  <2>2. ChannelTypes
    BY <1>3, <2>1 DEF ChannelTypes
  <2>3. BacklogTypes
    BY <1>3, RenderServiceAssumption DEF BacklogTypes, IsInjective
  <2>4. CacheTypes
    BY <1>3, EmptyHasNoBytes, RenderServiceAssumption DEF CacheTypes
  <2>5. QED BY <2>2, <2>3, <2>4 DEF ServiceTypes
<1>5. ServiceIsUsed
  BY <1>3 DEF ServiceIsUsed
<1>6. DocumentDrawn
  BY <1>2, PageMapAssumption, ViewerAssumption DEF ViewerInit, DocumentDrawn
<1>7. CachesSound
  BY EmptyCacheSound DEF ViewerInit, CachesSound
<1>8. AwaitedByCaches
  <2>1. <<>> \o <<>> = <<>>
    OBVIOUS
  <2>2. \A x : Due(x) = 0
    BY <1>3, <2>1, CountNothing DEF Due, Pending, Delivered
  <2>3. canvas.pending = {} /\ rail.pending = {}
    BY DEF ViewerInit, Empty
  <2>4. QED BY <2>2, <2>3 DEF AwaitedByCaches, Ones
<1>9. QED BY <1>4, <1>5, <1>6, <1>7, <1>8 DEF ViewerInvariant

\* Submitting different requests, after a poll or not.
LEMMA SubmittingKeepsService ==
  ASSUME ServiceTypes, ServiceIsUsed, NEW q \in Seq(Request), IsInjective(q),
         inbox' = inbox \o Rendering(q), outbox' = <<>>, replies' \in {replies, <<>>},
         UNCHANGED <<phase, dropped, backlog, snapshot, tiles>>
  PROVE  /\ ServiceTypes' /\ ServiceIsUsed'
         /\ \A x : /\ Pending(inbox', backlog', x)
                        = Pending(inbox, backlog, x) + Ones(x \in ToSet(q))
                   /\ Pending(inbox, backlog, x) \in Nat
<1> DEFINE m == Rendering(q)
<1>1. /\ inbox \in Seq(Message) /\ backlog \in Seq(Request) /\ replies \in Seq(Response)
      /\ \A i \in 1..Len(inbox) : inbox[i].kind = "render"
  BY DEF ServiceTypes, BacklogTypes, ChannelTypes, ServiceIsUsed
<1>2. /\ m \in Seq(Message) /\ \A i \in 1..Len(m) : m[i].kind = "render"
      /\ \A x : CountIn(m, Asking(x)) = Ones(x \in ToSet(q))
  BY RenderingCounts
<1> HIDE DEF m
<1>3. /\ inbox \o m \in Seq(Message) /\ Len(inbox \o m) = Len(inbox) + Len(m)
      /\ \A i \in 1..Len(inbox) : (inbox \o m)[i] = inbox[i]
      /\ \A i \in 1..Len(m) : (inbox \o m)[Len(inbox) + i] = m[i]
      /\ Len(inbox) \in Nat /\ Len(m) \in Nat
  BY <1>1, <1>2
<1>4. ServiceTypes'
  <2>1. ChannelTypes'
    <3>1. inbox' = inbox \o m
      BY DEF m
    <3>2. inbox' \in Seq(Message)
      BY <1>3, <3>1
    <3>3. <<>> \in Seq(Response)
      OBVIOUS
    <3>4. outbox' \in Seq(Response) /\ replies' \in Seq(Response)
      BY <1>1, <3>3
    <3>5. QED BY <3>2, <3>4 DEF ServiceTypes, ChannelTypes
  <2>2. BacklogTypes' /\ CacheTypes'
    BY DEF ServiceTypes, BacklogTypes, CacheTypes
  <2>3. QED BY <2>1, <2>2 DEF ServiceTypes
<1>5. ServiceIsUsed'
  <2>1. ASSUME NEW i \in 1..Len(inbox \o m) PROVE (inbox \o m)[i].kind = "render"
    <3>1. CASE i \in 1..Len(inbox)
      BY <1>1, <1>3, <3>1
    <3>2. CASE i \notin 1..Len(inbox)
      <4>1. i - Len(inbox) \in 1..Len(m) /\ Len(inbox) + (i - Len(inbox)) = i
        BY <1>3, <3>2
      <4>2. (inbox \o m)[i] = m[i - Len(inbox)]
        BY <1>3, <4>1
      <4>3. QED BY <1>2, <4>1, <4>2
    <3>3. QED BY <3>1, <3>2
  <2>2. QED BY <2>1 DEF ServiceIsUsed, m
<1>6. ASSUME NEW x
      PROVE  /\ Pending(inbox', backlog', x)
                  = Pending(inbox, backlog, x) + Ones(x \in ToSet(q))
             /\ Pending(inbox, backlog, x) \in Nat
  <2>1. CountIn(inbox \o m, Asking(x)) = CountIn(inbox, Asking(x)) + CountIn(m, Asking(x))
    BY ZenonT(60), <1>1, <1>2, CountJoin
  <2>2. CountIn(m, Asking(x)) = Ones(x \in ToSet(q))
    BY <1>2
  <2>3. CountIn(inbox, Asking(x)) \in Nat /\ CountIn(backlog, {x}) \in Nat
    BY <1>1, CountIsNatural
  <2>4. Ones(x \in ToSet(q)) \in Nat
    BY DEF Ones
  <2>5. inbox' = inbox \o m /\ backlog' = backlog
    BY DEF m
  <2>6. /\ Pending(inbox', backlog', x) = CountIn(inbox \o m, Asking(x)) + CountIn(backlog, {x})
        /\ Pending(inbox, backlog, x) = CountIn(inbox, Asking(x)) + CountIn(backlog, {x})
    BY <2>5 DEF Pending
  <2>7. QED BY <2>1, <2>2, <2>3, <2>4, <2>6
<1>7. QED BY <1>4, <1>5, <1>6

\* The worker answers or merges what it was sent, and no cache hears of it before the
\* next frame.
LEMMA WorkerRunsKeeps ==
  ASSUME ViewerInvariant, WorkerRuns
  PROVE  ViewerInvariant'
<1>1. /\ ServiceTypes /\ ServiceIsUsed /\ DocumentDrawn /\ CachesSound /\ AwaitedByCaches
      /\ Worker /\ UNCHANGED <<frame, document, scale, canvas, rail, acts>>
  BY DEF ViewerInvariant, WorkerRuns
<1>2. ServiceTypes'
  BY <1>1, WorkerKeepsTypes
<1>3. DocumentDrawn' /\ CachesSound'
  BY <1>1 DEF DocumentDrawn, CachesSound
<1>4. /\ inbox \in Seq(Message) /\ backlog \in Seq(Request)
      /\ outbox \in Seq(Response) /\ replies \in Seq(Response)
      /\ inbox' \in Seq(Message) /\ backlog' \in Seq(Request)
      /\ outbox' \in Seq(Response) /\ replies' \in Seq(Response)
  BY <1>1, <1>2 DEF ServiceTypes, BacklogTypes, ChannelTypes
<1>5. inbox # <<>> => Head(inbox).kind = "render"
  <2>1. inbox # <<>> => 1 \in 1..Len(inbox) /\ Head(inbox) = inbox[1]
    BY <1>4
  <2>2. QED BY <1>1, <2>1 DEF ServiceIsUsed
<1>6. \/ AcceptRender
      \/ StopAccepting
      \/ ServeCached \/ ServeRasterized \/ ServeRefused
  BY <1>1, <1>5 DEF Worker, OpenFile, AcceptRebind, AcceptShutdown, Receive, ServeNobody,
                    FailRequest, FailRebind, FailExit, ServiceIsUsed
<1>7. ServiceIsUsed'
  <2>1. CASE AcceptRender
    <3>1. inbox # <<>> /\ inbox' = Tail(inbox) /\ UNCHANGED <<phase, dropped, outbox>>
      BY <2>1 DEF AcceptRender, Receive
    <3>2. /\ Len(inbox') = Len(inbox) - 1 /\ Len(inbox) \in Nat
          /\ \A i \in 1..Len(inbox') : inbox'[i] = inbox[i + 1]
      BY <1>4, <3>1
    <3>3. \A i \in 1..Len(inbox') : i + 1 \in 1..Len(inbox)
      BY <3>2
    <3>4. QED BY <1>1, <3>1, <3>2, <3>3 DEF ServiceIsUsed
  <2>2. CASE StopAccepting
    BY <1>1, <2>2 DEF StopAccepting, ServiceIsUsed
  <2>3. CASE ServeCached \/ ServeRasterized \/ ServeRefused
    <3>1. phase' = "accepting" /\ UNCHANGED <<dropped, inbox, outbox>>
      BY <2>3 DEF ServeCached, ServeRasterized, ServeRefused, Answer
    <3>2. QED BY <1>1, <3>1 DEF ServiceIsUsed
  <2>4. QED BY <1>6, <2>1, <2>2, <2>3
<1>8. ASSUME NEW x
      PROVE  /\ Pending(inbox, backlog, x) \in Nat /\ Pending(inbox', backlog', x) \in Nat
             /\ Delivered(outbox, replies, x) \in Nat
             /\ Delivered(outbox', replies', x) \in Nat
  <2>1. outbox \o replies \in Seq(Response) /\ outbox' \o replies' \in Seq(Response)
    BY <1>4, ConcatProperties
  <2>2. Delivered(outbox, replies, x) \in Nat /\ Delivered(outbox', replies', x) \in Nat
    BY <2>1, CountIsNatural DEF Delivered
  <2>3. QED BY <1>4, <2>2, PendingIsNatural
<1>9. \A x : /\ Due(x)' <= Due(x)
             /\ Due(x) > 0 => Due(x)' > 0
  <2>1. CASE \E batch : BatchIsAnswered(batch)
    <3>1. PICK batch : BatchIsAnswered(batch)
      BY <2>1
    <3>2. ASSUME NEW x PROVE Due(x)' = Due(x)
      <4>1. Ones(x \in batch) \in Nat
        BY DEF Ones
      <4>2. QED BY <1>8, <3>1, <4>1 DEF BatchIsAnswered, Due
    <3>3. ASSUME NEW x PROVE Due(x) \in Nat
      BY <1>8 DEF Due
    <3>4. QED BY <3>2, <3>3
  <2>2. CASE \E r \in Request : SubmissionIsMerged(r)
    <3>1. PICK r \in Request : SubmissionIsMerged(r)
      BY <2>2
    <3>2. ASSUME NEW x PROVE Due(x)' <= Due(x) /\ (Due(x) > 0 => Due(x)' > 0)
      <4>1. Ones(x = r) \in Nat /\ (x # r => Ones(x = r) = 0) /\ (x = r => Ones(x = r) = 1)
        BY DEF Ones
      <4>2. /\ Pending(inbox, backlog, x) = Pending(inbox', backlog', x) + Ones(x = r)
            /\ Delivered(outbox', replies', x) = Delivered(outbox, replies, x)
            /\ x = r => Pending(inbox, backlog, x) > 1
        BY <3>1 DEF SubmissionIsMerged
      <4>3. QED BY <1>8, <4>1, <4>2 DEF Due
    <3>3. QED BY <3>2
  <2>3. CASE StopAccepting
    <3>1. UNCHANGED <<inbox, backlog, outbox, replies>>
      BY <2>3 DEF StopAccepting
    <3>2. \A x : Due(x)' = Due(x)
      BY <3>1 DEF Due, Pending, Delivered
    <3>3. ASSUME NEW x PROVE Due(x) \in Nat
      BY <1>8 DEF Due
    <3>4. QED BY <3>2, <3>3
  <2>4. CASE AcceptRender
    <3>1. ~dropped
      BY <1>1 DEF ServiceIsUsed
    <3>2. QED BY <1>1, <1>2, <2>1, <2>2, <2>4, <3>1, AcceptRenderCounts
  <2>5. CASE ServeCached \/ ServeRasterized \/ ServeRefused
    <3>1. PICK r \in ToSet(backlog), response \in Response :
            response.request = r /\ Answer(r, response)
      BY <1>1, <2>5, ServingAnswers
    <3>2. BatchIsAnswered({r})
      BY <1>1, <1>2, <3>1, AnswerCounts
    <3>3. QED BY <2>1, <3>2
  <2>6. QED BY <1>6, <2>3, <2>4, <2>5
<1>10. AwaitedByCaches'
  <2>1. ASSUME NEW x \in Request, x.revision >= document.revision
        PROVE  Due(x)' <= Ones(x \in canvas.pending) + Ones(x \in rail.pending)
    <3>1. Due(x) <= Ones(x \in canvas.pending) + Ones(x \in rail.pending)
      BY <1>1, <2>1 DEF AwaitedByCaches
    <3>2. Due(x) \in Nat /\ Due(x)' \in Nat
      BY <1>8 DEF Due
    <3>3. Ones(x \in canvas.pending) \in Nat /\ Ones(x \in rail.pending) \in Nat
      BY DEF Ones
    <3>4. QED BY <1>9, <3>1, <3>2, <3>3
  <2>2. \A x \in canvas.pending : Due(x)' > 0
    BY <1>1, <1>9 DEF AwaitedByCaches
  <2>3. QED BY <1>1, <2>1, <2>2 DEF AwaitedByCaches
<1>11. QED BY <1>2, <1>3, <1>7, <1>10 DEF ViewerInvariant

\* What is on its way is counted in Nat, and does not change when the channels do not.
LEMMA DueIsNatural ==
  ASSUME ServiceTypes, NEW x
  PROVE  Due(x) \in Nat /\ Pending(inbox, backlog, x) \in Nat
<1>1. /\ inbox \in Seq(Message) /\ backlog \in Seq(Request)
      /\ outbox \in Seq(Response) /\ replies \in Seq(Response)
  BY DEF ServiceTypes, BacklogTypes, ChannelTypes
<1>2. outbox \o replies \in Seq(Response)
  BY <1>1, ConcatProperties
<1>3. Delivered(outbox, replies, x) \in Nat
  BY <1>2, CountIsNatural DEF Delivered
<1>4. Pending(inbox, backlog, x) \in Nat
  BY <1>1, PendingIsNatural
<1>5. QED BY <1>3, <1>4 DEF Due

LEMMA ServiceUntouched ==
  ASSUME ServiceTypes, ServiceIsUsed, UNCHANGED serviceVars
  PROVE  ServiceTypes' /\ ServiceIsUsed' /\ \A x : Due(x)' = Due(x)
<1>1. UNCHANGED <<phase, dropped, inbox, backlog, snapshot, tiles, replies, outbox>>
  BY DEF serviceVars
<1>2. ServiceTypes'
  BY <1>1 DEF ServiceTypes, BacklogTypes, CacheTypes, ChannelTypes
<1>3. ServiceIsUsed'
  BY <1>1 DEF ServiceIsUsed
<1>4. \A x : Due(x)' = Due(x)
  BY <1>1 DEF Due, Pending, Delivered
<1>5. QED BY <1>2, <1>3, <1>4

\* Drawing the pages only reorders the canvas's cache.
LEMMA ShowCanvasKeeps ==
  ASSUME ViewerInvariant, ShowCanvas
  PROVE  ViewerInvariant'
<1> DEFINE pages == [i \in DOMAIN document.slots |-> document.slots[i].id]
           visible == {p \in PagesShown : Nearest(p) # {}}
           shown == Among(pages, visible)
           rs == [i \in DOMAIN shown |-> CHOOSE r \in Nearest(shown[i]) : TRUE]
<1>1. /\ ServiceTypes /\ ServiceIsUsed /\ DocumentDrawn /\ CachesSound /\ AwaitedByCaches
      /\ CacheSound(canvas, document.revision) /\ document \in Document
  BY DEF ViewerInvariant, CachesSound, DocumentDrawn
<1>2. /\ canvas' = Drawn(canvas, rs) /\ frame' = "between"
      /\ UNCHANGED <<phase, dropped, inbox, backlog, snapshot, tiles, replies, outbox, document,
                     scale, rail, acts>>
  BY DEF ShowCanvas
<1>3. pages \in Seq(PageId)
  <2>1. document.slots \in Seq(Slot)
    BY <1>1 DEF Document
  <2>2. /\ DOMAIN document.slots = 1..Len(document.slots) /\ Len(document.slots) \in Nat
        /\ \A i \in 1..Len(document.slots) : document.slots[i].id \in PageId
    <3>1. /\ DOMAIN document.slots = 1..Len(document.slots) /\ Len(document.slots) \in Nat
          /\ \A i \in 1..Len(document.slots) : document.slots[i] \in Slot
      BY <2>1, LenProperties, ElementOfSeq
    <3>2. QED BY <3>1 DEF Slot
  <2>3. QED BY <2>2, IsASeq
<1> HIDE DEF pages, visible
<1>4. /\ shown \in Seq(PageId)
      /\ \A i \in 1..Len(shown) : shown[i] \in visible
  BY <1>3, AmongChooses DEF Chosen
<1> HIDE DEF shown
<1>5. /\ DOMAIN shown = 1..Len(shown) /\ Len(shown) \in Nat
  BY <1>4, LenProperties
<1>6. Len(rs) = Len(shown) /\ Len(rs) \in Nat
  BY <1>5
<1>7. ASSUME NEW i \in 1..Len(rs) PROVE Cached(canvas.entries, rs[i])
  <2>1. Nearest(shown[i]) # {} /\ rs[i] = CHOOSE r \in Nearest(shown[i]) : TRUE
    BY <1>4, <1>5, <1>6 DEF visible
  <2>2. rs[i] \in Nearest(shown[i])
    BY <2>1
  <2>3. QED BY <2>2 DEF Nearest, Cached
<1> HIDE DEF rs
<1>8. CacheSound(canvas', document.revision) /\ canvas'.pending = canvas.pending
  BY <1>1, <1>2, <1>6, <1>7, DrawnSound
<1>9. ServiceTypes' /\ ServiceIsUsed' /\ \A x : Due(x)' = Due(x)
  BY <1>1, <1>2, ServiceUntouched DEF serviceVars
<1>10. DocumentDrawn'
  BY <1>1, <1>2 DEF DocumentDrawn
<1>11. CachesSound'
  BY <1>1, <1>2, <1>8 DEF CachesSound
<1>12. AwaitedByCaches'
  BY <1>1, <1>2, <1>8, <1>9 DEF AwaitedByCaches
<1>13. QED BY <1>9, <1>10, <1>11, <1>12 DEF ViewerInvariant

LEMMA ZoomKeeps ==
  ASSUME ViewerInvariant, Zoom \/ UNCHANGED viewerVars
  PROVE  ViewerInvariant'
<1>1. ServiceTypes /\ ServiceIsUsed /\ DocumentDrawn /\ CachesSound /\ AwaitedByCaches
  BY DEF ViewerInvariant
<1>2. UNCHANGED <<serviceVars, frame, document, canvas, rail>>
  BY DEF Zoom, viewerVars, serviceVars
<1>3. ServiceTypes' /\ ServiceIsUsed' /\ \A x : Due(x)' = Due(x)
  BY <1>1, <1>2, ServiceUntouched
<1>4. CachesSound' /\ AwaitedByCaches'
  BY <1>1, <1>2, <1>3 DEF CachesSound, AwaitedByCaches
<1>5. DocumentDrawn'
  <2>1. MaxActs \in Nat /\ document.revision \in Nat
    BY <1>1, PageMapAssumption, ViewerAssumption DEF DocumentDrawn, Document, Revision
  <2>2. CASE Zoom
    <3>1. acts < MaxActs /\ acts' = acts + 1 /\ scale' \in Scales /\ acts \in 0..MaxActs
          /\ document.revision <= acts
      BY <1>1, <2>2 DEF Zoom, Act, DocumentDrawn
    <3>2. acts' \in 0..MaxActs /\ document.revision <= acts'
      BY <2>1, <3>1
    <3>3. QED BY <1>1, <1>2, <3>1, <3>2 DEF DocumentDrawn
  <2>3. CASE UNCHANGED viewerVars
    BY <1>1, <2>3 DEF viewerVars, DocumentDrawn
  <2>4. QED BY <2>2, <2>3
<1>6. QED BY <1>3, <1>4, <1>5 DEF ViewerInvariant

LEMMA EditAdvances ==
  ASSUME DocumentDrawn, EditDocument
  PROVE  DocumentDrawn' /\ document'.revision = document.revision + 1
<1>1. /\ document \in Document /\ WellFormed(document) /\ document.revision <= acts
      /\ acts \in 0..MaxActs /\ acts < MaxActs /\ acts' = acts + 1
      /\ frame \in {"between", "rail", "canvas"} /\ scale \in Scales
      /\ UNCHANGED <<frame, scale>>
  BY DEF DocumentDrawn, EditDocument, Act
<1>2. /\ document.revision \in Nat /\ document.revision + 1 < RevisionModulus
      /\ RevisionModulus \in Nat /\ MaxActs \in Nat /\ acts \in Nat
  BY <1>1, PageMapAssumption, ViewerAssumption DEF Document, Revision
<1>3. AdvanceRevision(document.revision) = document.revision + 1
  BY <1>2 DEF AdvanceRevision
<1>4. \A slots, removed, next :
        Mutated(document, slots, removed, next).revision = document.revision + 1
  BY <1>3 DEF Mutated
<1> DEFINE Follows(e) == e \in Document /\ WellFormed(e) /\ e.revision = document.revision + 1
<1>5. PICK p \in KnownIds(document) :
        \/ CanRemove(document, p) /\ document' = RemovePage(document, p)
        \/ \E at \in 0..FilePages :
             CanRestore(document, p, at) /\ document' = RestorePage(document, p, at)
        \/ \E r \in Rotations :
             CanRotate(document, p) /\ document' = SetRotation(document, p, r)
  BY DEF EditDocument
<1>6. ASSUME CanRemove(document, p), document' = RemovePage(document, p)
      PROVE  Follows(document')
  <2>1. RemovePage(document, p) \in Document /\ WellFormed(RemovePage(document, p))
    BY <1>1, <1>6, RemovePageEffect, RemoveWellFormed
  <2>2. RemovePage(document, p).revision = document.revision + 1
    BY <1>4 DEF RemovePage
  <2>3. QED BY <1>6, <2>1, <2>2
<1>7. ASSUME NEW at \in 0..FilePages,
             CanRestore(document, p, at), document' = RestorePage(document, p, at)
      PROVE  Follows(document')
  <2>1. at \in Nat
    BY RenderServiceAssumption
  <2>2. RestorePage(document, p, at) \in Document /\ WellFormed(RestorePage(document, p, at))
    BY <1>1, <1>7, <2>1, RestorePageEffect, RestoreWellFormed
  <2>3. RestorePage(document, p, at).revision = document.revision + 1
    BY <1>4 DEF RestorePage
  <2>4. QED BY <1>7, <2>2, <2>3
<1>8. ASSUME NEW r \in Rotations, CanRotate(document, p), document' = SetRotation(document, p, r)
      PROVE  Follows(document')
  <2>1. SetRotation(document, p, r) \in Document /\ WellFormed(SetRotation(document, p, r))
    BY <1>1, <1>8, SetRotationEffect, SetRotationWellFormed
  <2>2. SetRotation(document, p, r).revision = document.revision + 1
    BY <1>4 DEF SetRotation
  <2>3. QED BY <1>8, <2>1, <2>2
<1>9. Follows(document')
  BY <1>5, <1>6, <1>7, <1>8
<1>10. acts' \in 0..MaxActs /\ document'.revision <= acts'
  BY <1>1, <1>2, <1>9
<1>11. QED BY <1>1, <1>9, <1>10 DEF DocumentDrawn

\* An edit leaves neither cache anything, and nothing of its revision is on its way:
\* there has been none to ask for.
LEMMA EditDocumentKeeps ==
  ASSUME ViewerInvariant, EditDocument
  PROVE  ViewerInvariant'
<1>1. ServiceTypes /\ ServiceIsUsed /\ DocumentDrawn /\ CachesSound /\ AwaitedByCaches
  BY DEF ViewerInvariant
<1>2. /\ canvas' = Retained(canvas, document'.revision)
      /\ rail' = Retained(rail, document'.revision)
      /\ UNCHANGED serviceVars
  BY DEF EditDocument
<1>3. ServiceTypes' /\ ServiceIsUsed' /\ \A x : Due(x)' = Due(x)
  BY <1>1, <1>2, ServiceUntouched
<1>4. /\ DocumentDrawn' /\ document'.revision = document.revision + 1
      /\ document.revision \in Nat
  BY <1>1, EditAdvances, PageMapAssumption DEF DocumentDrawn, Document, Revision
<1>5. /\ CacheSound(canvas', document'.revision) /\ CacheSound(rail', document'.revision)
      /\ canvas'.pending = {r \in canvas.pending : r.revision = document'.revision}
      /\ rail'.pending = {r \in rail.pending : r.revision = document'.revision}
  BY <1>1, <1>2, RetainedSound DEF CachesSound
<1>6. \A r \in canvas.pending \cup rail.pending : r.revision = document.revision
  BY <1>1 DEF CachesSound, CacheSound
<1>7. canvas'.pending = {} /\ rail'.pending = {}
  BY <1>4, <1>5, <1>6
<1>8. ASSUME NEW x \in Request, x.revision >= document'.revision
      PROVE  Due(x)' <= Ones(x \in canvas'.pending) + Ones(x \in rail'.pending)
  <2>1. x.revision \in Nat
    BY PageMapAssumption DEF Request, Revision
  <2>2. x.revision >= document.revision /\ x.revision # document.revision
    BY <1>4, <1>8, <2>1
  <2>3. x \notin canvas.pending /\ x \notin rail.pending
    BY <1>6, <2>2
  <2>4. Due(x) <= Ones(x \in canvas.pending) + Ones(x \in rail.pending)
    BY <1>1, <2>2 DEF AwaitedByCaches
  <2>5. Due(x) <= 0
    BY <2>3, <2>4 DEF Ones
  <2>6. QED BY <1>3, <1>7, <2>5 DEF Ones
<1>9. AwaitedByCaches'
  BY <1>7, <1>8 DEF AwaitedByCaches
<1>10. CachesSound'
  BY <1>5 DEF CachesSound
<1>11. QED BY <1>3, <1>4, <1>9, <1>10 DEF ViewerInvariant

\* The thumbnails that the rail asks for are marked in the same step.
LEMMA ShowThumbnailRailKeeps ==
  ASSUME ViewerInvariant, ShowThumbnailRail
  PROVE  ViewerInvariant'
<1> DEFINE asked == {r \in RequestsAt(RailScale) : Wants(rail, r)}
           there == {r \in RequestsAt(RailScale) : Cached(rail.entries, r)}
           thumbnails ==
             [i \in DOMAIN document.slots |-> RequestFor(document.slots[i].id, RailScale)]
           q == Among(thumbnails, asked)
           t == Among(thumbnails, there)
           marked == Marked(rail, asked)
<1>1. /\ ServiceTypes /\ ServiceIsUsed /\ DocumentDrawn /\ CachesSound /\ AwaitedByCaches
      /\ CacheSound(rail, document.revision) /\ CacheSound(canvas, document.revision)
      /\ document \in Document /\ WellFormed(document)
  BY DEF ViewerInvariant, CachesSound, DocumentDrawn
<1>2. /\ rail' = Drawn(marked, t) /\ inbox' = inbox \o Rendering(q) /\ frame' = "canvas"
      /\ UNCHANGED <<phase, dropped, backlog, snapshot, tiles, replies, outbox, document,
                     scale, canvas, acts>>
  BY DEF ShowThumbnailRail
<1>3. thumbnails \in Seq(Request) /\ IsInjective(thumbnails)
  <2>1. RailScale \in Scales
    BY ViewerAssumption
  <2>2. /\ Len(document.slots) \in Nat /\ DOMAIN document.slots = 1..Len(document.slots)
        /\ \A i \in 1..Len(document.slots) :
             /\ RequestFor(document.slots[i].id, RailScale) \in Request
             /\ RequestFor(document.slots[i].id, RailScale).page = document.slots[i].id
    BY <1>1, <2>1, RequestsAreTyped
  <2>3. thumbnails \in Seq(Request)
    BY <2>2, IsASeq
  <2>4. \A i, j \in 1..Len(document.slots) :
          document.slots[i].id = document.slots[j].id => i = j
    BY <1>1, <2>2 DEF WellFormed
  <2>5. IsInjective(thumbnails)
    BY <2>2, <2>4 DEF IsInjective
  <2>6. QED BY <2>3, <2>5
<1>4. /\ asked \in SUBSET Request
      /\ \A r \in asked : Wants(rail, r) /\ r.revision = document.revision
  BY <1>1, RequestsAreTyped, ViewerAssumption
<1> HIDE DEF thumbnails, asked, there
<1>5. /\ CacheSound(marked, document.revision) /\ marked.entries = rail.entries
      /\ marked.pending = rail.pending \cup asked /\ asked \cap rail.pending = {}
  BY <1>1, <1>4, MarkedSound
<1> HIDE DEF marked
<1>6. /\ q \in Seq(Request) /\ IsInjective(q) /\ \A i \in 1..Len(q) : q[i] \in asked
      /\ t \in Seq(Request) /\ \A i \in 1..Len(t) : t[i] \in there
  BY <1>3, AmongChooses DEF Chosen
<1> HIDE DEF q, t
<1>7. ToSet(q) \in SUBSET asked /\ Len(t) \in Nat
  <2>1. DOMAIN q = 1..Len(q) /\ Len(t) \in Nat
    BY <1>6, LenProperties
  <2>2. QED BY <1>6, <2>1 DEF ToSet
<1>8. \A i \in 1..Len(t) : Cached(marked.entries, t[i])
  BY <1>5, <1>6 DEF there
<1>9. CacheSound(rail', document.revision) /\ rail'.pending = rail.pending \cup asked
  BY <1>2, <1>5, <1>7, <1>8, DrawnSound
<1>10. /\ ServiceTypes' /\ ServiceIsUsed'
       /\ \A x : /\ Pending(inbox', backlog', x)
                      = Pending(inbox, backlog, x) + Ones(x \in ToSet(q))
                 /\ Pending(inbox, backlog, x) \in Nat
  <2>1. outbox' = <<>> /\ replies' \in {replies, <<>>}
    BY <1>1, <1>2 DEF ServiceIsUsed
  <2>2. QED BY <1>1, <1>2, <1>6, <2>1, SubmittingKeepsService
<1>11. \A x : Due(x)' = Due(x) + Ones(x \in ToSet(q)) /\ Due(x) \in Nat
  <2>1. ASSUME NEW x PROVE Due(x)' = Due(x) + Ones(x \in ToSet(q)) /\ Due(x) \in Nat
    <3>1. Delivered(outbox', replies', x) = Delivered(outbox, replies, x)
      BY <1>2
    <3>2. Due(x) \in Nat /\ Pending(inbox, backlog, x) \in Nat
      BY <1>1, DueIsNatural
    <3>3. Ones(x \in ToSet(q)) \in Nat
      BY DEF Ones
    <3>4. Delivered(outbox, replies, x) \in Nat
      <4>1. outbox \o replies \in Seq(Response)
        <5>1. outbox \in Seq(Response) /\ replies \in Seq(Response)
          BY <1>1 DEF ServiceTypes, ChannelTypes
        <5>2. QED BY <5>1, ConcatProperties
      <4>2. QED BY <4>1, CountIsNatural DEF Delivered
    <3>5. Due(x)' = Pending(inbox', backlog', x) + Delivered(outbox', replies', x)
      BY DEF Due
    <3>6. QED BY <1>10, <3>1, <3>2, <3>3, <3>4, <3>5 DEF Due
  <2>2. QED BY <2>1
<1>12. AwaitedByCaches'
  <2>1. ASSUME NEW x \in Request, x.revision >= document.revision
        PROVE  Due(x)' <= Ones(x \in canvas.pending) + Ones(x \in rail'.pending)
    <3>1. Due(x) <= Ones(x \in canvas.pending) + Ones(x \in rail.pending)
      BY <1>1, <2>1 DEF AwaitedByCaches
    <3>2. Ones(x \in rail.pending) + Ones(x \in ToSet(q)) <= Ones(x \in rail'.pending)
      BY <1>5, <1>7, <1>9 DEF Ones
    <3>3. /\ Ones(x \in canvas.pending) \in Nat /\ Ones(x \in rail.pending) \in Nat
          /\ Ones(x \in rail'.pending) \in Nat /\ Ones(x \in ToSet(q)) \in Nat
      BY DEF Ones
    <3>4. QED BY <1>11, <3>1, <3>2, <3>3
  <2>2. ASSUME NEW x \in canvas.pending PROVE Due(x)' > 0
    <3>1. Due(x) > 0 /\ Ones(x \in ToSet(q)) \in Nat
      BY <1>1 DEF AwaitedByCaches, Ones
    <3>2. QED BY <1>11, <3>1
  <2>3. QED BY <1>2, <2>1, <2>2 DEF AwaitedByCaches
<1>13. DocumentDrawn'
  BY <1>1, <1>2 DEF DocumentDrawn
<1>14. CachesSound'
  BY <1>1, <1>2, <1>9 DEF CachesSound
<1>15. QED BY <1>10, <1>12, <1>13, <1>14 DEF ViewerInvariant

\* The responses collected are absorbed: what they say is no longer waited for, and
\* what still is was submitted and is on its way to the next poll.
LEMMA CollectedIsAbsorbed ==
  ASSUME ViewerInvariant
  PROVE  LET st == AbsorbedAll(Collected)
         IN  /\ CacheSound(st.canvas, document.revision)
             /\ CacheSound(st.rail, document.revision)
             /\ st.fresh \in Nat /\ st.fresh <= Len(st.canvas.entries)
             /\ \A x \in st.canvas.pending : Pending(inbox, backlog, x) > 0
             /\ \A x \in Request : x.revision >= document.revision =>
                  Pending(inbox, backlog, x)
                    <= Ones(x \in st.canvas.pending) + Ones(x \in st.rail.pending)
<1> DEFINE a == Collected
           base == [canvas |-> canvas, rail |-> rail, fresh |-> 0]
           st == AbsorbedAll(a)
<1>1. /\ ServiceTypes /\ DocumentDrawn /\ CachesSound /\ AwaitedByCaches
      /\ CacheSound(rail, document.revision) /\ CacheSound(canvas, document.revision)
      /\ document \in Document
  BY DEF ViewerInvariant, CachesSound, DocumentDrawn
<1>2. /\ inbox \in Seq(Message) /\ backlog \in Seq(Request)
      /\ outbox \in Seq(Response) /\ replies \in Seq(Response)
  BY <1>1 DEF ServiceTypes, BacklogTypes, ChannelTypes
<1>3. a \in Seq(Response)
  BY <1>2, ConcatProperties DEF Collected
<1>4. canvas \in Cache /\ rail \in Cache /\ canvas.entries \in Seq(Entry)
  BY <1>1, CacheFields DEF CacheSound
<1>5. \A x : Due(x) = Pending(inbox, backlog, x) + CountIn(a, AnswersTo(x))
  BY DEF Due, Delivered, Collected
<1> HIDE DEF a
<1>6. \A x : /\ CountFrom(a, 1, AnswersTo(x)) = CountIn(a, AnswersTo(x))
             /\ CountFrom(a, Len(a) + 1, AnswersTo(x)) = 0
  BY <1>3, CountFromGoesOn
<1>7. AbsorbedSoFar(a, 0, base)
  <2>1. base.canvas = canvas /\ base.rail = rail /\ base.fresh = 0
    OBVIOUS
  <2>2. 0 <= Len(canvas.entries)
    BY <1>4, LenProperties
  <2>3. \A x \in Request : x.revision >= document.revision =>
          Pending(inbox, backlog, x) + CountFrom(a, 0 + 1, AnswersTo(x))
            <= Ones(x \in canvas.pending) + Ones(x \in rail.pending)
    <3>1. \A x : CountFrom(a, 0 + 1, AnswersTo(x)) = CountIn(a, AnswersTo(x))
      BY <1>6
    <3>2. QED BY <1>1, <1>5, <3>1 DEF AwaitedByCaches
  <2>4. 1..0 = {}
    OBVIOUS
  <2> HIDE DEF base
  <2>5. QED BY <1>1, <2>1, <2>2, <2>3, <2>4 DEF AbsorbedSoFar
<1>8. AbsorbedSoFar(a, Len(a), st)
  BY <1>1, <1>2, <1>3, <1>4, <1>7, AllAreAbsorbed
<1> HIDE DEF st
<1>9. ASSUME NEW x \in st.canvas.pending PROVE Pending(inbox, backlog, x) > 0
  <2>1. x \in canvas.pending /\ \A i \in 1..Len(a) : a[i].request # x
    BY <1>8 DEF AbsorbedSoFar
  <2>2. \A i \in 1..Len(a) : a[i] \notin AnswersTo(x)
    BY <2>1 DEF AnswersTo
  <2>3. ~(CountIn(a, AnswersTo(x)) > 0) /\ CountIn(a, AnswersTo(x)) \in Nat
    BY <1>3, <2>2, CountedIsThere, CountIsNatural
  <2>4. Due(x) > 0 /\ Pending(inbox, backlog, x) \in Nat
    BY <1>1, <2>1, DueIsNatural DEF AwaitedByCaches
  <2>5. QED BY <1>5, <2>3, <2>4
<1>10. ASSUME NEW x \in Request, x.revision >= document.revision
       PROVE  Pending(inbox, backlog, x)
                <= Ones(x \in st.canvas.pending) + Ones(x \in st.rail.pending)
  <2>1. Pending(inbox, backlog, x) + CountFrom(a, Len(a) + 1, AnswersTo(x))
          <= Ones(x \in st.canvas.pending) + Ones(x \in st.rail.pending)
    BY <1>8, <1>10 DEF AbsorbedSoFar
  <2>2. Pending(inbox, backlog, x) \in Nat /\ CountFrom(a, Len(a) + 1, AnswersTo(x)) = 0
    BY <1>1, <1>6, DueIsNatural
  <2>3. QED BY <2>1, <2>2
<1>11. /\ CacheSound(st.canvas, document.revision) /\ CacheSound(st.rail, document.revision)
       /\ st.fresh \in Nat /\ st.fresh <= Len(st.canvas.entries)
  BY <1>8 DEF AbsorbedSoFar
<1>12. QED BY <1>9, <1>10, <1>11 DEF st, a

\* Once absorbed and evicted, the canvas's cache marks exactly what is submitted.
LEMMA StepRenderServiceKeeps ==
  ASSUME ViewerInvariant, StepRenderService
  PROVE  ViewerInvariant'
<1> DEFINE st == AbsorbedAll(Collected)
           spared == Evicted(st.canvas, st.fresh)
<1>1. /\ ServiceTypes /\ ServiceIsUsed /\ DocumentDrawn
      /\ document \in Document /\ scale \in Scales
  BY DEF ViewerInvariant, DocumentDrawn
<1>2. PICK plan \in Plans(Wanted(spared)) :
        canvas' = Marked(spared, ToSet(plan)) /\ inbox' = inbox \o Rendering(plan)
  BY DEF StepRenderService
<1>3. /\ rail' = st.rail /\ outbox' = <<>> /\ replies' = <<>> /\ frame' = "rail"
      /\ UNCHANGED <<phase, dropped, backlog, snapshot, tiles, document, scale, acts>>
  BY DEF StepRenderService
<1>4. /\ CacheSound(st.canvas, document.revision) /\ CacheSound(st.rail, document.revision)
      /\ st.fresh \in Nat /\ st.fresh <= Len(st.canvas.entries)
      /\ \A x \in st.canvas.pending : Pending(inbox, backlog, x) > 0
      /\ \A x \in Request : x.revision >= document.revision =>
           Pending(inbox, backlog, x)
             <= Ones(x \in st.canvas.pending) + Ones(x \in st.rail.pending)
  BY CollectedIsAbsorbed
<1> HIDE DEF st
<1>5. CacheSound(spared, document.revision) /\ spared.pending = st.canvas.pending
  BY <1>4, EvictedSound
<1> HIDE DEF spared
<1>6. /\ Wanted(spared) \in SUBSET Request /\ IsFiniteSet(Wanted(spared))
      /\ \A r \in Wanted(spared) : Wants(spared, r) /\ r.revision = document.revision
  <2>1. /\ RequestsAt(scale) \in SUBSET Request /\ IsFiniteSet(RequestsAt(scale))
        /\ \A r \in RequestsAt(scale) : r.revision = document.revision
    BY <1>1, RequestsAreTyped
  <2>2. /\ Wanted(spared) \in SUBSET RequestsAt(scale)
        /\ \A r \in Wanted(spared) : Wants(spared, r)
    BY DEF Wanted
  <2>3. IsFiniteSet(Wanted(spared))
    BY <2>1, <2>2, FS_Subset
  <2>4. QED BY <2>1, <2>2, <2>3
<1>7. PICK asked : asked = ToSet(plan)
  OBVIOUS
<1>8. plan \in Seq(Request) /\ IsInjective(plan) /\ asked \in SUBSET Wanted(spared)
  BY <1>6, <1>7, PlansAreSequences
<1>9. /\ CacheSound(canvas', document.revision)
      /\ canvas'.pending = st.canvas.pending \cup asked /\ asked \cap st.canvas.pending = {}
  <2>1. asked \in SUBSET Request
        /\ \A r \in asked : Wants(spared, r) /\ r.revision = document.revision
    BY <1>6, <1>8
  <2>2. canvas' = Marked(spared, asked)
    BY <1>2, <1>7
  <2>3. QED BY <1>5, <2>1, <2>2, MarkedSound
<1>10. /\ ServiceTypes' /\ ServiceIsUsed'
       /\ \A x : /\ Pending(inbox', backlog', x)
                      = Pending(inbox, backlog, x) + Ones(x \in asked)
                 /\ Pending(inbox, backlog, x) \in Nat
  BY <1>1, <1>2, <1>3, <1>7, <1>8, SubmittingKeepsService
<1>11. \A x : Due(x)' = Pending(inbox, backlog, x) + Ones(x \in asked)
  <2>1. ASSUME NEW x PROVE Due(x)' = Pending(inbox, backlog, x) + Ones(x \in asked)
    <3>1. <<>> \o <<>> = <<>>
      OBVIOUS
    <3>2. Delivered(outbox', replies', x) = 0
      BY <1>3, <3>1, CountNothing DEF Delivered
    <3>3. Due(x)' = Pending(inbox', backlog', x) + Delivered(outbox', replies', x)
      BY DEF Due
    <3>4. Ones(x \in asked) \in Nat
      BY DEF Ones
    <3>5. QED BY <1>10, <3>2, <3>3, <3>4
  <2>2. QED BY <2>1
<1>12. AwaitedByCaches'
  <2>1. ASSUME NEW x \in Request, x.revision >= document.revision
        PROVE  Due(x)' <= Ones(x \in canvas'.pending) + Ones(x \in rail'.pending)
    <3>1. Pending(inbox, backlog, x)
            <= Ones(x \in st.canvas.pending) + Ones(x \in rail'.pending)
      BY <1>3, <1>4, <2>1
    <3>2. Ones(x \in st.canvas.pending) + Ones(x \in asked) <= Ones(x \in canvas'.pending)
      BY <1>9 DEF Ones
    <3>3. /\ Ones(x \in st.canvas.pending) \in Nat /\ Ones(x \in rail'.pending) \in Nat
          /\ Ones(x \in canvas'.pending) \in Nat /\ Ones(x \in asked) \in Nat
      BY DEF Ones
    <3>4. Pending(inbox, backlog, x) \in Nat
      BY <1>10
    <3>5. QED BY <1>11, <3>1, <3>2, <3>3, <3>4
  <2>2. ASSUME NEW x \in canvas'.pending PROVE Due(x)' > 0
    <3>1. Pending(inbox, backlog, x) \in Nat /\ Ones(x \in asked) \in Nat
      BY <1>10 DEF Ones
    <3>2. CASE x \in asked
      <4>1. Ones(x \in asked) = 1
        BY <3>2 DEF Ones
      <4>2. QED BY <1>11, <3>1, <4>1
    <3>3. CASE x \in st.canvas.pending
      <4>1. Pending(inbox, backlog, x) > 0
        BY <1>4, <3>3
      <4>2. QED BY <1>11, <3>1, <4>1
    <3>4. QED BY <1>9, <3>2, <3>3
  <2>3. QED BY <1>3, <2>1, <2>2 DEF AwaitedByCaches
<1>13. DocumentDrawn'
  BY <1>1, <1>3 DEF DocumentDrawn, ViewerInvariant
<1>14. CachesSound'
  BY <1>3, <1>4, <1>9 DEF CachesSound
<1>15. QED BY <1>10, <1>12, <1>13, <1>14 DEF ViewerInvariant

LEMMA ViewerInvariantIsKept == ViewerInvariant /\ [ViewerNext]_viewerVars => ViewerInvariant'
<1> SUFFICES ASSUME ViewerInvariant, [ViewerNext]_viewerVars PROVE ViewerInvariant'
  OBVIOUS
<1>1. CASE StepRenderService
  BY <1>1, StepRenderServiceKeeps
<1>2. CASE ShowThumbnailRail
  BY <1>2, ShowThumbnailRailKeeps
<1>3. CASE ShowCanvas
  BY <1>3, ShowCanvasKeeps
<1>4. CASE EditDocument
  BY <1>4, EditDocumentKeeps
<1>5. CASE Zoom \/ UNCHANGED viewerVars
  BY <1>5, ZoomKeeps
<1>6. CASE WorkerRuns
  BY <1>6, WorkerRunsKeeps
<1>7. QED BY <1>1, <1>2, <1>3, <1>4, <1>5, <1>6 DEF ViewerNext

\* No tile, request in flight or refusal of an older document is ever left in a tile
\* cache of the viewer, and a request is at most one of the three, for every document,
\* budget and interleaving of the frames, the edits and the worker (replace_snapshot,
\* TileCache::retain_revision, absorb_responses_routed). That an answer never finds its
\* request already settled takes a count: of each request of the document drawn, no more
\* is on its way than the two caches wait for.
THEOREM CachesFollowDocument == ViewerSpec => []CachesFollowSnapshot
<1>1. ViewerInit => ViewerInvariant
  BY ViewerInvariantStarts
<1>2. QED BY <1>1, ViewerInvariantIsKept, ViewerInvariantIsEnough, PTL DEF ViewerSpec

\* Whatever the canvas waits for was submitted and has not been answered yet, whichever
\* of the two surfaces the answers before were routed to: no request it marked is lost
\* between the inbox, the backlog and the two channels (step_render_service,
\* absorb_responses_routed).
THEOREM CanvasWaitsForLiveRequests == ViewerSpec => []CanvasAwaitsLiveRequests
<1>1. ViewerInit => ViewerInvariant
  BY ViewerInvariantStarts
<1>2. QED BY <1>1, ViewerInvariantIsKept, ViewerInvariantIsEnough, PTL DEF ViewerSpec
=============================================================================
