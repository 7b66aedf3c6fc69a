----------------------------- MODULE PageLayout -----------------------------
(***************************************************************************)
(* Where the pages of a document lie, which of them a viewport shows, at   *)
(* which zoom and at which raster scale (opdf-app: layout.rs, zoom.rs,     *)
(* scheduler.rs, panels/thumbnail_rail.rs): arithmetic without state.      *)
(*                                                                         *)
(* Lengths on a page are whole points. A zoom is a whole number of units,  *)
(* Unit of them being 100%. Lengths on screen are dots, a dot being a      *)
(* point at a zoom of one unit: a point takes z dots at zoom z, so dots    *)
(* are exact where the code rounds to f32. Positions count pages from 0,   *)
(* as in the code; a page here is the record at the next index.            *)
(***************************************************************************)
EXTENDS Integers, Sequences, FiniteSets, SequencesExt

CONSTANTS
  Unit,         \* the zoom of 100%, in zoom units
  ZoomSteps,    \* the zoom ladder
  Gap,          \* between consecutive pages, in points
  Margin,       \* around the pages, in points
  ThumbWidth,   \* of a thumbnail, in points
  ThumbLabel,   \* the height of the label under a thumbnail
  ThumbGap,     \* between thumbnails
  ScaleSteps,   \* the ladder of raster scales, in ScaleUnits to a scale of 1
  ScaleUnits,
  MaxTexture    \* the longest side of a texture, in pixels

ASSUME PageLayoutAssumption ==
  /\ {Unit, ScaleUnits, MaxTexture, ThumbWidth} \subseteq Nat \ {0}
  /\ {Gap, Margin, ThumbLabel, ThumbGap} \subseteq Nat
  /\ IsFiniteSet(ZoomSteps) /\ Unit \in ZoomSteps /\ ZoomSteps \subseteq Nat \ {0}
  /\ IsFiniteSet(ScaleSteps) /\ ScaleSteps # {} /\ ScaleSteps \subseteq Nat \ {0}

\* A page: its stored size, and whether its rotation swaps the axes.
Page == [id : Nat, width : Nat \ {0}, height : Nat \ {0}, turned : BOOLEAN]
Width(page) == IF page.turned THEN page.height ELSE page.width
Height(page) == IF page.turned THEN page.width ELSE page.height

-----------------------------------------------------------------------------
\* Layout, in points

\* Where things of these heights begin, laid below one another with a gap between.
Stacked(heights, first, gap) ==
  LET top[i \in 1..Len(heights)] ==
        IF i = 1 THEN first ELSE top[i - 1] + heights[i - 1] + gap
  IN  top

Heights(pages) == [i \in 1..Len(pages) |-> Height(pages[i])]
Top(pages, i) == Stacked(Heights(pages), Margin, Gap)[i + 1]
Bottom(pages, i) == Top(pages, i) + Height(pages[i + 1])
ContentWidth(pages) ==
  IF pages = << >> THEN 0 ELSE Max({Width(page) : page \in ToSet(pages)}) + 2 * Margin
ContentHeight(pages) ==
  IF pages = << >> THEN 0 ELSE Bottom(pages, Len(pages) - 1) + Margin

-----------------------------------------------------------------------------
\* Viewport queries, in dots at zoom z

\* The binary search of slice::partition_point among n positions, by whether
\* the one in the middle is among those before the point.
PartitionPoint(n, before) ==
  LET search[range \in (0..n) \X (0..n)] ==
        LET low == range[1]
            high == range[2]
            middle == (low + high) \div 2
        IN  IF low >= high THEN low
            ELSE IF middle \in before THEN search[<<middle + 1, high>>]
            ELSE search[<<low, middle>>]
  IN  search[<<0, n>>]

\* Positions first..(last - 1), none when last precedes first.
Positions(first, last) == first..(last - 1)

VisiblePages(pages, z, offset, height, overscan) ==
  LET all == Positions(0, Len(pages))
      above == {i \in all : Bottom(pages, i) * z < offset - overscan}
      begun == {i \in all : Top(pages, i) * z <= offset + height + overscan}
  IN  Positions(PartitionPoint(Len(pages), above), PartitionPoint(Len(pages), begun))

Covered(pages, z, offset, height, i) ==
  Min({Bottom(pages, i) * z, offset + height}) - Max({Top(pages, i) * z, offset})

NoPage == -1

\* The page that covers most of the viewport, the first of several; the
\* nearest one when none covers any of it.
CurrentPage(pages, z, offset, height) ==
  LET covering == {i \in VisiblePages(pages, z, offset, height, 0) :
                     Covered(pages, z, offset, height, i) > 0}
      above == {i \in Positions(0, Len(pages)) : Bottom(pages, i) * z < offset}
  IN  IF pages = << >> THEN NoPage
      ELSE IF covering = {}
           THEN Min({PartitionPoint(Len(pages), above), Len(pages) - 1})
           ELSE CHOOSE i \in covering : \A j \in covering :
                  \/ Covered(pages, z, offset, height, j) < Covered(pages, z, offset, height, i)
                  \/ /\ Covered(pages, z, offset, height, j) = Covered(pages, z, offset, height, i)
                     /\ i <= j

-----------------------------------------------------------------------------
\* Zoom

Clamped(z) == Max({Min(ZoomSteps), Min({Max(ZoomSteps), z})})
StepIn(z) == Min({s \in ZoomSteps : s > z} \cup {Max(ZoomSteps)})
StepOut(z) == Max({s \in ZoomSteps : s < z} \cup {Min(ZoomSteps)})

\* The offset at which the point under the anchor stays under it.
AnchoredOffset(offset, anchor, old, new) ==
  Max({0, ((offset + anchor) * new) \div old - anchor})

FitWidthZoom(width, viewport) ==
  IF width = 0 \/ viewport = 0 THEN Unit ELSE Clamped(viewport \div width)
FitPageZoom(page, across, down) ==
  Clamped(Min({FitWidthZoom(Width(page), across),
               IF down = 0 THEN Unit ELSE down \div Height(page)}))

-----------------------------------------------------------------------------
\* What is asked of the rasterizer

Quantized(scale) ==
  IF \E s \in ScaleSteps : s >= scale THEN Min({s \in ScaleSteps : s >= scale})
  ELSE Max(ScaleSteps)

\* Faulty variant: the limit is measured across the page.
FitScaleAcross(scale, width, height) ==
  LET wanted == Quantized(scale)
      fitting == {s \in ScaleSteps : s * width <= MaxTexture * ScaleUnits}
  IN  IF wanted \in fitting THEN wanted
      ELSE IF fitting # {} THEN Max(fitting)
      ELSE Max({1, (MaxTexture * ScaleUnits) \div width})

\* The scale whose tile no side of exceeds a texture: a step of the ladder if
\* any does, else one of the grid below it.
FitScale(scale, width, height) ==
  LET longest == Max({width, height})
      wanted == Quantized(scale)
      fitting == {s \in ScaleSteps : s * longest <= MaxTexture * ScaleUnits}
  IN  IF wanted \in fitting THEN wanted
      ELSE IF fitting # {} THEN Max(fitting)
      ELSE Max({1, (MaxTexture * ScaleUnits) \div longest})

CanvasScale(page, z) == FitScale((z * ScaleUnits) \div Unit, Width(page), Height(page))
ThumbScale(page) ==
  FitScale((ThumbWidth * ScaleUnits) \div Width(page), Width(page), Height(page))

\* The positions of a frame's plan, nearest the focus first, later before
\* earlier ones.
NearestFirst(visible, focus) ==
  LET Away(i) == Max({i - focus, focus - i})
      Before(i) == {j \in visible : Away(j) < Away(i) \/ (Away(j) = Away(i) /\ j > i)}
  IN  [k \in 1..Cardinality(visible) |->
         CHOOSE i \in visible : Cardinality(Before(i)) = k - 1]

-----------------------------------------------------------------------------
\* The thumbnail rail

ThumbHeight(page) == (ThumbWidth * Height(page)) \div Width(page)
Slots(pages) == [i \in 1..Len(pages) |-> ThumbHeight(pages[i]) + ThumbLabel]
ThumbTop(pages, i) == Stacked(Slots(pages), ThumbGap, ThumbGap)[i + 1]
ThumbBottom(pages, i) == ThumbTop(pages, i) + ThumbHeight(pages[i + 1]) + ThumbLabel

VisibleThumbs(pages, offset, height) ==
  LET all == Positions(0, Len(pages))
      above == {i \in all : ThumbBottom(pages, i) < offset}
      begun == {i \in all : ThumbTop(pages, i) <= offset + height}
  IN  Positions(PartitionPoint(Len(pages), above), PartitionPoint(Len(pages), begun))
=============================================================================
