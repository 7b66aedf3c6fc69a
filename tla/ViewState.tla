----------------------------- MODULE ViewState -----------------------------
(***************************************************************************)
(* What the viewer shows, frame by frame: the zoom, the scroll offset, the *)
(* current page and the fit mode, under menus, keys, the page field, the   *)
(* thumbnail rail, the wheel, edits and window sizes (opdf-app: viewer.rs, *)
(* panels/canvas.rs, panels/toolbar.rs; app.rs, apply_action and draw).    *)
(*                                                                         *)
(* A frame is five steps, in the order of OpdfApp::draw. An action that a  *)
(* key, a menu or the toolbar asked for is applied as the last of them.    *)
(***************************************************************************)
EXTENDS PageLayout

CONSTANTS
  Documents,  \* the page sequences a document may be opened with
  Windows,    \* the sizes the canvas may get, in dots
  Bar,        \* what a scroll bar takes of the width
  Tolerance,  \* FIT_VIEWPORT_TOLERANCE_PX, in dots
  Scroll,     \* what one turn of the wheel scrolls, in dots
  MaxActs     \* bound on what the user does, quiet frames apart

Size == [width : Nat, height : Nat]

ASSUME ViewStateAssumption ==
  /\ Documents \subseteq Seq(Page) /\ << >> \in Documents
  /\ Windows \subseteq Size /\ \A size \in Windows : Bar <= size.width
  /\ {Bar, Tolerance, Scroll, MaxActs} \subseteq Nat
  /\ Bar <= Tolerance

VARIABLES
  view,     \* ViewerState
  entry,    \* the text of the page field, as a number
  focused,  \* whether the page field has the keyboard
  at,       \* the place in OpdfApp::draw
  window,   \* the size the canvas gets
  opened,   \* the pages the document was opened with
  drawn,    \* history: the pages the last frame drew
  acts      \* what the user did so far

viewVars == <<view, entry, focused, at, window, opened, drawn, acts>>

Nowhere == -1   \* no scroll request
FitMode == {"free", "width", "page"}

\* ViewerState. jumped is history: the page a navigation asked for that no
\* frame has drawn yet.
View ==
  [pages : Seq(Page), zoom : Nat \ {0}, offset : Nat, request : Nat \cup {Nowhere},
   current : Nat \cup {NoPage}, viewport : Size, fitted : Size, fit : FitMode,
   turns : 0..3, rail : BOOLEAN, jumped : Nat \cup {NoPage}]

Places == {"begin", "toolbar", "rail", "canvas", "end"}
ViewAction ==
  {"zoom_in", "zoom_out", "zoom_actual", "fit_width", "fit_page", "first",
   "last", "next", "previous", "toggle_rail", "turn", "turn_back",
   "rotate", "delete"}

-----------------------------------------------------------------------------
\* The methods of ViewerState

Refreshed(v) ==
  [v EXCEPT !.current = CurrentPage(v.pages, v.zoom, v.offset, v.viewport.height)]

SetZoomAnchored(v, zoom, anchor) ==
  LET new == Clamped(zoom)
      offset == AnchoredOffset(v.offset, anchor, v.zoom, new)
  IN  Refreshed([v EXCEPT !.zoom = new, !.offset = offset, !.request = offset,
                          !.jumped = NoPage])

\* Faulty variant: the target is taken in points, not in dots.
ScrolledToUnscaled(v, i) ==
  IF i >= Len(v.pages) THEN v
  ELSE [v EXCEPT !.offset = Top(v.pages, i), !.request = Top(v.pages, i),
                 !.current = i, !.jumped = i]

ScrolledTo(v, i) ==
  IF i >= Len(v.pages) THEN v
  ELSE [v EXCEPT !.offset = Top(v.pages, i) * v.zoom, !.request = Top(v.pages, i) * v.zoom,
                 !.current = i, !.jumped = i]

ReapplyFit(v) ==
  LET w == [v EXCEPT !.fitted = v.viewport]
      To(zoom) == SetZoomAnchored(w, zoom, v.viewport.height \div 2)
  IN  CASE v.fit = "width" -> To(FitWidthZoom(ContentWidth(v.pages), v.viewport.width))
        [] v.fit = "page" /\ v.current # NoPage ->
             To(FitPageZoom(v.pages[v.current + 1], v.viewport.width, v.viewport.height))
        [] OTHER -> w

\* Faulty variant: any change of the viewport is refitted.
MovedAtAll(a, b) == a # b

Moved(a, b) == a - b > Tolerance \/ b - a > Tolerance

SyncFit(v) ==
  LET across == Moved(v.viewport.width, v.fitted.width)
      down == Moved(v.viewport.height, v.fitted.height)
  IN  IF \/ v.fit = "width" /\ across
         \/ v.fit = "page" /\ (across \/ down)
      THEN ReapplyFit(v) ELSE v

\* Faulty variant: an edit is not a reason to fit again.
AdoptedUnfitted(v, pages) == Refreshed([v EXCEPT !.pages = pages, !.jumped = NoPage])

\* Faulty variant: the current page is the one of the pages before.
AdoptedStale(v, pages) == ReapplyFit([v EXCEPT !.pages = pages, !.jumped = NoPage])

\* A snapshot of the same document or of another: replace_snapshot and
\* open_document do the same to the view.
Adopted(v, pages) == ReapplyFit(Refreshed([v EXCEPT !.pages = pages, !.jumped = NoPage]))

\* The pages a frame plans to ask the rasterizer for, half a screen beyond the
\* viewport on each side.
Planned(v) ==
  VisiblePages(v.pages, v.zoom, v.offset, v.viewport.height, v.viewport.height \div 2)

-----------------------------------------------------------------------------
\* Actions

Opening(pages) ==
  [pages |-> pages, zoom |-> Unit, offset |-> 0, request |-> Nowhere,
   current |-> IF pages = << >> THEN NoPage ELSE 0,
   viewport |-> [width |-> 0, height |-> 0], fitted |-> [width |-> 0, height |-> 0],
   fit |-> "free", turns |-> 0, rail |-> TRUE, jumped |-> NoPage]

ViewInit ==
  /\ opened \in Documents
  /\ view = Opening(opened)
  /\ entry = 1 /\ focused = FALSE
  /\ at = "begin"
  /\ window \in Windows
  /\ drawn = {} /\ acts = 0

Quiet == UNCHANGED acts
Act == acts < MaxActs /\ acts' = acts + 1

\* step_render_service changes nothing here. The wheel zooms about the pointer.
BeginFrame ==
  /\ at = "begin" /\ at' = "toolbar"
  /\ \/ Quiet /\ UNCHANGED view
     \/ /\ Act
        /\ \E zoom \in Min(ZoomSteps)..Max(ZoomSteps), anchor \in {0, view.viewport.height} :
             view' = SetZoomAnchored([view EXCEPT !.fit = "free"], zoom, anchor)
  /\ UNCHANGED <<entry, focused, window, opened, drawn>>

\* show_toolbar: the user types into the page field, submits it or leaves it.
\* What is submitted is a page number or is ignored.
ShowToolbar ==
  /\ at = "toolbar" /\ at' = "rail"
  /\ \/ Quiet /\ UNCHANGED <<view, entry, focused>>
     \/ Act /\ focused' = TRUE /\ entry' \in 0..(Len(view.pages) + 1) /\ UNCHANGED view
     \/ /\ focused /\ Quiet /\ focused' = FALSE
        /\ \/ UNCHANGED view
           \/ /\ entry \in 1..Len(view.pages)
              /\ view' = ScrolledTo(view, entry - 1)
        /\ UNCHANGED entry
  /\ UNCHANGED <<window, opened, drawn>>

\* show_thumbnail_rail: a click on a thumbnail.
ShowRail ==
  /\ at = "rail" /\ at' = "canvas"
  /\ \/ Quiet /\ UNCHANGED <<view, entry>>
     \/ /\ view.rail /\ Act
        /\ \E i \in 0..(Len(view.pages) - 1) :
             view' = ScrolledTo(view, i) /\ entry' = i + 1
  /\ UNCHANGED <<focused, window, opened, drawn>>

\* What the canvas gets of a window of this size: a scroll bar appears when
\* the content is taller, and takes some of the width.
Inner(v, size) ==
  IF ContentHeight(v.pages) * v.zoom > size.height
  THEN [size EXCEPT !.width = @ - Bar] ELSE size

LastOffset(v, height) == Max({0, ContentHeight(v.pages) * v.zoom - height})

\* show_canvas: draws at the offset asked for, then takes the user's scrolling
\* and keeps the offset within the content.
ShowCanvas ==
  /\ at = "canvas" /\ at' = "end"
  /\ \/ Quiet /\ UNCHANGED window
     \/ Act /\ window' \in Windows \ {window}
  /\ IF view.pages = << >> THEN UNCHANGED <<view, drawn>>
     ELSE LET shown == IF view.request = Nowhere THEN view.offset ELSE view.request
              inner == Inner(view, window')
          IN  /\ \E turn \in IF acts' = acts THEN {0} ELSE {-Scroll, 0, Scroll} :
                   view' = Refreshed([view EXCEPT
                     !.request = Nowhere, !.jumped = NoPage, !.viewport = inner,
                     !.offset = Max({0, Min({shown + turn, LastOffset(view, inner.height)})})])
              /\ drawn' = VisiblePages(view.pages, view.zoom, shown, inner.height, 0)
  /\ UNCHANGED <<entry, focused, opened>>

\* The page sequences one step of the history leads to: a page comes back, goes
\* or turns.
HistorySteps(pages) ==
  LET ids == {page.id : page \in ToSet(pages)}
      missing == {page \in ToSet(opened) : page.id \notin ids}
  IN  {InsertAt(pages, i, page) : i \in 1..(Len(pages) + 1), page \in missing}
      \cup {RemoveAt(pages, i) : i \in DOMAIN pages}
      \cup {[pages EXCEPT ![i].turned = ~@] : i \in DOMAIN pages}

\* apply_action, where it concerns the view.
Zoomed(v, zoom) == SetZoomAnchored([v EXCEPT !.fit = "free"], zoom, v.viewport.height \div 2)
Navigated(v, action) ==
  LET current == Max({0, v.current})
      last == Max({0, Len(v.pages) - 1})
  IN  CASE action = "first" -> ScrolledTo(v, 0)
        [] action = "last" -> ScrolledTo(v, last)
        [] action = "next" -> ScrolledTo(v, Min({current + 1, last}))
        [] action = "previous" -> ScrolledTo(v, Max({0, current - 1}))
Viewed(v, action) ==
  CASE action = "zoom_in" -> Zoomed(v, StepIn(v.zoom))
    [] action = "zoom_out" -> Zoomed(v, StepOut(v.zoom))
    [] action = "zoom_actual" -> Zoomed(v, Unit)
    [] action = "fit_width" -> ReapplyFit([v EXCEPT !.fit = "width"])
    [] action = "fit_page" -> ReapplyFit([v EXCEPT !.fit = "page"])
    [] action = "toggle_rail" -> [v EXCEPT !.rail = ~@]
    [] action = "turn" -> [v EXCEPT !.turns = (@ + 1) % 4]
    [] action = "turn_back" -> [v EXCEPT !.turns = (@ + 3) % 4]
    [] action \in {"first", "last", "next", "previous"} -> Navigated(v, action)
    [] action = "rotate" /\ v.current # NoPage ->
         Adopted(v, [v.pages EXCEPT ![v.current + 1].turned = ~@])
    [] action = "delete" /\ v.current # NoPage ->
         Adopted(v, RemoveAt(v.pages, v.current + 1))
    [] action \in {"rotate", "delete"} /\ v.current = NoPage -> v

\* The rest of draw: the fit follows the viewport, the page field follows the
\* current page, and an action asked for in this frame is applied.
EndFrame ==
  LET v == SyncFit(view)
      shown == IF v.current # NoPage /\ ~focused THEN v.current + 1 ELSE entry
  IN  /\ at = "end" /\ at' = "begin"
      /\ \/ Quiet /\ view' = v /\ entry' = shown /\ UNCHANGED opened
         \/ /\ Act
            /\ \/ /\ \E action \in ViewAction : view' = Viewed(v, action)
                  /\ entry' = shown /\ UNCHANGED opened
               \/ /\ \E pages \in HistorySteps(v.pages) : view' = Adopted(v, pages)
                  /\ entry' = shown /\ UNCHANGED opened
               \/ /\ opened' \in Documents
                  /\ view' = ScrolledTo(Adopted(v, opened'), 0)
                  /\ entry' = 1
      /\ UNCHANGED <<focused, window, drawn>>

ViewNext == BeginFrame \/ ShowToolbar \/ ShowRail \/ ShowCanvas \/ EndFrame

ViewSpec == ViewInit /\ [][ViewNext]_viewVars

\* eframe draws a frame whenever something changed or asked for it, and a frame
\* that has begun is finished: some step of draw always comes next.
FairViewSpec == ViewSpec /\ WF_at(at' \in Places)

-----------------------------------------------------------------------------
\* Properties

\* Types; the zoom stays within the ladder, and there is a current page, one of
\* the document's, exactly when there are pages.
ViewTypeOK ==
  /\ view \in View
  /\ view.zoom \in Min(ZoomSteps)..Max(ZoomSteps)
  /\ view.current = NoPage <=> view.pages = << >>
  /\ view.current < Len(view.pages)
  /\ view.jumped \in {NoPage, view.current}
  /\ entry \in Nat /\ focused \in BOOLEAN
  /\ at \in Places
  /\ window \in Windows /\ opened \in Documents
  /\ drawn \subseteq Nat /\ acts \in 0..MaxActs

\* The page the toolbar, the rail's ring and an edit take for the current one
\* is the page that covers most of the viewport, after every zoom, refit, edit
\* and resize: only a jump whose frame is still to come says otherwise.
CurrentPageIsInView ==
  /\ ViewTypeOK
  /\ view.jumped = NoPage /\ acts > 0 /\ view.viewport.height > 0 =>
       view.current = CurrentPage(view.pages, view.zoom, view.offset, view.viewport.height)

\* "Fit the content box to the viewport width and keep it fitted" (FitWidth):
\* through edits, turned pages, other documents and window sizes, the zoom is
\* the one that fits the widest page now open, and as a frame begins it fits
\* the viewport up to the width of a scroll bar.
WidthStaysFitted ==
  view.fit = "width" =>
    /\ view.zoom = FitWidthZoom(ContentWidth(view.pages), view.fitted.width)
    /\ at = "begin" => ~Moved(view.viewport.width, view.fitted.width)

\* A jump shows its page: the next frame draws the page a navigation, the page
\* field or a thumbnail asked for, and goes on showing it once the offset has
\* been kept within the content.
JumpsLand ==
  [][at = "canvas" /\ at' = "end" /\ view.jumped # NoPage =>
       /\ view.jumped \in drawn'
       /\ acts' = acts =>
            view.jumped \in VisiblePages(view'.pages, view'.zoom, view'.offset,
                                         view'.viewport.height, 0)]_viewVars

\* What a frame asks the rasterizer for is what the user will see: the binary
\* searches find exactly the pages, and the thumbnails, that touch the
\* viewport, the current page is asked for before any other, and no tile is
\* longer than a texture unless a page is too long for the smallest scale.
Touches(top, bottom, low, high) == bottom >= low /\ top <= high
FramesAskForWhatShows ==
  LET v == view
      reach == v.viewport.height \div 2
      FitsTexture(page, scale) ==
        scale = 1 \/ Max({Width(page), Height(page)}) * scale <= MaxTexture * ScaleUnits
  IN  at = "begin" =>
        /\ Planned(v) =
             {i \in 0..(Len(v.pages) - 1) :
                Touches(Top(v.pages, i) * v.zoom, Bottom(v.pages, i) * v.zoom,
                        v.offset - reach, v.offset + v.viewport.height + reach)}
        /\ v.current \in Planned(v) => Head(NearestFirst(Planned(v), v.current)) = v.current
        /\ \A k \in 0..(Len(v.pages) - 1), past \in {0, 1} :
             LET offset == ThumbBottom(v.pages, k) + past
             IN  VisibleThumbs(v.pages, offset, ThumbWidth) =
                   {i \in 0..(Len(v.pages) - 1) :
                      Touches(ThumbTop(v.pages, i), ThumbBottom(v.pages, i),
                              offset, offset + ThumbWidth)}
        /\ \A page \in ToSet(v.pages) :
             FitsTexture(page, CanvasScale(page, v.zoom)) /\ FitsTexture(page, ThumbScale(page))

\* The view comes to rest when the user does: a refit that makes a scroll bar
\* appear or go does not bring about the next refit (FIT_VIEWPORT_TOLERANCE_PX).
ViewSettles == <>[][FALSE]_view
=============================================================================
