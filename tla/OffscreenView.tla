---------------------------- MODULE OffscreenView ----------------------------
(***************************************************************************)
(* CefRenderWidgetHostViewOSR and CefVideoConsumerOSR: the page without a   *)
(* window, which the client paints.                                         *)
(*                                                                         *)
(* A resize is announced by the client, laid out by the renderer, reported  *)
(* back in the metadata of a frame, requested from the capturer and only    *)
(* then painted.  Meanwhile the view holds other resizes and remembers that *)
(* there was one.  Frames are captured and metadata are sent by two         *)
(* channels which are not ordered with each other.                          *)
(*                                                                         *)
(* The client's window has a width in pixels and a scale.  The view keeps   *)
(* its own copy of what the client's GetViewRect and GetScreenInfo said.    *)
(***************************************************************************)
EXTENDS SpoutOutput, Sequences

CONSTANTS Widths, Scales,   \* of the client's window
          PopupRects,       \* <<x, width>> popups are asked for
          MaxChange,        \* bound on what the user and the system do
          MaxInFlight       \* bound on frames and metadata on their way

ASSUME OffscreenAssumption ==
  /\ Widths \subseteq Nat \ {0} /\ Scales \subseteq Nat \ {0}
  /\ PopupRects \subseteq Int \X Nat
  /\ Widths \subseteq Sizes /\ Sizes \subseteq Nat
  /\ MaxChange \in Nat /\ MaxInFlight \in Nat \ {0}
  /\ None \notin Popups \cup Sizes 
  /\ None \notin Texture /\ None \notin PopupLayer

VARIABLES
  \* the client's window
  window,    \* [width, scale]
  hidden,    \* OsrWindowWin::hidden_
  changes,   \* what happened to it so far
  \* the view
  alive,     \* there is a view
  showing,   \* is_showing_
  geometry,  \* current_view_bounds_ and the scale of screen_infos_
  hold,      \* hold_resize_
  pendingResize,
  posted,    \* WasResized tasks
  \* its popup widget
  popup,     \* popup_host_view_
  unused,    \* popup widgets not made yet
  cancels,   \* posted CancelWidget tasks
  \* renderer and capturer
  dirty,     \* the renderer has something to draw
  surface,   \* size of the active frame, 0: none
  metadata,  \* RenderFrameMetadata on the way
  capturing, \* the capturer is started
  constraint, \* size_in_pixels_ of the consumer, 0: no consumer
  damage,    \* the capturer has something to capture
  frames     \* captured frames on the way

windowVars == <<window, hidden, changes>>
viewVars   == <<alive, showing, geometry, hold, pendingResize, posted>>
popupVars  == <<popup, unused, cancels>>
gpuVars    == <<dirty, surface, metadata, capturing, constraint, damage, frames>>
vars == <<windowVars, viewVars, popupVars, gpuVars, outputVars>>

Window   == [width : Widths, scale : Scales]
Geometry == [rect : Sizes, scale : Scales]

TypeOK ==
  /\ window \in Window
  /\ hidden \in BOOLEAN /\ changes \in 0 .. MaxChange
  /\ alive \in BOOLEAN /\ showing \in BOOLEAN
  /\ geometry \in Geometry
  /\ hold \in BOOLEAN /\ pendingResize \in BOOLEAN
  /\ posted \in Nat
  /\ popup \in Popups \cup {None}
  /\ unused \subseteq Popups /\ cancels \subseteq Popups \ unused
  /\ dirty \in BOOLEAN /\ damage \in BOOLEAN /\ capturing \in BOOLEAN
  /\ surface \in Sizes \cup {0} /\ constraint \in Sizes \cup {0}
  /\ metadata \in Seq(Sizes)
  /\ frames \in Seq(Texture)
  /\ OutputTypeOK

GeometryOf_Empty(w) == [rect |-> w.width \div w.scale, scale |-> w.scale]

\* GetViewRect and GetScreenInfo of the window w.
GeometryOf(w) ==
  [rect |-> IF w.width \div w.scale = 0 THEN 1 ELSE w.width \div w.scale,
   scale |-> w.scale]

\* SizeInPixels
Pixels(g) == g.rect * g.scale

\* Sizes holds what the view makes of the window, in either unit.
ASSUME SizesAssumption ==
  \A w \in Window :
    GeometryOf(w).rect \in Sizes /\ Pixels(GeometryOf(w)) \in Sizes

Init ==
  /\ window \in Window
  /\ hidden = FALSE /\ changes = 0
  /\ alive = TRUE /\ showing = TRUE
  /\ geometry = GeometryOf(window)
  /\ hold = FALSE /\ pendingResize = FALSE /\ posted = 0
  /\ popup = None /\ unused = Popups /\ cancels = {}
  /\ dirty = TRUE /\ surface = 0 /\ metadata = <<>>
  /\ capturing = TRUE /\ constraint = Pixels(geometry) /\ damage = TRUE
  /\ frames = <<>>
  /\ comp = window.width
  /\ viewTex = None /\ layers = {} /\ popupLayer = None /\ output = None

-----------------------------------------------------------------------------
(* Resizing *)

\* ResizeRootLayer for a window of the geometry g.  A surface of a new size is
\* embedded, as it is if it is forced, and the renderer lays the page out.
ResizeRootLayer_Forgets(g, force) ==
  IF ~hold /\ g # geometry
  THEN geometry' = g /\ hold' = TRUE /\ dirty' = TRUE /\ UNCHANGED pendingResize
  ELSE /\ dirty' = (dirty \/ force)
       /\ UNCHANGED <<geometry, hold, pendingResize>>

ResizeRootLayer(g, force) ==
  IF ~hold /\ g # geometry
  THEN geometry' = g /\ hold' = TRUE /\ dirty' = TRUE /\ UNCHANGED pendingResize
  ELSE /\ pendingResize' = (pendingResize \/ hold)
       /\ dirty' = (dirty \/ force)
       /\ UNCHANGED <<geometry, hold>>

WasResized(g) ==
  IF hold
  THEN pendingResize' = TRUE /\ UNCHANGED <<geometry, hold, dirty>>
  ELSE ResizeRootLayer(g, FALSE)

\* OnScreenInfoChanged invalidates the surface; WasResized follows it.
ScreenInfoThenResized(g) ==
  IF ~hold /\ g # geometry
  THEN /\ geometry' = g /\ hold' = TRUE /\ dirty' = TRUE
       /\ pendingResize' = TRUE
  ELSE ResizeRootLayer(g, TRUE)

\* The client's code runs while there is a view, or without effect.
Announce(announcement, w) ==
  /\ changes < MaxChange /\ changes' = changes + 1
  /\ window' = w
  /\ IF alive THEN announcement
     ELSE UNCHANGED <<geometry, hold, pendingResize, dirty>>
  /\ UNCHANGED <<hidden, alive, showing, posted, popupVars, surface, metadata,
                 capturing, constraint, damage, frames, outputVars>>

\* The user resizes the window: OsrWindowWin::OnSize.
OnSize(width) ==
  LET w == [window EXCEPT !.width = width]
  IN  width # window.width /\ Announce(WasResized(GeometryOf(w)), w)

SetDeviceScaleFactor(scale) ==
  LET w == [window EXCEPT !.scale = scale]
  IN  /\ scale # window.scale
      /\ Announce(ScreenInfoThenResized(GeometryOf(w)), w)

\* The task that ReleaseResizeHold posted.
ResizeTask ==
  /\ posted > 0 /\ posted' = posted - 1
  /\ WasResized(GeometryOf(window))
  /\ UNCHANGED <<windowVars, alive, showing, popupVars, surface, metadata,
                 capturing, constraint, damage, frames, outputVars>>

ReleaseResizeHold_Forgets ==
  /\ hold' = FALSE /\ pendingResize' = FALSE
  /\ UNCHANGED posted

ReleaseResizeHold ==
  /\ hold' = FALSE /\ pendingResize' = FALSE
  /\ posted' = IF pendingResize THEN posted + 1 ELSE posted

-----------------------------------------------------------------------------
(* Showing and hiding *)

\* ShowWithVisibility: the renderer draws again and the capturer starts.  The
\* view makes the consumer when it is shown for the first time.
StartShowing(g) ==
  /\ showing' = TRUE /\ capturing' = TRUE /\ damage' = TRUE /\ dirty' = TRUE
  /\ constraint' = IF constraint = 0 THEN Pixels(g) ELSE constraint

Show ==
  /\ hidden /\ hidden' = FALSE
  /\ IF ~alive THEN UNCHANGED <<showing, capturing, damage, dirty, constraint>>
     ELSE StartShowing(geometry)
  /\ UNCHANGED <<window, changes, alive, geometry, hold, pendingResize, posted,
                 popupVars, surface, metadata, frames, outputVars>>

Hide ==
  /\ ~hidden /\ changes < MaxChange
  /\ hidden' = TRUE /\ changes' = changes + 1
  /\ showing' = FALSE /\ capturing' = FALSE
  /\ UNCHANGED <<window, alive, geometry, hold, pendingResize, posted, popupVars,
                 dirty, surface, metadata, constraint, damage, frames, outputVars>>

\* The renderer crashes; Destroy cancels the popup before the view goes.
RenderProcessGone ==
  /\ alive /\ changes < MaxChange
  /\ changes' = changes + 1
  /\ alive' = FALSE /\ showing' = FALSE
  /\ hold' = FALSE /\ pendingResize' = FALSE /\ posted' = 0
  /\ popup' = None /\ cancels' = {}
  /\ IF popup = None THEN UNCHANGED outputVars ELSE HidePopup
  /\ dirty' = FALSE /\ surface' = 0 /\ metadata' = <<>> /\ frames' = <<>>
  /\ capturing' = FALSE /\ constraint' = 0 /\ damage' = FALSE
  /\ UNCHANGED <<window, hidden, geometry, unused>>

\* The page is loaded again.
ViewCreated ==
  /\ ~alive /\ alive' = TRUE
  /\ geometry' = GeometryOf(window)
  /\ IF hidden THEN UNCHANGED <<showing, capturing, damage, dirty, constraint>>
     ELSE StartShowing(geometry')
  /\ UNCHANGED <<windowVars, hold, pendingResize, posted, popupVars, surface,
                 metadata, frames, outputVars>>

-----------------------------------------------------------------------------
(* Frames *)

\* The renderer draws the page in its present geometry.
Draw ==
  /\ showing /\ dirty /\ Len(metadata) < MaxInFlight
  /\ dirty' = FALSE
  /\ surface' = Pixels(geometry)
  /\ metadata' = Append(metadata, surface')
  /\ damage' = TRUE
  /\ UNCHANGED <<windowVars, viewVars, popupVars, capturing, constraint, frames,
                 outputVars>>

SizeChanged_Never(size) == UNCHANGED <<constraint, damage>>

\* The consumer asks for frames of another size, which the capturer sends.
SizeChanged(size) ==
  IF constraint = size THEN UNCHANGED <<constraint, damage>>
  ELSE constraint' = size /\ damage' = TRUE

\* A hidden view does not observe metadata.
OnRenderFrameMetadataChanged ==
  /\ metadata # <<>>
  /\ metadata' = Tail(metadata)
  /\ IF showing THEN SizeChanged(Head(metadata))
     ELSE UNCHANGED <<constraint, damage>>
  /\ UNCHANGED <<windowVars, viewVars, popupVars, dirty, surface, capturing,
                 frames, outputVars>>

Capture ==
  /\ capturing /\ damage /\ surface # 0 /\ Len(frames) < MaxInFlight
  /\ damage' = FALSE
  /\ frames' = Append(frames, [coded |-> constraint, content |-> surface])
  /\ UNCHANGED <<windowVars, viewVars, popupVars, dirty, surface, metadata,
                 capturing, constraint, outputVars>>

\* OnAcceleratedPaint releases the hold when the frame has the desired size.
OnFrameCaptured ==
  /\ frames # <<>>
  /\ frames' = Tail(frames)
  /\ IF showing THEN PaintView(Head(frames)) ELSE UNCHANGED outputVars
  /\ IF showing /\ hold /\ Head(frames).coded = Pixels(geometry)
     THEN ReleaseResizeHold
     ELSE UNCHANGED <<hold, pendingResize, posted>>
  /\ UNCHANGED <<windowVars, alive, showing, geometry, popupVars, dirty, surface,
                 metadata, capturing, constraint, damage>>

-----------------------------------------------------------------------------
(* Popup widgets *)

InitAsPopup_KeepsPrevious(p, r) ==
  /\ alive /\ viewTex # None
  /\ p \in unused /\ unused' = unused \ {p}
  /\ popup' = p
  /\ ShowPopup(p, r[1] * geometry.scale, r[2] * geometry.scale)
  /\ UNCHANGED <<windowVars, viewVars, cancels, gpuVars>>

\* A page that was painted opens a popup; a previous one is canceled.
InitAsPopup(p, r) ==
  /\ alive /\ viewTex # None
  /\ p \in unused /\ unused' = unused \ {p}
  /\ popup' = p
  /\ IF popup = None
     THEN ShowPopup(p, r[1] * geometry.scale, r[2] * geometry.scale)
     ELSE ReplacePopup(p, r[1] * geometry.scale, r[2] * geometry.scale)
  /\ UNCHANGED <<windowVars, viewVars, cancels, gpuVars>>

CancelWidget ==
  /\ popup' = None
  /\ HidePopup
  /\ UNCHANGED <<windowVars, viewVars, unused, gpuVars>>

\* A frame of the popup is painted.
PopupPainted ==
  /\ popup # None
  /\ PaintPopup
  /\ UNCHANGED <<windowVars, viewVars, popupVars, gpuVars>>

\* The renderer closes its popup: Destroy.
PopupDestroyed ==
  popup # None /\ CancelWidget /\ UNCHANGED cancels

\* SendMouseWheelEvent outside of the popup.
WheelOutside ==
  /\ popup # None
  /\ cancels' = cancels \cup {popup}
  /\ UNCHANGED <<windowVars, viewVars, popup, unused, gpuVars, outputVars>>

\* The task holds a weak pointer to the popup it was posted for.
CancelTask(p) ==
  /\ p \in cancels /\ cancels' = cancels \ {p}
  /\ IF popup = p THEN CancelWidget
     ELSE UNCHANGED <<windowVars, viewVars, popup, unused, gpuVars, outputVars>>

-----------------------------------------------------------------------------

User ==
  \/ \E w \in Widths : OnSize(w)
  \/ \E s \in Scales : SetDeviceScaleFactor(s)
  \/ Show \/ Hide \/ RenderProcessGone
  \/ WheelOutside

Page ==
  \/ Draw \/ ViewCreated
  \/ \E p \in Popups, r \in PopupRects : InitAsPopup(p, r)
  \/ PopupPainted \/ PopupDestroyed

Next ==
  \/ User \/ Page
  \/ ResizeTask \/ OnRenderFrameMetadataChanged \/ Capture \/ OnFrameCaptured
  \/ \E p \in Popups : CancelTask(p)

Spec == Init /\ [][Next]_vars

\* Tasks run, and a page that is shown is drawn, captured and painted.
Fairness ==
  /\ WF_vars(Draw) /\ WF_vars(ViewCreated)
  /\ WF_vars(OnRenderFrameMetadataChanged)
  /\ WF_vars(Capture) /\ WF_vars(OnFrameCaptured)
  /\ WF_vars(ResizeTask)

FairSpec == Spec /\ Fairness

-----------------------------------------------------------------------------
(* Safety *)

\* A view never waits in vain: while the resize hold lasts and the view is
\* shown, the frame that releases it is drawn, reported, captured or on its way.
HoldHasFrame ==
  LET size == Pixels(geometry)
  IN  hold /\ showing =>
        \/ dirty
        \/ \E i \in DOMAIN metadata : metadata[i] = size
        \/ /\ constraint = size
           /\ damage \/ \E i \in DOMAIN frames : frames[i].coded = size

\* No resize is lost: a view that differs from the client's window knows that
\* there was another resize, or the task that will look is posted.
ResizeIsRemembered ==
  alive /\ geometry # GeometryOf(window) => (hold /\ pendingResize) \/ posted > 0

\* Every resize is either under way, with a frame that will end it, or remembered.
ResizesAreKept == TypeOK /\ HoldHasFrame /\ ResizeIsRemembered

\* popup_layer_ is the popup of the view, and the composition has no other: the
\* callbacks of the view never find a layer too many or too few.
LayersMatchPopup ==
  /\ layers = IF popup = None THEN {} ELSE {popup}
  /\ IF popup = None THEN popupLayer = None
     ELSE popupLayer # None /\ popupLayer.of = popup

\* A popup lies inside of the view if it fits, at the edge it was moved over,
\* and where it was asked for if it was inside.
PopupIsInside ==
  popupLayer # None =>
    LET l == popupLayer
    IN  /\ l.x >= 0
        /\ l.w <= l.outer => l.x + l.w <= l.outer
        /\ l.asked >= 0 /\ l.asked + l.w <= l.outer => l.x = l.asked
        /\ l.w > l.outer => l.x = 0

\* Other programs never see a popup that is closed: Render follows its end.
OutputHasNoClosedPopup ==
  output # None => popupLayer # None /\ popupLayer.tex = output

\* What is composed and sent follows the popup of the view and holds it inside.
PopupIsShown == LayersMatchPopup /\ PopupIsInside /\ OutputHasNoClosedPopup

-----------------------------------------------------------------------------
(* Liveness *)

\* When the user leaves the window alone, what a shown view sends has the
\* window's size in the end, and is not letterboxed.
SizeIsShown ==
  LET size == Pixels(GeometryOf(window))
  IN  <>[](showing => viewTex = [coded |-> size, content |-> size])

=============================================================================
