------------------------- MODULE OffscreenViewProofs -------------------------
(***************************************************************************)
(* Proofs about OffscreenView and SpoutOutput, for windows of all sizes and  *)
(* scales, any popups and any number of frames on their way: no resize is    *)
(* lost, a view that holds a resize is always owed the frame that ends it,   *)
(* and what is sent shows the view's popup, inside of the view.              *)
(***************************************************************************)
EXTENDS OffscreenView, SequenceTheorems, TLAPS

\* The view's geometry is one it was told of, and without a view nothing is
\* under way; a page is captured in a known size, and painted before its popup.
ViewIsWhole ==
  /\ \E w \in Window : geometry = GeometryOf(w)
  /\ ~alive => ~showing /\ ~hold /\ posted = 0 /\ popup = None
  /\ capturing => constraint \in Sizes
  /\ popup # None => viewTex # None /\ popup \notin unused

\* What was drawn since the resize is reported last, or was, and then it is
\* being captured.
LastDrawIsHeld ==
  hold /\ showing /\ ~dirty =>
    /\ LET told == IF metadata = <<>> THEN constraint ELSE metadata[Len(metadata)]
       IN  told = Pixels(geometry)
    /\ constraint = Pixels(geometry) =>
         damage \/ \E i \in DOMAIN frames : frames[i].coded = Pixels(geometry)

\* Everything window, view, capturer and output assume of each other.
ViewInv ==
  /\ TypeOK
  /\ ViewIsWhole
  /\ LastDrawIsHeld
  /\ ResizeIsRemembered
  /\ PopupIsShown

-----------------------------------------------------------------------------
(* Geometry *)

\* What the client tells of its window is a geometry, and has a size.
LEMMA WindowHasGeometry ==
  ASSUME NEW w \in Window
  PROVE  GeometryOf(w) \in Geometry /\ Pixels(GeometryOf(w)) \in Sizes
<1>1. GeometryOf(w).rect \in Sizes /\ Pixels(GeometryOf(w)) \in Sizes
  BY SizesAssumption
<1>2. GeometryOf(w).scale \in Scales
  BY DEF GeometryOf, Window
<1>3. GeometryOf(w) = [rect |-> GeometryOf(w).rect, scale |-> GeometryOf(w).scale]
  BY DEF GeometryOf
<1> QED
  BY <1>1, <1>2, <1>3 DEF Geometry

\* A popup is moved over the edge it would hang out of, and no further.
LEMMA PopupXIsInside ==
  ASSUME NEW x \in Int, NEW w \in Nat, NEW outer \in Nat
  PROVE  LET px == PopupX(x, w, outer)
         IN  /\ px \in Int /\ px >= 0
             /\ w <= outer => px + w <= outer
             /\ x >= 0 /\ x + w <= outer => px = x
             /\ w > outer => px = 0
  BY DEF PopupX

\* The layer that set_bounds makes of a popup.
LEMMA LayerIsSized ==
  ASSUME NEW p \in Popups, NEW x \in Int, NEW w \in Nat, NEW outer \in Sizes
  PROVE  LET l == SizedLayer(p, x, w, outer)
         IN  /\ l \in PopupLayer /\ l.of = p /\ l.tex = None
             /\ l.x >= 0
             /\ l.w <= l.outer => l.x + l.w <= l.outer
             /\ l.asked >= 0 /\ l.asked + l.w <= l.outer => l.x = l.asked
             /\ l.w > l.outer => l.x = 0
<1>1. outer \in Nat
  BY OffscreenAssumption
<1> DEFINE px == PopupX(x, w, outer)
<1>2. /\ px \in Int /\ px >= 0
      /\ w <= outer => px + w <= outer
      /\ x >= 0 /\ x + w <= outer => px = x
      /\ w > outer => px = 0
  BY <1>1, PopupXIsInside
<1>3. SizedLayer(p, x, w, outer) =
        [of |-> p, asked |-> x, x |-> px, w |-> w, outer |-> outer, tex |-> None]
  BY DEF SizedLayer
<1> HIDE DEF px
<1> QED
  BY <1>2, <1>3 DEF PopupLayer

-----------------------------------------------------------------------------
(* Resizing *)

\* What a resize needs to know of the view.
ResizeKnown == TypeOK /\ ViewIsWhole /\ LastDrawIsHeld

\* A window of w's geometry is taken over or remembered; a new geometry is drawn.
Resized(w) ==
  /\ geometry' \in {geometry, GeometryOf(w)}
  /\ hold' \in BOOLEAN /\ pendingResize' \in BOOLEAN /\ dirty' \in BOOLEAN
  /\ geometry' # GeometryOf(w) => hold' /\ pendingResize'
  /\ hold => hold'
  /\ dirty => dirty'
  /\ geometry' # geometry \/ hold' # hold => dirty'

LEMMA WasResizedFacts ==
  ASSUME TypeOK, NEW w \in Window, WasResized(GeometryOf(w))
  PROVE  Resized(w)
  BY DEF WasResized, ResizeRootLayer, Resized, TypeOK

LEMMA ScreenInfoFacts ==
  ASSUME TypeOK, NEW w \in Window, ScreenInfoThenResized(GeometryOf(w))
  PROVE  Resized(w)
  BY DEF ScreenInfoThenResized, ResizeRootLayer, Resized, TypeOK

\* Window and view after a resize, whether it was remembered or taken over.
LEMMA ResizedKeeps ==
  ASSUME ViewInv, NEW w \in Window, window' = w,
         IF alive THEN Resized(w) ELSE UNCHANGED <<geometry, hold, pendingResize, dirty>>,
         UNCHANGED <<alive, showing, popup, unused, capturing, constraint, damage,
                     metadata, frames, viewTex>>,
         posted' \in Nat, alive \/ posted' = 0
  PROVE  /\ geometry' \in Geometry
         /\ hold' \in BOOLEAN /\ pendingResize' \in BOOLEAN /\ dirty' \in BOOLEAN
         /\ ViewIsWhole' /\ LastDrawIsHeld' /\ ResizeIsRemembered'
<1> USE DEF ViewInv
<1>1. geometry \in Geometry /\ GeometryOf(w) \in Geometry
  BY WindowHasGeometry DEF TypeOK
<1>2. hold \in BOOLEAN /\ pendingResize \in BOOLEAN /\ dirty \in BOOLEAN /\ alive \in BOOLEAN
  BY DEF TypeOK
<1>3. PICK v \in Window : geometry = GeometryOf(v)
  BY DEF ViewIsWhole
<1>4. geometry' \in {geometry, GeometryOf(w)}
  BY DEF Resized
<1>5. ViewIsWhole'
  <2>1. \E u \in Window : geometry' = GeometryOf(u)
    BY <1>3, <1>4
  <2>2. ~alive' => ~showing' /\ ~hold' /\ posted' = 0 /\ popup' = None
    BY DEF ViewIsWhole
  <2> QED
    BY <2>1, <2>2 DEF ViewIsWhole
<1>6. LastDrawIsHeld'
  <2>1. ASSUME hold', showing', ~dirty' PROVE hold /\ showing /\ ~dirty /\ geometry' = geometry
    BY <2>1, <1>2 DEF Resized
  <2> QED
    BY <2>1 DEF LastDrawIsHeld, Pixels
<1>7. ResizeIsRemembered'
  BY DEF Resized, ResizeIsRemembered
<1> QED
  BY <1>1, <1>2, <1>4, <1>5, <1>6, <1>7 DEF Resized

\* A resize by the user or the system.
LEMMA AnnounceKeeps ==
  ASSUME ViewInv, NEW w \in Window, NEW announcement,
         Announce(announcement, w), announcement => Resized(w)
  PROVE  ViewInv'
<1> USE DEF ViewInv
<1>1. /\ changes' \in 0 .. MaxChange
      /\ window' = w
      /\ IF alive THEN Resized(w) ELSE UNCHANGED <<geometry, hold, pendingResize, dirty>>
      /\ UNCHANGED <<hidden, alive, showing, posted, popupVars, surface, metadata,
                     capturing, constraint, damage, frames, outputVars>>
  BY OffscreenAssumption DEF Announce, TypeOK
<1>2. posted \in Nat /\ (alive \/ posted = 0)
  BY DEF TypeOK, ViewIsWhole
<1>3. /\ geometry' \in Geometry
      /\ hold' \in BOOLEAN /\ pendingResize' \in BOOLEAN /\ dirty' \in BOOLEAN
      /\ ViewIsWhole' /\ LastDrawIsHeld' /\ ResizeIsRemembered'
  BY <1>1, <1>2, ResizedKeeps DEF popupVars, outputVars
<1>4. TypeOK'
  BY <1>1, <1>3 DEF TypeOK, OutputTypeOK, popupVars, outputVars
<1>5. PopupIsShown'
  BY <1>1 DEF popupVars, outputVars, PopupIsShown, LayersMatchPopup, PopupIsInside,
    OutputHasNoClosedPopup
<1> QED
  BY <1>3, <1>4, <1>5

LEMMA OnSizeKeeps ==
  ASSUME ViewInv, NEW width \in Widths, OnSize(width)
  PROVE  ViewInv'
<1> DEFINE w == [window EXCEPT !.width = width]
<1>1. w \in Window
  BY DEF ViewInv, TypeOK, Window
<1>2. Announce(WasResized(GeometryOf(w)), w)
  BY DEF OnSize
<1>3. WasResized(GeometryOf(w)) => Resized(w)
  BY <1>1, WasResizedFacts DEF ViewInv
<1> QED
  BY <1>1, <1>2, <1>3, AnnounceKeeps

LEMMA SetDeviceScaleFactorKeeps ==
  ASSUME ViewInv, NEW scale \in Scales, SetDeviceScaleFactor(scale)
  PROVE  ViewInv'
<1> DEFINE w == [window EXCEPT !.scale = scale]
<1>1. w \in Window
  BY DEF ViewInv, TypeOK, Window
<1>2. Announce(ScreenInfoThenResized(GeometryOf(w)), w)
  BY DEF SetDeviceScaleFactor
<1>3. ScreenInfoThenResized(GeometryOf(w)) => Resized(w)
  BY <1>1, ScreenInfoFacts DEF ViewInv
<1> QED
  BY <1>1, <1>2, <1>3, AnnounceKeeps

\* The posted task looks at the window as it is by then.
LEMMA ResizeTaskKeeps ==
  ASSUME ViewInv, ResizeTask
  PROVE  ViewInv'
<1> USE DEF ViewInv
<1>1. /\ window \in Window /\ window' = window
      /\ posted' \in Nat /\ alive
      /\ UNCHANGED <<hidden, changes, alive, showing, popupVars, surface, metadata,
                     capturing, constraint, damage, frames, outputVars>>
  BY DEF ResizeTask, TypeOK, ViewIsWhole, windowVars
<1>2. Resized(window)
  BY <1>1, WasResizedFacts DEF ResizeTask
<1>3. /\ geometry' \in Geometry
      /\ hold' \in BOOLEAN /\ pendingResize' \in BOOLEAN /\ dirty' \in BOOLEAN
      /\ ViewIsWhole' /\ LastDrawIsHeld' /\ ResizeIsRemembered'
  BY <1>1, <1>2, ResizedKeeps DEF popupVars, outputVars
<1>4. TypeOK'
  BY <1>1, <1>3 DEF TypeOK, OutputTypeOK, popupVars, outputVars
<1>5. PopupIsShown'
  BY <1>1 DEF popupVars, outputVars, PopupIsShown, LayersMatchPopup, PopupIsInside,
    OutputHasNoClosedPopup
<1> QED
  BY <1>3, <1>4, <1>5

-----------------------------------------------------------------------------
(* Showing and hiding *)

\* A view that is shown draws again, in a size the capturer knows.
LEMMA StartShowingFacts ==
  ASSUME NEW g, Pixels(g) \in Sizes, TypeOK, StartShowing(g)
  PROVE  /\ showing' /\ capturing' /\ damage' /\ dirty'
         /\ constraint' \in Sizes
         /\ showing' \in BOOLEAN /\ capturing' \in BOOLEAN
         /\ damage' \in BOOLEAN /\ dirty' \in BOOLEAN
  BY DEF StartShowing, TypeOK

LEMMA ShowKeeps ==
  ASSUME ViewInv, Show
  PROVE  ViewInv'
<1> USE DEF ViewInv
<1>1. /\ hidden' = FALSE
      /\ UNCHANGED <<window, changes, alive, geometry, hold, pendingResize, posted,
                     popup, unused, cancels, surface, metadata, frames, comp, viewTex,
                     layers, popupLayer, output>>
  BY DEF Show, popupVars, outputVars
<1>2. Pixels(geometry) \in Sizes
  BY WindowHasGeometry DEF ViewIsWhole
<1>3. CASE alive
  <2>1. StartShowing(geometry)
    BY <1>3 DEF Show
  <2>2. TypeOK'
    BY <1>1, <1>2, <2>1, StartShowingFacts DEF TypeOK, OutputTypeOK
  <2>3. ViewIsWhole'
    BY <1>1, <1>2, <1>3, <2>1, StartShowingFacts DEF ViewIsWhole
  <2>4. LastDrawIsHeld'
    BY <1>2, <2>1, StartShowingFacts DEF LastDrawIsHeld
  <2>5. ResizeIsRemembered' /\ PopupIsShown'
    BY <1>1 DEF ResizeIsRemembered, PopupIsShown, LayersMatchPopup, PopupIsInside,
      OutputHasNoClosedPopup
  <2> QED
    BY <2>2, <2>3, <2>4, <2>5
<1>4. CASE ~alive
  <2>1. UNCHANGED <<showing, capturing, damage, dirty, constraint>>
    BY <1>4 DEF Show
  <2>2. TypeOK'
    <3>1. /\ hidden' \in BOOLEAN /\ alive' \in BOOLEAN /\ showing' \in BOOLEAN
          /\ hold' \in BOOLEAN /\ pendingResize' \in BOOLEAN
          /\ dirty' \in BOOLEAN /\ damage' \in BOOLEAN /\ capturing' \in BOOLEAN
      BY <1>1, <2>1 DEF TypeOK
    <3> QED
      BY <1>1, <2>1, <3>1 DEF TypeOK, OutputTypeOK
  <2>3. ViewIsWhole' /\ LastDrawIsHeld' /\ ResizeIsRemembered'
    BY <1>1, <2>1 DEF ViewIsWhole, LastDrawIsHeld, Pixels, ResizeIsRemembered
  <2>4. PopupIsShown'
    BY <1>1 DEF PopupIsShown, LayersMatchPopup, PopupIsInside, OutputHasNoClosedPopup
  <2> QED
    BY <2>2, <2>3, <2>4
<1> QED
  BY <1>3, <1>4 DEF TypeOK

LEMMA HideKeeps ==
  ASSUME ViewInv, Hide
  PROVE  ViewInv'
<1> USE DEF ViewInv, Hide, popupVars, outputVars
<1>1. TypeOK'
  <2>1. changes' \in 0 .. MaxChange
    BY OffscreenAssumption DEF TypeOK
  <2> QED
    BY <2>1 DEF TypeOK, OutputTypeOK
<1>2. ViewIsWhole'
  BY DEF ViewIsWhole
<1>3. LastDrawIsHeld'
  BY DEF LastDrawIsHeld
<1>4. ResizeIsRemembered' /\ PopupIsShown'
  BY DEF ResizeIsRemembered, PopupIsShown, LayersMatchPopup, PopupIsInside,
    OutputHasNoClosedPopup
<1> QED
  BY <1>1, <1>2, <1>3, <1>4

\* Hiding the popup of the view leaves no layer behind, and renders without it.
LEMMA HidePopupFacts ==
  ASSUME ViewInv, popup # None, HidePopup
  PROVE  /\ layers' = {} /\ popupLayer' = None /\ output' = None
         /\ comp' \in Sizes /\ UNCHANGED viewTex
<1> USE DEF ViewInv
<1>1. layers = {popup} /\ popupLayer.of = popup
  BY DEF PopupIsShown, LayersMatchPopup
<1>2. viewTex \in Texture
  BY DEF ViewIsWhole, TypeOK, OutputTypeOK
<1> QED
  BY <1>1, <1>2 DEF HidePopup, RenderLayers, Texture

LEMMA RenderProcessGoneKeeps ==
  ASSUME ViewInv, RenderProcessGone
  PROVE  ViewInv'
<1> USE DEF ViewInv
<1>1. /\ layers' = {} /\ popupLayer' = None /\ output' = None
      /\ comp' \in Sizes /\ UNCHANGED viewTex
  <2>1. CASE popup = None
    BY <2>1 DEF RenderProcessGone, outputVars, PopupIsShown, LayersMatchPopup,
      OutputHasNoClosedPopup, TypeOK, OutputTypeOK
  <2>2. CASE popup # None
    BY <2>2, HidePopupFacts DEF RenderProcessGone
  <2> QED
    BY <2>1, <2>2
<1>2. TypeOK'
  <2>1. changes' \in 0 .. MaxChange
    BY OffscreenAssumption DEF TypeOK, RenderProcessGone
  <2>2. OutputTypeOK'
    BY <1>1 DEF TypeOK, OutputTypeOK
  <2>3. /\ alive' \in BOOLEAN /\ showing' \in BOOLEAN
        /\ hold' \in BOOLEAN /\ pendingResize' \in BOOLEAN
        /\ dirty' \in BOOLEAN /\ damage' \in BOOLEAN /\ capturing' \in BOOLEAN
    BY DEF RenderProcessGone
  <2>4. /\ metadata' = <<>> /\ frames' = <<>> /\ posted' = 0 /\ cancels' = {}
        /\ popup' = None /\ surface' = 0 /\ constraint' = 0
        /\ UNCHANGED <<window, hidden, geometry, unused>>
    BY DEF RenderProcessGone
  <2> QED
    BY <2>1, <2>2, <2>3, <2>4 DEF TypeOK
<1>3. ViewIsWhole' /\ LastDrawIsHeld' /\ ResizeIsRemembered'
  BY DEF RenderProcessGone, ViewIsWhole, LastDrawIsHeld, ResizeIsRemembered
<1>4. PopupIsShown'
  BY <1>1 DEF RenderProcessGone, PopupIsShown, LayersMatchPopup, PopupIsInside,
    OutputHasNoClosedPopup
<1> QED
  BY <1>2, <1>3, <1>4

LEMMA ViewCreatedKeeps ==
  ASSUME ViewInv, ViewCreated
  PROVE  ViewInv'
<1> USE DEF ViewInv
<1>1. /\ ~alive /\ alive' = TRUE
      /\ geometry' = GeometryOf(window)
      /\ UNCHANGED <<window, hidden, changes, hold, pendingResize, posted, popup, unused,
                     cancels, surface, metadata, frames, comp, viewTex, layers,
                     popupLayer, output>>
  BY DEF ViewCreated, windowVars, popupVars, outputVars
<1>2. /\ window \in Window
      /\ geometry' \in Geometry /\ Pixels(geometry') \in Sizes
  BY <1>1, WindowHasGeometry DEF TypeOK
<1>3. ~hold /\ ~showing
  BY <1>1 DEF ViewIsWhole
<1>4. /\ showing' \in BOOLEAN /\ capturing' \in BOOLEAN
      /\ damage' \in BOOLEAN /\ dirty' \in BOOLEAN
      /\ constraint' \in Sizes \cup {0}
      /\ capturing' => constraint' \in Sizes
  <2>1. CASE hidden
    BY <2>1 DEF ViewCreated, TypeOK, ViewIsWhole
  <2>2. CASE ~hidden
    BY <2>2, <1>2, StartShowingFacts DEF ViewCreated
  <2> QED
    BY <2>1, <2>2
<1>5. TypeOK'
  BY <1>1, <1>2, <1>4 DEF TypeOK, OutputTypeOK
<1>6. ViewIsWhole' /\ LastDrawIsHeld' /\ ResizeIsRemembered'
  BY <1>1, <1>2, <1>3, <1>4 DEF ViewIsWhole, LastDrawIsHeld, ResizeIsRemembered
<1>7. PopupIsShown'
  BY <1>1 DEF PopupIsShown, LayersMatchPopup, PopupIsInside, OutputHasNoClosedPopup
<1> QED
  BY <1>5, <1>6, <1>7

-----------------------------------------------------------------------------
(* Frames *)

\* What the renderer drew is reported last.
LEMMA DrawKeeps ==
  ASSUME ViewInv, Draw
  PROVE  ViewInv'
<1> USE DEF ViewInv
<1>1. /\ showing /\ dirty' = FALSE /\ damage' = TRUE
      /\ surface' = Pixels(geometry) /\ metadata' = Append(metadata, Pixels(geometry))
      /\ UNCHANGED <<window, hidden, changes, alive, showing, geometry, hold,
                     pendingResize, posted, popup, unused, cancels, capturing,
                     constraint, frames, comp, viewTex, layers, popupLayer, output>>
  BY DEF Draw, windowVars, viewVars, popupVars, outputVars
<1>2. Pixels(geometry) \in Sizes
  BY WindowHasGeometry DEF ViewIsWhole
<1>3. metadata \in Seq(Sizes) /\ metadata' \in Seq(Sizes)
  BY <1>1, <1>2 DEF TypeOK
<1>4. TypeOK'
  BY <1>1, <1>2, <1>3 DEF TypeOK, OutputTypeOK
<1>5. LastDrawIsHeld'
  <2>1. metadata' # <<>> /\ metadata'[Len(metadata')] = Pixels(geometry)
    BY <1>1, <1>2, <1>3
  <2>2. Pixels(geometry)' = Pixels(geometry)
    BY <1>1 DEF Pixels
  <2> QED
    BY <1>1, <2>1, <2>2 DEF LastDrawIsHeld
<1>6. ViewIsWhole' /\ ResizeIsRemembered' /\ PopupIsShown'
  BY <1>1 DEF ViewIsWhole, ResizeIsRemembered, PopupIsShown, LayersMatchPopup,
    PopupIsInside, OutputHasNoClosedPopup
<1> QED
  BY <1>4, <1>5, <1>6

\* The size reported last becomes the consumer's, and is captured once more.
LEMMA MetadataKeeps ==
  ASSUME ViewInv, OnRenderFrameMetadataChanged
  PROVE  ViewInv'
<1> USE DEF ViewInv
<1>1. /\ metadata # <<>> /\ metadata' = Tail(metadata)
      /\ IF showing THEN SizeChanged(Head(metadata)) ELSE UNCHANGED <<constraint, damage>>
      /\ UNCHANGED <<window, hidden, changes, alive, showing, geometry, hold,
                     pendingResize, posted, popup, unused, cancels, dirty, surface,
                     capturing, frames, comp, viewTex, layers, popupLayer, output>>
  BY DEF OnRenderFrameMetadataChanged, windowVars, viewVars, popupVars, outputVars
<1>2. metadata \in Seq(Sizes) /\ metadata' \in Seq(Sizes) /\ Head(metadata) \in Sizes
  BY <1>1 DEF TypeOK
<1>3. /\ constraint' \in Sizes \cup {0} /\ damage' \in BOOLEAN
      /\ capturing' => constraint' \in Sizes
  BY <1>1, <1>2 DEF SizeChanged, TypeOK, ViewIsWhole
<1>4. TypeOK'
  BY <1>1, <1>2, <1>3 DEF TypeOK, OutputTypeOK
<1>5. LastDrawIsHeld'
  <2> SUFFICES ASSUME hold', showing', ~dirty' PROVE LastDrawIsHeld'
    BY DEF LastDrawIsHeld
  <2>1. hold /\ showing /\ ~dirty /\ SizeChanged(Head(metadata))
    BY <1>1
  <2>2. metadata[Len(metadata)] = Pixels(geometry)
    BY <1>1, <2>1 DEF LastDrawIsHeld
  <2>3. Pixels(geometry)' = Pixels(geometry)
    BY <1>1 DEF Pixels
  <2>4. constraint' = Head(metadata)
    BY <2>1 DEF SizeChanged
  <2>5. (IF metadata' = <<>> THEN constraint' ELSE metadata'[Len(metadata')])
          = metadata[Len(metadata)]
    <3>1. CASE Len(metadata) = 1
      BY <1>1, <1>2, <2>4, <3>1
    <3>2. CASE Len(metadata) # 1
      <4>1. Len(metadata) \in Nat /\ Len(metadata) > 1
        <5>1. Len(metadata) \in Nat \ {0}
          BY <1>1, <1>2, EmptySeq
        <5> QED
          BY <3>2, <5>1
      <4>2. Len(metadata') = Len(metadata) - 1
        BY <1>1, <1>2, HeadTailProperties
      <4>3. metadata' # <<>>
        BY <4>1, <4>2
      <4>4. metadata'[Len(metadata')] = metadata[Len(metadata)]
        BY <1>1, <1>2, <4>1, <4>2
      <4> QED
        BY <4>3, <4>4
    <3> QED
      BY <3>1, <3>2
  <2>6. constraint' = Pixels(geometry) =>
          damage' \/ \E i \in DOMAIN frames : frames[i].coded = Pixels(geometry)
    BY <2>1, <2>4 DEF SizeChanged, LastDrawIsHeld
  <2> QED
    BY <1>1, <2>2, <2>3, <2>5, <2>6 DEF LastDrawIsHeld
<1>6. ViewIsWhole'
  BY <1>1, <1>3 DEF ViewIsWhole
<1>7. ResizeIsRemembered' /\ PopupIsShown'
  BY <1>1 DEF ResizeIsRemembered, PopupIsShown, LayersMatchPopup, PopupIsInside,
    OutputHasNoClosedPopup
<1> QED
  BY <1>4, <1>5, <1>6, <1>7

\* The capturer's frame has the size the consumer asked for.
LEMMA CaptureKeeps ==
  ASSUME ViewInv, Capture
  PROVE  ViewInv'
<1> USE DEF ViewInv
<1> DEFINE frame == [coded |-> constraint, content |-> surface]
<1>1. /\ capturing /\ surface # 0 /\ damage' = FALSE /\ frames' = Append(frames, frame)
      /\ UNCHANGED <<window, hidden, changes, alive, showing, geometry, hold,
                     pendingResize, posted, popup, unused, cancels, dirty, surface,
                     metadata, capturing, constraint, comp, viewTex, layers, popupLayer,
                     output>>
  BY DEF Capture, windowVars, viewVars, popupVars, outputVars
<1>2. frame \in Texture /\ frame.coded = constraint
  BY <1>1 DEF TypeOK, ViewIsWhole, Texture
<1> HIDE DEF frame
<1>3. /\ frames \in Seq(Texture) /\ frames' \in Seq(Texture)
      /\ frames'[Len(frames) + 1] = frame /\ Len(frames) + 1 \in DOMAIN frames'
  BY <1>1, <1>2 DEF TypeOK
<1>4. TypeOK'
  BY <1>1, <1>3 DEF TypeOK, OutputTypeOK
<1>5. LastDrawIsHeld'
  <2>1. Pixels(geometry)' = Pixels(geometry)
    BY <1>1 DEF Pixels
  <2>2. \E i \in DOMAIN frames' : frames'[i].coded = constraint
    BY <1>2, <1>3
  <2> QED
    BY <1>1, <2>1, <2>2 DEF LastDrawIsHeld
<1>6. ViewIsWhole' /\ ResizeIsRemembered' /\ PopupIsShown'
  BY <1>1 DEF ViewIsWhole, ResizeIsRemembered, PopupIsShown, LayersMatchPopup,
    PopupIsInside, OutputHasNoClosedPopup
<1> QED
  BY <1>4, <1>5, <1>6

\* A frame of the desired size ends the hold; a frame of another size leaves the
\* ones behind it.
LEMMA OnFrameCapturedKeeps ==
  ASSUME ViewInv, OnFrameCaptured
  PROVE  ViewInv'
<1> USE DEF ViewInv
<1>1. /\ frames # <<>> /\ frames' = Tail(frames)
      /\ UNCHANGED <<window, hidden, changes, alive, showing, geometry, popup, unused,
                     cancels, dirty, surface, metadata, capturing, constraint, damage>>
  BY DEF OnFrameCaptured, windowVars, popupVars
<1>2. frames \in Seq(Texture) /\ frames' \in Seq(Texture) /\ Head(frames) \in Texture
  BY <1>1 DEF TypeOK
<1>3. Pixels(geometry)' = Pixels(geometry)
  BY <1>1 DEF Pixels
<1>4. \/ hold /\ showing /\ Head(frames).coded = Pixels(geometry) /\ ReleaseResizeHold
      \/ /\ ~(hold /\ showing /\ Head(frames).coded = Pixels(geometry))
         /\ UNCHANGED <<hold, pendingResize, posted>>
  BY DEF OnFrameCaptured
<1>5. /\ hold' \in BOOLEAN /\ pendingResize' \in BOOLEAN
      /\ posted' \in Nat /\ (~alive => posted' = 0 /\ ~hold')
  <2>1. CASE hold /\ showing /\ ReleaseResizeHold
    <3>1. alive
      BY <2>1 DEF ViewIsWhole
    <3>2. posted' = posted \/ posted' = posted + 1
      BY <2>1 DEF ReleaseResizeHold
    <3>3. hold' = FALSE /\ pendingResize' = FALSE
      BY <2>1 DEF ReleaseResizeHold
    <3>4. posted' \in Nat
      BY <3>2 DEF TypeOK
    <3> QED
      BY <3>1, <3>3, <3>4
  <2>2. CASE UNCHANGED <<hold, pendingResize, posted>>
    BY <2>2 DEF TypeOK, ViewIsWhole
  <2> QED
    BY <1>4, <2>1, <2>2
<1>6. PopupIsShown' /\ OutputTypeOK' /\ (viewTex # None => viewTex' # None)
  <2>1. CASE showing
    <3>1. /\ viewTex' = Head(frames) /\ comp' = Head(frames).coded
          /\ output' = IF popupLayer = None THEN None ELSE popupLayer.tex
          /\ UNCHANGED <<layers, popupLayer>>
      BY <2>1 DEF OnFrameCaptured, PaintView, RenderLayers
    <3>2. OutputTypeOK'
      BY <1>2, <3>1 DEF TypeOK, OutputTypeOK, Texture, PopupLayer
    <3>3. PopupIsShown'
      BY <1>1, <3>1 DEF PopupIsShown, LayersMatchPopup, PopupIsInside,
        OutputHasNoClosedPopup
    <3>4. viewTex' # None
      BY <1>2, <3>1, OffscreenAssumption
    <3> QED
      BY <3>2, <3>3, <3>4
  <2>2. CASE ~showing
    BY <1>1, <2>2 DEF OnFrameCaptured, outputVars, TypeOK, OutputTypeOK, PopupIsShown,
      LayersMatchPopup, PopupIsInside, OutputHasNoClosedPopup
  <2> QED
    BY <2>1, <2>2 DEF TypeOK
<1>7. TypeOK'
  BY <1>1, <1>2, <1>5, <1>6 DEF TypeOK
<1>8. ViewIsWhole'
  BY <1>1, <1>5, <1>6 DEF ViewIsWhole
<1>9. LastDrawIsHeld'
  <2> SUFFICES ASSUME hold', showing', ~dirty' PROVE LastDrawIsHeld'
    BY DEF LastDrawIsHeld
  <2>1. hold /\ showing /\ ~dirty /\ Head(frames).coded # Pixels(geometry)
    BY <1>1, <1>4 DEF ReleaseResizeHold
  <2>2. ASSUME NEW i \in DOMAIN frames, frames[i].coded = Pixels(geometry)
        PROVE  \E j \in DOMAIN frames' : frames'[j].coded = Pixels(geometry)
    <3>1. i # 1 /\ i \in 1 .. Len(frames)
      BY <1>1, <1>2, <2>1, <2>2
    <3>2. i - 1 \in DOMAIN frames' /\ frames'[i - 1] = frames[i]
      BY <1>1, <1>2, <3>1
    <3> QED
      BY <2>2, <3>2
  <2> QED
    BY <1>1, <1>3, <2>1, <2>2 DEF LastDrawIsHeld
<1>10. ResizeIsRemembered'
  BY <1>1, <1>4 DEF ReleaseResizeHold, ResizeIsRemembered, TypeOK
<1> QED
  BY <1>6, <1>7, <1>8, <1>9, <1>10

-----------------------------------------------------------------------------
(* Popup widgets *)

\* Steps that touch neither the view nor its window, frames and metadata.
LEMMA ViewStands ==
  ASSUME ViewInv, UNCHANGED <<windowVars, viewVars, gpuVars>>,
         unused' \subseteq unused, cancels' \subseteq Popups \ unused',
         popup' \in Popups \cup {None}, OutputTypeOK', PopupIsShown',
         popup' # None => alive /\ viewTex' # None /\ popup' \notin unused'
  PROVE  ViewInv'
<1> USE DEF ViewInv
<1>1. UNCHANGED <<window, hidden, changes, alive, showing, geometry, hold, pendingResize,
                  posted, dirty, surface, metadata, capturing, constraint, damage, frames>>
  BY DEF windowVars, viewVars, gpuVars
<1>2. TypeOK'
  BY <1>1 DEF TypeOK
<1>3. ViewIsWhole'
  BY <1>1 DEF ViewIsWhole
<1>4. LastDrawIsHeld' /\ ResizeIsRemembered'
  BY <1>1 DEF LastDrawIsHeld, Pixels, ResizeIsRemembered
<1> QED
  BY <1>2, <1>3, <1>4

\* Steps that leave popup and output alone too, but for the tasks posted.
LEMMA OutputStands ==
  ASSUME ViewInv,
         UNCHANGED <<windowVars, viewVars, popup, unused, gpuVars, outputVars>>,
         cancels' \subseteq cancels \cup (IF popup = None THEN {} ELSE {popup})
  PROVE  ViewInv'
<1> USE DEF ViewInv
<1>1. UNCHANGED <<comp, viewTex, layers, popupLayer, output>>
  BY DEF outputVars
<1>2. OutputTypeOK'
  BY <1>1 DEF TypeOK, OutputTypeOK
<1>3. PopupIsShown'
  BY <1>1 DEF PopupIsShown, LayersMatchPopup, PopupIsInside, OutputHasNoClosedPopup
<1>4. cancels' \subseteq Popups \ unused'
  BY DEF TypeOK, ViewIsWhole
<1> QED
  BY <1>1, <1>2, <1>3, <1>4, ViewStands DEF TypeOK, ViewIsWhole

\* A new popup has a layer of its own, inside of the view, and nothing is sent
\* of it yet; the layer of its predecessor is gone.
LEMMA InitAsPopupKeeps ==
  ASSUME ViewInv, NEW p \in Popups, NEW r \in PopupRects, InitAsPopup(p, r)
  PROVE  ViewInv'
<1> USE DEF ViewInv
<1> DEFINE x == r[1] * geometry.scale
           w == r[2] * geometry.scale
<1>1. x \in Int /\ w \in Nat
  <2>1. r[1] \in Int /\ r[2] \in Nat
    BY OffscreenAssumption
  <2>2. geometry.scale \in Nat
    BY OffscreenAssumption DEF TypeOK, Geometry
  <2> QED
    BY <2>1, <2>2
<1>2. /\ alive /\ viewTex # None /\ p \in unused /\ unused' = unused \ {p} /\ popup' = p
      /\ IF popup = None THEN ShowPopup(p, x, w) ELSE ReplacePopup(p, x, w)
      /\ UNCHANGED <<windowVars, viewVars, cancels, gpuVars>>
  BY DEF InitAsPopup
<1> HIDE DEF x, w
<1>3. p # None
  BY OffscreenAssumption
<1>4. viewTex \in Texture /\ viewTex.coded \in Sizes /\ comp \in Sizes
  BY <1>2 DEF TypeOK, OutputTypeOK, Texture
<1>5. \E outer \in Sizes :
        /\ popupLayer' = SizedLayer(p, x, w, outer)
        /\ layers' = {p} /\ output' = None /\ comp' \in Sizes /\ UNCHANGED viewTex
  <2>1. CASE popup = None
    <3>1. layers = {} /\ output = None
      BY <2>1 DEF PopupIsShown, LayersMatchPopup, OutputHasNoClosedPopup
    <3> QED
      BY <1>2, <1>4, <2>1, <3>1 DEF ShowPopup
  <2>2. CASE popup # None
    <3>1. layers = {popupLayer.of}
      BY <2>2 DEF PopupIsShown, LayersMatchPopup
    <3> QED
      BY <1>2, <1>4, <2>2, <3>1 DEF ReplacePopup, RenderLayers
  <2> QED
    BY <2>1, <2>2
<1>6. PICK outer \in Sizes :
        /\ popupLayer' = SizedLayer(p, x, w, outer)
        /\ layers' = {p} /\ output' = None /\ comp' \in Sizes /\ UNCHANGED viewTex
  BY <1>5
<1>7. /\ popupLayer' \in PopupLayer /\ popupLayer'.of = p
      /\ popupLayer'.x >= 0
      /\ popupLayer'.w <= popupLayer'.outer =>
           popupLayer'.x + popupLayer'.w <= popupLayer'.outer
      /\ popupLayer'.asked >= 0 /\ popupLayer'.asked + popupLayer'.w <= popupLayer'.outer =>
           popupLayer'.x = popupLayer'.asked
      /\ popupLayer'.w > popupLayer'.outer => popupLayer'.x = 0
  BY <1>1, <1>6, LayerIsSized
<1>8. popupLayer' # None
  BY <1>7, OffscreenAssumption
<1>9. OutputTypeOK'
  BY <1>4, <1>6, <1>7 DEF TypeOK, OutputTypeOK
<1>10. LayersMatchPopup'
  BY <1>2, <1>3, <1>6, <1>7, <1>8 DEF LayersMatchPopup
<1>11. PopupIsInside' /\ OutputHasNoClosedPopup'
  BY <1>6, <1>7 DEF PopupIsInside, OutputHasNoClosedPopup
<1>12. cancels' \subseteq Popups \ unused' /\ popup' \notin unused'
  BY <1>2 DEF TypeOK
<1> QED
  BY <1>2, <1>6, <1>9, <1>10, <1>11, <1>12, ViewStands DEF PopupIsShown

\* The end of the popup, whichever way it comes, and whoever waited for it.
LEMMA CancelWidgetKeeps ==
  ASSUME ViewInv, popup # None, CancelWidget, cancels' \subseteq cancels
  PROVE  ViewInv'
<1> USE DEF ViewInv
<1>1. /\ popup' = None /\ HidePopup
      /\ UNCHANGED <<windowVars, viewVars, unused, gpuVars>>
  BY DEF CancelWidget
<1>2. /\ layers' = {} /\ popupLayer' = None /\ output' = None
      /\ comp' \in Sizes /\ UNCHANGED viewTex
  BY <1>1, HidePopupFacts
<1>3. OutputTypeOK'
  BY <1>2 DEF TypeOK, OutputTypeOK
<1>4. PopupIsShown'
  BY <1>1, <1>2 DEF PopupIsShown, LayersMatchPopup, PopupIsInside, OutputHasNoClosedPopup
<1>5. cancels' \subseteq Popups \ unused'
  BY <1>1 DEF TypeOK
<1> QED
  BY <1>1, <1>3, <1>4, <1>5, ViewStands

\* What is painted last is what the popup's layer shows.
LEMMA PopupPaintedKeeps ==
  ASSUME ViewInv, PopupPainted
  PROVE  ViewInv'
<1> USE DEF ViewInv
<1>1. /\ popup # None /\ UNCHANGED <<windowVars, viewVars, popup, unused, cancels, gpuVars>>
      /\ popupLayer' = [popupLayer EXCEPT !.tex = popupLayer.of]
      /\ comp' = viewTex.coded
      /\ output' = IF popupLayer' = None THEN None ELSE popupLayer'.tex
      /\ UNCHANGED <<viewTex, layers>>
  BY DEF PopupPainted, PaintPopup, RenderLayers, popupVars
<1>2. /\ popupLayer # None /\ popupLayer \in PopupLayer
      /\ popupLayer.of = popup /\ layers = {popup} /\ viewTex \in Texture
  BY <1>1 DEF PopupIsShown, LayersMatchPopup, TypeOK, OutputTypeOK, ViewIsWhole
<1>3. /\ popupLayer' \in PopupLayer
      /\ popupLayer'.of = popupLayer.of /\ popupLayer'.tex = popupLayer.of
      /\ popupLayer'.x = popupLayer.x /\ popupLayer'.w = popupLayer.w
      /\ popupLayer'.asked = popupLayer.asked /\ popupLayer'.outer = popupLayer.outer
  BY <1>1, <1>2 DEF PopupLayer
<1>4. popupLayer' # None
  BY <1>3, OffscreenAssumption
<1>5. output' = popup /\ comp' \in Sizes
  BY <1>1, <1>2, <1>3, <1>4 DEF Texture
<1>6. OutputTypeOK'
  BY <1>1, <1>2, <1>3, <1>5 DEF TypeOK, OutputTypeOK
<1>7. LayersMatchPopup'
  BY <1>1, <1>2, <1>3, <1>4 DEF LayersMatchPopup
<1>8. OutputHasNoClosedPopup'
  BY <1>2, <1>3, <1>4, <1>5 DEF OutputHasNoClosedPopup
<1>9. PopupIsInside'
  BY <1>2, <1>3 DEF PopupIsShown, PopupIsInside
<1>10. /\ viewTex' # None /\ alive /\ popup' \notin unused'
       /\ cancels' \subseteq Popups \ unused'
  BY <1>1 DEF ViewIsWhole, TypeOK
<1> QED
  BY <1>1, <1>6, <1>7, <1>8, <1>9, <1>10, ViewStands DEF TypeOK, PopupIsShown

-----------------------------------------------------------------------------
(* The invariant *)

LEMMA InitEstablishes == Init => ViewInv
<1> SUFFICES ASSUME Init PROVE ViewInv
  OBVIOUS
<1> USE DEF Init
<1>1. /\ window \in Window /\ geometry \in Geometry /\ Pixels(geometry) \in Sizes
  BY WindowHasGeometry
<1>2. window.width \in Sizes
  BY <1>1, OffscreenAssumption DEF Window
<1>3. changes \in 0 .. MaxChange
  BY OffscreenAssumption
<1>4. OutputTypeOK
  BY <1>2 DEF OutputTypeOK
<1>5. TypeOK
  <2>1. /\ hidden \in BOOLEAN /\ alive \in BOOLEAN /\ showing \in BOOLEAN
        /\ hold \in BOOLEAN /\ pendingResize \in BOOLEAN
        /\ dirty \in BOOLEAN /\ damage \in BOOLEAN /\ capturing \in BOOLEAN
    OBVIOUS
  <2>2. /\ posted \in Nat /\ popup \in Popups \cup {None} /\ unused \subseteq Popups
        /\ cancels \subseteq Popups \ unused
        /\ surface \in Sizes \cup {0} /\ constraint \in Sizes \cup {0}
        /\ metadata \in Seq(Sizes) /\ frames \in Seq(Texture)
    BY <1>1
  <2> QED
    BY <1>1, <1>3, <1>4, <2>1, <2>2 DEF TypeOK
<1>6. ViewIsWhole
  BY <1>1 DEF ViewIsWhole
<1>7. LastDrawIsHeld /\ ResizeIsRemembered
  BY DEF LastDrawIsHeld, ResizeIsRemembered
<1>8. PopupIsShown
  BY DEF PopupIsShown, LayersMatchPopup, PopupIsInside, OutputHasNoClosedPopup
<1> QED
  BY <1>5, <1>6, <1>7, <1>8 DEF ViewInv

LEMMA StepPreserves == ViewInv /\ [Next]_vars => ViewInv'
<1> SUFFICES ASSUME ViewInv, [Next]_vars PROVE ViewInv'
  OBVIOUS
<1>1. ASSUME NEW w \in Widths, OnSize(w) PROVE ViewInv'
  BY <1>1, OnSizeKeeps
<1>2. ASSUME NEW s \in Scales, SetDeviceScaleFactor(s) PROVE ViewInv'
  BY <1>2, SetDeviceScaleFactorKeeps
<1>3. CASE Show \/ Hide \/ RenderProcessGone \/ ViewCreated
  BY <1>3, ShowKeeps, HideKeeps, RenderProcessGoneKeeps, ViewCreatedKeeps
<1>4. CASE Draw \/ OnRenderFrameMetadataChanged \/ Capture \/ OnFrameCaptured
  BY <1>4, DrawKeeps, MetadataKeeps, CaptureKeeps, OnFrameCapturedKeeps
<1>5. CASE ResizeTask
  BY <1>5, ResizeTaskKeeps
<1>6. ASSUME NEW p \in Popups, NEW r \in PopupRects, InitAsPopup(p, r) PROVE ViewInv'
  BY <1>6, InitAsPopupKeeps
<1>7. CASE PopupPainted
  BY <1>7, PopupPaintedKeeps
<1>8. CASE PopupDestroyed
  BY <1>8, CancelWidgetKeeps DEF PopupDestroyed
<1>9. CASE WheelOutside
  <2>1. /\ UNCHANGED <<windowVars, viewVars, popup, unused, gpuVars, outputVars>>
        /\ popup # None /\ cancels' = cancels \cup {popup}
    BY <1>9 DEF WheelOutside
  <2> QED
    BY <2>1, OutputStands
<1>10. ASSUME NEW p \in Popups, CancelTask(p) PROVE ViewInv'
  <2>1. CASE popup = p
    <3>1. popup # None
      BY <2>1, OffscreenAssumption
    <3>2. CancelWidget /\ cancels' \subseteq cancels
      BY <1>10, <2>1 DEF CancelTask
    <3> QED
      BY <3>1, <3>2, CancelWidgetKeeps
  <2>2. CASE popup # p
    <3>1. /\ UNCHANGED <<windowVars, viewVars, popup, unused, gpuVars, outputVars>>
          /\ cancels' \subseteq cancels
      BY <1>10, <2>2 DEF CancelTask
    <3> QED
      BY <3>1, OutputStands
  <2> QED
    BY <2>1, <2>2
<1>11. CASE UNCHANGED vars
  <2>1. UNCHANGED <<windowVars, viewVars, popup, unused, cancels, gpuVars, outputVars>>
    BY <1>11 DEF vars, popupVars
  <2> QED
    BY <2>1, OutputStands
<1> QED
  BY <1>1, <1>2, <1>3, <1>4, <1>5, <1>6, <1>7, <1>8, <1>9, <1>10, <1>11
    DEF Next, User, Page

\* The inductive invariant of view, capturer and output holds in every reachable
\* state, for windows, popups and queues of any size.
THEOREM ViewCorrect == Spec => []ViewInv
  BY InitEstablishes, StepPreserves, PTL DEF Spec

\* No resize is lost, and a view that holds a resize is owed the frame of its
\* size: it is to be drawn, reported, captured or painted.
THEOREM ResizesStayKept == Spec => []ResizesAreKept
<1>1. ViewInv => HoldHasFrame
  <2> SUFFICES ASSUME ViewInv, hold, showing, ~dirty PROVE HoldHasFrame
    BY DEF HoldHasFrame
  <2>1. LET told == IF metadata = <<>> THEN constraint ELSE metadata[Len(metadata)]
        IN  told = Pixels(geometry)
    BY DEF ViewInv, LastDrawIsHeld
  <2>2. CASE metadata = <<>>
    BY <2>1, <2>2 DEF ViewInv, LastDrawIsHeld, HoldHasFrame
  <2>3. CASE metadata # <<>>
    <3>1. metadata \in Seq(Sizes)
      BY DEF ViewInv, TypeOK
    <3>2. Len(metadata) \in DOMAIN metadata
      BY <2>3, <3>1, EmptySeq, LenProperties
    <3> QED
      BY <2>1, <2>3, <3>2 DEF HoldHasFrame
  <2> QED
    BY <2>2, <2>3
<1>2. ViewInv => ResizesAreKept
  BY <1>1 DEF ViewInv, ResizesAreKept
<1> QED
  BY <1>2, ViewCorrect, PTL

\* The layers follow the view's popup, which lies inside of the view, and other
\* programs never see a popup that is closed.
THEOREM PopupStaysShown == Spec => []PopupIsShown
<1>1. ViewInv => PopupIsShown
  BY DEF ViewInv
<1> QED
  BY <1>1, ViewCorrect, PTL
=============================================================================
