----------------------------- MODULE SpoutOutput -----------------------------
(***************************************************************************)
(* OsrRenderHandlerWinD3D11: the layers of the SpoutBrowser window.         *)
(*                                                                         *)
(* The view and its popup widget (a select's list) are painted to shared    *)
(* textures.  Render draws the layers in a composition as large as the      *)
(* view's texture, sends the back buffer to the other Spout programs and    *)
(* presents it.  The operators are the callbacks the widget's view runs;    *)
(* OffscreenView runs them.                                                 *)
(*                                                                         *)
(* Both axes are treated alike and one is modelled.  A texture is [coded,   *)
(* content]: its size, and the size of the page it was captured from.       *)
(***************************************************************************)
EXTENDS Integers, FiniteSets

CONSTANTS Sizes,     \* sizes in pixels
          Popups,    \* popup widgets
          None

VARIABLES
  comp,      \* width of the composition
  viewTex,   \* browser_layer_'s texture, or None
  layers,    \* popup layers of the composition
  popupLayer, \* popup_layer_: [of, x, w, outer, tex], or None
  output     \* the popup in the last back buffer that was sent, or None

outputVars == <<comp, viewTex, layers, popupLayer, output>>

Texture == [coded : Sizes, content : Sizes]
PopupLayer == [of : Popups, asked : Int, x : Int, w : Nat, outer : Sizes,
               tex : Popups \cup {None}]

OutputTypeOK ==
  /\ comp \in Sizes
  /\ viewTex \in Texture \cup {None}
  /\ layers \subseteq Popups
  /\ popupLayer \in PopupLayer \cup {None}
  /\ output \in Popups \cup {None}

-----------------------------------------------------------------------------

PopupX_TwoSteps(x, w, outer) ==
  LET x1 == IF x < 0 THEN 0 ELSE x
  IN  IF x1 + w > outer THEN outer - w ELSE x1

\* The steps of PopupLayer::set_bounds for one axis.
PopupX(x, w, outer) ==
  LET x1 == IF x < 0 THEN 0 ELSE x
      x2 == IF x1 + w > outer THEN outer - w ELSE x1
  IN  IF x2 < 0 THEN 0 ELSE x2

\* A layer for the popup p, and what set_bounds makes of [x, w].
SizedLayer(p, x, w, outer) ==
  [of |-> p, asked |-> x, x |-> PopupX(x, w, outer), w |-> w, outer |-> outer,
   tex |-> None]

\* Render, with the view's texture and the popup layer given.
RenderLayers(view, popup) ==
  /\ comp' = view.coded
  /\ output' = IF popup = None THEN None ELSE popup.tex

\* OnAcceleratedPaint of the view.
PaintView(tex) ==
  /\ viewTex' = tex
  /\ RenderLayers(tex, popupLayer)
  /\ UNCHANGED <<layers, popupLayer>>

\* OnAcceleratedPaint of the popup.
PaintPopup ==
  LET painted == [popupLayer EXCEPT !.tex = popupLayer.of]
  IN  /\ popupLayer' = painted
      /\ RenderLayers(viewTex, painted)
      /\ UNCHANGED <<viewTex, layers>>

HidePopup_NoRender ==
  /\ layers' = layers \ {popupLayer.of}
  /\ popupLayer' = None
  /\ UNCHANGED <<comp, viewTex, output>>

\* OnPopupShow(false)
HidePopup ==
  /\ layers' = layers \ {popupLayer.of}
  /\ popupLayer' = None
  /\ RenderLayers(viewTex, None)
  /\ UNCHANGED viewTex

\* OnPopupShow(true) and OnPopupSize
ShowPopup(p, x, w) ==
  /\ layers' = layers \cup {p}
  /\ popupLayer' = SizedLayer(p, x, w, comp)
  /\ UNCHANGED <<comp, viewTex, output>>

\* OnPopupShow(false), OnPopupShow(true) and OnPopupSize
ReplacePopup(p, x, w) ==
  /\ layers' = (layers \ {popupLayer.of}) \cup {p}
  /\ popupLayer' = SizedLayer(p, x, w, viewTex.coded)
  /\ RenderLayers(viewTex, None)
  /\ UNCHANGED viewTex
=============================================================================
