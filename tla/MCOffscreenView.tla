--------------------------- MODULE MCOffscreenView ---------------------------
(* Small windows and popups for OffscreenView.                               *)
EXTENDS OffscreenView

CONSTANTS pop1, pop2

\* Over the left edge and too large, inside, over the right edge.
Rects == {<<-1, 3>>, <<1, 2>>}
=============================================================================
