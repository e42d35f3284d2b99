SPECIFICATION FairSpec
CONSTANTS
  pop1 = pop1
  pop2 = pop2
  None = None
  Popups = {pop1, pop2}
  Sizes = {1, 2, 3}
  Widths = {1, 3}
  Scales = {1, 2}
  PopupRects <- Rects
  MaxChange = 3
  MaxInFlight = 1
INVARIANTS ResizesAreKept PopupIsShown
PROPERTIES SizeIsShown
CHECK_DEADLOCK FALSE
