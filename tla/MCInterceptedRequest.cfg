SPECIFICATION Spec
CONSTANTS
  HeaderClient = TRUE
  Size = 3
  Firsts <- MCFirsts
  MaxLoads = 2
  RedirectLimit = 2
INVARIANTS RequestCorrect BodyInOrder
PROPERTIES KeepsPromise RequestEnds
CHECK_DEADLOCK FALSE
