SPECIFICATION Spec
CONSTANTS
  m1 = m1
  s1 = s1
  n1 = n1
  h1 = h1
  p1 = p1
  p2 = p2
  b1 = b1
  b2 = b2
  None = None
  Contexts <- Isolated
  PageOf <- IsolatedOf
  BrowserOf <- IsolatedBrowserOf
  ProcOf <- IsolatedProc
  Handlers = {h1}
  PersistentArgs = {FALSE}
  MaxQuery = 1
  MaxAnswers = 0
  MaxClient = 0
  RouterToldOfClose = FALSE
  ReentrantRemove = TRUE
INVARIANTS NoOrphanRequest NoGhostQuery
PROPERTIES CancelsAreOwn
CHECK_DEADLOCK FALSE
