SPECIFICATION FairSpec
CONSTANTS
  m1 = m1
  s1 = s1
  n1 = n1
  h1 = h1
  p1 = p1
  p2 = p2
  b1 = b1
  b2 = b2
  None = None
  Contexts <- OnePage
  PageOf <- OnePageOf
  BrowserOf <- OneBrowser
  ProcOf <- OneProc
  Handlers = {h1}
  PersistentArgs = {TRUE, FALSE}
  MaxQuery = 1
  MaxAnswers = 2
  MaxClient = 1
  RouterToldOfClose = TRUE
  ReentrantRemove = FALSE
INVARIANTS QueriesHaveOwners
PROPERTIES PromiseKept QueriesEnd
CHECK_DEADLOCK FALSE
