SPECIFICATION FairSpec
CONSTANTS
  m1 = m1
  m2 = m2
  x1 = x1
  p1 = p1
  p2 = p2
  b1 = b1
  b2 = b2
  b3 = b3
  None = None
  Browsers = {b1, b2, b3}
  Mains = {m1, m2}
  Subs = {x1}
  Excluded = {x1}
  Popups = {b2, b3}
  AlloyPopups = {b2}
  BrowserOf <- MCBrowserOf
  ProcOf <- MCProcOf
INVARIANTS MainFrameIsAnswered AnswersCorrect PopupsAreTold
PROPERTIES RequestsAreAnswered
CHECK_DEADLOCK FALSE
