SPECIFICATION FairSpec
CONSTANTS
  m1 = m1
  m2 = m2
  x1 = x1
  p1 = p1
  p2 = p2
  b1 = b1
  b2 = b2
  b3 = b3
  None = None
  Browsers = {b1}
  Mains = {m1}
  Subs = {x1}
  Excluded = {}
  Popups = {}
  AlloyPopups = {}
  BrowserOf <- MCBrowserOf
  ProcOf <- MCProcOf
PROPERTIES NoRendererHangs
CHECK_DEADLOCK FALSE
