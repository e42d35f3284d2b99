SPECIFICATION Spec
CONSTANTS
  m1 = m1
  m2 = m2
  m3 = m3
  s1 = s1
  None = None
  Mains = {m1, m2, m3}
  Subs = {s1}
  Excluded = {}
  MaxNav = 2
INVARIANTS MainFrameCorrect FramesCorrect
PROPERTIES CallbacksInOrder NavigationsAreKept
\* The browser may be gone, or content may have no more hosts to create.
CHECK_DEADLOCK FALSE
