SPECIFICATION FairSpec
CONSTANTS
  m1 = m1
  p1 = p1
  Mains = {m1}
  Popups = {p1}
  Opener <- MCOpener
  MaxCloses = 3
INVARIANTS EndsInOrder
PROPERTIES KeepsPromise ClosesEnd ProgramEnds
CHECK_DEADLOCK FALSE
