SPECIFICATION Spec
CONSTANTS
  ConnectionRetryMax = 1
  MaxConn = 4
  MaxMsg = 1
  MaxCmd = 2
  MaxDisturb = 3
  PromptTeardown = FALSE
INVARIANTS EndsAgree
PROPERTIES CommandsInOrder
\* A frame that is connected and left alone has nothing more to do.
CHECK_DEADLOCK FALSE
