SPECIFICATION FairSpec
CONSTANTS
  ConnectionRetryMax = 2
  MaxConn = 10
  MaxMsg = 2
  MaxCmd = 1
  MaxDisturb = 3
  PromptTeardown = TRUE
INVARIANTS NoDoubleBind ConnectionInv
PROPERTIES MessagesInOrder EventuallyConnected
\* A frame that is connected and left alone has nothing more to do.
CHECK_DEADLOCK FALSE
