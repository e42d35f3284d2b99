SPECIFICATION Spec
CONSTANTS
  NoConnection = NoConnection
  Connections = {c1}
  Replies <- MCReplies
  MaxServers = 2
INVARIANTS ServersCorrect AnswersAreTrue
PROPERTIES KeepsPromise PageIsAnswered ServersEnd
CHECK_DEADLOCK FALSE
