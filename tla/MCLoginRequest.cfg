CONSTANTS
  MaxClients = 2
  MaxRequests = 2
  MaxLives = 2
  MaxSent = 2
SPECIFICATION Spec
INVARIANTS
  AnswerReachesAsker
  AnswerFindsCallback
PROPERTIES
  ImplementsRequests
CHECK_DEADLOCK FALSE
