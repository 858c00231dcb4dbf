CONSTANTS
  sub = sub
  m1 = m1
  m2 = m2
  farewell = farewell
  Task <- MCTask
  Expirable = {}
  Producer <- MCProducer
  Farewell <- farewell
SPECIFICATION ProcessSpec
PROPERTIES
  SigintShutsDown
CHECK_DEADLOCK FALSE
