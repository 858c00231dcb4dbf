CONSTANTS
  p1 = p1
  p2 = p2
  t1 = t1
  t2 = t2
  t3 = t3
  farewell = farewell
  Task <- MCTask
  Expirable <- MCExpirable
  Producer <- MCProducer
  Farewell <- farewell
SPECIFICATION Spec
INVARIANTS
  NoLostWakeup
PROPERTIES
  ImplementsTaskQueue
  ShutdownEndsThread
CHECK_DEADLOCK FALSE
