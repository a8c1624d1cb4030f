\* The instance of MCCircularDropOldest_mpmc.cfg: is it only from a full queue that a
\* message is lost?
SPECIFICATION Spec
CONSTANTS
  a = a
  b = b
  c = c
  m1 = m1
  m2 = m2
  Producers = {a, b}
  Consumers = {c}
  Closers = {}
  NoThread = NoThread
  Messages = {m1, m2}
  NoMessage = NoMessage
  Calls <- MCCalls
  Category = "MPMC"
  Policy = "kNoException"
  Capacity = 2
  CountModulus = 16
  CasMayFail = FALSE
  DropAttempts = 2
PROPERTIES LosesOnlyWhenFull
