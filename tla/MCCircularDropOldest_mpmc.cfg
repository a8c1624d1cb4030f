\* Two producers behind overwrite_mutex_, one consumer, a ring of two slots.
SPECIFICATION SendersFairSpec
CONSTANTS
  a = a
  b = b
  c = c
  m1 = m1
  m2 = m2
  Producers = {a, b}
  Consumers = {c}
  Closers = {}
  NoThread = NoThread
  Messages = {m1, m2}
  NoMessage = NoMessage
  Calls <- MCCalls
  Category = "MPMC"
  Policy = "kNoException"
  Capacity = 2
  CountModulus = 16
  CasMayFail = FALSE
  DropAttempts = 2
INVARIANTS TypeOK SizeExactWhenIdle
PROPERTIES ImplementsDropOldest SendsGetThrough
