\* Senders a and b, readers b and c, Close; all but b may stop anywhere.
SPECIFICATION LoneSpec
CONSTANTS
  a = a
  b = b
  c = c
  m1 = m1
  m2 = m2
  Producers = {a, b}
  Consumers = {b, c}
  Closers = {c}
  Calls <- MixedCalls
  Lone = b
  NoThread = NoThread
  Messages = {m1, m2}
  NoMessage = NoMessage
  Category = "MPMC"
  Policy = "kNoException"
  Capacity = 1
  SpuriousWakeups = TRUE
  MaxSends = 3
  SizeModulus = 16
  MaxAttempts = 2
  CasMayFail = FALSE
INVARIANTS TypeOK ListWellFormed SizeAccounting CapacityOvershoot NoLostWakeup
PROPERTIES ImplementsLooseFifo StoreLoopEnds PopLoopEnds
CHECK_DEADLOCK FALSE
