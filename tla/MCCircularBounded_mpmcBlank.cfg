\* Two producers reserve slots and commit out of order.
SPECIFICATION Spec
CONSTANTS
  Producers = {p1, p2}
  Consumers = {c}
  Closers = {}
  NoThread = NoThread
  Messages = {m}
  NoMessage = NoMessage
  Category = "MPMC"
  Policy = "kNoException"
  Capacity = 2
  CountModulus = 16
  CasMayFail = FALSE
  Throws = {}
INVARIANTS NoBlankRead
