\* One producer, two consumers that share read_mutex_.
SPECIFICATION Spec
CONSTANTS
  Producers = {p}
  Consumers = {c1, c2}
  Closers = {}
  NoThread = NoThread
  Messages = {m1, m2}
  NoMessage = NoMessage
  Category = "SPMC"
  Policy = "kOnDeadlock"
  Capacity = 2
  CountModulus = 16
  CasMayFail = FALSE
  Throws = {}
SYMMETRY Symmetry
PROPERTIES ImplementsFifo
