\* The sole consumer sends to a queue that another producer fills.
SPECIFICATION Spec
CONSTANTS
  Producers = {p, t}
  Consumers = {t}
  Closers = {k}
  NoThread = NoThread
  Messages = {m}
  NoMessage = NoMessage
  Category = "MPSC"
  Policy = "kOnDeadlock"
  Capacity = 1
  Throws = {}
  SpuriousWakeups = FALSE
INVARIANTS NoUndetectedDeadlock
