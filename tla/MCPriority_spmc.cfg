\* One producer that also reads, two more readers, one of which closes.
SPECIFICATION Spec
CONSTANTS
  Producers = {p}
  Consumers = {p, c, d}
  Closers = {d}
  NoThread = NoThread
  Messages = {u, m1, m2}
  NoMessage = NoMessage
  Urgent = {u}
  Priority <- UrgentFirst
  Category = "SPMC"
  Policy = "kOnDeadlock"
  Capacity = 2
  Throws = {"store", "pop"}
  SpuriousWakeups = TRUE
SYMMETRY Symmetry
INVARIANTS TypeOK MutexDiscipline NoLostWakeup
PROPERTIES ImplementsPriorityQueue
