\* Two producers and two consumers, any of whom may close; two distinct
\* messages; stores and pops that throw; spurious wakeups.
SPECIFICATION Spec
CONSTANTS
  Producers = {p1, p2}
  Consumers = {c1, c2}
  Closers = {p1, p2, c1, c2}
  NoThread = NoThread
  Messages = {m1, m2}
  NoMessage = NoMessage
  Category = "MPMC"
  Policy = "kNoException"
  Capacity = 2
  Throws = {"store", "pop"}
  SpuriousWakeups = TRUE
SYMMETRY Symmetry
INVARIANTS TypeOK MutexDiscipline SlotAccounting NoLostWakeup
PROPERTIES ImplementsFifo
