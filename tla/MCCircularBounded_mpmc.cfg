\* Slot reservation, assignments that throw, and Close at any moment: credits.
\* A thread may wait for ever, for the credit its own guard kept or after Close.
SPECIFICATION Spec
CONSTANTS
  Producers = {a, b}
  Consumers = {b}
  Closers = {a}
  NoThread = NoThread
  Messages = {m}
  NoMessage = NoMessage
  Category = "MPMC"
  Policy = "kNoException"
  Capacity = 2
  CountModulus = 16
  CasMayFail = FALSE
  Throws = {"store", "pop"}
INVARIANTS CreditsConserved
CHECK_DEADLOCK FALSE
