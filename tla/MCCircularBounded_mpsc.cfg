\* Two producers that share send_mutex_, one consumer.
SPECIFICATION FairSpec
CONSTANTS
  Producers = {p1, p2}
  Consumers = {c}
  Closers = {}
  NoThread = NoThread
  Messages = {m1, m2}
  NoMessage = NoMessage
  Category = "MPSC"
  Policy = "kOnDeadlock"
  Capacity = 2
  CountModulus = 16
  CasMayFail = FALSE
  Throws = {}
INVARIANTS TypeOK CreditsConserved CountAgreesWhenIdle NoDataRace NoBlankRead
PROPERTIES ImplementsFifo SendMutexIsReleased
