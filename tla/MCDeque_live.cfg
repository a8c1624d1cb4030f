\* Two senders and two readers; b tries both roles. Weak fairness.
SPECIFICATION FairSpec
CONSTANTS
  Producers = {a, b}
  Consumers = {b, c}
  Closers = {c}
  NoThread = NoThread
  Messages = {m}
  NoMessage = NoMessage
  Category = "MPMC"
  Policy = "kOnThreadRoleChange"
  Capacity = 1
  Throws = {"store", "pop", "copy"}
  SpuriousWakeups = FALSE
PROPERTIES RolesNeverMix SendersWake ReadersWake CloseWakesAll
