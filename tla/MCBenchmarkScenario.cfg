\* Four messages from two producers to two consumers, through two slots.
SPECIFICATION FairSpec
CONSTANTS
  N = 2
  Consumers = {c1, c2}
  TotalMessages = 4
  Capacity = 2
INVARIANTS TypeOK CompleteUnlessTimedOut LossNotOverstated
PROPERTIES ScenarioEnds
CHECK_DEADLOCK FALSE
