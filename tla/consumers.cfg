CONSTANTS
  c1 = c1
  c2 = c2
  physics = physics
  Clients = {c1, c2}
  Labels = {physics}
  TriggerBits <- MCTriggerBits
  Infos <- MCInfos
  Selects <- MCSelects
  RegistrationQueueSize = 1
  MaxRuns = 2
  MaxEvents = 2
  MaxConsumers = 3
  MaxLostReplies = 1
SPECIFICATION FairCasesSpec
CHECK_DEADLOCK FALSE
INVARIANTS
  ServedAsRegistered
  UniqueEventsServedOnce
  EveryLossIsCounted
PROPERTIES
  RegistrationsTakeEffect
  AbandonedQueuesAreEmptied
