CONSTANTS
  Policy = "FailIfFull"
  Producers = {p1, p2}
  Consumers = {c1}
  Operations <- ClearedUse
  Sizes = {1}
  Capacities = {1}
  Memories = {5}
  MaxOffers = 3
  MaxControls = 1
SPECIFICATION FairSpec
PROPERTY EnqWaitReturns
