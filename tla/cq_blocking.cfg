CONSTANTS
  Policy = "FailIfFull"
  Producers = {p1, p2, p3}
  Consumers = {c1}
  Operations <- BlockingUse
  Sizes = {1, 2}
  Capacities = {2}
  Memories = {3}
  MaxOffers = 5
  MaxControls = 1
SPECIFICATION FairSpec
INVARIANT NoStrandedProducer
PROPERTIES EnqWaitReturns
