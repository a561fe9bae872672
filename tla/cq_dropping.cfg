CONSTANTS
  Policy = "KeepNewest"
  Producers = {p1}
  Consumers = {c1, c2}
  Operations <- DroppingUse
  Sizes = {1, 2, 4}
  Capacities = {1, 3}
  Memories = {3, 5}
  MaxOffers = 4
  MaxControls = 2
SPECIFICATION EitherSpec
INVARIANTS ContentsStayInBounds EveryItemAccountedFor EnoughConsumersAwake
PROPERTY ImplementsLossyFifo
