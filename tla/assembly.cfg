CONSTANTS
  Traffic <- MCTraffic
  Parts <- MCParts
  MaxMemory = 4
  FaultyStream = TRUE
  MaxFaults = 2
SPECIFICATION Spec
INVARIANTS GoodMeansWhole BooksBalance
PROPERTIES StaleEventsLeave
