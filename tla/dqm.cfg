CONSTANTS
  c1 = c1
  LumiSections <- MCLumiSections
  Consumers <- MCConsumers
  QueueCapacity = 1
  Collates = {TRUE, FALSE}
  OlderLS = 1
  Expectations = {1, 2}
  MaxRuns = 2
  MaxUpdates = 2
SPECIFICATION Spec
INVARIANT CollationIsSound
PROPERTIES FoldersLeave
