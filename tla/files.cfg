CONSTANTS
  Streams <- MCStreams
  Kind <- MCKind
  Lumis = {1, 2}
  Sizes = {1}
  HeaderSize = 1
  EOFSize = 1
  MaxFileSize = 3
  Tolerance = 0
  MaxRuns = 2
  MaxEvents = 3
  MaxEoLS = 2
  MaxAges = 2
  MaxFaults = 1
  MaxLosses = 1
SPECIFICATION FairCasesSpec
INVARIANTS FilesDoNotCollide OpenFilesStayKnown ReportsAddUp NothingLeftOpen
PROPERTIES MovedFilesAreFinal OldFilesAreClosed
CHECK_DEADLOCK FALSE
