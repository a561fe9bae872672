CONSTANTS
  Paths <- MCPaths
  s1 = s1
  s2 = s2
  Samples = {s1, s2}
  BinCount = 2
  Resets = 1
  Observed <- MCObserved
  c1 = c1
  c2 = c2
  Consumers = {c1, c2}
  Messages <- MCMessages
  Losses = {0, 1}
  Values = {"default", "a"}
  Unreadable = {"unreadable"}
  Malformed = {"malformed"}
  TooSmall = {"too small"}
  Changing = {"DiskWriting", "EventServing", "RunNumber"}
  Pending = 2
  Settings = 2
SPECIFICATION PartsSpec
INVARIANTS
  SelectsAsWritten
  EverySampleCountsOnce
  FieldsAreSound
  LossesDoNotAccumulate
  ChangesReachRuns
  OneConfigurationPerRun
PROPERTY SamplesArePublished
