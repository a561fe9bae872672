CONSTANTS
  SoapCommands <- HaltCommands
  MaxCommands = 4
  Kinds = {"stream", "dqm"}
  MaxEvents = 1
  MaxParts = 2
  MaxEoLS = 1
  CommandCapacity = 8
  FragmentCapacity = 1
  StreamCapacity = 2
  DQMCapacity = 1
  StoreCapacity = 5
  Faults = {"write", "lookup", "dqm"}
  MaxFaults = 1
SPECIFICATION Spec
INVARIANTS EventsMeetTheirStreams OrderlyStopWritesEverything AcceptedEventsAreQueued
