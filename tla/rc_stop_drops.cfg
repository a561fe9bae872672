CONSTANTS
  SoapCommands <- StopCommands
  MaxCommands = 3
  Kinds = {"stream"}
  MaxEvents = 2
  MaxParts = 1
  MaxEoLS = 0
  CommandCapacity = 8
  FragmentCapacity = 2
  StreamCapacity = 2
  DQMCapacity = 1
  StoreCapacity = 5
  Faults = {}
  MaxFaults = 0
SPECIFICATION Spec
INVARIANT DataReceivedBeforeStopIsProcessed
