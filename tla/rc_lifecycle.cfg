CONSTANTS
  SoapCommands <- AllCommands
  MaxCommands = 3
  Kinds = {"stream", "dqm"}
  MaxEvents = 1
  MaxParts = 2
  MaxEoLS = 0
  CommandCapacity = 8
  FragmentCapacity = 2
  StreamCapacity = 2
  DQMCapacity = 1
  StoreCapacity = 5
  Faults = {"entry", "streams", "dqm"}
  MaxFaults = 1
SPECIFICATION FairSpec
INVARIANT StatesMeanWhatTheySay
PROPERTIES ImplementsRunLifecycle TransientStatesEnd FailuresReachFailed FilesClosedAfterFailure
