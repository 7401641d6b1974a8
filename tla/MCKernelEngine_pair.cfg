SPECIFICATION FairSpec
CONSTANTS
  Targets <- PairTargets
  Contents <- PairContents
  Bytes <- PairBytes
  NoFile = NoFile
  MaxRead = 0
  Faults = FALSE
  Callers = {c1, c2}
  Requests <- PairRequests
  Registered <- Capabilities
  MaxEdits = 0
INVARIANTS
  LogIsTheRecord
  StepsDispatchedOnceInOrder
  ReadOnlyContractsAreReadOnly
  StopsAreAttributed
PROPERTIES
  SettledIsFinal
  RunsEnd
CHECK_DEADLOCK FALSE
