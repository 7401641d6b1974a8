SPECIFICATION Spec
CONSTANTS
  Targets <- MCTargets
  Contents <- MCContents
  Bytes <- MCBytes
  NoFile = NoFile
  MaxRead = 1
  Faults = TRUE
  Callers = {c1}
  Requests <- BridgeRequests
  Registered <- Capabilities
  MaxEdits = 1
  MaxObservedTargets = 2
  MaxAppliedTargets = 2
INVARIANTS
  AnswersAreTrue
  BoundsFitTheProgram
CHECK_DEADLOCK FALSE
