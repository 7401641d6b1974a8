SPECIFICATION Spec
CONSTANTS
  Targets <- MCTargets
  Contents <- MCContents
  Bytes <- MCBytes
  NoFile = NoFile
  MaxRead = 0
  Faults = TRUE
  Callers = {c1}
  Requests <- SingleRequests
  Registered <- Capabilities
  MaxEdits = 1
INVARIANTS
  TypeOK
  DispatchWithinBudget
  EffectsAreGranted
  VerdictsAreBacked
CHECK_DEADLOCK FALSE
