CONSTANTS
  t1 = t1
  d0 = d0
  d1 = d1
  Tasks = {t1}
  Ops <- MCOps
  NoOp = NoOp
  Digests = {d0, d1}
  NoDigest = NoDigest
  MaxAttempts = 2
  MaxRecoveryCycles = 1
  MaxIdenticalDecisions = 1
  MaxCalls = 2
  MaxFaults = 1
SPECIFICATION Spec
INVARIANTS
  TypeOK
  WithinBounds
  RecordsAreTrue
  AtMostOneLateExecution
PROPERTIES
  CompletedIsProven
CHECK_DEADLOCK FALSE
