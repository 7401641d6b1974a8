CONSTANTS
  Stores = {s1}
  t1 = t1
  t2 = t2
  o1 = o1
  o2 = o2
  d0 = d0
  d1 = d1
  d2 = d2
  Tasks = {t1, t2}
  Ops = {o1, o2}
  NoOp = NoOp
  Digests = {d0, d1, d2}
  NoDigest = NoDigest
  Events = {}
  TaskOf <- MCTaskOf
  Pre <- MCPre
  Post <- MCPost
  MaxForeign = 1
  MaxCalls = 3
  MaxLines = 5
  MaxFaults = 1
SPECIFICATION Spec
INVARIANTS
  EffectsAreLicensed
  CommitsAreEarned
  EffectsWaitForReconciliation
CHECK_DEADLOCK FALSE
