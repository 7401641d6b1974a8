CONSTANTS
  p = p
  q = q
  h1 = h1
  h2 = h2
  h3 = h3
  Procs = {p, q}
  Handles = {h1, h2, h3}
  ProcOf <- MCProcOf
  NoHandle = NoHandle
  NoFile = NoFile
  MaxFaults = 2
SPECIFICATION Spec
INVARIANTS
  LockTypeOK
  HandlesAreApart
  OnlyRacesBreakExclusion
  SuccessorIsOnFile
