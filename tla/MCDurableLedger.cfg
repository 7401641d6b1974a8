CONSTANTS
  Stores = {s1, s2}
  t1 = t1
  o1 = o1
  d1 = d1
  d2 = d2
  Tasks = {t1}
  Ops = {o1}
  NoOp = NoOp
  Digests = {d1, d2}
  NoDigest = NoDigest
  Events <- MCEvents
  MaxLines = 4
  MaxFaults = 2
SPECIFICATION LedgerSpec
INVARIANTS
  LedgerTypeOK
  EachTearCostsOneRecord
  MemoryIsReplay
PROPERTIES
  CurrentStoresNumberCleanly
SYMMETRY Interchangeable
CHECK_DEADLOCK FALSE
