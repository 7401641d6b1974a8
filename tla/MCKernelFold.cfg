SPECIFICATION Spec
CONSTANTS
  Requests <- FoldRequests
  Alphabet <- ProducerAlphabet
  MaxEvents = 6
INVARIANTS
  DamagedLogsAreRefused
  AcceptedHistoriesAreSound
CHECK_DEADLOCK FALSE
