SPECIFICATION FairSpec
CONSTANTS
  Subs = {"all"}
  Publishers = {p1, p2}
  Closers = {c1}
  Types <- MCTypes
  ControlTypes <- MCControl
  AllTypes = AllTypes
  Interest <- Mixed
  Handler <- SameHandler
  Buffer = 1
  MaxDrain = 1
  MaxEvents = 2
  None = None
INVARIANTS
  TypeOK
  NoControlIsLost
  PublishersAreInOrder
  TelemetryIsAccounted
  HandlersAreBounded
PROPERTIES
  CloseJoins
  ImplementsChannel
CHECK_DEADLOCK FALSE
