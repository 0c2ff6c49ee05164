CONSTANTS
  c1 = c1
  c2 = c2
  d1 = d1
  NoTask = NoTask
  Contexts = {c1, c2}
  EpochSpace = 3
  QueueLimit = 1
  MaxCancellations = 3
  MaxConnections = 3
  MaxReplies = 2
SPECIFICATION TipSpec
CHECK_DEADLOCK FALSE
INVARIANTS
  TypeOK
  OpenGateIsOwned
  ClosureIsReported
  TipInv
PROPERTIES
  ReadIsExact
  OpensUncancelled
  NeverReopened
  HostWins
