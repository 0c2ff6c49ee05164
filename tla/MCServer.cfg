CONSTANTS
  Mailbox = 1
  MaxMessages = 1
  MaxChanges = 2
  Conns = {p, w}
  Slots = 1
  PendingLimit = 1
  EngineLimit = 2
  Priorities = {0}
  MaxFrames = 5
  MaxOutput = 2
  Preview = 1
  LogQueue = 1
  DeployFaults = 2
  Calls = {1, 2}
  MaxPending = 1
  OutQueue = 1
  InQueue = 1
  Pipe = 1
  MaxEvents = 1
  RpcFaults = 1
SPECIFICATION FairSpec
CHECK_DEADLOCK FALSE
INVARIANTS
  ServerInv
PROPERTIES
  FactsAreSeen
  PromotionEnds
  OutcomeArrives
  EverythingEnds
