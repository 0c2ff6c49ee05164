CONSTANTS
  a = a
  b = b
  Clients = {a, b}
  ClientLimit = 2
  MaxRequests = 2
  MaxWrites = 1
  MaxRestarts = 1
  MaxEdits = 3
  MaxForeign = 1
  None = None
  Absent = Absent
  Broken = Broken
  s1 = s1
  s2 = s2
  r1 = r1
  d1 = d1
  NoChild = NoChild
  ServerPids = {s1, s2}
  RendererPids = {r1}
  DeployerPids = {d1}
  MaxFaults = 1
SPECIFICATION BrokerSpec
CHECK_DEADLOCK FALSE
INVARIANTS
  Inv
  ExitIsComplete
  SettingsInv
PROPERTIES
  BrokerRecovers
  SavesAreHonest
