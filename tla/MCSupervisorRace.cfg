CONSTANTS
  s1 = s1
  s2 = s2
  r1 = r1
  d1 = d1
  NoChild = NoChild
  ServerPids = {s1, s2}
  RendererPids = {r1}
  DeployerPids = {d1}
  MaxFaults = 1
SPECIFICATION Spec
CHECK_DEADLOCK FALSE
INVARIANTS
  NoServerBesideDeployer
