CONSTANTS
  host1 = host1
  host2 = host2
  refused = refused
  target1 = target1
  target2 = target2
  address = address
  id1 = id1
  id2 = id2
  id3 = id3
  id4 = id4
  NoTarget = NoTarget
  NoResource = NoResource
  NoRule = NoRule
  InClusterTarget = address
  Hosts = {host1, host2, refused}
  RefusedHosts = {refused}
  Targets = {target1, target2, address}
  IsService = TRUE
  Shapes <- LeavingShapes
  RuleIds = {id1, id2, id3, id4}
  MaxEdits = 1
  MaxFaults = 0
  MaxTamperings = 0
  MaxLag = 3
SPECIFICATION Spec
SYMMETRY RuleSymmetry
INVARIANT NoStaleRules
CHECK_DEADLOCK FALSE
