CONSTANTS
  host1 = host1
  host2 = host2
  refused = refused
  target1 = target1
  target2 = target2
  address = address
  id1 = id1
  id2 = id2
  id3 = id3
  id4 = id4
  NoTarget = NoTarget
  NoResource = NoResource
  NoRule = NoRule
  InClusterTarget = address
  Hosts = {host1, host2, refused}
  RefusedHosts = {refused}
  Targets = {target1, target2, address}
  IsService = FALSE
  Shapes <- MixedShapes
  RuleIds = {id1, id2, id3}
  MaxEdits = 2
  MaxFaults = 1
  MaxTamperings = 0
  MaxLag = 3
SPECIFICATION FairSpec
PROPERTIES DeletionCompletes ComesToRest
CHECK_DEADLOCK FALSE
