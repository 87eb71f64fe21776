CONSTANTS
  rule1 = rule1
  rule2 = rule2
  endpoint1 = endpoint1
  address1 = address1
  address2 = address2
  NoObject = NoObject
  NoConfigMap = NoConfigMap
  Labels <- MCLabels
  Star = "*"
  PlainLabels <- MCPlainLabels
  StarredLabels <- MCStarredLabels
  LabelLength <- MCLabelLength
  Addresses <- MCAddresses
  Upstream <- MCUpstream
  Unstarred <- MCUnstarred
  Keys = {rule1}
  Specs <- ChangingSpecs
  Owned = {rule1}
  Endpoints = {endpoint1}
  MaxConcurrentReconciles = 1
  UpdateDelay = TRUE
  WebhookInstalled = FALSE
  MaxIncarnations = 2
  MaxGeneration = 2
  MaxFaults = 2
  DamageKinds = {"deleted", "overwritten", "garbled", "misstamped"}
  MaxDamages = 1
SPECIFICATION FairSpec
INVARIANTS NoOrphanEntry ViewsAreOld PlansAreSound
PROPERTIES DeletionCompletes StatusTellsTheTruth
CHECK_DEADLOCK FALSE
