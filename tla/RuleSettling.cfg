CONSTANTS
  rule1 = rule1
  rule2 = rule2
  endpoint1 = endpoint1
  address1 = address1
  address2 = address2
  NoObject = NoObject
  NoConfigMap = NoConfigMap
  Labels <- MCLabels
  Star = "*"
  PlainLabels <- MCPlainLabels
  StarredLabels <- MCStarredLabels
  LabelLength <- MCLabelLength
  Addresses <- MCAddresses
  Upstream <- MCUpstream
  Unstarred <- MCUnstarred
  Keys = {rule1, rule2}
  Specs <- TradingSpecs
  Owned = {}
  Endpoints = {endpoint1}
  MaxConcurrentReconciles = 2
  UpdateDelay = TRUE
  WebhookInstalled = TRUE
  MaxIncarnations = 1
  MaxGeneration = 1
  MaxFaults = 0
  DamageKinds = {}
  MaxDamages = 0
SPECIFICATION FairSpec
PROPERTIES DeletionCompletes StatusTellsTheTruth
CHECK_DEADLOCK FALSE
