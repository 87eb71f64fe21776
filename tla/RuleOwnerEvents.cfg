CONSTANTS
  rule1 = rule1
  rule2 = rule2
  endpoint1 = endpoint1
  address1 = address1
  address2 = address2
  NoObject = NoObject
  NoConfigMap = NoConfigMap
  Labels <- MCLabels
  Star = "*"
  PlainLabels <- MCPlainLabels
  StarredLabels <- MCStarredLabels
  LabelLength <- MCLabelLength
  Addresses <- MCAddresses
  Upstream <- MCUpstream
  Unstarred <- MCUnstarred
  Keys = {rule1, rule2}
  Specs <- TradingSpecs
  Owned = {rule2}
  Endpoints = {}
  MaxConcurrentReconciles = 1
  UpdateDelay = FALSE
  WebhookInstalled = TRUE
  MaxIncarnations = 1
  MaxGeneration = 1
  MaxFaults = 0
  DamageKinds = {}
  MaxDamages = 0
SPECIFICATION Spec
PROPERTIES FailureReachesOwner
CHECK_DEADLOCK FALSE
