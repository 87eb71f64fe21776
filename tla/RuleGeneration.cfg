CONSTANTS
  rule1 = rule1
  rule2 = rule2
  endpoint1 = endpoint1
  address1 = address1
  address2 = address2
  NoObject = NoObject
  NoConfigMap = NoConfigMap
  Labels <- MCLabels
  Star = "*"
  PlainLabels <- MCPlainLabels
  StarredLabels <- MCStarredLabels
  LabelLength <- MCLabelLength
  Addresses <- MCAddresses
  Upstream <- MCUpstream
  Unstarred <- MCUnstarred
  Keys = {rule1}
  Specs <- TradingSpecs
  Owned = {}
  Endpoints = {}
  MaxConcurrentReconciles = 1
  UpdateDelay = FALSE
  WebhookInstalled = TRUE
  MaxIncarnations = 1
  MaxGeneration = 2
  MaxFaults = 0
  DamageKinds = {}
  MaxDamages = 0
SPECIFICATION Spec
PROPERTIES AcknowledgesGeneration
CHECK_DEADLOCK FALSE
