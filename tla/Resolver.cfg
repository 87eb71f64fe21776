CONSTANTS
  pod = pod
  external = external
  address1 = address1
  address2 = address2
  NoTarget = NoTarget
  NoResult = NoResult
  Labels <- MCLabels
  Star = "*"
  PlainLabels <- MCPlainLabels
  StarredLabels = {"*"}
  LabelLength <- MCLabelLength
  Addresses = {address1, address2}
  Upstream <- MCUpstream
  Unstarred <- MCUnstarred
  Handles = {pod, external}
  Endpoints = {pod, external}
  External = {external}
  Calls <- MCCalls
  Configurations <- MCConfigurations
SPECIFICATION FairSpec
INVARIANTS TypeOK VerdictIsJustified StopClosedOnce TasksAreSound
PROPERTIES CheckReturns LocalPortsReleased
