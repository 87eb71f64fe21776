CONSTANTS
  owner1 = owner1
  owner2 = owner2
  owner3 = owner3
  address = address
  Labels <- MCLabels
  Star = "*"
  PlainLabels <- MCPlainLabels
  StarredLabels <- MCStarredLabels
  LabelLength <- MCLabelLength
  Addresses = {address}
  Upstream <- MCUpstream
  Unstarred <- MCUnstarred
  Owners = {owner1, owner2, owner3}
  OwnerOrder <- MCOwnerOrder
  Specs <- MCSpecs
  Hosts <- MCHosts
  MaxTamperings = 1
SPECIFICATION FormatSpec
INVARIANTS TypeOK SourcesDoNotClash AtMostOneMatch TextIsFaithful ProbesAreNames
