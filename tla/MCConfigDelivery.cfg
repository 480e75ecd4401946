CONSTANTS
  mine = mine
  ours = ours
  prod = prod
  newConf = newConf
  oldConf = oldConf
  NoGroup = NoGroup
  Default = Default
  Empty = Empty
  Blank = Blank
  None = None
  Pushes <- MCPushes
  Content <- MCContent
  Target <- MCTarget
  Groups <- MCGroups
  Reports = TRUE
  MaxConnections = 1
  MaxRegroups = 0
  MaxUp = 1
  MaxDown = 2
  MaxLost = 1
SPECIFICATION FairDeliverySpec
CHECK_DEADLOCK FALSE
INVARIANTS
  DeliveryTypeOK
  OfferIsWhatWasSet
  NoLostWakeup
  QuietMeansInSync
PROPERTIES
  Converges
  WaitersAreNotified
