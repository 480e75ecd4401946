CONSTANTS
  mine = mine
  ours = ours
  prod = prod
  newConf = newConf
  oldConf = oldConf
  NoGroup = NoGroup
  Default = Default
  Empty = Empty
  Blank = Blank
  None = None
  Pushes <- MCOurs
  Content <- MCOursContent
  Target <- MCOursTarget
  Groups <- MCGroups
  Reports = TRUE
  MaxConnections = 2
  MaxRegroups = 1
  MaxUp = 1
  MaxDown = 2
  MaxLost = 1
SPECIFICATION FairDeliverySpec
CHECK_DEADLOCK FALSE
PROPERTIES
  Converges
