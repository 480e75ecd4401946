CONSTANTS
  roamer = roamer
  lodger = lodger
  own = own
  shared = shared
  prod = prod
  None = None
  NoName = NoName
  Agents <- MCAgents
  Conns <- MCConns
  Carries <- MCCarries
  GroupName <- MCGroupName
  GroupAttr <- MCGroupAttr
  Overlaps = FALSE
  MaxFailures = 0
  MaxCrashes = 0
SPECIFICATION FairSessionSpec
CHECK_DEADLOCK FALSE
INVARIANTS
  SessionTypeOK
  StatusIsTheLastReport
PROPERTIES
  KeepsPresence
