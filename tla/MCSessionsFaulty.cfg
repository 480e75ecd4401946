CONSTANTS
  roamer = roamer
  lodger = lodger
  own = own
  shared = shared
  prod = prod
  None = None
  NoName = NoName
  Agents <- MCRoamer
  Conns <- MCConns
  Carries <- MCRoams
  GroupName <- MCNamed
  GroupAttr <- MCAttr
  Overlaps = TRUE
  MaxFailures = 1
  MaxCrashes = 1
SPECIFICATION SessionSpec
CHECK_DEADLOCK FALSE
INVARIANTS
  RegistryConsistent
  ClosedIsForgotten
  HeardIsStored
