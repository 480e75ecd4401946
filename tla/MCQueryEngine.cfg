CONSTANTS
  Rows <- MCRows
  Queries <- MCQueries
  Agents = {"a1", "a2"}
  Groups = {"g1", "g2"}
  Unset = "unset"
  Missing = "missing"
  Limit = 3
SPECIFICATION EngineSpec
INVARIANTS
  EngineTypeOK
PROPERTIES
  SelectsWhatIsWanted
  GroupedSumsAddUp
  FunctionsKeepTheirBounds
CHECK_DEADLOCK FALSE
