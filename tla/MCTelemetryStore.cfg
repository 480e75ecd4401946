SPECIFICATION FairTelemetrySpec
CONSTANTS
  Workers = {w1, w2}
  Items = {"metrics", "logs"}
  Points <- MCPoints
  BatchSize <- MCBatchSize
  Texts <- MCTexts
  Agents = {"a1"}
  GroupIDs = {"group-01", "group-02"}
  GroupNames = {"one", "two", "short"}
  AgentGroups <- MCAgentGroups
  NoText = ""
  DefaultAgent = "default"
  NoItem = NoItem
  NoRow = NoRow
  Retention = 1
  StartTime = 2
  MaxNow = 3
  MaxFaults = 1
INVARIANTS
  TelemetryTypeOK
  CommittedUntilExpired
  GroupsFollowTheRegistry
  SweptIsClean
PROPERTIES
  ExpiredRowsGo
CHECK_DEADLOCK FALSE
