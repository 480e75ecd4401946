SPECIFICATION GroupSpec
CONSTANTS
  Agents = {"a1", "a2"}
  Capabilities <- MCCapabilities
  Groups = {"g1"}
  NoGroup = ""
  Pushes = {"p1"}
  Restarts = {"r1"}
  Target <- MCTarget
  Other = Other
  Empty = Empty
  None = None
  Descriptions <- MCDescriptions
  MaxObjects <- MCMaxObjects
  MaxCalls = 1
INVARIANTS
  GroupTypeOK
  JoinersMissNothing
  AnswerAccountsForMembers
CHECK_DEADLOCK FALSE
