CONSTANTS
  Requests = {r1, r2, r3}
  Agents = {a}
  Known = {a}
  Groups = {g}
  Nobody = Nobody
  Remote = {a}
  Typed = {1, 3}
  MaxClock = 2
SPECIFICATION StoreSpec
SYMMETRY Interchangeable
INVARIANTS
  StoreTypeOK
  LatestIsNotSuperseded
  MemoryFindsLatest
CHECK_DEADLOCK FALSE
