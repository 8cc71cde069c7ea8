CONSTANTS
  Name = {a}
  RootName = RootName
  MaxInode = 4
  Data <- MCCounts
  Task = {t1, t2}
  Nobody = Nobody
  Serial = FALSE
  Requests = {"entry", "replace", "forget"}
  MaxRefs = 3
  Wrap = 4
SPECIFICATION FairSpec
INVARIANTS
  MapSafe
PROPERTIES
  
  RequestsEnd
CHECK_DEADLOCK FALSE
