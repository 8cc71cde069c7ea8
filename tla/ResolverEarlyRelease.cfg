CONSTANTS
  Name = {a, b}
  RootName = RootName
  MaxInode = 3
  Data <- MCCounts
  Task = {t1, t2}
  Nobody = Nobody
  Serial = FALSE
  Requests = {"entry", "forget"}
  MaxRefs = 4
  Wrap = 5
SPECIFICATION Spec
PROPERTIES
  ReleasedOnlyAtZero
CHECK_DEADLOCK FALSE
