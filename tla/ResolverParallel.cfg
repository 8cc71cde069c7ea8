CONSTANTS
  Name = {a, b}
  RootName = RootName
  MaxInode = 3
  Data <- MCCounts
  Task = {t1, t2, t3}
  Nobody = Nobody
  Serial = FALSE
  Requests = {"entry", "readdir", "readdirplus"}
  MaxRefs = 3
  Wrap = 4
SPECIFICATION Spec
INVARIANTS
  OneNumberPerName
  
SYMMETRY Tasks
CHECK_DEADLOCK FALSE
