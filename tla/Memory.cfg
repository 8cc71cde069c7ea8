CONSTANTS
  MaxInode = 4
  Name = {a, b}
  User <- MCUser
  Mode <- MCMode
  MaxSize = 1
  Task = {t1, t2}
  Op <- AllOps
  Changes <- MCChanges
  ReadRaces = FALSE
SYMMETRY Symmetry
SPECIFICATION Spec
INVARIANTS
  TypeOK
  EntriesLead
  NotPoisoned
  StillThere
PROPERTIES
  MemoryIsATree
CHECK_DEADLOCK FALSE
