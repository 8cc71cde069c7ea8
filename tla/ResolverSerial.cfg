CONSTANTS
  Name = {a, b}
  RootName = RootName
  MaxInode = 4
  Data <- MCCounts
  Task = {t1}
  Nobody = Nobody
  Serial = TRUE
  Requests = {"entry", "link", "readdir", "readdirplus", "unlink", "rename", "forget"}
  MaxRefs = 2
  Wrap = 4
SPECIFICATION Spec
INVARIANTS
  TypeOK
  
  KernelInodesKnown
  NamesAgree
  NoPanics
CHECK_DEADLOCK FALSE
