CONSTANTS
  a = a
  b = b
  x = x
  y = y
  Name = {a, b}
  RootName = RootName
  Data = {x, y}
  DefaultData = x
  MaxInode = 4
  Batches <- MCBatches
SPECIFICATION SpecKernel
INVARIANTS
  TypeOK
  EntryAgrees
  RootKept
  NextNumberFree
  
PROPERTIES
  RenameKeepsInodes
CHECK_DEADLOCK FALSE
