CONSTANTS
  a = a
  b = b
  x = x
  y = y
  Name = {a, b}
  RootName = RootName
  Data = {x, y}
  DefaultData = x
  MaxInode = 5
  Batches <- MCBatches
SPECIFICATION SpecArchive
INVARIANTS
  TablesAgree
  
  ParentsFirst
PROPERTIES
  RemoveCascades
  InsertionKeeps
  MapperIsATree
CHECK_DEADLOCK FALSE
