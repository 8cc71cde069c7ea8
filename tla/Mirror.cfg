SPECIFICATION Spec
CONSTANTS
  Name = {a, b}
  RootName = root
  Special = {b}
  File = {f, g}
  Pipe = {}
  Dir = {}
  Soft = {l}
  RootNode = top
  Elsewhere = elsewhere
  NoNode = none
  MaxInode = 3
  MaxFd = 2
  User = {u}
  Namer = {n}
  Threads = {2}
  SetAsks <- MCSetAsks
  InUse = FALSE
  handling = "error"
INVARIANTS
  TypeOK
  DescriptorsOwned
  HandleMeansFile
  RightFile
  
  SetIsReported
  ReadOnlyKeeps
SYMMETRY Files
CHECK_DEADLOCK FALSE
