SPECIFICATION Spec
CONSTANTS
  Name = {b}
  RootName = root
  Special = {b}
  File = {f}
  Pipe = {p}
  Dir = {d}
  Soft = {l}
  RootNode = top
  Elsewhere = elsewhere
  NoNode = none
  MaxInode = 2
  MaxFd = 1
  User = {u}
  Namer = {n}
  Threads = {1, 2}
  SetAsks <- MCSetAsks
  InUse = FALSE
  handling = "panic"
PROPERTIES
  Answered
CHECK_DEADLOCK FALSE
