SPECIFICATION Spec
CONSTANTS
  Names <- AB
  MkdirPaths <- TreeDirs
  TouchPaths <- TreeFiles
  RmPaths <- TreeRms
  CdPaths <- TreeCds
  Moves <- Nothing
  Capacity = 9
  MayRefuse = TRUE
  MaxDepth = 5
  MaxLoc = 4
  MaxSlots = 5
  MaxCwd = 2
  MaxCrashes = 0
PROPERTY RemovalFreesItsOwn
