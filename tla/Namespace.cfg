SPECIFICATION Spec
CONSTANTS
  Names <- AB
  MkdirPaths <- TreeDirs
  TouchPaths <- TreeFiles
  RmPaths <- TreeRms
  CdPaths <- TreeCds
  Moves <- Nothing
  Capacity = 9
  MayRefuse = FALSE
  MaxDepth = 6
  MaxLoc = 5
  MaxSlots = 5
  MaxCwd = 2
  MaxCrashes = 0
INVARIANTS TreeShape LookupFollowsTree
PROPERTIES RemovalLeaves ImplementsPathTree
