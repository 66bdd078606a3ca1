SPECIFICATION Spec
CONSTANTS
  Names <- ABC
  MkdirPaths <- RenameDirs
  TouchPaths <- RenameFiles
  RmPaths <- Nothing
  CdPaths <- Nothing
  Moves <- RenamePairs
  Capacity = 9
  MayRefuse = FALSE
  MaxDepth = 6
  MaxLoc = 5
  MaxSlots = 5
  MaxCwd = 0
  MaxCrashes = 0
PROPERTY MvMovesFiles
