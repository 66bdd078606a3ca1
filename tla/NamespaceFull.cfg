SPECIFICATION Spec
CONSTANTS
  Names <- ABC
  MkdirPaths <- FullDirs
  TouchPaths <- FullFiles
  RmPaths <- FullRms
  CdPaths <- Nothing
  Moves <- Nothing
  Capacity = 4
  MayRefuse = TRUE
  MaxDepth = 5
  MaxLoc = 4
  MaxSlots = 5
  MaxCwd = 2
  MaxCrashes = 1
INVARIANTS TypeOK TreeShape ListingAgreesWithLookup NamesUnique
