SPECIFICATION FairSpec
CONSTANTS
  Names <- AB
  MkdirPaths <- MoveDirs
  TouchPaths <- MoveFiles
  RmPaths <- MoveRms
  CdPaths <- MoveCds
  Moves <- MovePairs
  Capacity = 9
  MayRefuse = FALSE
  MaxDepth = 6
  MaxLoc = 5
  MaxSlots = 4
  MaxCwd = 1
  MaxCrashes = 1
INVARIANTS RemovalFollowsListing RootIsNeverRemoved
PROPERTIES CwdStaysDirectory UnreadyIsForever DirsStayListed RemovalEnds
