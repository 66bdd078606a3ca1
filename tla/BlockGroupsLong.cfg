SPECIFICATION Spec
CONSTANTS
  GroupSize = 13
  GroupCount = 2
  Window = 4
  FirstBitmap = 2
  RootLen = 1
  Requests <- LongRequests
  LowBits <- Low
  MagicBits <- Magic
  GeomBits <- Geom
  RootBits <- Root
  MaxRuns = 4
  MaxCrashes = 2
INVARIANTS MagicVouches ExitedVolumeRemounts
