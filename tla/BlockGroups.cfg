SPECIFICATION Spec
CONSTANTS
  GroupSize = 8
  GroupCount = 2
  Window = 4
  FirstBitmap = 2
  RootLen = 2
  Requests <- ShellRequests
  LowBits <- Low
  MagicBits <- Magic
  GeomBits <- Geom
  RootBits <- Root
  MaxRuns = 5
  MaxCrashes = 1
INVARIANTS TypeOK RunsStayInReach WindowRunsDisjoint FreeCountBacked
PROPERTIES VcbNeverDamaged HalfFormatIsForever ImplementsFreshRuns
