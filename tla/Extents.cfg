SPECIFICATION FairSpec
CONSTANTS
  f1 = f1
  f2 = f2
  Files <- TwoFiles
  Lengths <- Created
  Adds <- Single
  VolumeSize = 5
  MaxExtents = 3
INVARIANTS TypeOK LeavesFit BlocksHaveOneOwner
PROPERTIES CreatedFilesAreCovered SuccessLosesNothing CreationEnds
