SPECIFICATION FairSpec
CONSTANTS
  f1 = f1
  f2 = f2
  Linux = Linux
  Files <- TwoFiles
  Lengths <- Around
  BlockSize = 7
  Chunk = 3
  MaxExtents = 5
  SizeLimit = 64
  MaxBlocks = 6
  MaxRefusals = 1
  MaxCalls = 2
  MaxCrashes = 1
INVARIANTS TypeOK ArraysNotOverrun BlockZeroSpared SizeIsBacked ShortFilesRoundTrip
PROPERTIES OnlyDestinationChanges CopyEnds
