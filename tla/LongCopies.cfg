SPECIFICATION Spec
CONSTANTS
  f1 = f1
  f2 = f2
  Linux = Linux
  Files <- TwoFiles
  Lengths <- Ordinary
  BlockSize = 7
  Chunk = 3
  MaxExtents = 5
  SizeLimit = 64
  MaxBlocks = 8
  MaxRefusals = 0
  MaxCalls = 2
  MaxCrashes = 0
INVARIANT CopiesAgree
