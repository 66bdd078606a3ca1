SPECIFICATION Spec
CONSTANTS
  Letters <- Plain
  MaxLine = 6
INVARIANTS TypeOK VectorFits ArgumentsAreWords
