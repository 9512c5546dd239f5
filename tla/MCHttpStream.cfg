SPECIFICATION Spec
CONSTANTS
  Modes <- AllModes
  WriteSizes = {1, 2, 4}
  ReadSizes = {1, 2, 3}
  MaxBytes = 5
INVARIANTS Inv CleanEndIsComplete
PROPERTIES ReadingEnds WholeBodyArrives
