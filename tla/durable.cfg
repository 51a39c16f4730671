SPECIFICATION Spec
CONSTANTS
  N = 2
  Pieces = 2
  BufSize = 2
  Size = 5
  MaxRuns = 3
  Faults = {"open", "setvbuf", "write", "fsync", "close"}
INVARIANTS
  ReturnedIsStored
  LosesOnlyTheBuffer
PROPERTIES
  ImplementsDurable
  PrintedIsStoredAtLast
