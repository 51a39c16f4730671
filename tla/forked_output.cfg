SPECIFICATION MCSpec
CONSTANTS
  N = 2
  RecordLen <- MCRecordLen
  OldLens = {0, 7}
  OffsetFaults = {"open", "fork", "short"}
  Faults = {"atexit", "fork", "exec", "ls", "kill"}
INVARIANTS
  IntelligentOutput
  Tmp2IsOverlaid
  MainPerExit
  WholeTranscripts
  LinesInOrder
PROPERTIES
  ImplementsLog
