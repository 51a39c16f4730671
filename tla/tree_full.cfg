CONSTANTS
  MaxRuns = 1
  TreeFaults = {"full"}
SPECIFICATION TreeSpec
INVARIANT AllUpdated
