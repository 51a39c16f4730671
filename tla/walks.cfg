SPECIFICATION MCSpec
CONSTANTS
  Pid = {1, 2, 3}
  Uids = {10, 1000}
  User = 1000
  Faults = {"start"}
  MaxRuns = 2
  TreeFaults = {"mkdir", "fopen", "later", "kill", "unlink", "full"}
INVARIANTS
  CompleteToItsEnd
  OnlyUsers
  MarkedOnce
  UpdatedUnlessLost
PROPERTIES
  Ends
  NothingDestroyed
