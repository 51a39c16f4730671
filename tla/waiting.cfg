CONSTANTS
  Pid = {p1, p2, p3, p4}
  NumKids = 3
  Faults = {"fork"}
SPECIFICATION WaitingFairSpec
INVARIANTS ErrorOnlyIfMiscounted MissingShown
PROPERTIES WaitingImplements WaitingCompletes
