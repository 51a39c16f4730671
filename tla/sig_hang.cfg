CONSTANTS
  Pid = {p1, p2, p3}
  NumKids = 3
  Faults = {}
SPECIFICATION FairSpec
PROPERTIES Completes
CHECK_DEADLOCK FALSE
