CONSTANTS
  Pid = {p1, p2, p3, p4}
  NumKids = 3
  Faults = {"fork", "sigaction"}
SPECIFICATION FairSpec
INVARIANTS NeverUndercounts ExactCount
PROPERTIES Implements ZombiesAreCollected OnlyHang
CHECK_DEADLOCK FALSE
