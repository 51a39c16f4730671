SPECIFICATION MCSpec
CONSTANTS
  MaxQueue = 3
  MaxEvents = 5
  Faults = {"inotify_init", "inotify_add_watch"}
  Nopes = 3
  Cap = 8
  GateFaults = {"main", "handler"}
INVARIANTS
  NothingSkipped
  KilledByLast
  NoEarlierPressCounts
PROPERTIES
  CatchesUp
  RemovalIsTold
  UserEndsIt
CHECK_DEADLOCK FALSE
