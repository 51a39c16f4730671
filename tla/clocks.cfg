SPECIFICATION Spec
CONSTANTS
  s1 = s1
  s2 = s2
  Setter = {s1, s2}
  Companion = s1
  MaxTime = 17
  ShortTime = 5
  Jump = 3
  HalfSecond = 3
  Watching = 2
  SetterFaults = {"read", "adjtime", "settimeofday"}
  FirstSleep = 1
  Interval = 3
  LetRun = 10
  Verify = 4
  MaxLag = 2
  TimerFaults = {"timer_create", "pthread_create"}
INVARIANTS
  SlewingIsSeen
  LostOnlyToOverlap
  ThreeThenNone
  OnTime
CHECK_DEADLOCK FALSE
