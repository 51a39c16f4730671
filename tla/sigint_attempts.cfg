CONSTANTS
  Nopes = 3
  Cap = 8
  GateFaults = {}
SPECIFICATION GateSpec
INVARIANT ThreeAttempts
