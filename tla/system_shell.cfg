SPECIFICATION Spec
CONSTANTS
  Faults = {"exec", "ls"}
INVARIANT ShellVerdict
