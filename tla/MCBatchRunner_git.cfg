CONSTANTS
  Files <- MCFiles
  Variant = "resolve_09"
  MaxRuns = 2
  MaxCrashes = 1
SPECIFICATION Spec
INVARIANTS TypeOK ExitCodeSound
CHECK_DEADLOCK FALSE
