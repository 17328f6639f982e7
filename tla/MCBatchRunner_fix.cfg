CONSTANTS
  Files <- MCFiles
  Variant = "fix_preexisting"
  MaxRuns = 2
  MaxCrashes = 0
SPECIFICATION Spec
INVARIANTS TypeOK NoSilentLoss BestEffort ExitCodeSound
CHECK_DEADLOCK FALSE
