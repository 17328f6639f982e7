CONSTANTS
  Files <- MCFiles
  Variant = "fix_preexisting"
  MaxRuns = 2
  MaxCrashes = 1
SPECIFICATION Spec
INVARIANT NoSilentLoss
CHECK_DEADLOCK FALSE
