CONSTANTS
  Text <- MCText
  InputFiles <- MCInputFiles
  Variant = "resolve_smart"
  MaxIterations = 1
  PrefixLen = 20
SPECIFICATION Spec
INVARIANTS TypeOK IterBound Complete
CHECK_DEADLOCK FALSE
