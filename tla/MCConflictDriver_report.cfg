CONSTANTS
  Text <- MCText
  InputFiles <- MCInputFiles
  Variant = "fix_preexisting"
  MaxIterations = 2
  PrefixLen = 20
SPECIFICATION Spec
INVARIANT ReportSound
CHECK_DEADLOCK FALSE
