CONSTANTS
  Text <- MCText
  InputFiles <- MCInputFiles
  Variant = "fix_preexisting"
  MaxIterations = 2
  PrefixLen = 20
SPECIFICATION Spec
INVARIANTS TypeOK IterBound Complete BudgetOnlyCutoff
PROPERTIES MarkersDecrease
CHECK_DEADLOCK FALSE
