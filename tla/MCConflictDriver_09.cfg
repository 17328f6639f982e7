CONSTANTS
  Text <- LineRecord
  InputFiles <- MC09InputFiles
  Variant = "resolve_09"
  MaxIterations = 2
  PrefixLen = 20
SPECIFICATION Spec
INVARIANTS TypeOK IterBound Complete BudgetOnlyCutoff
PROPERTIES MarkersDecrease
CHECK_DEADLOCK FALSE
