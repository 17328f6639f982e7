CONSTANTS
  Models <- MCModels
  Excluded = {"x"}
  Scenarios = {"smoke", "ro"}
  Reports <- MCReportsMixed
SPECIFICATION Spec
INVARIANT NoTypeError
CHECK_DEADLOCK FALSE
