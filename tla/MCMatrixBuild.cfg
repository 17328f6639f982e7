CONSTANTS
  Models <- MCModels
  Excluded = {"x"}
  Scenarios = {"smoke", "ro"}
  Reports <- MCReportsUniform
SPECIFICATION Spec
INVARIANTS TypeOK LatestWins LastRunIsMax TableListsModels
CHECK_DEADLOCK FALSE
