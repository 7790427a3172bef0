SPECIFICATION Spec
CONSTANTS
  Size = 3
  TaskOf <- MCThreeTasks
  Covered = {1}
  Uncovered = {2}
  RolloutN = 8
  MaxPassedOver = 1
  Settings <- MCEverySetting
INVARIANT TypeOK
INVARIANT FailedGroupsGetEight
INVARIANT RoundBudget
INVARIANT SkippedSpentAll
CHECK_DEADLOCK FALSE
