SPECIFICATION Spec
CONSTANTS
  Size = 2
  TaskOf <- MCTwoTasks
  Covered = {1}
  Uncovered = {2}
  RolloutN = 8
  MaxPassedOver = 1
  Settings <- MCRoundsOnly
PROPERTY EasyTasksStopAtFour
CHECK_DEADLOCK FALSE
