SPECIFICATION FairSpec
CONSTANTS
  TaskIds <- MCTwoTasks
  HoldoutSizes = {0, 1}
  BestOfN = 1
  NumWorkers = 2
  OverwriteFlags = {FALSE, TRUE}
  MaxLaunches = 2
  Absent = absent
  Partial = partial
INVARIANT TypeOK
INVARIANT MergeReadsCommitted
INVARIANT SummaryTrue
INVARIANT UnseenStaysUnseen
INVARIANT ValidatedOnUnseen
INVARIANT LabelsTrue
PROPERTY CommittedStays
PROPERTY EveryLaunchEnds
CHECK_DEADLOCK FALSE
