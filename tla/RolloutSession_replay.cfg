SPECIFICATION FairSpec
CONSTANTS
  Rollouts = {r1}
  fresh = fresh
  booked = booked
  spoilt = spoilt
  DBs <- MCDBs
  FreshDB = fresh
  Tasks <- MCTasks
  MaxTurns = 2
  MaxAssistantTurns = 3
  MaxUserTurns = 3
  MaxParallelCalls = 2
  ReplayLimit = 2
INVARIANT RewardBound
PROPERTY EveryRolloutEnds
CHECK_DEADLOCK FALSE
