SPECIFICATION Spec
CONSTANTS
  Rollouts = {r1, r2}
  fresh = fresh
  booked = booked
  spoilt = spoilt
  DBs <- MCDBs
  FreshDB = fresh
  Tasks <- MCTasks
  MaxTurns = 2
  MaxAssistantTurns = 3
  MaxUserTurns = 3
  MaxParallelCalls = 1
  ReplayLimit = 0
SYMMETRY MCSymmetry
INVARIANT TypeOK
INVARIANT ScoreIsOutcome
INVARIANT EntryLifecycle
INVARIANT OracleIsolation
PROPERTY EffectsStayHome
PROPERTY EpisodeSpec
CHECK_DEADLOCK FALSE
