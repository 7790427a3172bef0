SPECIFICATION Spec
CONSTANTS
  Drivers <- MCDrivers
  Samples = 2
  Worlds <- MCWorlds
  FreshWorld = "fresh"
  Goals <- MCGoals
  MaxTurns = 3
  Limit = 9
  System = 3
  UserTexts = {2}
  ToolTexts = {1, 6}
  PolicyMessages <- MCPolicyMessages
  ToolExtra = 1
  None = None
INVARIANT TypeOK
INVARIANT ContaminationTrue
INVARIANT RequestSound
PROPERTY EpisodeSpec
CHECK_DEADLOCK FALSE
