SPECIFICATION FairSpec
CONSTANTS
  Batches <- MCBatches
  Answers <- MCAnswersByText
  Full = 2
  AlphaNum = 3
  AlphaDen = 5
  Samples = 1
  MaxWorkers = 2
  OnlyKeySteps = TRUE
  NoMessages = NoMessages
  Missing = Missing
INVARIANT TypeOK
INVARIANT SuccessOutscores
PROPERTY ShapingSpec
PROPERTY CallEnds
CHECK_DEADLOCK FALSE
