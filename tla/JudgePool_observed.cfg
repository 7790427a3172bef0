SPECIFICATION Spec
CONSTANTS
  Batches <- MCBatches
  Answers <- MCAnswersByResult
  Full = 2
  AlphaNum = 3
  AlphaDen = 5
  Samples = 1
  MaxWorkers = 2
  OnlyKeySteps = TRUE
  NoMessages = NoMessages
  Missing = Missing
INVARIANT AsAlone
CHECK_DEADLOCK FALSE
