CONSTANTS
  MaxSteps = 5
  MaxBatch = 3
  MaxReplies = 2
SPECIFICATION FairSpec
INVARIANTS
  TypeOK
  BudgetRespected
  TurnBound
PROPERTIES
  FullSendEnds
  CancelledRunEnds
