SPECIFICATION MCSpec
CONSTANTS
  StartupInputs <- MCInputs
  MaxRuns = 2
INVARIANTS
  PromptMatches
  MetadataTruthful
  NestedSame
  OneRenderer
  LineFree
PROPERTY
  StopReturns
