CONSTANTS
  MaxSteps = 5
  MaxBatch = 3
  MaxReplies = 1
  MaxMessages = 8
  MaxCalls = 6
  Cwds = {c1, c2}
  NoCwd = NoCwd
  StartCwd = c1
  NoEnv = NoEnv
  CutEnv = CutEnv
  ActProtocols = {"tool-calls", "clnkr-inline"}
SPECIFICATION AgentSpec
CHECK_DEADLOCK FALSE
INVARIANTS
  AgentTypeOK
  StateCurrent
  CallsAnswered
  ResultsOwned
  RequestPaired
  BatchOutcomes
PROPERTIES
  OnlyCompactionRewrites
