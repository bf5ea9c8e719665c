CONSTANTS
  EventCap = 2
  MaxRuns = 2
  MaxPrompts = 3
  MaxInterrupts = 1
SPECIFICATION Spec
CHECK_DEADLOCK FALSE
INVARIANTS
  AgentExclusive
  CleanPrompt
PROPERTY InterruptsEnd
