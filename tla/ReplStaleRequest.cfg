CONSTANTS
  EventCap = 2
  MaxRuns = 2
  MaxPrompts = 2
  MaxInterrupts = 1
SPECIFICATION Spec
CHECK_DEADLOCK FALSE
PROPERTIES
  ReplyAnswersShown
