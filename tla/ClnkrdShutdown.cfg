CONSTANTS
  EventCap = 2
  MaxRuns = 2
  MaxLines = 4
SPECIFICATION Spec
PROPERTY
  ShutdownExits
