CONSTANTS
  maxAttempts = 3
  Texts <- WireTexts
  FewTexts <- FewWireTexts
SPECIFICATION Spec
CHECK_DEADLOCK FALSE
INVARIANTS
  QueryTypeOK
  SchemaAccepted
  CanonicalStable
  NothingHalfAccepted
  AttemptsUsed
PROPERTIES
  CancelledQueryEnds
