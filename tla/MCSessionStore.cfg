SPECIFICATION StoreSpec
CONSTANTS
  s1 = s1
  s2 = s2
  s3 = s3
  Savers = {s1, s2, s3}
  MaxTime = 2
  MaxSeq = 2
SYMMETRY SaverSymmetry
INVARIANTS
  SessionTypeOK
  WholeSessions
PROPERTY ImplementsStore
CHECK_DEADLOCK FALSE
