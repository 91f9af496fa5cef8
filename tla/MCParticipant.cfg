SPECIFICATION Spec
CONSTANTS
  None = None
  m1 = m1
  m2 = m2
  Mover = {m1, m2}
  Name <- Farm
  Alike <- NoneAlike
  Shared <- OneHof
  Held <- OneHof
  Attempts = 2
  MaxObjects = 2
  MaxRecords = 3
  MaxRevision = 2
  MaxOthers = 1
  MaxMoves = 2
  MaxResets = 1
  MaxFaults = 1
  MaxRequests = 1
SYMMETRY MoverSymmetry
CONSTRAINT Eventful
INVARIANTS TypeOK OneRecordPerObject KnowsTheSelection
PROPERTIES RevisionsNeverGoBack
CHECK_DEADLOCK FALSE
