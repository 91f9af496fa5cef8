SPECIFICATION Spec
CONSTANTS
  None = None
  Other = Other
  Endpoints <- NorthSouth
  Shared = 1
  MaxObjects = 2
  MaxRecords = 2
  MaxRevision = 2
  MaxOthers = 1
  MaxAdded = 1
  MaxEdits = 0
  MaxSends = 1
  MaxCorrections = 1
  MaxFaults = 1
INVARIANTS TypeOK BasesExist
CHECK_DEADLOCK FALSE
