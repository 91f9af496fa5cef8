SPECIFICATION Spec
CONSTANTS
  None = None
  Other = Other
  Endpoints <- NorthSouth
  Shared = 1
  MaxObjects = 1
  MaxRecords = 1
  MaxRevision = 2
  MaxOthers = 1
  MaxAdded = 0
  MaxEdits = 0
  MaxSends = 0
  MaxCorrections = 0
  MaxFaults = 1
INVARIANTS SafeToResume
CHECK_DEADLOCK FALSE
