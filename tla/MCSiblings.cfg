SPECIFICATION Spec
CONSTANTS
  None = None
  Other = Other
  Endpoints <- NorthSouth
  Shared = 1
  MaxObjects = 2
  MaxRecords = 2
  MaxRevision = 3
  MaxOthers = 2
  MaxAdded = 0
  MaxEdits = 1
  MaxSends = 2
  MaxCorrections = 0
  MaxFaults = 1
INVARIANTS MintsNoSecond OneRecordPerObject BothSidesAgree ShowsWhatStands
CHECK_DEADLOCK FALSE
