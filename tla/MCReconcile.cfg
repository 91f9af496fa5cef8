SPECIFICATION Spec
CONSTANTS
  None = None
  m1 = m1
  m2 = m2
  Mover = {m1, m2}
  Name <- Farms
  Alike <- NoneAlike
  Shared <- HofNord
  Held <- HofNord
  Attempts = 2
  MaxObjects = 5
  MaxRecords = 5
  MaxRevision = 3
  MaxOthers = 1
  MaxMoves = 2
  MaxResets = 0
  MaxFaults = 0
  MaxRequests = 0
INVARIANTS BothSidesAgree 
PROPERTIES ConfirmsOnlyAWholeSet
CHECK_DEADLOCK FALSE
