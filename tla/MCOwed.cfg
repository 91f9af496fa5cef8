SPECIFICATION FairSpec
CONSTANTS
  None = None
  m1 = m1
  m2 = m2
  Mover = {m1}
  Name <- Farms
  Alike <- Resembling
  Shared <- HofNord
  Held <- OneNord
  Attempts = 2
  MaxObjects = 3
  MaxRecords = 4
  MaxRevision = 2
  MaxOthers = 0
  MaxMoves = 3
  MaxResets = 0
  MaxFaults = 0
  MaxRequests = 0
PROPERTIES OnlyAQuestionStallsTheStream OwedLoadCompletes
CHECK_DEADLOCK FALSE
