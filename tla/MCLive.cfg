SPECIFICATION FairSpec
CONSTANTS
  o1 = o1  o2 = o2
  Object = {o1, o2}
  TierOf <- SameTier
  Capacity = 5
  MaxSeq = 3
  MaxMoves = 2
  MaxBreaks = 1
  None = None
  m1 = m1  m2 = m2
  Mover = {m1, m2}
INVARIANTS TypeOK SafeToResume
PROPERTIES RevisionsNeverGoBack Convergence SelectionConverges
CHECK_DEADLOCK FALSE
