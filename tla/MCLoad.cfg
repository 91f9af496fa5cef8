SPECIFICATION Spec
CONSTANTS
  field = field  boundary = boundary  c1 = c1  c2 = c2  s1 = s1  s2 = s2
  EntityType = {field, boundary}
  Requires <- BoundaryOfField
  Caller = {c1, c2}
  Stream = {s1, s2}
  MaxSeq = 3
  None = None  Closed = Closed
SYMMETRY RaceSymmetry
INVARIANTS TypeOK SelectionResolvable CompletedWaitsForNobody CompletedIsRemembered ResumeLearnsTheSelection
PROPERTIES OnlySendingEndsLoading FlagStandsUntilProgress
CHECK_DEADLOCK FALSE
