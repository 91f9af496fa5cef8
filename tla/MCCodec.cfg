SPECIFICATION Spec
CONSTANTS
  None = None
  Keep = Keep
  Null = Null
  Own = Own
  EntityType = {"party", "field", "boundary"}
  Value = {v, w}
  Target = {farm1, farm2}
  MaxRevision = 3
  MaxEdits = 1
  MaxMoves = 1
INVARIANTS ShowsWhatItModels
PROPERTIES OnlyEditsAreSent
