SPECIFICATION Spec
CONSTANTS
  e1 = e1  e2 = e2  e3 = e3  t1 = t1  t2 = t2
  o1 = o1  o2 = o2  o3 = o3  l1 = l1  l2 = l2  a = a  b = b  v = v  w = w
  Endpoint = {e1, e2}
  Tenant = {t1}
  TenantOf <- OneTenant
  EntityType = {field}
  Party = party
  LocalId = {l1}
  Object = {o1}
  Attribute = {a, b}
  Details = details
  Value = {v, w}
  Patch <- MergePatches
  ActiveSent = {TRUE, FALSE, Omitted}
  EntrySent = {FALSE}
  Removable = {}
  Resettable = {}
  MaxRevision = 3
  MaxSeq = 4
  None = None  Absent = Absent  Null = Null  Keep = Keep  Omitted = Omitted  NoBase = NoBase
SYMMETRY MergeSymmetry
INVARIANTS TypeOK HistoryReconstructs
PROPERTIES NoLostUpdate EveryRevisionIsAChange AnnouncedToOthers
CHECK_DEADLOCK FALSE
