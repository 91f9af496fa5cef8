SPECIFICATION Spec
CONSTANTS
  e1 = e1  e2 = e2  e3 = e3  t1 = t1  t2 = t2
  o1 = o1  o2 = o2  o3 = o3  l1 = l1  l2 = l2  a = a  b = b  v = v  w = w
  Endpoint = {e1, e3}
  Tenant = {t1, t2}
  TenantOf <- TwoTenants
  EntityType = {party}
  Party = party
  LocalId = {l1, l2}
  Object = {o1, o2}
  Attribute = {details}
  Details = details
  Value = {v, w}
  Patch <- PartyPatches
  ActiveSent = {Omitted}
  EntrySent = {FALSE}
  Removable = {}
  Resettable = {t1}
  MaxRevision = 2
  MaxSeq = 3
  None = None  Absent = Absent  Null = Null  Keep = Keep  Omitted = Omitted  NoBase = NoBase
SYMMETRY NameSymmetry
INVARIANTS ParentsResolve ParentsOfOthersAreOrganizations
CHECK_DEADLOCK FALSE
