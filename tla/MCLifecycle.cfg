SPECIFICATION Spec
CONSTANTS
  v1 = v1
  v2 = v2
  d1 = d1
  d2 = d2
  d3 = d3
  d4 = d4
  t1 = t1
  t2 = t2
  old = old
  new = new
  own = own
  Versions = {v1, v2}
  Digests = {d1, d2, d3, d4}
  Anchors = {a, b}
  Targets = {t1, t2}
  Contents = {old, new, own}
  None = None
  Absent = Absent
  WellFormed = {d1, d2, d3}
  VersionOf <- MCVersionOf
  Payload <- MCPayload
  MaxCrashes = 2
  MaxEdits = 1
INVARIANTS TypeOK ActivationSound MaterializedVerified CompletedRunConsistent RollbackReturns
PROPERTIES NothingRewritten NeverSeized ImplementsSwitch
CHECK_DEADLOCK FALSE
