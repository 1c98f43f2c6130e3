SPECIFICATION Spec
CONSTANTS
  j1 = j1
  j2 = j2
  d1 = d1
  d2 = d2
  f1 = f1
  f2 = f2
  Jobs = {j1, j2}
  Domains = {d1, d2}
  Formats = {f1, f2}
  Plans <- MCPlans
INVARIANTS
  EveryRecordKept
  LostOnlyInCreation
  SnapshotGrounded
CHECK_DEADLOCK FALSE
