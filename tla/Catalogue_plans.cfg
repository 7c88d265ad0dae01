SPECIFICATION Spec
CONSTANTS
  p1 = p1
  p2 = p2
  p3 = p3
  f1 = f1
  f2 = f2
  b1 = b1
  Plan = {p1, p2, p3}
  Facility = {f1, f2}
  Booking = {b1}
  Draft <- Tried
  Slot = {1, 2}
  MaxQuota = 2
  MaxMove = 4
  None = None
SYMMETRY Alike
CHECK_DEADLOCK FALSE
INVARIANTS
  SameScheduleBothEnds
  AssignmentsAreSellable
PROPERTIES
  QuotaKept
  DefaultSurvives
