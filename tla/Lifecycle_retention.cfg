SPECIFICATION LifecycleSpec
CONSTANTS
  f1 = f1
  f2 = f2
  o1 = o1
  p1 = p1
  p2 = p2
  p3 = p3
  Facility = {f1}
  Operator = {o1}
  Person = {p1, p2, p3}
  Owner <- Owners
  Founder = {p1, p2}
  Customer = p3
  Approval = {1, 2}
  Slot = {1, 2}
  Batch = 1
  MaxMove = 4
  None = None
CHECK_DEADLOCK FALSE
INVARIANTS
  NobodyIsStranded
  SuperAdminSurvives
PROPERTIES
  RetentionOrTwo
  DueTombstonesGo
