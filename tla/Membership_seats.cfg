SPECIFICATION Spec
CONSTANTS
  a = a
  b = b
  o1 = o1
  o2 = o2
  t1 = t1
  t2 = t2
  User = {a, b}
  Operator = {o1, o2}
  Invite = {1, 2}
  Slot = {t1, t2}
  Home = o1
  Founder = {a}
  Limit = {1, 2}
  DefaultLimit = 1
  MaxMove = 6
  MaxLink = 2
  None = None
SYMMETRY Slots
CHECK_DEADLOCK FALSE
INVARIANTS
  OneOperatorEach
  RoleFollowsMembership
PROPERTIES
  SeatsArePaid
  LastAdminStays
