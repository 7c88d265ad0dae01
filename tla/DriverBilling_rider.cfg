SPECIFICATION DriverBillingSpec
CONSTANTS
  basic = basic
  pro = pro
  Plan = {basic, pro}
  Session = {1, 2}
  Row = {1, 2, 3}
  None = None
  MaxTime = 2
  MaxBucket = 1
  MaxMove = 2
  MaxInFlight = 2
CHECK_DEADLOCK FALSE
INVARIANTS
  NothingChargesUnseen
PROPERTIES
  EndedIsCancelled
  RiderKeepsOnePlan
