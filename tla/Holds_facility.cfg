SPECIFICATION FairSpec
CONSTANTS
  b1 = b1
  b2 = b2
  b3 = b3
  Booking = {b1, b2, b3}
  From <- MCFrom
  To <- MCTo
  Quotas = {1, 2}
  HoldTime = 1
  NoBooking = NoBooking
  MaxTime = 3
  MaxInFlight = 1
CHECK_DEADLOCK FALSE
INVARIANTS
  HeldWithinQuota
PROPERTIES
  HoldRespectsFacility
  AbandonedHoldsEnd
