SPECIFICATION FairSpec
CONSTANTS
  s1 = s1
  s2 = s2
  p1 = p1
  p2 = p2
  Row = {1, 2, 3, 4}
  Agreement = {s1, s2}
  Plan = {p1, p2}
  PlanOf <- TwoPlans
  Reported = {"ACTIVE"}
  None = None
  MaxTime = 2
  MaxMoves = 2
  MaxInFlight = 2
CHECK_DEADLOCK FALSE
PROPERTIES
  FreshWritesAreLawful
  EventsAreAcknowledged
  KeepsOnePlan
