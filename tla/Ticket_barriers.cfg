SPECIFICATION Spec
CONSTANTS
  s1 = s1
  s2 = s2
  Scan = {s1, s2}
  Skew = 1
  TTL = 5
  Drift = 1
  Latency = 1
  MaxTime = 6
  MaxIssued = 1
  NoTime = NoTime
SYMMETRY BothScans
CHECK_DEADLOCK FALSE
INVARIANTS
  PerformedOnce
PROPERTIES
  RedeemedOnce
