SPECIFICATION Spec
CONSTANTS
  c1 = c1
  c2 = c2
  x1 = x1
  x2 = x2
  Confirmer = {c1}
  Canceller = {x1}
  Copy = {1}
  AutoCapture = TRUE
  StatusOnRefunds = TRUE
  MaxFaults = 1
CHECK_DEADLOCK FALSE
PROPERTIES
  KeepsTheTrail
