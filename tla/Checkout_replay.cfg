SPECIFICATION FairSpec
CONSTANTS
  r1 = r1
  r2 = r2
  r3 = r3
  k1 = k1
  k2 = k2
  Request = {r1, r2, r3}
  Key = {k1}
  KeyOf <- MCKeyOf
  Price = {10, 12}
  Code = {"A", "B"}
  MaxAttempts = 2
  MaxFailures = 1
  MaxLapses = 1
INVARIANTS
  SecretsAreTracked
  AtMostOneCreator
PROPERTIES
  CrashedCheckoutHeals
