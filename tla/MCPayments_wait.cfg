SPECIFICATION Spec
CONSTANTS
  r1 = r1  r2 = r2
  Requests = {r1, r2}
  Nobody = Nobody
  Payable = 2
  PointsPart = 1
  MaxCharges = 2
  MaxFaults = 0
  MaxStarts = 3
INVARIANTS
  Serialises
CHECK_DEADLOCK FALSE
