SPECIFICATION Spec
CONSTANTS
  r1 = r1  r2 = r2
  Requests = {r1, r2}
  Nobody = Nobody
  Payable = 2
  PointsPart = 1
  MaxCharges = 3
  MaxFaults = 1
  MaxStarts = 6
SYMMETRY RequestSymmetry
CHECK_DEADLOCK FALSE
INVARIANTS
  TypeOK PaidInFull HoldsAreBacked MoneyIsKnown CanceledIsReleased NotPaidTwice
