SPECIFICATION Spec
CONSTANTS
  r1 = r1  r2 = r2
  Requests = {r1, r2}
  Cron = cron
  Amount = 2
  Methods = {"TOSS", "BANK_TRANSFER"}
  NumRows = 2
  MaxLost = 1
  MaxAged = 2
  MaxCrashes = 0
SYMMETRY RequestSymmetry
INVARIANTS TypeOK NoOverRefund MoneyIsTracked
CHECK_DEADLOCK FALSE
