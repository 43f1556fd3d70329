SPECIFICATION LiveSpec
CONSTANTS
  r1 = r1  r2 = r2
  Requests = {r1}
  Cron = cron
  Amount = 2
  Methods = {"TOSS"}
  NumRows = 2
  MaxLost = 1
  MaxAged = 1
  MaxCrashes = 1

PROPERTIES StuckIsResolved
CHECK_DEADLOCK FALSE
