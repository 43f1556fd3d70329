SPECIFICATION LiveSpec
CONSTANTS
  i1 = i1  i2 = i2
  Instances = {i1, i2}
  NumDbs = 2
  Retention = 1
  NumPeriods = 3
  MaxLag = 1
  MaxErrors = 1
  MaxCrashes = 1
INVARIANTS TypeOK AtMostOnce
PROPERTIES EveryPeriodRuns
CHECK_DEADLOCK FALSE
