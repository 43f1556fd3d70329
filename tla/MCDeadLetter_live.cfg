SPECIFICATION LiveSpec
CONSTANTS
  c1 = c1  c2 = c2  hA = hA  hB = hB  op = op  q1 = q1  none = none
  Consumers = {c1}
  Handlers = {hA, hB}
  Operators = {op}
  Sequences = {q1}
  NoSequence = none
  SequenceOf <- Mixed
  HandledBy <- FirstForBoth
  DisabledDLQ = {hB}
  MaxRetries = 1
  NumMessages = 3
  MaxCrashes = 1
  MaxRebalances = 0
  MaxErrors = 1
  MaxRequests = 1
  MaxStops = 0
INVARIANTS RedriveExclusive HeldBehindFailed
PROPERTIES PartitionDrains
CHECK_DEADLOCK FALSE
