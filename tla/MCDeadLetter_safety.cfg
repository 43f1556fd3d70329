SPECIFICATION Spec
CONSTANTS
  c1 = c1  c2 = c2  hA = hA  hB = hB  op = op  q1 = q1  none = none
  Consumers = {c1, c2}
  Handlers = {hA}
  Operators = {op}
  Sequences = {q1}
  NoSequence = none
  SequenceOf <- OneOrder
  HandledBy <- OneHandler
  DisabledDLQ = {}
  MaxRetries = 0
  NumMessages = 3
  MaxCrashes = 1
  MaxRebalances = 1
  MaxErrors = 1
  MaxRequests = 1
  MaxStops = 1
SYMMETRY ConsumerSymmetry
INVARIANTS TypeOK NothingLost FirstInOrder
CHECK_DEADLOCK FALSE
