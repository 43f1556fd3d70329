SPECIFICATION Spec
CONSTANTS
  a = a  b = b  p = p  d1 = d1  d2 = d2
  PartitionOf <- OnePartition
  NoPartition = NoPartition
  NoKey = NoKey  k = k
  Aggregates = {a, b}
  SequencedAggregates = {a}
  StrictPartitionOrdering = TRUE
  PausableAggregates = {}
  Keys = {NoKey}
  Dispatchers = {d1, d2}
  Operators = {o1}
  MaxRetries = 1
  BatchSize = 2
  MaxRows = 2
  MaxTxns = 2
  MaxCrashes = 0
  MaxLate = 1
  MaxResends = 1
SYMMETRY DispatcherSymmetry
INVARIANTS TypeOK NoStrandedRow NothingLost PartitionInOrder
PROPERTIES ImplementsStream
