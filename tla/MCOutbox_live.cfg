SPECIFICATION FairSpec
CONSTANTS
  a = a  b = b  p = p  d1 = d1  d2 = d2
  PartitionOf <- OnePartition
  NoPartition = NoPartition
  NoKey = NoKey  k = k
  Aggregates = {a}
  SequencedAggregates = {a}
  StrictPartitionOrdering = FALSE
  PausableAggregates = {a}
  Keys = {NoKey, k}
  Dispatchers = {d1}
  Operators = {o1}
  MaxRetries = 2
  BatchSize = 2
  MaxRows = 2
  MaxTxns = 2
  MaxCrashes = 1
  MaxLate = 0
  MaxResends = 1
PROPERTIES NoStaleResend Settles
