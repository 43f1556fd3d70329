SPECIFICATION FairSpec
CONSTANTS
  DUNNING_MAX_ATTEMPTS = 1
  NoKey = NoKey
  MaxDay = 2
  MaxIncidents = 2
INVARIANTS TypeOK DrawnOnce NoDunningOnceEnded
PROPERTIES ExtendedOnlyWhenPaid ClaimsEnd
CHECK_DEADLOCK FALSE
