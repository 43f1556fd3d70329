SPECIFICATION Spec
CONSTANTS
  r1 = r1  r2 = r2  r3 = r3  k1 = k1  k2 = k2  b1 = b1  b2 = b2
  Requests = {r1, r2, r3}
  Keys = {k1}
  Bodies = {b1, b2}
  Nobody = Nobody
  TTL = 1
  MaxTime = 3
  MaxFaults = 2
SYMMETRY RequestSymmetry
INVARIANTS TypeOK RunsAlone OneEffect NoOrphanedKey
PROPERTIES ImplementsWriteOnce
CHECK_DEADLOCK FALSE
