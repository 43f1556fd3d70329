SPECIFICATION Spec
CONSTANTS
  b1 = b1
  b2 = b2
  o1 = o1
  o2 = o2
  t1 = t1
  t2 = t2
  Warehouses <- TwoWarehouses
  Boxes = {b1, b2}
  Orders = {o1, o2}
  Transactions = {t1, t2}
  Outside = Outside
  Home <- MCHome
  Qty <- MCQty
  From <- MCFrom
  To <- MCTo
  Planned <- MCPlanned
  Opening <- MCOpening
  MaxIncidents = 1
  MaxQty = 1
SYMMETRY Symmetric
INVARIANTS TypeOK PlannedIsReserved InTransitIsOwed
PROPERTIES NeverOversold
CHECK_DEADLOCK FALSE
