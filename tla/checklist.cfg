SPECIFICATION Spec
CONSTANTS
  Row = {r1, r2}
  Request = {q1}
  MaxEdits = 1
  Deliveries = TRUE
SYMMETRY Interchangeable
CHECK_DEADLOCK FALSE
INVARIANTS TypeOK CompleteIsSettled ApprovedIsEarned
PROPERTIES ApprovedStands
