SPECIFICATION Spec
CONSTANTS
  Row = {r1, r2}
  Request = {q1}
  MaxEdits = 0
  Deliveries = FALSE
CHECK_DEADLOCK FALSE
PROPERTIES CompletesWhatWasConfirmed
