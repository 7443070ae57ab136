SPECIFICATION Spec
CONSTANTS
  Call = {c1, c2}
  Instance = {a}
  None = none
  MaxAttempts = 2
  PrimaryAttempts = 1
  MaxClock = 1
  MaxLimit = 1
  StartLimits = {1}
  MaxEvents = 2
SYMMETRY Interchangeable
CHECK_DEADLOCK FALSE
INVARIANTS TypeOK NeverOvercounts LateCallsRefused
