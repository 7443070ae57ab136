SPECIFICATION Spec
CONSTANTS
  Company = {harel, clal}
  Employer = {e1, e2}
  None = none
  MaxFiles = 2
  MaxRows = 2
  MaxTies = 2
  MaxCycles = 1
  MaxEdits = 1
  MaxRaced = 1
SYMMETRY Interchangeable
CHECK_DEADLOCK FALSE
INVARIANTS TypeOK FiledApart SharedByEmployer OnItsOwnFile
