SPECIFICATION Spec
CONSTANTS
  Requests = {r1, r2, r3, r4}
  Devices = {d1, d2}
  None = None
  MaxFaults = 1
  MaxErasures = 1
SYMMETRY Symmetry
CHECK_DEADLOCK FALSE
INVARIANTS
  LoggedOutIsRejected
PROPERTIES
  SpentStaysSpent
  EndedOnlyByItsOwn
