SPECIFICATION FairSpec
CONSTANTS
  Intents = {u1, u2}
  Requests = {r1, r2}
  None = None
  MaxFaults = 2
CHECK_DEADLOCK FALSE
INVARIANTS
  ReturnedIsTheFile
PROPERTIES
  RecordedIsProcessed
