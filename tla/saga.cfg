SPECIFICATION FairSpec
CONSTANTS
  Runs = {r1, r2}
  Nobody = Nobody
  NumSteps = 2
  MaxFaults = 1
  MaxCrashes = 1
CHECK_DEADLOCK FALSE
INVARIANTS
  CommittedIsWhole
  ReturnedIsSettled
  CompensatedAtMostTwice
PROPERTIES
  ActsAtomically
  EventuallyAnswered
