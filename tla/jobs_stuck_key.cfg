SPECIFICATION FairSpec
CONSTANTS
  Events = {e1}
  Runners = {r1, r2}
  NoRunner = NoRunner
  Attempts = 2
  MaxStalledCount = 1
  MaxAdds = 1
  MaxCrashes = 1
  MaxFaults = 0
  MaxSlow = 0
CHECK_DEADLOCK FALSE
PROPERTIES
  StuckKeyIsReclaimed
