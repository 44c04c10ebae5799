SPECIFICATION Spec
CONSTANTS
  Requests = {r1, r2}
  Bodies = {b1, b2}
  Tokens = {t1}
  Asked <- MCAsked
  Spellings = {lower, mixed}
  Lower = lower
  Absent = Absent
  Guest = Guest
  None = None
  Attempts = 2
  MaxStalledCount = 1
  MaxCalls = 2
  MaxFaults = 2
SYMMETRY Symmetry
CHECK_DEADLOCK FALSE
INVARIANTS
  RunsAgainOnlyAfterFailure
  ResponseMeansClaimed
  LinkIsAnnounced
  EveryMemberHasAProfile
