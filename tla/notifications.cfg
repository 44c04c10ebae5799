SPECIFICATION NoticeSpec
CONSTANTS
  Events = {e1}
  Runners = {r1, r2}
  NoRunner = NoRunner
  Attempts = 2
  MaxStalledCount = 1
  MaxAdds = 1
  MaxCrashes = 1
  MaxFaults = 0
  MaxSlow = 1
  Inputs <- MCInputs
  Phones = {p1, p2}
  MaxToggles = 2
  MaxFailures = 1
SYMMETRY Symmetry
CHECK_DEADLOCK FALSE
INVARIANTS
  OneNoticeUndisturbed
  OffMeansOff
  EveryChannelAnswers
  EverySendIsOnRecord
