SPECIFICATION FairSpec
CONSTANTS
  Events = {e1}
  Runners = {r1, r2, r3}
  NoRunner = NoRunner
  Attempts = 3
  MaxStalledCount = 1
  MaxAdds = 2
  MaxCrashes = 1
  MaxFaults = 2
  MaxSlow = 1
CHECK_DEADLOCK FALSE
INVARIANTS
  CompletedKeyWasHandled
  HandledOnceUndisturbed
  VerdictMatchesHandlerUndisturbed
PROPERTIES
  RunsTasks
  ClosedStaysClosed
  EventuallyReported
