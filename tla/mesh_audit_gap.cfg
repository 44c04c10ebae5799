SPECIFICATION MeshSpec
CONSTANTS
  Events = {e1}
  Runners = {r1}
  NoRunner = NoRunner
  Attempts = 2
  MaxStalledCount = 1
  MaxAdds = 1
  MaxCrashes = 0
  MaxFaults = 0
  MaxRefusals = 0
  MaxSlow = 0
  Subscriptions <- WorkerSubscriptions
  EventTypes <- MCEventTypes
  Stems <- MCStems
CHECK_DEADLOCK FALSE
INVARIANTS
  EverySubscriberHears
