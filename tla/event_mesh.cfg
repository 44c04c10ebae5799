SPECIFICATION MeshSpec
CONSTANTS
  Events = {e1}
  Runners = {r1, r2}
  NoRunner = NoRunner
  Attempts = 2
  MaxStalledCount = 1
  MaxAdds = 2
  MaxCrashes = 1
  MaxFaults = 1
  MaxRefusals = 1
  MaxSlow = 1
  Subscriptions <- MCSubscriptions
  EventTypes <- MCEventTypes
  Stems <- MCStems
SYMMETRY Symmetry
CHECK_DEADLOCK FALSE
INVARIANTS
  TableIsAsDeclared
  DispatchedReachesSomebody
  CompletedReachesTheRoute
  OneJobWhileRetained
  OneJobUndisturbed
