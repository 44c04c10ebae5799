SPECIFICATION FairSpec
CONSTANTS
  Events = {e1}
  Workers = {w1, w2}
  MaxAttempts = 2
  BatchSize = 1
  MaxIterations = 2
  MaxCrashes = 2
  MaxFaults = 2
INVARIANTS
  SettledIsAccountedFor
  GivenUpOnlyWhenExhausted
  HandedOnceUndisturbed
  SoleHolder
  StrandedOnlyByFailure
  WithinRetryBudget
PROPERTIES
  DeliversAtLeastOnce
  SettledStaysSettled
  EventuallySettled
