SPECIFICATION Spec
CONSTANTS
  Ids = {u1}
  Readers = {r1, r2}
  Writers = {w1}
  NoReader = NoReader
  Hosts = {h1}
  HostOf <- OneHost
  MaxCommits = 1
CHECK_DEADLOCK FALSE
INVARIANTS
  BumpInvalidates
