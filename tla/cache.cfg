SPECIFICATION FairSpec
CONSTANTS
  Ids = {u1}
  Readers = {r1, r2}
  Writers = {w1, w2}
  NoReader = NoReader
  Hosts = {h1}
  HostOf <- OneHost
  MaxCommits = 2
CHECK_DEADLOCK FALSE
INVARIANTS
  LaterBumpsInvalidate
PROPERTIES
  StalenessEnds
