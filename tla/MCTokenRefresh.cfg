SPECIFICATION FairSpec
CONSTANTS
  p1 = p1
  p2 = p2
  h1 = h1
  h2 = h2
  Gone = Gone
  Procs <- mcProcs
  Hosts <- mcHosts
  HostOf <- mcHostOf
  Writers <- mcWriters
  AfterMishap = "no"
  TicksPerSec = 2
  LockTTL = 3
  WaitTime = 1
  MaxTime = 2
  LastStart = 2
  MaxTokens = 2
INVARIANTS
  TypeOK
  ExclusiveUntilExpiry
  StoredTokenUsable
  NoSpuriousError
PROPERTY RefreshReturns
CHECK_DEADLOCK FALSE
