SPECIFICATION FairSpec
CONSTANTS
  m1 = m1  m2 = m2
  k1 = k1  k2 = k2  k3 = k3
  Servers = {m1, m2}
  NoServer = NoServer
  Calls = {k1, k2, k3}
  Codes = {"c1"}
  NoCode = NoCode
  Life = 1
  MaxTime = 2
  MaxLost = 1
  MaxCrashes = 1
  MaxFaults = 1
INVARIANTS
  TypeOK
  DuplicatesExplained
  ClosedIsRemembered
PROPERTIES
  RefusalHasReason
  LeaseIsReturned
CHECK_DEADLOCK FALSE
