SPECIFICATION Spec
CONSTANTS
  m1 = m1  m2 = m2
  k1 = k1  k2 = k2  k3 = k3
  Servers = {m1, m2}
  NoServer = NoServer
  Calls = {k1, k2, k3}
  Codes = {"c1"}
  NoCode = NoCode
  Life = 2
  MaxTime = 1
  MaxLost = 1
  MaxCrashes = 0
  MaxFaults = 0
SYMMETRY Interchangeable
INVARIANTS
  OneCloseoutPerCode
CHECK_DEADLOCK FALSE
