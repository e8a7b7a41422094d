SPECIFICATION Spec
CONSTANTS
  t1 = t1  t2 = t2  c1 = c1  c2 = c2  n1 = n1  n2 = n2  k1 = k1  k2 = k2
  Threads = {t1, t2}
  Nonces = {n1, n2}
  Nobody = Nobody
  Clients = {c1, c2}
  Codes = {k1, k2}
  Forms = {"f1"}
  s1 = s1  s2 = s2  s3 = s3  u1 = u1  u2 = u2
  Publishers = {u1, u2}
  Snapshots = {s1, s2, s3}
  Nowhere = Nowhere
  Skew = 1
  Drift = 1
  Window = 1
  Limit = 1
  CodeLife = 1
  MaxClock = 3
  MaxReqs = 3
  MaxFaults = 1
SYMMETRY Symmetric
INVARIANTS TypeOK GateHolds AttemptsBounded HistoryIsKept
PROPERTIES KeepsPromise
CHECK_DEADLOCK FALSE
