SPECIFICATION FairSpec
CONSTANTS
  p1 = p1  p2 = p2
  s1 = s1  s2 = s2
  c1 = c1  c2 = c2
  d1 = d1  d2 = d2
  Procs = {p1}
  NoProc = NoProc
  Subs = {s1, s2}
  Convs = {c1, c2}
  NoConv = NoConv
  Devices = {d1, d2}
  Owner <- TwoDevicesOwn
  Reqs = {"r1"}
  Texts = {"x"}
  MaxWorkers = 1
  MaxPending = 2
  MaxEffects = 0
  MaxCrashes = 1
  MaxDbFaults = 0
INVARIANTS
  NoOrphanedTurn
PROPERTIES
  EveryTurnSettles
