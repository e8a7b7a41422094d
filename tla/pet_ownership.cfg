SPECIFICATION Spec
CONSTANTS
  p1 = p1  p2 = p2
  s1 = s1  s2 = s2
  c1 = c1  c2 = c2
  d1 = d1  d2 = d2
  Procs = {p1, p2}
  NoProc = NoProc
  Subs = {s1, s2}
  Convs = {c1}
  NoConv = NoConv
  Devices = {d1}
  Owner <- OneDeviceOwns
  Reqs = {"r1", "r2"}
  Texts = {"x"}
  MaxWorkers = 1
  MaxPending = 2
  MaxEffects = 0
  MaxCrashes = 1
  MaxDbFaults = 1
SYMMETRY TwoProcsTwoSubs
INVARIANTS
  TypeOK
  WorkersHoldLock
PROPERTIES
  ImplementsContract
