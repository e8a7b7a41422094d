SPECIFICATION Spec
CONSTANTS
  p1 = p1  p2 = p2
  s1 = s1  s2 = s2
  c1 = c1  c2 = c2
  d1 = d1  d2 = d2
  Procs = {p1}
  NoProc = NoProc
  Subs = {s1, s2}
  Convs = {c1, c2}
  NoConv = NoConv
  Devices = {d1}
  Owner <- OneDeviceOwns
  Reqs = {"r1", "r2"}
  Texts = {"x"}
  MaxWorkers = 2
  MaxPending = 1
  MaxEffects = 2
  MaxCrashes = 0
  MaxDbFaults = 0
SYMMETRY TwoSubs
INVARIANTS
  OneActiveTurn
  QueueBounded
  OneRowPerRequest
  AtMostOneLateEffect
  VerdictEndsWork
PROPERTIES
  RepeatIsNotRefused
