SPECIFICATION Spec
CONSTANTS
  t1 = t1  t2 = t2  a1 = a1  a2 = a2  q1 = q1  q2 = q2  k1 = k1  k2 = k2
  x1 = x1  x2 = x2
  Threads = {t1, t2}
  NoThread = NoThread
  Questions = {q1}
  Extracted <- KeyOf
  Keys = {k1, k2}
  NoKey = NoKey
  Patches <- Edits
  Texts = {x1, x2}
  Attempts = {a1, a2}
  NoAttempt = NoAttempt
  InitialWeight = 2
  MinWeight = 1
  MaxWeight = 3
  Weightless = 0
  MaxDraw = 2
  MaxReqs = 4
  MaxOverdue = 1
  MaxCrashes = 1
SYMMETRY Alike
INVARIANTS TypeOK StatsReplayHistory LastWriteIsKept
CHECK_DEADLOCK FALSE
