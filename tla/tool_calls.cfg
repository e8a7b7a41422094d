SPECIFICATION Spec
CONSTANTS
  t1 = t1  t2 = t2  l1 = l1  l2 = l2
  Threads = {t1, t2}
  Fields = {"health", "spirit"}
  Sections = {"lane", "voice"}
  Letters = {l1, l2}
  Values = {1, 2}
  OldEntries = 2
  LogLimit = 2
  Torn = Torn
  Gone = Gone
  MaxReqs = 3
  MaxFaults = 1
  GatewayCalls <- GatewayCallsHere
  DirectCalls <- DirectCallsHere
  Nobody = Nobody
  MaxCalls = 2
  MaxTries = 2
SYMMETRY Symmetric
INVARIANTS TypeOK HandoffIsNewest LogShowsOnce PromptsAreWhole RetriesAreSafe
CHECK_DEADLOCK FALSE
