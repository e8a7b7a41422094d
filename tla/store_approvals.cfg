SPECIFICATION Spec
CONSTANTS
  q1 = q1  q2 = q2  q3 = q3  q4 = q4
  Reqs = {q1, q2, q3, q4}
  NoReq = NoReq
  People = {"ana"}
  Names = {"notes"}
  Schemas = {"s"}
  MaxVersion = 2
  MaxCode = 2
  MaxOverdue = 1
  MaxCrashes = 1
SYMMETRY Interchangeable
INVARIANTS
  TypeOK
  CodeDecidesOnce
  PendingIsLatest
  DecisionsTakeEffect
  PendingIsDecidable
CHECK_DEADLOCK FALSE
