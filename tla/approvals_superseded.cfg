SPECIFICATION Spec
CONSTANTS
  q1 = q1  q2 = q2  q3 = q3  q4 = q4
  Reqs = {q1, q2, q3}
  NoReq = NoReq
  People = {"ana", "bo"}
  Names = {"notes"}
  Schemas = {"s", "t"}
  MaxVersion = 1
  MaxCode = 1
  MaxOverdue = 0
  MaxCrashes = 0
PROPERTIES
  ApprovedAsShown
CHECK_DEADLOCK FALSE
