SPECIFICATION FairSpec
CONSTANTS
  a1 = a1
  a2 = a2
  a3 = a3
  p = p
  q = q
  Actions = {a1, a2, a3}
  Amount <- MCAmount
  Threshold = 2
  RequestedBy <- MCRequestedBy
  Poisoned = {a1}
  Admins = {p, q}
  Calls = {c1, c2}
  Runners = {n1}
  BatchLimit = 1
  PipeRefuses = {TRUE, FALSE}
  MaxFaults = 0
  NoAdmin = NoAdmin
  NoAction = NoAction
  Nobody = Nobody
PROPERTIES ApprovedIsExecuted
CHECK_DEADLOCK FALSE
