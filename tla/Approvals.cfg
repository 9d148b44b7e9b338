SPECIFICATION FairSpec
CONSTANTS
  a1 = a1
  a2 = a2
  a3 = a3
  p = p
  q = q
  Actions = {a1, a2, a3}
  Amount <- MCAmount
  Threshold = 2
  RequestedBy <- MCRequestedBy
  Poisoned = {a1}
  Admins = {p, q}
  Calls = {c1, c2}
  Runners = {n1, n2}
  BatchLimit = 2
  PipeRefuses = {TRUE, FALSE}
  MaxFaults = 1
  NoAdmin = NoAdmin
  NoAction = NoAction
  Nobody = Nobody
INVARIANTS TypeOK MovedIsApproved OneVerdict
PROPERTIES ImplementsFourEyes ApprovedIsExecuted
\* Once every adjustment is settled nothing is left to do.
CHECK_DEADLOCK FALSE
