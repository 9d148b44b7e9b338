SPECIFICATION AccessSpec
CONSTANTS
  Admins = {a1, a2, a3}
  Founders = {a1, a2}
  SuperAdmins = {a1, a2}
  Sessions = {s1}
  Calls = {c1, c2}
  CODES = 2
  None = None
  OldBrokers = {b1}
  NewEmails = {e1}
  Hits = {h1}
INVARIANTS AccessTypeOK RecoveryCodesExact EnrolledWithCheckedSecret LockoutOnlyInRace
  SuspendedAdminRefused SupersededTokenRefused StatusAudited SuspendedBrokerRefused
SYMMETRY Symmetric
\* Calls end.
CHECK_DEADLOCK FALSE
