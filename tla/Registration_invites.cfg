CONSTANTS
  Users = {a, b, m, n}
  Admins = {a, b}
  Ticker = Ticker
  Lead = a
  Visitors = {v1, v2}
  Requests = {q1, q2}
  MonthlyLimit = 1
  MaxGeneration = 3
  MaxRevision = 3
  MaxFaults = 1
  MaxRestarts = 1
  MaxInvitations = 2
  MaxTime = 1
SPECIFICATION FairSpec
CONSTRAINT Focus
CHECK_DEADLOCK FALSE
INVARIANTS ConfigurationSound AdminRemains InvitationsSound
PROPERTIES ActsOnlyAsAdmin Applies
