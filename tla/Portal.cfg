SPECIFICATION PortalSpec
CONSTANTS
  b1 = b1
  b2 = b2
  p1 = p1
  p2 = p2
  EURUSD = EURUSD
  XAUUSD = XAUUSD
  Accounts <- MCAccounts
  ClosedBrokers = {b2}
  Opening = 10
  FLOOR = 5
  Limit <- MCLimit
  ROW_CAP = 3
  PAGE_SIZE = 1
  Pushes = {p1, p2}
  Positions <- MCPositions
  Floating <- MCFloating
  None = None
  Legs <- MCLegs
  Home = b1
  Users <- MCUsers
  Amount <- MCAmount
  PageLimits = {1, 2}
  Filters <- MCFilters
  MaxWrites <- MCMaxWrites
  MaxRequests <- MCMaxRequests
  MaxPosts = 2
INVARIANTS PortalTypeOK WalkShowsAll AnswersOrdered  TablesWhole
  SubmittedOnceAndShown BlotterOrdered
\* A part that has written its last row may stop.
CHECK_DEADLOCK FALSE
