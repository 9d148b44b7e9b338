SPECIFICATION Spec
CONSTANTS
  d1 = d1
  w1 = w1
  w2 = w2
  Requests = {w1, w2}
  Deposits = {}
  Amount <- MCAmount
  Calls = {c1, c2}
  Fills = {}
  Commission = 1
  Opening = Opening
  OpeningCredit = 8
  FLOOR = 2
  NoRequest = NoRequest
  NoCall = NoCall
  NoWallet = NoWallet
INVARIANTS FloorKept
CHECK_DEADLOCK FALSE
