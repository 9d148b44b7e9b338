SPECIFICATION Spec
CONSTANTS
  d1 = d1
  w1 = w1
  w2 = w2
  Requests = {d1}
  Deposits = {d1}
  Amount <- MCAmount
  Calls = {c1, c2}
  Fills = {}
  Commission = 1
  Opening = Opening
  OpeningCredit = 6
  FLOOR = 2
  NoRequest = NoRequest
  NoCall = NoCall
  NoWallet = NoWallet
INVARIANTS RejectedUnmoved
CHECK_DEADLOCK FALSE
