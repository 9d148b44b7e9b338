SPECIFICATION Spec
CONSTANTS
  d1 = d1
  w1 = w1
  w2 = w2
  Requests = {d1, w1, w2}
  Deposits = {d1}
  Amount <- MCAmount
  Calls = {c1, c2, c3}
  Fills = {f1, f2}
  Commission = 1
  Opening = Opening
  OpeningCredit = 6
  FLOOR = 2
  NoRequest = NoRequest
  NoCall = NoCall
  NoWallet = NoWallet
SYMMETRY Symmetric
INVARIANTS TypeOK EntriesAudited StatusIsAudited TwiceOnlyInRace
  OverdrawnOnlyInRace SecondWalletOnlyInRace
\* Every call ends, and with the calls the system.
CHECK_DEADLOCK FALSE
