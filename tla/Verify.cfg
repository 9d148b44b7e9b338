CONSTANTS
  T1 = T1
  T2 = T2
  T3 = T3
  B1 = B1
  B2 = B2
  Worker = Worker
  Script = Script
  NoHash = NoHash
  SCALE = 4
  MaxEdits = 2
  Trades <- MCTrades
  Brokers <- MCBrokers
  Amounts <- MCAmounts
  Verifiers <- MCVerifiers
  Scripts <- MCScripts
SPECIFICATION Spec
CONSTRAINT Bound
SYMMETRY Symmetry
INVARIANT TypeOK SilentIsFaithful BreaksHaveCause WalkersAgree
