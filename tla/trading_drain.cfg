SPECIFICATION Spec
CONSTANTS
  PoolSlots <- MCPoolSlots
  Arrivals <- MCArrivals
  Bbos <- MCBbos
  Rounds = 32
  SbeRounds = 8
CHECK_DEADLOCK FALSE
INVARIANT EverySignalSubmitted
