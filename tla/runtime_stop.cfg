SPECIFICATION FairSpec
CONSTANTS
  w1 = w1
  w2 = w2
  NoMsg = NoMsg
  Blank = Blank
  MaxOps = 1
  max_live_threads_ = 2
  Capacity = 2
  CursorMod = 4
  PoolCap = 2
  SpuriousCas = FALSE
  Workers <- MCWorkers
PROPERTY StopReturns
