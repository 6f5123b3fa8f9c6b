SPECIFICATION WatchSpec
CONSTANTS
  t1 = t1
  t2 = t2
  t3 = t3
  x = x
  Blank = Blank
  PoolCap = 3
  SpuriousCas = FALSE
  Threads <- MCThreads
  Payloads <- MCPayloads
SYMMETRY MCSymmetry
INVARIANTS
  TypeOK
  BodyHasOneUser
  AcquiredIffUsed
PROPERTIES
  FailedAcquireSawAll
