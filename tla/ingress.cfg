SPECIFICATION FairSpec
CONSTANTS
  kItchLengthPrefix = 1
  ItchAddOrderSize = 2
  MtbtStreamHeaderSize = 2
  kMtbtOrderWireSize = 3
  TopOfBookSize = 3
  PoolCap = 2
  QueueCap = 1
  SizeModulus = 64
  Frames <- MCFrames
  BrokenFrames <- MCBrokenFrames
CHECK_DEADLOCK FALSE
INVARIANTS
  TypeOK
  WithinFrame
  EachRecordOnce
  SlotsConserve
PROPERTIES
  LoopAdvances
  IngestReturns
