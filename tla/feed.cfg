SPECIFICATION FairSpec
CONSTANTS
  itch = itch
  mtbt = mtbt
  mcx_ref = mcx_ref
  mcx_buy = mcx_buy
  lz4 = lz4
  other = other
  NoFrame = NoFrame
  Torn = Torn
  Lz4Frame = lz4
  Writers <- MCWriters
  Frames <- MCFrames
  SimFrames <- MCSimFrames
  Foreign <- MCForeign
  Channels <- MCChannels
  Channel <- MCChannel
  Expected <- MCExpected
  Endpoints <- MCEndpoints
  FirstFree = 3
  Regions <- MCRegions
CHECK_DEADLOCK FALSE
INVARIANTS
  SafeToRead
  HandedOverInOrder
  NothingMissing
  ThreadsKeepWhatTheyUse
  NoHandleLeaks
  OneWriter
PROPERTIES
  ImplementsHandOff
  MainExits
