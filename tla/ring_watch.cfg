SPECIFICATION FairWatchSpec
CONSTANTS
  a = a
  b = b
  m1 = m1
  m2 = m2
  m3 = m3
  NoMsg = NoMsg
  Capacity = 2
  CursorMod = 4
  SpuriousCas = TRUE
  Pushers <- MCPushers
  Poppers <- MCPoppers
  Messages <- MCMessages
INVARIANTS
  OneOwner
  PassedSlotsHoldNoUnseen
PROPERTIES
  FailedTryPopSawAll
  ImplementsBag
  Delivered
  PushReturns
