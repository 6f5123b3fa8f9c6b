SPECIFICATION PhasedSpec
CONSTANTS
  a = a
  d = d
  m1 = m1
  m2 = m2
  m3 = m3
  m4 = m4
  m5 = m5
  NoMsg = NoMsg
  Capacity = 4
  CursorMod = 8
  SpuriousCas = FALSE
  Pushers <- MCPushers
  Poppers <- MCPoppers
  Messages <- MCMessages
PROPERTIES
  FirstInFirstOut
  NoDetour
