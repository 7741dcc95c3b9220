SPECIFICATION Spec
CONSTANTS
  a = a  b = b  c = c  r = r  s = s
  Nodes = {a, b, r, s}
  Clients = {a, b}
  Repeaters = {r, s}
  Links <- OneWay
  HashOf <- OwnHash
  MaxPath = 64
  FloodMax = 64
  AttemptCodes = 4
  HashSlots = 128
  AckSlots = 64
  ExtraAcks = 0
  AckTableSize = 1
  NoPath = NoPath
  NoEntry = NoEntry
  NoAck = NoAck
  Messages <- OneText
  GroupMessages <- NoPost
  MaxAttempts = 1
  MaxTraffic = 1
  MaxAir = 1
  Lossy = TRUE
  MaxResets = 1
  MayFail = {a, r}
  MaxOutages = 1
INVARIANTS TypeOK FloodsDoNotCircle OutPathsLead DeliveredOnce
\* the apps run out of texts and the traffic ends
CHECK_DEADLOCK FALSE
