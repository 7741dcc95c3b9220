SPECIFICATION FairSpec
CONSTANTS
  a = a  b = b  c = c  r = r  s = s
  Nodes = {a, b, r, s}
  Clients = {a, b}
  Repeaters = {r, s}
  Links <- Diamond
  HashOf <- OwnHash
  MaxPath = 64
  FloodMax = 64
  AttemptCodes = 4
  HashSlots = 128
  AckSlots = 64
  ExtraAcks = 1
  AckTableSize = 4
  NoPath = NoPath
  NoEntry = NoEntry
  NoAck = NoAck
  Messages <- TwoTexts
  GroupMessages <- NoPost
  MaxAttempts = 2
  MaxTraffic = 0
  MaxAir = 0
  Lossy = FALSE
  MaxResets = 1
  MayFail = {r}
  MaxOutages = 1
PROPERTIES FloodsAreConfirmed
\* the apps run out of texts and the traffic ends
CHECK_DEADLOCK FALSE
