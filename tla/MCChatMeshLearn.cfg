SPECIFICATION FairSpec
CONSTANTS
  a = a  b = b  c = c  r = r  s = s
  Nodes = {a, b, c, r, s}
  Clients = {a, b, c}
  Repeaters = {r, s}
  Links <- Tree
  HashOf <- OwnHash
  MaxPath = 2
  FloodMax = 2
  AttemptCodes = 4
  HashSlots = 128
  AckSlots = 64
  ExtraAcks = 0
  AckTableSize = 4
  NoPath = NoPath
  NoEntry = NoEntry
  NoAck = NoAck
  Messages <- OneText
  GroupMessages <- OnePost
  MaxAttempts = 1
  MaxTraffic = 2
  MaxAir = 1
  Lossy = FALSE
  MaxResets = 0
  MayFail = {}
  MaxOutages = 0
PROPERTIES PathsAreLearnt GroupReachesAll
\* the apps run out of texts and the traffic ends
CHECK_DEADLOCK FALSE
