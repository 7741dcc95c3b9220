SPECIFICATION Spec
CONSTANTS
  a = a  b = b  c = c  r = r  s = s
  Nodes = {a, b, r, s}
  Clients = {a, b}
  Repeaters = {r, s}
  Links <- Chain
  HashOf <- OwnHash
  MaxPath = 64
  FloodMax = 64
  AttemptCodes = 4
  HashSlots = 128
  AckSlots = 64
  ExtraAcks = 1
  AckTableSize = 4
  NoPath = NoPath
  NoEntry = NoEntry
  NoAck = NoAck
  Messages <- TwoTexts
  GroupMessages <- NoPost
  MaxAttempts = 1
  MaxTraffic = 1
  MaxAir = 1
  Lossy = TRUE
  MaxResets = 0
  MayFail = {}
  MaxOutages = 0
INVARIANTS DirectStaysOnRoute AckProvesReceipt
\* the apps run out of texts and the traffic ends
CHECK_DEADLOCK FALSE
