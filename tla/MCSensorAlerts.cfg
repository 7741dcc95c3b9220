SPECIFICATION FairSpec
CONSTANTS
  a = a  b = b  c = c
  critical = critical  low = low  dry = dry
  Ids = {a, b, c}
  NoId = NoId
  NoAck = NoAck
  MaxClients = 2
  Half = 2
  Order <- InThisOrder
  High = {critical}
  MaxAlerts = 2
  MaxAttempts = 2
  AckExpiry = 1
  Readings <- Levels
  Commands <- RemoveOrRestrict
  Budgets <- Scenarios
INVARIANTS TypeOK AcksProveReceipt
PROPERTIES EveryoneIsTold AlertsGetAround
