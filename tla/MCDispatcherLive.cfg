\* The clock wraps around for ever; one packet.
CONSTANTS
  Packets = {p1}
  None = None
  LowestPri = 255
  Half = 8
  Priorities = {0}
  SendDelays = {0}
  Traffic = {}
  RxDelays = {0}
  MinRxDelay = 1
  MaxRxDelay = 1
  AirTimes = {2}
  BudgetFactor = 1
  CadRetryDelays = {1}
  CadMaxDuration = 20
  NonRxLimit = 20
  AgcResets = FALSE
  TickLimit = 16
  TickPoints = {"app", "arm"}
  AirCap = 0
SPECIFICATION FairSpec
PROPERTY OutboundReleased
