\* One packet, sent again and again: airtime budget, CAD and expiry.
CONSTANTS
  Packets = {p1}
  None = None
  LowestPri = 255
  Half = 64
  Priorities = {0}
  SendDelays = {0, 1}
  Traffic = {"direct"}
  RxDelays = {1}
  MinRxDelay = 1
  MaxRxDelay = 1
  AirTimes = {2}
  BudgetFactor = 2
  CadRetryDelays = {1, 2}
  CadMaxDuration = 2
  NonRxLimit = 100
  AgcResets = FALSE
  TickLimit = 12
  TickPoints = {"app", "send", "arm"}
  AirCap = 20
SPECIFICATION Spec
INVARIANTS DutyCycle RadioHeldBounded CadWaitBounded
