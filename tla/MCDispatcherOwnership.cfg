CONSTANTS
  Packets = {p1, p2, p3}
  None = None
  LowestPri = 255
  Half = 64
  Priorities = {0}
  SendDelays = {0, 1}
  Traffic = {"malformed", "flood", "direct"}
  RxDelays = {1}
  MinRxDelay = 1
  MaxRxDelay = 1
  AirTimes = {0}
  BudgetFactor = 1
  CadRetryDelays = {1}
  CadMaxDuration = 9
  NonRxLimit = 9
  AgcResets = TRUE
  TickLimit = 2
  TickPoints = {"app", "arm"}
  AirCap = 0
SPECIFICATION Spec
INVARIANTS TypeOK Ownership OutboundOwnsRadio
PROPERTY LifecycleSpec
SYMMETRY PacketSymmetry
