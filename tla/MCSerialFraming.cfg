SPECIFICATION FairSpec
CONSTANTS
  Base = 4
  Mark = 3
  Magic1 = 3
  Magic2 = 2
  MaxFrame = 2
  MaxUnit = 5
  MaxGarbage = 2
  Lines <- AllLines
  Damages = 2
INVARIANTS FramesArriveAsSent
PROPERTIES LineRecovers
