CONSTANTS
  pc1 = pc1 pc2 = pc2 belt = belt case = case panel = panel
  media = media f1 = f1 f2 = f2
  None = None
  Computer <- OneComputer
  Object <- BeltAndCase
  Native <- ConstNative
  Singleton <- NoObject
  Case <- ConstCase
  Factory <- OneFactory
  Writer <- OneComputer
  MaxSignalCount = 2
  MaxEmissions = 2
  MaySave = TRUE
SPECIFICATION Spec
INVARIANTS ListenedIsHooked SaveKeepsSignals
CHECK_DEADLOCK FALSE
