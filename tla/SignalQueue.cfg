CONSTANTS
  pc1 = pc1 pc2 = pc2 belt = belt case = case panel = panel
  media = media f1 = f1 f2 = f2
  None = None
  Computer <- ConstComputer
  Object <- ConstObject
  Native <- ConstNative
  Singleton <- NoObject
  Case <- NoObject
  Factory <- ConstFactory
  Writer <- NoObject
  MaxSignalCount = 2
  MaxEmissions = 3
  MaySave = FALSE
SPECIFICATION Spec
SYMMETRY Symmetry
INVARIANTS TypeOK SignalsInOrder ListensToWanted ListenedIsHooked
CHECK_DEADLOCK FALSE
