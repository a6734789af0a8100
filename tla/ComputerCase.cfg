SPECIFICATION Spec
CONSTANTS
  c1 = c1 c2 = c2 c3 = c3 e1 = e1 e2 = e2 p1 = p1 p2 = p2 f1 = f1 f2 = f2 f3 = f3 f4 = f4
  None = None
  Cpu <- ConstCpu
  Eeprom <- ConstEeprom
  Player <- ConstPlayer
  Future <- ConstFuture
  Asks <- ConstAsks
SYMMETRY Symmetry
INVARIANTS  PluggedIffOneCpu RunningIsPlugged
PROPERTIES BootsFromSlot PowerButtonStarts LoadKeepsState
