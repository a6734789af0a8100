SPECIFICATION FairSpec
CONSTANTS
  Gpus = {g1, g2, g3}
  Screens = {s1, s2, s3}
  Threads = {t1}
  Game = game
  NoOne = NoOne
  MaxNest = 6
INVARIANTS
  MutuallyBound
PROPERTIES
  CallsReturn
CHECK_DEADLOCK FALSE
