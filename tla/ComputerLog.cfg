SPECIFICATION FairSpec
CONSTANTS
  Clients = {c1, c2}
  MaxLogEntries = 3
  Chunk = 2
  MaxPushes = 4
  MaxCalls = 3
INVARIANTS
  NothingLost
  ClientsAgree
PROPERTIES
  PlayerSeesLog
CHECK_DEADLOCK FALSE
