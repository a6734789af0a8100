CONSTANT MaxSignals = 2
SPECIFICATION FairSpec
INVARIANTS
  LuaStateExclusive
  HaltedIsQuiet
  CollectedAlone
  FulfilledOnce
  DemoteOwnsHandOff
  NeverStuck
PROPERTIES
  ImplementsLease
  GameReturns
  SyncCallAnswered
  PullAnswered
  EndingHonoured
