\* Two processes, more blocks than buffers, up to all buffers pinned.
SPECIFICATION FairSpec
CONSTANTS
  Threads = {1, 2}
  NoThread = 0
  NBLOCK = 3
  NBUF = 2
  Uses = {"read", "write", "log", "install", "map"}
  Warm = 2
  Races = FALSE
  MaxPins = 2
  MaxOps = 3
INVARIANTS
  ReadsTheBlock
  CountIsUsers
  OneBlockPerBuffer
  NothingLost
PROPERTIES
  PanicOnlyWhenFull
  EveryReadReturns
CHECK_DEADLOCK FALSE
