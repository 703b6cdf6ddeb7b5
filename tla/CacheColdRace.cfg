\* Two processes read one block that is not cached.
SPECIFICATION FairSpec
CONSTANTS
  Threads = {1, 2}
  NoThread = 0
  NBLOCK = 1
  NBUF = 2
  Uses = {"read"}
  Warm = 0
  Races = TRUE
  MaxPins = 0
  MaxOps = 2
INVARIANTS
  ReadsTheBlock
CHECK_DEADLOCK FALSE
