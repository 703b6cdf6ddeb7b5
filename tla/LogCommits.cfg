\* Two threads, calls of up to two blocks, log space for two of them, two
\* crashes; nlog is so small that two logged blocks make log_write panic.
SPECIFICATION FairSpec
CONSTANTS
  Threads = {t1, t2}
  Blocks = {b1, b2}
  Values = {0, 1}
  MAXOPBLOCKS = 2
  OPBLOCKS = 2
  LOGSIZE = 4
  NLOG = 3
  MaxOps = 4
  MaxCrashes = 2
INVARIANTS CommitAlone ReservationFits DirtyIsPinned
PROPERTIES CrashAtomic EveryCallGetsIn
CHECK_DEADLOCK FALSE
