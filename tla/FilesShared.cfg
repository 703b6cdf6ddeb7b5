\* Two processes, up to three calls and crashes, a directory and a file.
SPECIFICATION FairSpec
CONSTANTS
  Procs = {p1, p2}
  Nobody = nobody
  Names = {"a", "b"}
  DirName = "a"
  FileName = "b"
  Races = FALSE
  Requests <- Requested
  NINODES = 4
  NBLOCK = 3
  MAXSYMLINKDEPTH = 1
  MaxEvents = 3
INVARIANTS RefIsPointers NothingLost CrashConsistent NoPanic
CHECK_DEADLOCK FALSE
PROPERTIES EveryCallReturns
