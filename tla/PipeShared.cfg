\* A parent and two children, a ring of two bytes about to wrap, one kill or bad address.
SPECIFICATION FairSpec
CONSTANTS
  Procs = {p1, p2, p3}
  Creator = p1
  Writers = {p1, p2, p3}
  PIPESIZE = 2
  UINT = 4
  Start = 3
  MAXSIZE = 3
  Sizes = {3}
  MaxCalls = 3
  MaxFaults = 1
  Races = FALSE
INVARIANTS SleepIsJustified FreedWhenUnused
PROPERTIES ImplementsChannel HangUpIsSeen
CHECK_DEADLOCK FALSE
