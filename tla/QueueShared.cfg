\* Two threads release buffers and look for one, in all schedules that spare
\* enqueue's window.
SPECIFICATION FairSpec
CONSTANTS
  NBUF = 2
  Enqueuers = {1, 2}
  Dequeuers = {1, 2}
  MaxOps = 4
  Races = FALSE
PROPERTIES
  ImplementsLruQueue
  EveryCallReturns
CHECK_DEADLOCK FALSE
