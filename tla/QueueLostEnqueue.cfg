\* Two threads release buffers: a completed enqueue may leave its buffer out.
SPECIFICATION FairSpec
CONSTANTS
  NBUF = 2
  Enqueuers = {1, 2}
  Dequeuers = {1, 2}
  MaxOps = 3
  Races = TRUE
INVARIANTS
  ClaimedIsQueued
CHECK_DEADLOCK FALSE
