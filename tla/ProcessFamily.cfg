\* init and three slots for processes and threads.
SPECIFICATION FairSpec
CONSTANTS
  NPROC = 4
  None = None
  MaxForks = 3
  MaxKills = 2
  MaxFaults = 1
  Races = FALSE
INVARIANTS ParentAlive SpaceAlive NoLostWakeup
PROPERTIES OrphansReaped KilledExits
CHECK_DEADLOCK FALSE
