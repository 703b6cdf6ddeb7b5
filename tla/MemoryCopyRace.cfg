\* Two processes share a page; both store to it.
SPECIFICATION FairSpec
CONSTANTS
  Procs = {p1, p2, p3}
  Pages = {g1, g2, g3, g4, g5}
  NCPU = 2
  Values = {a, b}
  None = None
  Junk = Junk
  Table = Table
  MaxForks = 3
  Races = TRUE
PROPERTIES ImplementsAddressSpaces
CHECK_DEADLOCK FALSE
