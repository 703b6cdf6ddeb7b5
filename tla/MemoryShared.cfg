\* Three processes on two CPUs, with fewer pages than they need.
SPECIFICATION Spec
SYMMETRY Symmetry
CONSTANTS
  Procs = {p1, p2, p3}
  Pages = {g1, g2, g3, g4}
  NCPU = 2
  Values = {a, b}
  None = None
  Junk = Junk
  Table = Table
  MaxForks = 5
  Races = FALSE
INVARIANTS EachPageOnce CountIsReferences WriterIsAlone
PROPERTIES ImplementsAddressSpaces
CHECK_DEADLOCK FALSE
