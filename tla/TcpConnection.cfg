\* One connection, two writes of eight bytes and one fault.
SPECIFICATION FairSpec
CONSTANTS
  c = c
  a = a
  Clients = {c}
  Accepters = {a}
  Port = port
  None = None
  Iss <- MCIss
  Sizes = {8}
  MaxWrites = 2
  MaxFaults = 1
INVARIANTS InOrder Complete AcksAreHonest SleepersWait
PROPERTIES ConnectAndCloseReturn
CHECK_DEADLOCK FALSE
