CONSTANTS
  Clients = {k1, k2, k3}
  Pair = {k1, k2}
  MAX_EVENTS = 2
  SweepLength = 1
  ReactorFds = 3
  MaxFd = 4
  EVENT_SIZE = 1
  FD_SETSIZE = 4
  MaxConn = 2
  OPEN_MAX = 3
  MaxRead = 2
  MaxWrites = 6
  MaxThreads = 2
SPECIFICATION Spec
INVARIANTS
  TableMatchesEpoll
  
  OwnDataOnly
  NothingLeftBehind
PROPERTIES
  NobodyForgotten
CHECK_DEADLOCK FALSE
