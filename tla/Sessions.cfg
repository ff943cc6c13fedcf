CONSTANTS
  Sessions = {s1, s2, s3}
  Clients = {s1, s2}
  max_recent_msgs = 2
  MaxMessages = 4
  MaxLines = 3
  MaxData = 2
  MaxRequests = 2
  Tokens = {"a", "crlf"}
  MaxContent = 4
  StreamLength = 5
  Newlines = {2, 3}
  BufSize = 3
  Sizes = {0, 1, 2, 3, 4}
  MaxFile = 7
  MaxCopiers = 3
  ITEMS = 4
  Threads = {t1, t2, t3}
  SingletonCalls = 5
SPECIFICATION Spec
INVARIANTS
  ChatInOrder
  SessionsOwnTheirs
  ProcessesAccountedFor
  NothingTwice
  
  ExclusiveUse
  LookupsExact
  BytesAccountedFor
PROPERTIES
  EverythingEnds
  BarCompletes
CHECK_DEADLOCK FALSE
