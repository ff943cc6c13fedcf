CONSTANTS
  Chars = {"H", "T", "P", "/", "0", "1", ".", " ", "TAB", "CR", "LF", ":", "HIGH"}
  MaxStored = 3
  MaxBlanks = 1
  UriChars = {37, 43, 45, 46, 47, 48, 50, 101, 120}
  MaxUri = 5
  Conns = {c1, c2, c3}
  Threads = {t1, t2}
SPECIFICATION Spec
INVARIANTS
  TypeOK
  ParserDecidesGrammar
  RequestIsTheInput
  PathsAsSentBelowDocRoot
  ConnectionsTracked
PROPERTIES
  StopEnds
