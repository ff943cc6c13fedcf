\* The constants of the program: 4 slots, 10 items, 4 + 4 threads.
CONSTANTS
  kItemRepositorySize = 4
  kItemsToProduce = 10
  Producers = {p1, p2, p3, p4}
  Consumers = {c1, c2, c3, c4}
SPECIFICATION FairSpec
INVARIANTS
  TypeOK
  ExactlyOnceInOrder
  NobodySleepsInVain
  OnlyTheHolderSleeps
  CountersStayClose
PROPERTIES
  ImplementsBoundedFifo
  AllThreadsExit
