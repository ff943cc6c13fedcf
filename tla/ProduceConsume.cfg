CONSTANTS
  kItemRepositorySize = 4
  kItemsToProduce = 10
  Producers = {p1, p2, p3, p4}
  Consumers = {c1, c2, c3, c4}
  Producer = p
  Consumer = c
SPECIFICATION Spec
INVARIANTS
  TypeOK
  ExactlyOnceInOrder
PROPERTIES
  ImplementsBoundedFifo
  AllThreadsExit
