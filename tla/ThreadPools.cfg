CONSTANTS
  Workers = {w1, w2}
  Tasks = {t1, t2, t3}
  Clients = {c1, c2}
  MaxPushes = 4
SPECIFICATION Spec
INVARIANTS
  SleepersNotNeeded
  TasksAccountedFor
PROPERTIES
  ImplementsPool
  AcceptedTasksRun
  StoppingEnds
CHECK_DEADLOCK FALSE
