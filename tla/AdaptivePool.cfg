SPECIFICATION Spec
CONSTANTS
  min_thr_num = 1
  max_thr_num = 3
  queue_max_size = 1
  MIN_WAIT_TASK_NUM = 1
  DEFAULT_THREAD_VARY = 1
  Tasks = {t1, t2}
  t1 = t1
  t2 = t2
  Clients = {c1}
  c1 = c1
  GarbageWaitExit = {0, 1}
  GarbageArg = {"NULL", "wild"}
  ExitedSeemsAlive = FALSE
  AddDuringDestroy = TRUE
SYMMETRY TaskSymmetry
INVARIANTS TypeOK CountersExact ClientsSleepOnlyWhenFull
CHECK_DEADLOCK FALSE
