SPECIFICATION Spec
CONSTANTS
  min_thr_num = 1
  max_thr_num = 2
  queue_max_size = 2
  MIN_WAIT_TASK_NUM = 2
  DEFAULT_THREAD_VARY = 2
  Tasks = {t1, t2, t3}
  t1 = t1
  t2 = t2
  t3 = t3
  Clients = {c1}
  c1 = c1
  GarbageWaitExit = {0}
  GarbageArg = {"NULL"}
  ExitedSeemsAlive = FALSE
  AddDuringDestroy = FALSE
INVARIANTS QueuedTasksKeepAWorkerAwake
CHECK_DEADLOCK FALSE
