\* One thread that waits for one of its two lists.
SPECIFICATION Spec
CONSTANTS
  MAX_COUNT_DL = 2
  SizeofSceGeDisplayList = 64
  t1 = t1
  t2 = t2
  NULL = NULL
  g_cmdList = stub
  Thread = {t1}
  Enqueuer = {t1}
PROPERTIES
  SyncMeansCompleted
CHECK_DEADLOCK FALSE
