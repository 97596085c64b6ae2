\* Two threads, one of which enqueues lists; callbacks continue and dequeue.
\* Threads that wait for a queue that sceGeBreak has stopped may all stop.
SPECIFICATION FairSpec
CONSTANTS
  MAX_COUNT_DL = 3
  SizeofSceGeDisplayList = 64
  t1 = t1
  t2 = t2
  NULL = NULL
  g_cmdList = stub
  Thread = {t1, t2}
  Enqueuer = {t1}
INVARIANTS
  TypeOK
  QueuesPartition
  OneRunning
  InterruptIsForItsList
  DrawingIsAnnounced
  
PROPERTIES
  ImplementsService
  
CHECK_DEADLOCK FALSE
