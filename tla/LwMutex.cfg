\* Three threads, recursive or not, counts 1 and 2, the largest s32 scaled to 2.
SPECIFICATION FairSpec
CONSTANTS
  t1 = t1
  t2 = t2
  t3 = t3
  Thread = {t1, t2, t3}
  NULL = NULL
  Counts = {1, 2}
  MaxCount = 2
  ScInput = TRUE
INVARIANTS
  TypeOK
  MutualExclusion
  CountIsDepth
  NoStrandedWaiter
PROPERTIES
  LockReturns
  ImplementsLock
