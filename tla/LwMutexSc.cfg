\* pspSc as it is written: its value is not an input of the sc.
SPECIFICATION Spec
CONSTANTS
  t1 = t1
  t2 = t2
  t3 = t3
  Thread = {t1, t2, t3}
  NULL = NULL
  Counts = {1, 2}
  MaxCount = 2
  ScInput = FALSE
INVARIANTS
  MutualExclusion
CHECK_DEADLOCK FALSE
