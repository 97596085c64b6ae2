\* Urgent submissions to a shared list, callbacks that re-queue last, flag 2, suspend
\* and resume.  Lost packets leave clients waiting for ever.
SPECIFICATION Spec
CONSTANTS
  g = g
  u = u
  a = a
  b = b
  c = c
  NULL = NULL
  SharedSema = SharedSema
  ListOf <- MCListOf
  Packet = {g, a, b, c}
  GetStatus2Cmd = g
  Retryable = {a, c}
  Urgent = {b}
  NoStart = {c}
  Async = {a, b}
  CallbackResults = {0, 1, 2}
  RetryModes = {TRUE, FALSE}
  NewModel = TRUE
  Suspends = TRUE
  Reboots = FALSE
INVARIANTS
  RetryKeepsHead
  
CHECK_DEADLOCK FALSE
