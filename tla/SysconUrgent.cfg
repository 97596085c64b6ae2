\* Urgent submissions to a list other clients use, as ctrl makes them.
SPECIFICATION Spec
CONSTANTS
  g = g
  u = u
  a = a
  b = b
  c = c
  NULL = NULL
  SharedSema = SharedSema
  ListOf <- MCListOf
  Packet = {g, a, b, c}
  GetStatus2Cmd = g
  Retryable = {a, b}
  Urgent = {b}
  NoStart = {}
  Async = {b}
  CallbackResults = {0}
  RetryModes = {}
  NewModel = FALSE
  Suspends = FALSE
  Reboots = FALSE
INVARIANTS
  AcceptedIsLinked
CHECK_DEADLOCK FALSE
