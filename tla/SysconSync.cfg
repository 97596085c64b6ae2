\* Two synchronous clients.
SPECIFICATION Spec
CONSTANTS
  g = g
  u = u
  a = a
  b = b
  c = c
  NULL = NULL
  SharedSema = SharedSema
  ListOf <- MCListOf
  Packet = {g, b, c}
  GetStatus2Cmd = g
  Retryable = {b}
  Urgent = {}
  NoStart = {}
  Async = {}
  CallbackResults = {0}
  RetryModes = {}
  NewModel = FALSE
  Suspends = FALSE
  Reboots = FALSE
PROPERTIES
  SyncReturnsWhenEmpty
CHECK_DEADLOCK FALSE
