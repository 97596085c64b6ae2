\* Urgent submissions share list 0 with GET_STATUS2 only; callbacks may re-queue first;
\* once the retry mode is off it stays off.
SPECIFICATION Spec
CONSTANTS
  g = g
  u = u
  a = a
  b = b
  c = c
  NULL = NULL
  SharedSema = SharedSema
  ListOf <- MCListOf
  Packet = {g, u, a, b}
  GetStatus2Cmd = g
  Retryable = {a, b}
  Urgent = {u}
  NoStart = {}
  Async = {a, b}
  CallbackResults = {0, 1}
  RetryModes = {FALSE}
  NewModel = TRUE
  Suspends = FALSE
  Reboots = FALSE
SYMMETRY MCSymmetry
INVARIANTS
  TypeOK
  OneInFlight
  WellLinked
  LinkedIsOutstanding
  AcceptedIsLinked
  
PROPERTIES
  ImplementsService
