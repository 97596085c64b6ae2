\* Affirmative retries, lists 1 and 2, clients that never stop submitting, and a
\* reboot at any moment; the system stops after it.
SPECIFICATION FairSpec
CONSTANTS
  g = g
  u = u
  a = a
  b = b
  c = c
  NULL = NULL
  SharedSema = SharedSema
  ListOf <- MCListOf
  Packet = {g, a, c}
  GetStatus2Cmd = g
  Retryable = {a, c}
  Urgent = {}
  NoStart = {}
  Async = {a}
  CallbackResults = {0, 1}
  RetryModes = {}
  NewModel = TRUE
  Suspends = FALSE
  Reboots = TRUE
INVARIANTS
  NoIdleWork
  EndedIsQuiet
PROPERTIES
  Completion
  RebootCompletes
CHECK_DEADLOCK FALSE
