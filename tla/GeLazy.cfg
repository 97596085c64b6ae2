\* One thread that feeds two lists in turn.
SPECIFICATION Spec
CONSTANTS
  t = t
  d1 = d1
  d2 = d2
  Thread = {t}
  List = {d1, d2}
  Feeds <- MCFeeds
  None = None
  NoThread = NoThread
  Max = 3
  Commands = 4
INVARIANTS
  NothingLost
CHECK_DEADLOCK FALSE
