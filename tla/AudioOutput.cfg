SPECIFICATION FairSpec
CONSTANTS
  t1 = t1
  t2 = t2
  c1 = c1
  c2 = c2
  Thread = {t1, t2}
  Chan = {c1, c2}
  NoChan = NoChan
  Mix = Mix
  MaxLen <- MCMaxLen
INVARIANTS
  TypeOK
  NoStall
  WaiterKeepsChannel
  NoLostWakeup
  HeardOnce
PROPERTIES
  MixedIsHeard
  BlockingReturns
