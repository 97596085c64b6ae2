\* Two dispatches that may overlap, three handlers that come and go.
SPECIFICATION Spec
CONSTANTS
  h1 = h1
  h2 = h2
  h3 = h3
  d1 = d1
  d2 = d2
  suspend = suspend
  resume = resume
  NULL = NULL
  Handler = {h1, h2, h3}
  EventType = {suspend, resume}
  TypeMask <- MCTypeMask
  Dispatcher = {d1, d2}
INVARIANTS
  TypeOK
  WalkIsListed
  BusyIsCalled
  NoneMissed
  CalledOnce
PROPERTIES
  WalkEnds
SYMMETRY MCSymmetry
