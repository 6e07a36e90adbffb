\* Two calls and two closers, without symmetry: it is unsound for liveness.
SPECIFICATION Spec
CONSTANTS
  Calls = {c1, c2}
  Closers = {x1, x2}
  KeyMod = 3
  None = None
INVARIANTS
  TypeOK
  CancelsAreLive
  NoMissedCancel
  NoNilMapWrite
  ClosedMeansQuiet
PROPERTIES
  AddNeverRacesWait
  CloseReturns
  DoReturnsOnceClosing
  ImplementsAbstract
CHECK_DEADLOCK FALSE
