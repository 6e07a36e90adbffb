SPECIFICATION Spec
CONSTANTS
  Tables <- AllTables
  Methods <- MethodsDef
  Values <- ValuesDef
  Paths <- PathsDef
INVARIANTS
  TypeOK
  DispatchIsFirstFit
  RefusalIsRight
  RoundTrip
  MatcherAgreesWithoutParams
\* The server has answered: handlers keep no state, so one request is enough.
CHECK_DEADLOCK FALSE
