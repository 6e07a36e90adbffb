SPECIFICATION Spec
CONSTANTS
  Tables <- OneTable
  Methods <- MethodsDef
  Values <- ValuesDef
  Paths <- PathsDef
INVARIANTS
  MatcherAgrees
\* The server has answered: handlers keep no state, so one request is enough.
CHECK_DEADLOCK FALSE
