\* The handler returns an error.
SPECIFICATION Safety
CONSTANTS
  Jobs <- NotFoundJobs
  WireCap = 1
  BodyLimit = 9
  Faults = {}
INVARIANTS
  RowsClosedOnReturn
CHECK_DEADLOCK FALSE
