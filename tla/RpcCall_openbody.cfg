SPECIFICATION Safety
CONSTANTS
  Jobs <- PlainJobs
  Faults = {}
  MaxFaults = 0
INVARIANTS
  OpenBodyHasOwner
CHECK_DEADLOCK FALSE
