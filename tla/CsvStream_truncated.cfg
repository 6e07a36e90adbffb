\* The server's context ends in the middle of a file.
SPECIFICATION Safety
CONSTANTS
  Jobs <- PlainJobs
  WireCap = 1
  BodyLimit = 9
  Faults = {"shutdown"}
INVARIANTS
  NilMeansDownloaded
CHECK_DEADLOCK FALSE
