\* Calls that stream, over a ClosingClient that may be closed.
SPECIFICATION Spec
CONSTANTS
  Jobs <- StreamJobs
  Faults = {"close", "encodeResponse"}
  MaxFaults = 1
PROPERTIES
  StreamsClosed
CHECK_DEADLOCK FALSE
