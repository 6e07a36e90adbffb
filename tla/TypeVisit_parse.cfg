\* Every graph of three types, every sort of field, pointers in containers.
SPECIFICATION Spec
CONSTANTS
  Jobs <- AllJobs
  MaxStack = 12
INVARIANTS
  FindsEveryType
  DefinedOnce
PROPERTIES
  VisitEnds
CHECK_DEADLOCK FALSE
