\* Every kind of call, every stack of clients, every set of up to three faults.
SPECIFICATION Spec
CONSTANTS
  Jobs <- AllJobs
  Faults <- AllFaults
  MaxFaults = 3
INVARIANTS
  TypeOK
  AnswersTheHandler
  ErrorsReachCaller
  AnswerIsGenuine
  BodyReleased
PROPERTIES
  CloseWaits
  CallReturns
  HandlerReaderReleased
CHECK_DEADLOCK FALSE
