\* Every file and every text of an error of up to two lines, every sort of status code, every fault.
SPECIFICATION Spec
CONSTANTS
  Jobs <- AllJobs
  WireCap = 1
  BodyLimit = 4
  Faults = {"cancel", "shutdown", "break", "stop"}
INVARIANTS
  TypeOK
  DeliveredIsPrefix
  CompleteOnNil
  ProducerOutlived
PROPERTIES
  HandlerEnds
  CallReturns
  ConsumerEnds
  InteractiveDelivery
CHECK_DEADLOCK FALSE
