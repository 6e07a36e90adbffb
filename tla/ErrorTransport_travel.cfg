\* Every error of up to four links, every registry, every fault.
SPECIFICATION Spec
CONSTANTS
  Types <- AllTypes
  Coded = {"CodeError", "httpError", "Conflict"}
  Hidden = {"CodeError", "SyntaxError", "errorString", "wrapError", "joinError"}
  Unencodable = {"Broken"}
  Keys = {"a", "b", ""}
  Registries <- AllRegistries
  Errors <- AllErrors
  Faults = {"cut", "replaced"}
INVARIANTS
  TypedErrorArrives
  NothingInvented
  StatusIsTheErrors
CHECK_DEADLOCK FALSE
