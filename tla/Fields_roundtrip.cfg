SPECIFICATION Spec
CONSTANTS
  Structs <- StructsDef
INVARIANTS
  TypeOK
  FieldsArrive
  WrittenIsReadable
  FailsForValues
\* One object travels once.
CHECK_DEADLOCK FALSE
