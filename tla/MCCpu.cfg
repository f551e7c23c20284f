SPECIFICATION Spec
CONSTANTS
  Starts <- MCStarts
  InputWords <- MCInputWords
INVARIANTS
  TypeOK
  MoveResumes
  LockExclusive
  DivisionUndoes
  AssembledRight
PROPERTIES
  CallsNest
  ProtectedKept
  PrivilegeHeld
  FloatOrdered
  QuotientExact
CHECK_DEADLOCK FALSE
