SPECIFICATION Spec
CONSTANTS
  Starts <- EveryAddress
  InputWords <- MCInputWords
PROPERTIES
  EveryStoreChecked
CHECK_DEADLOCK FALSE
