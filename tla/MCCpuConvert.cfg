SPECIFICATION Spec
CONSTANTS
  Starts <- ConvertStarts
  InputWords <- MCInputWords
PROPERTIES
  ConvertedKept
CHECK_DEADLOCK FALSE
