SPECIFICATION Spec
CONSTANTS
  IOINIT = 256
  INTRAP = 400
  IOCODE = 410
  IOBUF = 412
  PROGRAM = 512
  ENDCODE = 420
  Channels = {5, 6}
  LINES_PER_PAGE = 3
  Programs <- MCPrograms
INVARIANTS
  PrintedWhole
  ReadsMean
CHECK_DEADLOCK FALSE
