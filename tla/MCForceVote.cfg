CONSTANTS
  None = None
  Bus <- MCBus
  Iua <- MCIua
  MyIua = 9
  Cmd <- MCCmd
  Words <- MCWords
  Tolerance = 1
SPECIFICATION Spec
INVARIANTS TypeOK SurvivorLeft
PROPERTIES OutlierLoses VoteSettles
