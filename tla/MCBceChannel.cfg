CONSTANTS
  Space = 4
  ListenIua = "IOP"
  PowerUpIua = "unit"
  QueueBound = 2
  StatusBound = 1
  Instructions <- MCInstructions
  Arrivals <- MCArrivals
  Answers <- MCAnswers
SPECIFICATION FairSpec
INVARIANTS TypeOK ReceiveHeld ErrorHasCause
PROPERTIES ReceiveEnds ReceiveOwnsChannel StopIsVisible
