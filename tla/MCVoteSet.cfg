CONSTANTS
  Space = 8
  ListenIua = "IOP"
  N = 3
  Machines <- MCMachines
  Setups <- MCSetups
  Patience = 1
SPECIFICATION Spec
INVARIANTS TypeOK MailboxesTrue VerdictRight GarbledBusSeen SkewAbsorbed
PROPERTIES VerdictInTime
