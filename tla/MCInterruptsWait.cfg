CONSTANTS
  Hosts = {"gpc"}
  NewPsw <- MCNewPsw
  ZeroPsw = Zero
  Raisable = {4}
  Program <- MCProgram
  Rank <- MCRank
SPECIFICATION FairSpec
PROPERTIES WaitIsInterruptible
CHECK_DEADLOCK FALSE
