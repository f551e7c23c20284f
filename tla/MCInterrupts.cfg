CONSTANTS
  Hosts = {"gpc", "run"}
  NewPsw <- MCNewPsw
  ZeroPsw = Zero
  Raisable = {0, 4}
  Program <- MCProgram
  Rank <- MCRank
SPECIFICATION FairSpec
INVARIANTS TypeOK SavedContextsIntact
PROPERTIES PendsUntilTaken RunWakesUp
CHECK_DEADLOCK FALSE
