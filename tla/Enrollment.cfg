SPECIFICATION EnrollFairSpec
CONSTANTS
  Replicas = {"a", "b"}
  Requests = {"p", "q"}
  MaxCodes = 2
  MaxPolls = 3
  MaxAccounts = 2
  MaxFaults = 2
  MaxRemovals = 1
INVARIANTS EnrollTypeOK PairMatches OwnedBeforeUse OneCredential OwnedBeforeMark
PROPERTY EnrollSettles
CHECK_DEADLOCK FALSE
