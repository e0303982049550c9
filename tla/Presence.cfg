SPECIFICATION PresenceSpec
CONSTANTS
  Replica = {"a", "b"}
  Beat = 4
  Lease = 9
  MaxSkew = 1
  MaxDelay = 3
  MaxTime = 15
  MaxMoves = 2
  MaxOthers = 2
  MaxLoss = 1
INVARIANTS PresenceInv NewestKept SilentIsOffline BeatsInv ConnectedIsOnline
CHECK_DEADLOCK FALSE
