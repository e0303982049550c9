SPECIFICATION ProvisionFairSpec
CONSTANTS
  Replicas = {"a", "b"}
  Requests = {"p", "q", "s"}
  Grouped = {"p", "q"}
  MaxFaults = 1
INVARIANT ReportedComplete
PROPERTY RetryCompletes
CHECK_DEADLOCK FALSE
