SPECIFICATION ProvisionFairSpec
CONSTANTS
  Replicas = {"a"}
  Requests = {"p", "q", "s"}
  Grouped = {"p", "q"}
  MaxFaults = 2
INVARIANTS RegisteredStays ReportedComplete OneWriter SeenAssigned
PROPERTY RequestSettles
CHECK_DEADLOCK FALSE
