SPECIFICATION EnrollPromptSpec
CONSTANTS
  Replicas = {"a"}
  Requests = {"p", "q", "s"}
  MaxCodes = 2
  MaxPolls = 4
  MaxAccounts = 3
  MaxFaults = 0
  MaxRemovals = 0
PROPERTY ApprovalReaches
CHECK_DEADLOCK FALSE
