SPECIFICATION Spec
CONSTANTS
  Specs <- EverySpec
  None = None
  ValidBranches <- Branches
  MaxBudget <- OneFault
  Lagging = {}
  Drifting = {}
  ProbeResults = {TRUE}
INVARIANT FailureClearsReadiness
\* The system stops when the users have nothing left to ask.
CHECK_DEADLOCK FALSE
