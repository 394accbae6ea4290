SPECIFICATION FairSpec
CONSTANTS
  Specs <- EverySpec
  None = None
  ValidBranches <- Branches
  MaxBudget <- EditBudget
  Lagging = {}
  Drifting = {}
  ProbeResults = {TRUE}
INVARIANT
  NeverForgotten
PROPERTIES
  NoSetback
  ReportsAreUpToDate
  Converges
\* The system stops when the users have nothing left to ask.
CHECK_DEADLOCK FALSE
