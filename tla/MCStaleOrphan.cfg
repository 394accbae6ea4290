SPECIFICATION Spec
CONSTANTS
  Specs <- OneSpec
  None = None
  ValidBranches <- Branches
  MaxBudget <- OneCreate
  Lagging = {"trigger"}
  Drifting = {}
  ProbeResults = {TRUE}
INVARIANT
  NoOrphans
\* The system stops when the users have nothing left to ask.
CHECK_DEADLOCK FALSE
