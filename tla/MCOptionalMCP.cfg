SPECIFICATION FairSpec
CONSTANTS
  Specs <- WithoutMCP
  None = None
  ValidBranches <- Branches
  MaxBudget <- OneCreate
  Lagging = {}
  Drifting = {}
  ProbeResults = {TRUE}
PROPERTY MCPIsOptional
\* The system stops when the users have nothing left to ask.
CHECK_DEADLOCK FALSE
