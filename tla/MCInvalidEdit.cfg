SPECIFICATION Spec
CONSTANTS
  Specs <- CodeOrBad
  None = None
  ValidBranches <- Branches
  MaxBudget <- OneEdit
  Lagging = {}
  Drifting = {}
  ProbeResults = {TRUE}
INVARIANT OnlyValidSpecsAreServed
\* The system stops when the users have nothing left to ask.
CHECK_DEADLOCK FALSE
