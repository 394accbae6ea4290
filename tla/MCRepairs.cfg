SPECIFICATION FairSpec
CONSTANTS
  Specs <- OneSpec
  None = None
  ValidBranches <- Branches
  MaxBudget <- DriftBudget
  Lagging = {"trigger"}
  Drifting = {"namespace", "trigger"}
  ProbeResults = {TRUE}
INVARIANTS
  GuardedByFinalizer
  RoutedSyncCanStart
PROPERTY
  Converges
\* The system stops when the users have nothing left to ask.
CHECK_DEADLOCK FALSE
