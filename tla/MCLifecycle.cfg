SPECIFICATION FairSpec
CONSTANTS
  Specs <- OneSpec
  None = None
  ValidBranches <- Branches
  MaxBudget <- LifecycleBudget
  Lagging = {}
  Drifting = {}
  ProbeResults = {TRUE}
INVARIANTS
  TypeOK
  GuardedByFinalizer
  RoutedSyncCanStart
  ReadyIsHonest
PROPERTIES
  VolumesKept
  ImplementsContract
  DeletionCompletes
\* The system stops when the users have nothing left to ask.
CHECK_DEADLOCK FALSE
