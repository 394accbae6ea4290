SPECIFICATION RoutingSpec
CONSTANTS
  KBs = {k1, k2}
  Repos = {r1, r2}
  Choices = {{r1}, {r1, r2}}
  Nobody = Nobody
  Lagging = {}
  Pushed = {r2}
  MaxBudget <- RoutingBudget
SYMMETRY Symmetry
INVARIANTS
  RoutingTypeOK
  EntriesAreTracked
  MappedHaveStores
PROPERTIES
  AppearsAtomic
  WritesAreOwn
  SyncsServeTrackers
\* The system stops when the users have nothing left to ask.
CHECK_DEADLOCK FALSE
