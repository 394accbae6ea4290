SPECIFICATION RoutingSpec
CONSTANTS
  KBs = {k1, k2}
  Repos = {r1, r2}
  Choices = {{r1}, {r2}}
  Nobody = Nobody
  Lagging = {}
  Pushed = {r2}
  MaxBudget <- TwoCreates
PROPERTY
  SyncsAlwaysServeTrackers
\* The system stops when the users have nothing left to ask.
CHECK_DEADLOCK FALSE
