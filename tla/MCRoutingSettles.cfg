SPECIFICATION RoutingFairSpec
CONSTANTS
  KBs = {k1, k2}
  Repos = {r1, r2}
  Choices = {{r1}, {r1, r2}}
  Nobody = Nobody
  Lagging = {"trigger"}
  Pushed = {}
  MaxBudget <- SettlingBudget
INVARIANT
  TriggersHaveTemplates
PROPERTY
  RoutingSettles
\* The system stops when the users have nothing left to ask.
CHECK_DEADLOCK FALSE
