SPECIFICATION RoutingFairSpec
CONSTANTS
  KBs = {k1, k2}
  Repos = {r1}
  Choices = {{r1}}
  Nobody = Nobody
  Lagging = {}
  Pushed = {}
  MaxBudget <- TwoCreates
PROPERTY
  EachSourceMapsToItsTracker
\* The system stops when the users have nothing left to ask.
CHECK_DEADLOCK FALSE
