SPECIFICATION Spec
CONSTANTS
  k1 = k1
  k2 = k2
  k3 = k3
  n1 = n1
  n2 = n2
  r1 = r1
  r2 = r2
  KBs = {k1, k2, k3}
  Names = {n1, n2}
  Orgs = {o1, o2}
  Nobody = Nobody
  Name <- Naming
  Repos = {r1, r2}
  Tracks <- Sources
  MaxBudget <- TwoCreates
PROPERTY
  OrganizationsIsolated
\* The system stops when the users have nothing left to ask.
CHECK_DEADLOCK FALSE
