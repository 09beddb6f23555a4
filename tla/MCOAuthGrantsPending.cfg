SPECIFICATION Spec
CONSTANTS
  g1 = g1
  g2 = g2
  u1 = u1
  u2 = u2
  Grants = {g1}
  Clients = {a1}
  Redirects = {u1, u2}
  Calls = {}
  Nothing = Nothing
  MaxIssues = 1
  MaxGenerations = 1
SYMMETRY Symmetry
INVARIANTS
  NoPendingSurvives
CHECK_DEADLOCK FALSE
