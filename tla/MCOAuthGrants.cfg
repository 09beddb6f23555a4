SPECIFICATION Spec
CONSTANTS
  g1 = g1
  g2 = g2
  u1 = u1
  u2 = u2
  Grants = {g1}
  Clients = {a1}
  Redirects = {u1, u2}
  Calls = {k1}
  Nothing = Nothing
  MaxIssues = 3
  MaxGenerations = 2
SYMMETRY Symmetry
INVARIANTS
  OneChain
  EndedGrantsAreUseless
  GrantsMatchClients
  WithdrawnWorkIsCancelled
PROPERTIES
  NoLateAnswer
CHECK_DEADLOCK FALSE
