SPECIFICATION Spec
CONSTANTS
  a1 = a1
  a2 = a2
  s1 = s1
  s2 = s2
  w1 = w1
  w2 = w2
  c1 = c1
  l1 = l1
  Administrators = {a1, a2}
  Sessions = {s1, s2}
  Requests = {w1, w2}
  Calls = {c1}
  Logins = {l1}
  Nothing = Nothing
  MaxPerIdentity = 1
  MaxCalls = 1
  MaxChanges = 2
SYMMETRY Symmetry
INVARIANTS
  WithdrawnWorkIsCancelled
  SessionsProvePassword
  SuperAdministratorRemains
PROPERTIES
  CommitsAreAuthorized
CHECK_DEADLOCK FALSE
