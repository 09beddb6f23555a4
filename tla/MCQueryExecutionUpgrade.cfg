SPECIFICATION Spec
CONSTANTS
  r1 = r1
  r2 = r2
  a1 = a1
  s1 = s1
  Requests = {r1, r2}
  Agents = {a1}
  Sources = {s1}
  Limits = {1, 2}
  MaxActive = 2
  MaxPerAgent = 2
  NoCall = NoCall
  MaxChanges = 2
SYMMETRY Symmetry
INVARIANTS
  UpgradeCancelsWork
CHECK_DEADLOCK FALSE
