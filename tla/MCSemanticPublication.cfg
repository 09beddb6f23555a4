SPECIFICATION Spec
CONSTANTS
  t1 = t1
  q1 = q1
  q2 = q2
  x1 = x1
  c1 = c1
  p1 = p1
  p2 = p2
  Templates = {t1}
  Queries = {q1, q2}
  Tests = {x1}
  ServerVersions = {p1, p2}
  Calls = {c1}
  Nothing = Nothing
  MaxWrites = 4
  MaxRevision = 2
CONSTRAINT Bounded
SYMMETRY Symmetry
PROPERTIES
  ExactlyStaleRunsAreCancelled
  AnswersAreProven
  VersionKeepsItsMeaning
  PublishesOnlyTried
CHECK_DEADLOCK FALSE
