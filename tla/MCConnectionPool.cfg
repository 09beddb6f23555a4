SPECIFICATION FairSpec
CONSTANTS
  r1 = r1
  r2 = r2
  s1 = s1
  v1 = v1
  v2 = v2
  e1 = e1
  e2 = e2
  e3 = e3
  NoEntry = NoEntry
  Requests = {r1, r2}
  Sources = {s1}
  Revisions = {v1, v2}
  Entries = {e1, e2, e3}
INVARIANTS
  RefsMatchUsers
  NoUseAfterClose
  ServesItsRevision
  ClosedOnce
PROPERTIES
  WaitersResume
  RetiredIsClosed
