SPECIFICATION FairSpec
CONSTANTS
  r1 = r1
  r2 = r2
  a1 = a1
  s1 = s1
  Requests = {r1, r2}
  Agents = {a1}
  Sources = {s1}
  Limits = {1}
  MaxActive = 2
  MaxPerAgent = 2
  NoCall = NoCall
  MaxChanges = 1
PROPERTIES
  EveryCallEnds
CHECK_DEADLOCK FALSE
