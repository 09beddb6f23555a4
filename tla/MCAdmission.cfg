SPECIFICATION FairAdmissionSpec
CONSTANTS
  r1 = r1
  r2 = r2
  r3 = r3
  a1 = a1
  a2 = a2
  a3 = a3
  s1 = s1
  Requests = {r1, r2, r3}
  Agents = {a1, a2, a3}
  Sources = {s1}
  Limits = {1, 2}
  MaxActive = 2
  MaxPerAgent = 1
INVARIANTS
  CountersMatchHolders
  LimitsRespected
  NoLostWakeup
PROPERTIES
  QueueDrains
