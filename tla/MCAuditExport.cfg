SPECIFICATION FairSpec
CONSTANTS
  MaxEvents = 2
  BatchLimit = 2
  MaxUpdates = 3
  MaxCrashes = 1
  Nothing = Nothing
INVARIANTS
  DisabledPeriodsStayPrivate
  CountersMatchSettled
PROPERTIES
  ImplementsDelivery
  BacklogDrains
CHECK_DEADLOCK FALSE
