SPECIFICATION FairSpec
CONSTANTS
  Commands <- CommandsMC
  Kinds = {"backup"}
  MaxStale = 1
  MaxFaults = 0
PROPERTIES
  ReleasedForNewOperation
