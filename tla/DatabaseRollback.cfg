SPECIFICATION RFairSpec
CONSTANTS
  Commands <- CommandsMC
  Kinds = {"backup"}
  MaxStale = 1
  MaxFaults = 1
  MaxRollbacks = 1
INVARIANTS
  AtMostOnceExecution
PROPERTIES
  DurableResultIsFinal
  DecidedAgain
