SPECIFICATION FairSpec
CONSTANTS
  Attempts = {a1, a2}
  None = None
  MaxFaults = 3
INVARIANTS
  AlwaysApplicable
  WholeRestoreOnly
PROPERTIES
  NeverReplayed
  RequestIsAnswered
CHECK_DEADLOCK FALSE
