SPECIFICATION Spec
CONSTANTS
  Commands <- CommandsMC
  Kinds = {"backup", "restore", "logs", "deployment", "connectorSync", "diagnostics"}
  MaxStale = 2
  MaxFaults = 3
INVARIANTS
  SuccessIsReal
  OperationFollowsCommand
  AnnouncedOnce
PROPERTIES
  ImplementsContract
