CONSTANTS
  Agents = {a1}
  Clients = {c1, c2}
  MaxRevision = 2
  MaxOperations = 3
  MaxFaults = 2
SPECIFICATION Spec
INVARIANTS NoOverlap ActiveRunsCurrent CompensationRestoresCurrent ChangingHasRun
SYMMETRY ClientSymmetry
CHECK_DEADLOCK FALSE
