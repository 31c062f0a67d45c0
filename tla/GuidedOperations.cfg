CONSTANTS
  Requests = {q1, q2}
  MaxFaults = 3
SPECIFICATION Spec
INVARIANTS MadeOnce SucceededHasAll Resumable
PROPERTIES SucceededIsKept
SYMMETRY RequestSymmetry
CHECK_DEADLOCK FALSE
