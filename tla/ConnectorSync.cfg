CONSTANTS
  Agents = {a1, a2}
  MaxRevision = 3
  MaxFaults = 1
SPECIFICATION Spec
INVARIANTS ActiveConnectorRuns StoppedMeansGone IdentityIsOfStoredToken UnsettledIsQueued
SYMMETRY AgentSymmetry
CHECK_DEADLOCK FALSE
