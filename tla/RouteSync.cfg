CONSTANTS
  Agents = {a1, a2}
  MaxRevision = 3
  MaxFaults = 2
SPECIFICATION RouteSpec
INVARIANTS ActiveRouteServed PendingRouteIsQueued ActiveAccessHasRoute
SYMMETRY AgentSymmetry
CHECK_DEADLOCK FALSE
