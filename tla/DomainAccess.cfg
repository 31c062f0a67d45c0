CONSTANTS
  Requests = {q1, q2}
  Cname = cname
  Addresses = {p1, p2}
  Ids = {i1, i2, i3}
  MaxRevision = 3
  MaxFaults = 2
SPECIFICATION Spec
INVARIANTS ActiveIsServed DisabledIsGone NeighbourKept
PROPERTIES ForeignKept
SYMMETRY Symmetry
CHECK_DEADLOCK FALSE
