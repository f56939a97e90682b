SPECIFICATION Spec
CONSTANTS
  Requests = {r1, r2}
  Containers = {orders, checkout}
  Eager = {checkout}
  NoSession = NoSession
INVARIANT UnitsOfWorkAreClean
CHECK_DEADLOCK FALSE
