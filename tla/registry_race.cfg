\* Two threads save their registries at the same time.
SPECIFICATION Spec
INVARIANTS OriginalsKept
SYMMETRY Symmetric
CHECK_DEADLOCK FALSE
CONSTANTS
  Thread = {th1, th2}
  Request = {r1, r2}
  Proxy = {p1}
  Obj = {o1}
  MaxManagers = 1
  MaxLeftBehind = 1
  MaxServing = 2
  None = None
