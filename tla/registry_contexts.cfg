\* Nested managers, streaming or not, and debugging; the requests are bounded and the run ends.
SPECIFICATION Spec
INVARIANTS StacksMirrorRegistry DebuggerSeesTheObjects
SYMMETRY Symmetric
CHECK_DEADLOCK FALSE
CONSTANTS
  Thread = {th1, th2}
  Request = {r1, r2}
  Proxy = {p1}
  Obj = {o1, o2}
  MaxManagers = 2
  MaxLeftBehind = 0
  MaxServing = 1
  None = None
