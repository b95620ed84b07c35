\* Overlapping requests of a browser, cleanup threads, failures and expiry.
SPECIFICATION Spec
INVARIANTS CookieInTime CleanUpNotBlocked
PROPERTIES FindsWhatWasLeft
SYMMETRY Symmetric
CHECK_DEADLOCK FALSE
CONSTANTS
  Request = {r1, r2}
  Sid = {s1, s2}
  Item = {i1}
  Cleaner = {c1, c2}
  None = None
