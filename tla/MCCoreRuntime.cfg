SPECIFICATION FairSpec
CONSTANTS
  c1 = c1
  c2 = c2
  c3 = c3
  k1 = k1
  k2 = k2
  Callers = {c1, c2, c3}
  Calls = {k1, k2}
  Management = TRUE
INVARIANTS RuntimeInvariant
PROPERTIES ServeAndCloseReturn
CHECK_DEADLOCK FALSE
