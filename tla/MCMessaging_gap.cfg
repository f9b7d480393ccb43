SPECIFICATION Spec
CONSTANTS
  a = a
  b = b
  c = c
  s1 = s1
  s2 = s2
  Users = {a, b, c}
  Servers = {s1, s2}
  PageSize = 1
  Scenarios <- MCGap
SYMMETRY Symmetric
INVARIANT OfflineIsSynced
CHECK_DEADLOCK FALSE
