SPECIFICATION Spec
CONSTANTS
  a = a
  b = b
  c = c
  s1 = s1
  s2 = s2
  Users = {a, b, c}
  Servers = {s1, s2}
  PageSize = 1
  Scenarios <- MCScenarios
SYMMETRY Symmetric
INVARIANT TypeOK
INVARIANT SyncedThreadsAreComplete
INVARIANT CacheInOrder
INVARIANT FriendsGetAThread
INVARIANT WelcomedOnce
INVARIANT PendingIsUnderWay
PROPERTY ImplementsMailbox
CHECK_DEADLOCK FALSE
