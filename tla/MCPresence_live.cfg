CONSTANTS
  a = a
  b = b
  s1 = s1
  s2 = s2
  s3 = s3
  Instance = {a, b}
  Session = {s1, s2}
  User = {u1}
  Home <- HomeSame
  NoInstance = NoInstance
  NoSession = NoSession
  NoUser = NoUser
  Crashes = TRUE
  LossyRpc = TRUE
  LockExpires = TRUE
  RedisFails = TRUE
SPECIFICATION FairSpec
PROPERTY LoginEnds
PROPERTY CleanupEnds
PROPERTY LockIsReturned
CHECK_DEADLOCK FALSE
