CONSTANTS
  a = a
  b = b
  s1 = s1
  s2 = s2
  s3 = s3
  Instance = {a, b}
  Session = {s1, s2}
  User = {u1}
  Home <- HomeTwo
  NoInstance = NoInstance
  NoSession = NoSession
  NoUser = NoUser
  Crashes = FALSE
  LossyRpc = FALSE
  LockExpires = TRUE
  RedisFails = FALSE
SPECIFICATION Spec
PROPERTY DeletesOwnStateOnly
CHECK_DEADLOCK FALSE
