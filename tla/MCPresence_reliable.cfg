CONSTANTS
  a = a
  b = b
  s1 = s1
  s2 = s2
  s3 = s3
  Instance = {a, b}
  Session = {s1, s2, s3}
  User = {u1}
  Home <- HomeThree
  NoInstance = NoInstance
  NoSession = NoSession
  NoUser = NoUser
  Crashes = TRUE
  LossyRpc = FALSE
  LockExpires = FALSE
  RedisFails = FALSE
SPECIFICATION Spec
INVARIANT TypeOK
INVARIANT OnlineIsRoutable
CHECK_DEADLOCK FALSE
