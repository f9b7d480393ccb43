CONSTANTS
  a = a
  b = b
  s1 = s1
  s2 = s2
  s3 = s3
  Instance = {a, b}
  Session = {s1, s2, s3}
  User = {u1}
  Home <- HomeThree
  NoInstance = NoInstance
  NoSession = NoSession
  NoUser = NoUser
  Crashes = FALSE
  LossyRpc = TRUE
  LockExpires = FALSE
  RedisFails = FALSE
SPECIFICATION Spec
PROPERTY DeletesOwnStateOnly
PROPERTY CleanupIsFinal
PROPERTY ImplementsRegistry
CHECK_DEADLOCK FALSE
INVARIANT MappedIsRegistered
