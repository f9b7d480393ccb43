SPECIFICATION Spec
CONSTANTS
  a = a
  b = b
  e1 = e1
  e2 = e2
  n1 = n1
  n2 = n2
  p1 = p1
  p2 = p2
  Clients = {a, b}
  Emails = {e1, e2}
  Names = {n1, n2}
  Passwords = {p1, p2}
  Scenarios <- MCScenarios
INVARIANT TypeOK
INVARIANT OneAccountPerEmail
INVARIANT CodeIsStable
INVARIANT ReadyAsSubmitted
INVARIANT SearchAnswersText
PROPERTY FormsAreFreed
CHECK_DEADLOCK FALSE
