CONSTANTS
  s1 = s1
  s2 = s2
  main = main
  Session = {s1, s2}
  NoSession = NoSession
  NoNode = NoNode
  NoMessage = NoMessage
  Main = main
  Worker = w
  Rpc = r
  Sender = {w, r}
  Thread <- Threads
  Caller <- Callers
  Node <- Nodes
  Message <- Messages
  Unhandled = {}
  MaxQue = 2
  MaxSendQue = 1
  MaxRequests = 1
  MaxPushes = 1
SPECIFICATION Spec
CHECK_DEADLOCK FALSE
INVARIANT TypeOK
INVARIANT NoLostWakeup
INVARIANT DrainedAtExit
INVARIANT PendingIsExact
INVARIANT SendsAreBounded
INVARIANT QuietAtStop
