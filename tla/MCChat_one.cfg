CONSTANTS
  s1 = s1
  s2 = s2
  main = main
  Session = {s1}
  NoSession = NoSession
  NoNode = NoNode
  NoMessage = NoMessage
  Main = main
  Worker = w
  Rpc = r
  Sender = {w, r}
  Thread <- Threads
  Caller <- Callers
  Node <- Nodes
  Message <- Messages
  Unhandled <- FirstOfS1
  MaxQue = 2
  MaxSendQue = 2
  MaxRequests = 3
  MaxPushes = 1
SPECIFICATION FairSpecAndClients
CHECK_DEADLOCK FALSE
INVARIANT OneWriteAtATime
PROPERTY AnswersInOrder
PROPERTY RequestsAreAnswered
PROPERTY ShutdownEnds
