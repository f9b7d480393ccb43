----------------------------- MODULE ChatProps -----------------------------
(***************************************************************************)
(* What one ChatServer process guarantees between start and exit.          *)
(***************************************************************************)
EXTENDS ChatInstance, SequencesExt

-----------------------------------------------------------------------------
(* The refinement of OrderedReplies.                                       *)

IsAnswer(m) == m \in 1..MaxRequests
Answers(q) == {m \in ToSet(q) : IsAnswer(m)}
Over(s) == s \in closed \/ (s \in starting \cup reading /\ s \notin table)

\* Where an accepted request waits, with its answer or for it: in the logic queue,
\* with the worker, in the worker's Send.
InQueue(s) == {k \in 1..MaxRequests : <<s, k>> \in ToSet(que)}
Taken(s) ==
  {k \in 1..MaxRequests : worker = "busy" /\ stage # "answered" /\ current = <<s, k>>}
InHand(s) == {k \in 1..MaxRequests : target[Worker] = s /\ outgoing[Worker] = k}

Requests(s) == {k \in InQueue(s) \cup Taken(s) : <<s, k>> \notin Unhandled}
Sending(s) == InHand(s) \cup Answers(posted[s]) \cup Answers(sendQue[s])
Owed(s) == IF Over(s) THEN {} ELSE Requests(s) \cup Sending(s)

\* The positions of a sequence of messages that hold answers, and the last of them.
Places(q) == {i \in DOMAIN q : IsAnswer(q[i])}
LastPlace(q, i) == i \in Places(q) /\ \A j \in Places(q) : j <= i
LastAnswerIn(q) ==
  IF Places(q) = {} THEN 0 ELSE q[CHOOSE i \in DOMAIN q : LastPlace(q, i)]
LastAnswer(s) == LastAnswerIn(wire[s])

Replies == INSTANCE OrderedReplies WITH
  Client <- Session,
  owed <- [s \in Session |-> Owed(s)],
  last <- [s \in Session |-> LastAnswer(s)],
  over <- {s \in Session : Over(s)}

\* IO threads, senders and the worker together answer in order and lose nothing
\* while the connection lasts (LogicSystem.cpp:43, CSession.cpp:71).
AnswersInOrder == Replies!Init /\ [][Replies!Next(1..MaxRequests)]_(Replies!vars)

-----------------------------------------------------------------------------
(* Liveness.                                                               *)

\* Every thread that can go on does: a write gets through or fails, and on a
\* closed socket the read fails.  Nothing is asked of clients, of the timer or
\* of spurious wakeups.
FairSpec ==
  /\ Spec
  /\ \A s \in Session : WF_vars(NotifyWorker(s) \/ CleanUp(s) \/ IoStep(s))
  /\ WF_vars(WorkerStep) /\ WF_vars(RpcStep) /\ WF_vars(MainStep)

\* A client that is told that it has been kicked out hangs up
\* (client/bridge/shellbridge.cpp:25: sig_notify_offline closes the session).
ToldClientHangsUp(s) == Contains(wire[s], Offline) /\ ClientGone(s)

FairSpecAndClients ==
  FairSpec /\ \A s \in Session : WF_vars(ToldClientHangsUp(s))

\* An accepted request is answered, or its connection is over: no lost wakeup,
\* no forgotten write, no deadlock between the threads.
RequestsAreAnswered ==
  \A s \in Session : \A k \in 1..MaxRequests :
    Contains(que, <<s, k>>) /\ <<s, k>> \notin Unhandled ~> LastAnswer(s) >= k \/ Over(s)

\* The process ends after a signal (CServer.h:26: Stop cleans up all sessions;
\* IOContextPool.h:26).
ShutdownEnds == phase = "rpc" ~> phase = "exited"
=============================================================================
