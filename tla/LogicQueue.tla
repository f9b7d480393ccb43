----------------------------- MODULE LogicQueue -----------------------------
(***************************************************************************)
(* LogicSystem: the bounded queue between the IO threads and the one       *)
(* worker thread, with its mutex and its condition variable.  An action    *)
(* is a critical section of the mutex, or a notification sent after it.    *)
(* PostMsgToQue notifies only when the queue was empty, and it does so     *)
(* after it has released the mutex; Stop notifies once.                    *)
(***************************************************************************)
EXTENDS Naturals, Sequences

CONSTANTS
  Thread,       \* the threads that post or stop
  Node, NoNode, \* LogicNode: a request and the session it came from
  MaxQue        \* MAX_LOGICQUE

ASSUME LogicQueueAssumption ==
  /\ MaxQue \in Nat \ {0}
  /\ NoNode \notin Node

VARIABLES
  que,          \* _msg_que
  stop,         \* _b_stop
  worker,       \* _worker_thread: "check" (the predicate) | "waiting" | "busy" | "exited"
  current,      \* the node the worker has taken
  notifying     \* the threads between their critical section and notify_one

logicVars == <<que, stop, worker, current, notifying>>

LogicTypeOK ==
  /\ que \in Seq(Node)
  /\ stop \in BOOLEAN
  /\ worker \in {"check", "waiting", "busy", "exited"}
  /\ current \in Node \cup {NoNode}
  /\ notifying \subseteq Thread

LogicInit ==
  /\ que = <<>>
  /\ stop = FALSE
  /\ worker = "check"
  /\ current = NoNode
  /\ notifying = {}

-----------------------------------------------------------------------------
\* Mutant of Accepts: the stop flag is not looked at.
AcceptsAfterStop == Len(que) < MaxQue

\* After Stop, or at the limit, the message is dropped without a word.
Accepts == ~ stop /\ Len(que) < MaxQue

\* Mutant of Post: the size is compared before the message is in the queue.
PostOffByOne(t, m) ==
  /\ t \notin notifying
  /\ \/ /\ Accepts
        /\ que' = Append(que, m)
        /\ notifying' = IF Len(que) = 1 THEN notifying \cup {t} ELSE notifying
     \/ ~ Accepts /\ UNCHANGED <<que, notifying>>
  /\ UNCHANGED <<stop, worker, current>>

\* PostMsgToQue: only the message that ends an empty queue is followed by a
\* notification.
Post(t, m) ==
  /\ t \notin notifying
  /\ \/ /\ Accepts
        /\ que' = Append(que, m)
        /\ notifying' = IF que = <<>> THEN notifying \cup {t} ELSE notifying
     \/ ~ Accepts /\ UNCHANGED <<que, notifying>>
  /\ UNCHANGED <<stop, worker, current>>

\* notify_one: nobody waits, or the worker wakes up and evaluates its predicate.
Notify(t) ==
  /\ t \in notifying
  /\ notifying' = notifying \ {t}
  /\ worker' = IF worker = "waiting" THEN "check" ELSE worker
  /\ UNCHANGED <<que, stop, current>>

\* Mutant of Stop: the notification is sent before the flag is set.
StopTooLate(t) ==
  /\ ~ stop /\ t \notin notifying
  /\ stop' = TRUE
  /\ UNCHANGED <<que, worker, current, notifying>>

\* The first half of Stop; Notify is the second, and then the caller joins.
Stop(t) ==
  /\ ~ stop /\ t \notin notifying
  /\ stop' = TRUE
  /\ notifying' = notifying \cup {t}
  /\ UNCHANGED <<que, worker, current>>

-----------------------------------------------------------------------------
(* DealMsg.                                                                *)

Wait ==
  /\ worker = "check" /\ que = <<>> /\ ~ stop
  /\ worker' = "waiting"
  /\ UNCHANGED <<que, stop, current, notifying>>

SpuriousWakeup ==
  /\ worker = "waiting"
  /\ worker' = "check"
  /\ UNCHANGED <<que, stop, current, notifying>>

Take ==
  /\ worker = "check" /\ que # <<>>
  /\ worker' = "busy"
  /\ current' = Head(que)
  /\ que' = Tail(que)
  /\ UNCHANGED <<stop, notifying>>

\* The message has been handled, or dropped because its session is gone.
Done ==
  /\ worker = "busy"
  /\ worker' = "check"
  /\ current' = NoNode
  /\ UNCHANGED <<que, stop, notifying>>

\* Only with an empty queue: what was accepted before Stop is still handled.
Exit ==
  /\ worker = "check" /\ que = <<>> /\ stop
  /\ worker' = "exited"
  /\ UNCHANGED <<que, stop, current, notifying>>

WorkerNext == Wait \/ Take \/ Exit

-----------------------------------------------------------------------------
\* No lost wakeup: while there is something to do, a waiting worker will be
\* notified, although PostMsgToQue notifies only for the first message and
\* after the mutex is released (LogicSystem.cpp:56-58).
NoLostWakeup ==
  worker = "waiting" /\ (que # <<>> \/ stop) => notifying # {}

\* The worker leaves only after Stop, with every accepted message handled
\* (docs/09-chat-server.md:110).
DrainedAtExit == worker = "exited" => stop /\ que = <<>> /\ current = NoNode
=============================================================================
