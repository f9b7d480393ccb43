---------------------------- MODULE ChatInstance ----------------------------
(***************************************************************************)
(* One ChatServer process between its start and its exit: the connections, *)
(* the logic queue and its worker, the gRPC service, the heartbeat timer   *)
(* and the shutdown in main.  Every session has an IO thread of its own,   *)
(* the most concurrency the io_context pool can give.  What a handler does *)
(* to Redis and MySQL, and the threads that wait meanwhile, are the        *)
(* subject of Presence.                                                    *)
(***************************************************************************)
EXTENDS LogicQueue, Connection

CONSTANTS
  Main, Worker, Rpc,
  MaxRequests,        \* bound: the frames a client sends
  Unhandled,          \* the requests whose ID has no handler
  MaxPushes           \* bound: the messages a client did not ask for

Push == 0
Offline == MaxRequests + 1

ASSUME ChatInstanceAssumption ==
  /\ MaxRequests \in Nat /\ MaxPushes \in Nat
  /\ Unhandled \subseteq Node
  /\ Main \notin Session /\ Thread = Session \cup {Main}
  /\ Worker # Rpc /\ Sender = {Worker, Rpc}
  /\ Caller = Thread \cup Sender /\ Thread \cap Sender = {}
  /\ Node = Session \X (1..MaxRequests)
  /\ Message = 0..Offline

VARIABLES
  asked,      \* the frames each client has sent
  pushes,     \* the pushes so far
  stage,      \* of the worker with its message: "taken" | "handling" | "answered"
  busyRpc,    \* the gRPC service handles a call
  victim,     \* of each sender: the session it clears once it has told it
  phase,      \* of main: "serve" | "rpc" | "queue" | "join" | "close" | "drain" | "exited"
  toClose     \* the sessions CServer::Stop has copied and not yet closed

instanceVars == <<asked, pushes, stage, busyRpc, victim, phase, toClose>>
vars == <<logicVars, connectionVars, instanceVars>>

Phase == {"serve", "rpc", "queue", "join", "close", "drain", "exited"}

TypeOK ==
  /\ LogicTypeOK
  /\ ConnectionTypeOK
  /\ asked \in [Session -> 0..MaxRequests]
  /\ pushes \in 0..MaxPushes
  /\ stage \in {"taken", "handling", "answered"}
  /\ busyRpc \in BOOLEAN
  /\ victim \in [Sender -> Session \cup {NoSession}]
  /\ phase \in Phase
  /\ toClose \subseteq Session

Init ==
  /\ LogicInit
  /\ ConnectionInit
  /\ asked = [s \in Session |-> 0]
  /\ pushes = 0
  /\ stage = "taken"
  /\ busyRpc = FALSE
  /\ victim = [t \in Sender |-> NoSession]
  /\ phase = "serve"
  /\ toClose = {}

-----------------------------------------------------------------------------
(* The session's IO thread.                                                *)

\* It is neither in PostMsgToQue nor in DealExceptionSession.
IoFree(s) == s \notin notifying /\ cleaning[s] = NoSession

\* AsyncReadBody: the frame goes to the logic queue.
FrameArrives(s) ==
  /\ IoFree(s) /\ asked[s] < MaxRequests
  /\ ReadFrame(s)
  /\ Post(s, <<s, asked[s] + 1>>)
  /\ asked' = [asked EXCEPT ![s] = @ + 1]
  /\ UNCHANGED <<pushes, stage, busyRpc, victim, phase, toClose>>

NotifyWorker(t) == Notify(t) /\ UNCHANGED <<connectionVars, instanceVars>>
CleanUp(t) == CleanedUp(t) /\ UNCHANGED <<logicVars, instanceVars>>

\* The client hangs up, its network fails, or what it sends makes no sense.
ClientGone(s) ==
  /\ IoFree(s) /\ s \notin shut
  /\ ReadFailed(s)
  /\ UNCHANGED <<logicVars, instanceVars>>

\* A client that has left the table sends something.
ClientRejected(s) ==
  /\ IoFree(s)
  /\ ReadUnregistered(s)
  /\ UNCHANGED <<logicVars, instanceVars>>

IoStep(s) ==
  /\ IoFree(s)
  /\ StartRead(s) \/ (s \in shut /\ ReadFailed(s)) \/ Shut(s) \/ SendOnIO(s)
       \/ WriteDone(s) \/ WriteFailed(s)
  /\ UNCHANGED <<logicVars, instanceVars>>

Io(s) == FrameArrives(s) \/ NotifyWorker(s) \/ CleanUp(s) \/ IoStep(s)

-----------------------------------------------------------------------------
(* Send, and the kick that a login at this instance (worker) or elsewhere  *)
(* (gRPC) brings: the victim is told first and then leaves the table.      *)

SendStep(t) ==
  /\ SendPost(t) \/ SendReject(t) \/ SendClose(t)
  /\ UNCHANGED <<logicVars, instanceVars>>

OutOfSend(t) == step[t] = "idle" /\ cleaning[t] = NoSession
Free(t) == OutOfSend(t) /\ victim[t] = NoSession

PushTo(t, s) ==
  /\ Free(t) /\ s \in table
  /\ pushes < MaxPushes
  /\ pushes' = pushes + 1
  /\ Send(t, s, Push)
  /\ UNCHANGED victim

KickOut(t, s) ==
  /\ Free(t) /\ s \in table
  /\ pushes < MaxPushes
  /\ pushes' = pushes + 1
  /\ Send(t, s, Offline) \/ (s \in closed /\ UNCHANGED connectionVars)
  /\ victim' = [victim EXCEPT ![t] = s]

ClearVictim(t) ==
  /\ OutOfSend(t) /\ victim[t] # NoSession
  /\ ClearSession(victim[t])
  /\ victim' = [victim EXCEPT ![t] = NoSession]
  /\ UNCHANGED <<logicVars, asked, pushes, stage, busyRpc, phase, toClose>>

-----------------------------------------------------------------------------
(* The worker.                                                             *)

Waiting == WorkerNext /\ UNCHANGED <<connectionVars, instanceVars>>

Runnable(n) == n \notin Unhandled /\ n[1] \in table \ closed

\* The request is dropped: no handler, or its connection is gone by now.
WorkerDrop ==
  /\ worker = "busy" /\ stage = "taken" /\ ~ Runnable(current)
  /\ Done
  /\ UNCHANGED <<connectionVars, instanceVars>>

WorkerHandle ==
  /\ worker = "busy" /\ stage = "taken" /\ Runnable(current)
  /\ stage' = "handling"
  /\ UNCHANGED <<logicVars, connectionVars, asked, pushes, busyRpc, victim, phase, toClose>>

\* A handler sends to other users before its Defer sends the response.
WorkerReaches(s) ==
  /\ worker = "busy" /\ stage = "handling"
  /\ PushTo(Worker, s) \/ KickOut(Worker, s)
  /\ UNCHANGED <<logicVars, asked, stage, busyRpc, phase, toClose>>

WorkerAnswer ==
  /\ worker = "busy" /\ stage = "handling" /\ Free(Worker)
  /\ stage' = "answered"
  /\ \/ Send(Worker, current[1], current[2])
     \/ current[1] \in closed /\ UNCHANGED connectionVars
  /\ UNCHANGED <<logicVars, asked, pushes, busyRpc, victim, phase, toClose>>

\* An exception, or a response too long for a frame, closes the connection of the
\* request; the worker goes on.
WorkerThrow ==
  /\ worker = "busy" /\ stage = "handling" /\ Free(Worker)
  /\ stage' = "answered"
  /\ Abort(Worker, current[1])
  /\ UNCHANGED <<logicVars, asked, pushes, busyRpc, victim, phase, toClose>>

WorkerDone ==
  /\ stage = "answered" /\ Free(Worker)
  /\ Done
  /\ stage' = "taken"
  /\ UNCHANGED <<connectionVars, asked, pushes, busyRpc, victim, phase, toClose>>

WorkerStep ==
  \/ Waiting \/ WorkerDrop \/ WorkerHandle \/ WorkerAnswer \/ WorkerDone \/ WorkerThrow
  \/ SendStep(Worker) \/ ClearVictim(Worker) \/ CleanUp(Worker)

-----------------------------------------------------------------------------
(* The gRPC service: no call starts after Shutdown.                        *)

RpcBegin(s) ==
  /\ phase = "serve" /\ ~ busyRpc
  /\ busyRpc' = TRUE
  /\ PushTo(Rpc, s) \/ KickOut(Rpc, s)
  /\ UNCHANGED <<logicVars, asked, stage, phase, toClose>>

RpcEnd ==
  /\ busyRpc /\ Free(Rpc)
  /\ busyRpc' = FALSE
  /\ UNCHANGED <<logicVars, connectionVars, asked, pushes, stage, victim, phase, toClose>>

RpcStep == RpcEnd \/ SendStep(Rpc) \/ ClearVictim(Rpc) \/ CleanUp(Rpc)

-----------------------------------------------------------------------------
(* main: accepts connections and runs the timer until the signal.          *)

MainAt(p) == phase = p /\ Main \notin notifying /\ cleaning[Main] = NoSession

Connect(s) == MainAt("serve") /\ Accept(s) /\ UNCHANGED <<logicVars, instanceVars>>

\* on_timer closes a connection that has been silent for too long.
Expired(s) ==
  /\ MainAt("serve") /\ s \in table
  /\ Abort(Main, s)
  /\ UNCHANGED <<logicVars, instanceVars>>

GoTo(p) == phase' = p /\ UNCHANGED <<asked, pushes, stage, busyRpc, victim>>

Signal == MainAt("serve") /\ GoTo("rpc") /\ UNCHANGED <<logicVars, connectionVars, toClose>>

\* server->Shutdown waits for the calls that are being handled.
RpcDown ==
  /\ MainAt("rpc") /\ ~ busyRpc
  /\ GoTo("queue")
  /\ UNCHANGED <<logicVars, connectionVars, toClose>>

StopLogic ==
  /\ MainAt("queue")
  /\ Stop(Main)
  /\ GoTo("join")
  /\ UNCHANGED <<connectionVars, toClose>>

\* Mutant of Joined: the sessions are closed without waiting for the worker.
NotJoined ==
  /\ MainAt("join")
  /\ GoTo("close")
  /\ toClose' = table
  /\ UNCHANGED <<logicVars, connectionVars>>

\* The worker has drained the queue; CServer::Stop copies the table.
Joined ==
  /\ MainAt("join") /\ worker = "exited"
  /\ GoTo("close")
  /\ toClose' = table
  /\ UNCHANGED <<logicVars, connectionVars>>

StopSession(s) ==
  /\ MainAt("close") /\ s \in toClose
  /\ Abort(Main, s)
  /\ toClose' = toClose \ {s}
  /\ UNCHANGED <<logicVars, asked, pushes, stage, busyRpc, victim, phase>>

StopAfterDrain ==
  /\ MainAt("close") /\ toClose = {}
  /\ GoTo("drain")
  /\ UNCHANGED <<logicVars, connectionVars, toClose>>

\* The IO threads return from run() when nothing is left to do.
ExitMain ==
  /\ MainAt("drain") /\ \A s \in Session : Drained(s) /\ IoFree(s)
  /\ GoTo("exited")
  /\ UNCHANGED <<logicVars, connectionVars, toClose>>

MainStep ==
  \/ RpcDown \/ StopLogic \/ NotifyWorker(Main) \/ CleanUp(Main) \/ Joined \/ StopAfterDrain \/ ExitMain
  \/ \E s \in Session : StopSession(s)

-----------------------------------------------------------------------------
Environment ==
  \/ Signal
  \/ SpuriousWakeup /\ UNCHANGED <<connectionVars, instanceVars>>
  \/ \E s \in Session :
       \/ Connect(s) \/ Expired(s) \/ RpcBegin(s) \/ WorkerReaches(s)
       \/ ClientGone(s) \/ ClientRejected(s)

Next ==
  \/ \E s \in Session : Io(s)
  \/ WorkerStep \/ RpcStep \/ MainStep \/ Environment

Spec == Init /\ [][Next]_vars

-----------------------------------------------------------------------------
\* Once CServer::Stop runs nobody but main and the IO threads touches a session:
\* the worker is gone, no call is being handled, no Send is halfway
\* (ChatServer.cpp:65-67).
QuietAtStop ==
  phase \in {"close", "drain", "exited"} =>
    worker = "exited" /\ ~ busyRpc /\ \A t \in Sender : Free(t)
=============================================================================
