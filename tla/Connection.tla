----------------------------- MODULE Connection -----------------------------
(***************************************************************************)
(* CSession, as the threads that use it see it: one outstanding read, a    *)
(* send queue with at most one outstanding write, the count of unfinished  *)
(* sends that bounds it, and Close, which only posts the closing of the    *)
(* socket.  Sender threads post to the io_context of the session; its one  *)
(* thread runs what is posted, and the completions of reads and writes.  A *)
(* completion that precedes the closing of the socket is taken before it:  *)
(* _b_close is set by then, and the two commute.                           *)
(***************************************************************************)
EXTENDS Integers, Sequences, FiniteSets

CONSTANTS
  Session, NoSession,
  Caller,               \* the threads that close sessions: a session's IO thread
                        \* has the name of the session
  Sender,               \* those that call Send
  Message, NoMessage,
  MaxSendQue            \* MAX_SENDQUE

ASSUME ConnectionAssumption ==
  /\ IsFiniteSet(Sender)
  /\ Session \cup Sender \subseteq Caller
  /\ NoSession \notin Session
  /\ NoMessage \notin Message
  /\ MaxSendQue \in Nat \ {0}

VARIABLES
  table,      \* CServer::_sessions: the connections the server knows of
  closed,     \* _b_close
  closing,    \* the sessions whose closing Close has posted to their io_context
  shut,       \* the socket has been closed
  cleaning,   \* the session for which each caller is in DealExceptionSession
  starting,   \* the sessions whose first read Start has posted to their io_context
  reading,    \* the sessions with an outstanding read
  writing,    \* the sessions with an outstanding write
  pending,    \* _pending_sends
  posted,     \* the SendOnIO tasks posted to the io_context of each session
  sendQue,    \* _send_que
  wire,       \* what has been written to each socket
  step,       \* of each sender in Send: "idle" | "post" | "reject" | "close"
  target,     \* the session it sends to
  outgoing    \* the message it sends

closeVars  == <<closed, closing, shut, cleaning>>
sendVars   == <<pending, posted, sendQue, writing, wire>>
readVars   == <<starting, reading>>
senderVars == <<step, target, outgoing>>
connectionVars == <<table, closeVars, readVars, sendVars, senderVars>>

ConnectionTypeOK ==
  /\ table \subseteq Session
  /\ closed \subseteq Session
  /\ closing \subseteq closed
  /\ shut \subseteq closed
  /\ cleaning \in [Caller -> Session \cup {NoSession}]
  /\ starting \subseteq Session
  /\ reading \subseteq Session
  /\ writing \subseteq Session
  /\ pending \in [Session -> Nat]
  /\ posted \in [Session -> Seq(Message)]
  /\ sendQue \in [Session -> Seq(Message)]
  /\ wire \in [Session -> Seq(Message)]
  /\ step \in [Sender -> {"idle", "post", "reject", "close"}]
  /\ target \in [Sender -> Session \cup {NoSession}]
  /\ outgoing \in [Sender -> Message \cup {NoMessage}]
  /\ \A t \in Sender : step[t] # "idle" => target[t] \in Session /\ outgoing[t] \in Message

ConnectionInit ==
  /\ table = {} /\ closed = {} /\ closing = {} /\ shut = {}
  /\ cleaning = [t \in Caller |-> NoSession]
  /\ starting = {} /\ reading = {} /\ writing = {}
  /\ pending = [s \in Session |-> 0]
  /\ posted = [s \in Session |-> <<>>]
  /\ sendQue = [s \in Session |-> <<>>]
  /\ wire = [s \in Session |-> <<>>]
  /\ step = [t \in Sender |-> "idle"]
  /\ target = [t \in Sender |-> NoSession]
  /\ outgoing = [t \in Sender |-> NoMessage]

-----------------------------------------------------------------------------
(* Closing.                                                                *)

\* Close: only the first call posts the closing of the socket.  Its place among
\* the SendOnIO tasks makes no difference, because those look at _b_close.
Close(s) ==
  /\ closed' = closed \cup {s}
  /\ closing' = IF s \in closed THEN closing ELSE closing \cup {s}

\* A failure is answered by Close and DealExceptionSession, which returns with
\* the session out of the table; the rest of it is in Presence.
Fail(t, s) ==
  /\ cleaning[t] = NoSession
  /\ Close(s)
  /\ cleaning' = [cleaning EXCEPT ![t] = s]

CleanedUp(t) ==
  /\ cleaning[t] # NoSession
  /\ table' = table \ {cleaning[t]}
  /\ cleaning' = [cleaning EXCEPT ![t] = NoSession]
  /\ UNCHANGED <<closed, closing, shut, readVars, sendVars, senderVars>>

\* Another thread does so: the timer to a silent client, CServer::Stop, or the
\* worker after an exception.
Abort(t, s) == Fail(t, s) /\ UNCHANGED <<table, shut, readVars, sendVars, senderVars>>

\* CServer::ClearSession by a kick: the connection itself stays open.
ClearSession(s) ==
  /\ table' = table \ {s}
  /\ UNCHANGED <<closeVars, readVars, sendVars, senderVars>>

\* The task Close has posted.
Shut(s) ==
  /\ s \in closing
  /\ closing' = closing \ {s}
  /\ shut' = shut \cup {s}
  /\ UNCHANGED <<table, closed, cleaning, readVars, sendVars, senderVars>>

-----------------------------------------------------------------------------
(* Reading.                                                                *)

\* HandleAccept: into the table first; then Start posts the first read.
Accept(s) ==
  /\ s \notin table \cup closed \cup starting \cup reading
  /\ table' = table \cup {s}
  /\ starting' = starting \cup {s}
  /\ UNCHANGED <<closeVars, reading, sendVars, senderVars>>

\* The task Start has posted: no read once the session has been closed.
StartRead(s) ==
  /\ s \in starting
  /\ starting' = starting \ {s}
  /\ reading' = IF s \in closed THEN reading ELSE reading \cup {s}
  /\ UNCHANGED <<table, closeVars, sendVars, senderVars>>

\* AsyncReadHead and AsyncReadBody with a whole frame of a session in the table:
\* the frame is handed on and the next read follows.
ReadFrame(s) ==
  /\ s \in reading \ shut
  /\ s \in table
  /\ UNCHANGED connectionVars

\* A session that has left the table is closed, and no more.
ReadUnregistered(s) ==
  /\ s \in reading \ (shut \cup table)
  /\ reading' = reading \ {s}
  /\ Close(s)
  /\ UNCHANGED <<table, shut, cleaning, starting, sendVars, senderVars>>

\* A read error or an invalid frame; always an error once the socket is closed.
ReadFailed(s) ==
  /\ s \in reading
  /\ reading' = reading \ {s}
  /\ Fail(s, s)
  /\ UNCHANGED <<table, shut, starting, sendVars, senderVars>>

-----------------------------------------------------------------------------
(* Send, by thread t.                                                      *)

SendIdle(t) ==
  /\ step' = [step EXCEPT ![t] = "idle"]
  /\ target' = [target EXCEPT ![t] = NoSession]
  /\ outgoing' = [outgoing EXCEPT ![t] = NoMessage]

\* Mutant of Overflow: only the messages that have reached _send_que count.
OverflowInQueue(s) == Len(sendQue[s]) >= MaxSendQue

\* The limit, against the count before this message.
Overflow(s) == pending[s] >= MaxSendQue

\* fetch_add and its result.  A closed session is sent nothing.
Send(t, s, m) ==
  /\ step[t] = "idle"
  /\ s \notin closed
  /\ pending' = [pending EXCEPT ![s] = @ + 1]
  /\ step' = [step EXCEPT ![t] = IF Overflow(s) THEN "reject" ELSE "post"]
  /\ target' = [target EXCEPT ![t] = s]
  /\ outgoing' = [outgoing EXCEPT ![t] = m]
  /\ UNCHANGED <<table, closeVars, readVars, posted, sendQue, writing, wire>>

SendPost(t) ==
  /\ step[t] = "post"
  /\ posted' = [posted EXCEPT ![target[t]] = Append(@, outgoing[t])]
  /\ SendIdle(t)
  /\ UNCHANGED <<table, closeVars, readVars, pending, sendQue, writing, wire>>

\* Mutant of SendReject: the message is dropped and the session stays open.
SendRejectSilently(t) ==
  /\ step[t] = "reject"
  /\ pending' = [pending EXCEPT ![target[t]] = @ - 1]
  /\ SendIdle(t)
  /\ UNCHANGED <<table, closeVars, readVars, posted, sendQue, writing, wire>>

\* fetch_sub of the message that has no place; then the session is closed.
SendReject(t) ==
  /\ step[t] = "reject"
  /\ pending' = [pending EXCEPT ![target[t]] = @ - 1]
  /\ step' = [step EXCEPT ![t] = "close"]
  /\ UNCHANGED <<table, closeVars, readVars, posted, sendQue, writing, wire,
                 target, outgoing>>

SendClose(t) ==
  /\ step[t] = "close"
  /\ Fail(t, target[t])
  /\ SendIdle(t)
  /\ UNCHANGED <<table, shut, readVars, sendVars>>

-----------------------------------------------------------------------------
(* Writing, on the io_context's thread.                                    *)

\* A message for a closed session gives its place back; the first one in the
\* queue starts a write, the others wait for HandleWrite.
SendOnIO(s) ==
  /\ posted[s] # <<>>
  /\ posted' = [posted EXCEPT ![s] = Tail(@)]
  /\ \/ /\ s \in closed
        /\ pending' = [pending EXCEPT ![s] = @ - 1]
        /\ UNCHANGED <<sendQue, writing>>
     \/ /\ s \notin closed
        /\ sendQue' = [sendQue EXCEPT ![s] = Append(@, Head(posted[s]))]
        /\ writing' = IF sendQue[s] = <<>> THEN writing \cup {s} ELSE writing
        /\ UNCHANGED pending
  /\ UNCHANGED <<table, closeVars, readVars, wire, senderVars>>

\* Mutant of WriteDone: a queue with one message left is taken for an empty one.
WriteDoneEarly(s) ==
  /\ s \in writing \ shut
  /\ wire' = [wire EXCEPT ![s] = Append(@, Head(sendQue[s]))]
  /\ sendQue' = [sendQue EXCEPT ![s] = Tail(@)]
  /\ pending' = [pending EXCEPT ![s] = @ - 1]
  /\ writing' = IF Len(sendQue[s]) > 2 /\ s \notin closed THEN writing ELSE writing \ {s}
  /\ UNCHANGED <<table, closeVars, readVars, posted, senderVars>>

\* HandleWrite after a success: the next write, unless the session is closed.
WriteDone(s) ==
  /\ s \in writing \ shut
  /\ wire' = [wire EXCEPT ![s] = Append(@, Head(sendQue[s]))]
  /\ sendQue' = [sendQue EXCEPT ![s] = Tail(@)]
  /\ pending' = [pending EXCEPT ![s] = @ - 1]
  /\ writing' = IF Tail(sendQue[s]) # <<>> /\ s \notin closed THEN writing ELSE writing \ {s}
  /\ UNCHANGED <<table, closeVars, readVars, posted, senderVars>>

\* Mutant of WriteFailed: the queue is dropped, its places are not given back.
WriteFailedKeepsCount(s) ==
  /\ s \in writing
  /\ Fail(s, s)
  /\ sendQue' = [sendQue EXCEPT ![s] = <<>>]
  /\ writing' = writing \ {s}
  /\ UNCHANGED <<table, shut, readVars, pending, posted, wire, senderVars>>

\* Mutant of WriteFailed: the count is reset, with SendOnIO tasks still to come.
WriteFailedResetsCount(s) ==
  /\ s \in writing
  /\ Fail(s, s)
  /\ pending' = [pending EXCEPT ![s] = 0]
  /\ sendQue' = [sendQue EXCEPT ![s] = <<>>]
  /\ writing' = writing \ {s}
  /\ UNCHANGED <<table, shut, readVars, posted, wire, senderVars>>

\* HandleWrite after an error: the socket was closed, or the peer is gone.
WriteFailed(s) ==
  /\ s \in writing
  /\ Fail(s, s)
  /\ pending' = [pending EXCEPT ![s] = @ - Len(sendQue[s])]
  /\ sendQue' = [sendQue EXCEPT ![s] = <<>>]
  /\ writing' = writing \ {s}
  /\ UNCHANGED <<table, shut, readVars, posted, wire, senderVars>>

-----------------------------------------------------------------------------
\* Nothing is left for the io_context to do for s: its run() may return.
Drained(s) == s \notin starting \cup reading \cup writing \cup closing /\ posted[s] = <<>>

\* The senders whose message holds a place in the count, and those whose message
\* keeps it.
Counted(s) == {t \in Sender : step[t] \in {"post", "reject"} /\ target[t] = s}
Admitted(s) == {t \in Sender : step[t] = "post" /\ target[t] = s}

\* _pending_sends counts every unfinished send exactly once, through overflows,
\* errors and closings at any step of any thread (CSession.cpp:83-84, 106, 130,
\* 136).
PendingIsExact ==
  \A s \in Session :
    pending[s] = Len(posted[s]) + Len(sendQue[s]) + Cardinality(Counted(s))

\* All the messages of a session in memory are within the limit, those still on
\* their way to the IO thread included (CSession.cpp:81).
SendsAreBounded ==
  \A s \in Session :
    Len(posted[s]) + Len(sendQue[s]) + Cardinality(Admitted(s)) <= MaxSendQue

\* One write at a time, and none missing: an open session is writing exactly
\* while its queue holds something, and a write has its buffer at the front.
OneWriteAtATime ==
  \A s \in Session :
    /\ s \in writing => sendQue[s] # <<>>
    /\ s \notin closed /\ sendQue[s] # <<>> => s \in writing
=============================================================================
