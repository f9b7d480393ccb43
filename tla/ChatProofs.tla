----------------------------- MODULE ChatProofs -----------------------------
(***************************************************************************)
(* The safety of ChatInstance for any number of sessions and any limits.   *)
(* The logic queue and the connections meet only in ChatInstance's         *)
(* actions, each of which is at most one step of either (Steps); so each   *)
(* has an inductive invariant of its own.  The order of the answers needs  *)
(* them together: the second half shows that the requests of a session     *)
(* stand in one line from the logic queue to the socket, and with it that  *)
(* ChatInstance implements OrderedReplies.                                 *)
(***************************************************************************)
EXTENDS ChatProps, FiniteSetTheorems, TLAPS

LogicNext ==
  \/ \E t \in Thread : (\E m \in Node : Post(t, m)) \/ Notify(t) \/ Stop(t)
  \/ WorkerNext \/ SpuriousWakeup \/ Done

ConnectionNext ==
  \/ \E s \in Session :
       \/ Shut(s) \/ Accept(s) \/ StartRead(s) \/ ClearSession(s)
       \/ ReadUnregistered(s) \/ ReadFailed(s)
       \/ SendOnIO(s) \/ WriteDone(s) \/ WriteFailed(s)
       \/ \E t \in Caller : Abort(t, s)
       \/ \E t \in Sender, m \in Message : Send(t, s, m)
  \/ \E t \in Sender : SendPost(t) \/ SendReject(t) \/ SendClose(t)
  \/ \E t \in Caller : CleanedUp(t)

-----------------------------------------------------------------------------
(* The logic queue.                                                        *)

QueueInv ==
  /\ LogicTypeOK
  /\ NoLostWakeup
  /\ DrainedAtExit
  /\ worker = "busy" <=> current # NoNode

\* The queue starts in order.
LEMMA QueueInit == LogicInit => QueueInv
<1> SUFFICES ASSUME LogicInit PROVE QueueInv
  OBVIOUS
<1>1. LogicTypeOK
  <2>1. que \in Seq(Node)
    BY DEF LogicInit
  <2>2. notifying \subseteq Thread
    BY DEF LogicInit
  <2> QED
    BY <2>1, <2>2 DEF LogicInit, LogicTypeOK
<1>2. worker = "check" /\ current = NoNode
  BY DEF LogicInit
<1> QED
  BY <1>1, <1>2 DEF QueueInv, NoLostWakeup, DrainedAtExit

\* No step of a poster, a notifier or the worker disturbs it.
LEMMA QueueStep ==
  ASSUME QueueInv, [LogicNext]_logicVars
  PROVE  QueueInv'
<1> USE LogicQueueAssumption
    DEF QueueInv, LogicTypeOK, NoLostWakeup, DrainedAtExit
<1>1. CASE \E t \in Thread : \E m \in Node : Post(t, m)
  <2> PICK t \in Thread, m \in Node : Post(t, m)
    BY <1>1
  <2>1. CASE Accepts
    BY <2>1 DEF Post, Accepts
  <2>2. CASE ~ Accepts
    BY <2>2 DEF Post
  <2> QED
    BY <2>1, <2>2
<1>2. CASE \E t \in Thread : Notify(t)
  BY <1>2 DEF Notify
<1>3. CASE \E t \in Thread : Stop(t)
  BY <1>3 DEF Stop
<1>4. CASE Wait
  BY <1>4 DEF Wait
<1>5. CASE SpuriousWakeup
  BY <1>5 DEF SpuriousWakeup
<1>6. CASE Take
  BY <1>6 DEF Take
<1>7. CASE Done
  BY <1>7 DEF Done
<1>8. CASE Exit
  BY <1>8 DEF Exit
<1>9. CASE UNCHANGED logicVars
  BY <1>9 DEF logicVars
<1> QED
  BY <1>1, <1>2, <1>3, <1>4, <1>5, <1>6, <1>7, <1>8, <1>9 DEF LogicNext, WorkerNext

-----------------------------------------------------------------------------
(* The connections.  The type of the count is a consequence of its         *)
(* exactness, so the induction starts from an integer.                     *)

Shape ==
  /\ table \subseteq Session
  /\ closed \subseteq Session /\ closing \subseteq closed /\ shut \subseteq closed
  /\ cleaning \in [Caller -> Session \cup {NoSession}]
  /\ starting \subseteq Session /\ reading \subseteq Session /\ writing \subseteq Session
  /\ pending \in [Session -> Int]
  /\ posted \in [Session -> Seq(Message)]
  /\ sendQue \in [Session -> Seq(Message)]
  /\ wire \in [Session -> Seq(Message)]
  /\ step \in [Sender -> {"idle", "post", "reject", "close"}]
  /\ target \in [Sender -> Session \cup {NoSession}]
  /\ outgoing \in [Sender -> Message \cup {NoMessage}]
  /\ \A t \in Sender : step[t] # "idle" => target[t] \in Session /\ outgoing[t] \in Message

\* The sizes the accounting is about.
Posted(s) == Len(posted[s])
Queued(s) == Len(sendQue[s])
Holding(s) == Cardinality(Counted(s))
Posting(s) == Cardinality(Admitted(s))

Balanced ==
  \A s \in Session :
    /\ pending[s] = Posted(s) + Queued(s) + Holding(s)
    /\ Posted(s) + Queued(s) + Posting(s) <= MaxSendQue

ConnectionInv ==
  /\ Shape
  /\ Balanced
  /\ OneWriteAtATime

\* Balanced says what the two checked invariants say together.
LEMMA BalancedMeans == Balanced <=> PendingIsExact /\ SendsAreBounded
  BY DEF Balanced, PendingIsExact, SendsAreBounded, Posted, Queued, Holding, Posting

\* The senders are finitely many, and only those in Send hold a place.
LEMMA SendersFinite ==
  ASSUME NEW s \in Session
  PROVE  /\ IsFiniteSet(Counted(s)) /\ Holding(s) \in Nat
         /\ IsFiniteSet(Admitted(s)) /\ Posting(s) \in Nat
         /\ Posting(s) <= Holding(s)
<1>1. Counted(s) \subseteq Sender /\ Admitted(s) \subseteq Counted(s)
  BY DEF Counted, Admitted
<1>2. IsFiniteSet(Sender)
  BY ConnectionAssumption
<1>3. IsFiniteSet(Counted(s))
  BY <1>1, <1>2, FS_Subset
<1>4. IsFiniteSet(Admitted(s)) /\ Cardinality(Admitted(s)) <= Cardinality(Counted(s))
  BY <1>1, <1>3, FS_Subset
<1> QED
  BY <1>3, <1>4, FS_CardinalityType DEF Holding, Posting

\* All the sizes are natural numbers.
LEMMA Sizes ==
  ASSUME Shape, NEW s \in Session
  PROVE  /\ Posted(s) \in Nat /\ Queued(s) \in Nat
         /\ Holding(s) \in Nat /\ Posting(s) \in Nat /\ Posting(s) <= Holding(s)
  BY SendersFinite DEF Shape, Posted, Queued

\* The count is a natural number: the type the runs check.
LEMMA CountIsNatural ==
  ASSUME Shape, Balanced
  PROVE  ConnectionTypeOK
<1>1. ASSUME NEW s \in Session PROVE pending[s] \in Nat
  BY Sizes DEF Balanced
<1> QED
  BY <1>1 DEF Shape, ConnectionTypeOK

\* Nothing is counted before the first connection.
LEMMA ConnectionStart == ConnectionInit => ConnectionInv
<1> SUFFICES ASSUME ConnectionInit PROVE ConnectionInv
  OBVIOUS
<1> USE DEF ConnectionInit
<1>1. /\ posted \in [Session -> Seq(Message)] /\ sendQue \in [Session -> Seq(Message)]
      /\ wire \in [Session -> Seq(Message)]
  OBVIOUS
<1>2. Shape
  BY <1>1 DEF Shape
<1>3. ASSUME NEW s \in Session
      PROVE  /\ Posted(s) = 0 /\ Queued(s) = 0 /\ pending[s] = 0
             /\ Holding(s) = 0 /\ Posting(s) = 0
  <2>1. Counted(s) = {} /\ Admitted(s) = {}
    BY DEF Counted, Admitted
  <2>2. Holding(s) = 0 /\ Posting(s) = 0
    BY <2>1, FS_EmptySet DEF Holding, Posting
  <2> QED
    BY <2>2 DEF Posted, Queued
<1>4. MaxSendQue \in Nat
  BY ConnectionAssumption
<1>5. Balanced
  BY <1>3, <1>4 DEF Balanced
<1>6. OneWriteAtATime
  BY DEF OneWriteAtATime
<1> QED
  BY <1>2, <1>5, <1>6 DEF ConnectionInv

\* What the senders hold depends on the senders alone.
LEMMA SendersIdle ==
  ASSUME UNCHANGED senderVars, NEW s \in Session
  PROVE  Holding(s)' = Holding(s) /\ Posting(s)' = Posting(s)
<1>1. Counted(s)' = Counted(s) /\ Admitted(s)' = Admitted(s)
  BY DEF senderVars, Counted, Admitted
<1> QED
  BY <1>1 DEF Holding, Posting

\* Steps that neither send nor write keep the accounting.
LEMMA QuietStep ==
  ASSUME ConnectionInv, Shape', UNCHANGED <<sendVars, senderVars>>, closed \subseteq closed'
  PROVE  ConnectionInv'
<1>1. \A s \in Session : /\ Posted(s)' = Posted(s) /\ Queued(s)' = Queued(s)
                         /\ Holding(s)' = Holding(s) /\ Posting(s)' = Posting(s)
  BY SendersIdle DEF sendVars, Posted, Queued
<1>2. Balanced'
  BY <1>1 DEF ConnectionInv, Balanced, sendVars
<1>3. OneWriteAtATime'
  BY DEF ConnectionInv, OneWriteAtATime, sendVars
<1> QED
  BY <1>2, <1>3 DEF ConnectionInv

\* A posted message is queued, or gives its place back.
LEMMA SendOnIOInv ==
  ASSUME ConnectionInv, NEW s \in Session, SendOnIO(s)
  PROVE  ConnectionInv'
<1> USE DEF ConnectionInv
<1>1. \A x \in Session : Holding(x)' = Holding(x) /\ Posting(x)' = Posting(x)
  BY SendersIdle DEF SendOnIO
<1>2. /\ posted[s] \in Seq(Message) /\ posted[s] # <<>> /\ sendQue[s] \in Seq(Message)
      /\ Head(posted[s]) \in Message /\ Tail(posted[s]) \in Seq(Message)
      /\ Len(Tail(posted[s])) = Len(posted[s]) - 1
  BY DEF SendOnIO, Shape
<1>3. /\ posted' = [posted EXCEPT ![s] = Tail(@)]
      /\ UNCHANGED <<table, closed, closing, shut, cleaning, starting, reading, wire,
                     step, target, outgoing>>
  BY DEF SendOnIO, closeVars, readVars, senderVars
<1>4. /\ Posted(s)' = Posted(s) - 1
      /\ \A x \in Session \ {s} : Posted(x)' = Posted(x)
  BY <1>2, <1>3 DEF Posted, Shape
<1>5. \A x \in Session : Posted(x) \in Nat /\ Queued(x) \in Nat /\ Holding(x) \in Nat
                         /\ Posting(x) \in Nat
  BY Sizes
<1>6. CASE /\ s \in closed
           /\ pending' = [pending EXCEPT ![s] = @ - 1]
           /\ UNCHANGED <<sendQue, writing>>
  <2>1. Shape'
    BY <1>2, <1>3, <1>6 DEF Shape
  <2>2. \A x \in Session : Queued(x)' = Queued(x)
    BY <1>6 DEF Queued
  <2>3. /\ pending'[s] = pending[s] - 1
        /\ \A x \in Session \ {s} : pending'[x] = pending[x]
    BY <1>6 DEF Shape
  <2>4. Balanced'
    BY <1>1, <1>4, <1>5, <2>2, <2>3, ConnectionAssumption DEF Balanced
  <2>5. OneWriteAtATime'
    BY <1>3, <1>6 DEF OneWriteAtATime
  <2> QED
    BY <2>1, <2>4, <2>5
<1>7. CASE /\ s \notin closed
           /\ sendQue' = [sendQue EXCEPT ![s] = Append(@, Head(posted[s]))]
           /\ writing' = IF sendQue[s] = <<>> THEN writing \cup {s} ELSE writing
           /\ UNCHANGED pending
  <2>1. /\ sendQue' \in [Session -> Seq(Message)]
        /\ sendQue'[s] # <<>> /\ Len(sendQue'[s]) = Len(sendQue[s]) + 1
        /\ \A x \in Session \ {s} : sendQue'[x] = sendQue[x]
    BY <1>2, <1>7 DEF Shape
  <2>2. Shape'
    BY <1>2, <1>3, <1>7, <2>1 DEF Shape
  <2>3. /\ Queued(s)' = Queued(s) + 1
        /\ \A x \in Session \ {s} : Queued(x)' = Queued(x)
    BY <2>1 DEF Queued
  <2>4. Balanced'
    <3>1. pending' = pending
      BY <1>7
    <3> QED
      BY <1>1, <1>4, <1>5, <2>3, <3>1 DEF Balanced
  <2>5. OneWriteAtATime'
    BY <1>3, <1>7, <2>1 DEF OneWriteAtATime
  <2> QED
    BY <2>2, <2>4, <2>5
<1> QED
  BY <1>6, <1>7 DEF SendOnIO

\* A written message leaves the queue and the count.
LEMMA WriteDoneInv ==
  ASSUME ConnectionInv, NEW s \in Session, WriteDone(s)
  PROVE  ConnectionInv'
<1> USE DEF ConnectionInv
<1>1. \A x \in Session : Holding(x)' = Holding(x) /\ Posting(x)' = Posting(x)
  BY SendersIdle DEF WriteDone
<1>2. /\ sendQue[s] \in Seq(Message) /\ sendQue[s] # <<>> /\ wire[s] \in Seq(Message)
      /\ Head(sendQue[s]) \in Message /\ Tail(sendQue[s]) \in Seq(Message)
      /\ Len(Tail(sendQue[s])) = Len(sendQue[s]) - 1
      /\ Append(wire[s], Head(sendQue[s])) \in Seq(Message)
  BY DEF WriteDone, Shape, OneWriteAtATime
<1>3. /\ sendQue' = [sendQue EXCEPT ![s] = Tail(@)]
      /\ wire' = [wire EXCEPT ![s] = Append(@, Head(sendQue[s]))]
      /\ pending' = [pending EXCEPT ![s] = @ - 1]
      /\ writing' = IF Tail(sendQue[s]) # <<>> /\ s \notin closed
                    THEN writing ELSE writing \ {s}
      /\ UNCHANGED <<table, closed, closing, shut, cleaning, starting, reading, posted,
                     step, target, outgoing>>
  BY DEF WriteDone, closeVars, readVars, senderVars
<1>4. Shape'
  BY <1>2, <1>3 DEF Shape
<1>5. /\ Queued(s)' = Queued(s) - 1
      /\ \A x \in Session \ {s} : Queued(x)' = Queued(x)
  BY <1>2, <1>3 DEF Queued, Shape
<1>6. \A x \in Session : /\ Posted(x)' = Posted(x)
                         /\ Posted(x) \in Nat /\ Queued(x) \in Nat
                         /\ Holding(x) \in Nat /\ Posting(x) \in Nat
  BY <1>3, Sizes DEF Posted
<1>7. /\ pending'[s] = pending[s] - 1
      /\ \A x \in Session \ {s} : pending'[x] = pending[x]
  BY <1>3 DEF Shape
<1>8. Balanced'
  BY <1>1, <1>5, <1>6, <1>7, ConnectionAssumption DEF Balanced
<1>9. OneWriteAtATime'
  BY <1>2, <1>3 DEF OneWriteAtATime, Shape
<1> QED
  BY <1>4, <1>8, <1>9

\* A failed write takes the whole queue off the count.
LEMMA WriteFailedInv ==
  ASSUME ConnectionInv, NEW s \in Session, WriteFailed(s)
  PROVE  ConnectionInv'
<1> USE DEF ConnectionInv
<1>1. \A x \in Session : Holding(x)' = Holding(x) /\ Posting(x)' = Posting(x)
  BY SendersIdle DEF WriteFailed
<1>2. s \in Caller
  BY ConnectionAssumption
<1>3. /\ sendQue' = [sendQue EXCEPT ![s] = <<>>]
      /\ pending' = [pending EXCEPT ![s] = @ - Len(sendQue[s])]
      /\ writing' = writing \ {s}
      /\ closed' = closed \cup {s}
      /\ closing' = IF s \in closed THEN closing ELSE closing \cup {s}
      /\ cleaning' = [cleaning EXCEPT ![s] = s]
      /\ UNCHANGED <<table, shut, starting, reading, posted, wire, step, target, outgoing>>
  BY DEF WriteFailed, Fail, Close, readVars, senderVars
<1>4. Len(sendQue[s]) \in Nat /\ <<>> \in Seq(Message)
  BY DEF Shape
<1>5. Shape'
  BY <1>2, <1>3, <1>4 DEF Shape
<1>6. /\ Queued(s)' = 0
      /\ \A x \in Session \ {s} : Queued(x)' = Queued(x)
  BY <1>3 DEF Queued, Shape
<1>7. \A x \in Session : /\ Posted(x)' = Posted(x)
                         /\ Posted(x) \in Nat /\ Queued(x) \in Nat
                         /\ Holding(x) \in Nat /\ Posting(x) \in Nat
  BY <1>3, Sizes DEF Posted
<1>8. /\ pending'[s] = pending[s] - Queued(s)
      /\ \A x \in Session \ {s} : pending'[x] = pending[x]
  BY <1>3 DEF Shape, Queued
<1>9. Balanced'
  BY <1>1, <1>6, <1>7, <1>8, ConnectionAssumption DEF Balanced
<1>10. OneWriteAtATime'
  BY <1>3 DEF OneWriteAtATime, Shape
<1> QED
  BY <1>5, <1>9, <1>10

-----------------------------------------------------------------------------
(* Send.                                                                   *)

\* fetch_add: a place for the message, admitted if the count was below the limit.
LEMMA SendInv ==
  ASSUME ConnectionInv, NEW s \in Session, NEW t \in Sender, NEW m \in Message,
         Send(t, s, m)
  PROVE  ConnectionInv'
<1> USE DEF ConnectionInv
<1>1. /\ step[t] = "idle" /\ s \notin closed
      /\ pending' = [pending EXCEPT ![s] = @ + 1]
      /\ step' = [step EXCEPT ![t] = IF Overflow(s) THEN "reject" ELSE "post"]
      /\ target' = [target EXCEPT ![t] = s]
      /\ outgoing' = [outgoing EXCEPT ![t] = m]
      /\ UNCHANGED <<table, closed, closing, shut, cleaning, starting, reading, posted,
                     sendQue, writing, wire>>
  BY DEF Send, closeVars, readVars
<1>2. Shape'
  BY <1>1 DEF Shape
<1>3. /\ Counted(s)' = Counted(s) \cup {t} /\ t \notin Counted(s)
      /\ \A x \in Session \ {s} : Counted(x)' = Counted(x)
  BY <1>1 DEF Counted, Shape
<1>4. /\ Admitted(s)' = IF Overflow(s) THEN Admitted(s) ELSE Admitted(s) \cup {t}
      /\ t \notin Admitted(s)
      /\ \A x \in Session \ {s} : Admitted(x)' = Admitted(x)
  BY <1>1 DEF Admitted, Shape
<1>5. /\ Holding(s)' = Holding(s) + 1
      /\ \A x \in Session \ {s} : Holding(x)' = Holding(x)
  BY <1>3, SendersFinite, FS_AddElement DEF Holding
<1>6. /\ Posting(s)' = IF Overflow(s) THEN Posting(s) ELSE Posting(s) + 1
      /\ \A x \in Session \ {s} : Posting(x)' = Posting(x)
  BY <1>4, SendersFinite, FS_AddElement DEF Posting
<1>7. \A x \in Session : /\ Posted(x)' = Posted(x) /\ Queued(x)' = Queued(x)
                         /\ Posted(x) \in Nat /\ Queued(x) \in Nat
                         /\ Holding(x) \in Nat /\ Posting(x) \in Nat /\ Posting(x) <= Holding(x)
  BY <1>1, Sizes DEF Posted, Queued
<1>8. /\ pending'[s] = pending[s] + 1
      /\ \A x \in Session \ {s} : pending'[x] = pending[x]
  BY <1>1 DEF Shape
<1>9. MaxSendQue \in Nat
  BY ConnectionAssumption
<1>10. Balanced'
  BY <1>5, <1>6, <1>7, <1>8, <1>9 DEF Balanced, Overflow
<1>11. OneWriteAtATime'
  BY <1>1 DEF OneWriteAtATime
<1> QED
  BY <1>2, <1>10, <1>11

\* The place passes from the sender to the posted task.
LEMMA SendPostInv ==
  ASSUME ConnectionInv, NEW t \in Sender, SendPost(t)
  PROVE  ConnectionInv'
<1> USE DEF ConnectionInv
<1> PICK s \in Session : s = target[t]
  BY DEF SendPost, Shape
<1>1. /\ step[t] = "post" /\ s = target[t] /\ outgoing[t] \in Message
      /\ posted' = [posted EXCEPT ![s] = Append(@, outgoing[t])]
      /\ step' = [step EXCEPT ![t] = "idle"]
      /\ target' = [target EXCEPT ![t] = NoSession]
      /\ outgoing' = [outgoing EXCEPT ![t] = NoMessage]
      /\ UNCHANGED <<table, closed, closing, shut, cleaning, starting, reading, pending,
                     sendQue, writing, wire>>
  BY DEF SendPost, SendIdle, closeVars, readVars, Shape
<1>2. /\ Append(posted[s], outgoing[t]) \in Seq(Message)
      /\ Len(Append(posted[s], outgoing[t])) = Len(posted[s]) + 1
  BY <1>1 DEF Shape
<1>3. Shape'
  BY <1>1, <1>2 DEF Shape
<1>4. /\ Counted(s)' = Counted(s) \ {t} /\ t \in Counted(s)
      /\ \A x \in Session \ {s} : Counted(x)' = Counted(x)
  BY <1>1, ConnectionAssumption DEF Counted, Shape
<1>5. /\ Admitted(s)' = Admitted(s) \ {t} /\ t \in Admitted(s)
      /\ \A x \in Session \ {s} : Admitted(x)' = Admitted(x)
  BY <1>1, ConnectionAssumption DEF Admitted, Shape
<1>6. /\ Holding(s)' = Holding(s) - 1
      /\ \A x \in Session \ {s} : Holding(x)' = Holding(x)
  BY <1>1, <1>4, SendersFinite, FS_RemoveElement DEF Holding
<1>7. /\ Posting(s)' = Posting(s) - 1
      /\ \A x \in Session \ {s} : Posting(x)' = Posting(x)
  BY <1>1, <1>5, SendersFinite, FS_RemoveElement DEF Posting
<1>8. /\ Posted(s)' = Posted(s) + 1
      /\ \A x \in Session \ {s} : Posted(x)' = Posted(x)
  BY <1>1, <1>2 DEF Posted, Shape
<1>9. \A x \in Session : /\ Queued(x)' = Queued(x) /\ pending'[x] = pending[x]
                         /\ Posted(x) \in Nat /\ Queued(x) \in Nat
                         /\ Holding(x) \in Nat /\ Posting(x) \in Nat
  BY <1>1, Sizes DEF Queued
<1>10. Balanced'
  BY <1>6, <1>7, <1>8, <1>9 DEF Balanced
<1>11. OneWriteAtATime'
  BY <1>1 DEF OneWriteAtATime
<1> QED
  BY <1>3, <1>10, <1>11

\* fetch_sub of a rejected message.
LEMMA SendRejectInv ==
  ASSUME ConnectionInv, NEW t \in Sender, SendReject(t)
  PROVE  ConnectionInv'
<1> USE DEF ConnectionInv
<1> PICK s \in Session : s = target[t]
  BY DEF SendReject, Shape
<1>1. /\ step[t] = "reject" /\ s = target[t]
      /\ pending' = [pending EXCEPT ![s] = @ - 1]
      /\ step' = [step EXCEPT ![t] = "close"]
      /\ UNCHANGED <<table, closed, closing, shut, cleaning, starting, reading, posted,
                     sendQue, writing, wire, target, outgoing>>
  BY DEF SendReject, closeVars, readVars, Shape
<1>2. Shape'
  BY <1>1 DEF Shape
<1>3. /\ Counted(s)' = Counted(s) \ {t} /\ t \in Counted(s)
      /\ \A x \in Session \ {s} : Counted(x)' = Counted(x)
      /\ \A x \in Session : Admitted(x)' = Admitted(x)
  BY <1>1 DEF Counted, Admitted, Shape
<1>4. /\ Holding(s)' = Holding(s) - 1
      /\ \A x \in Session \ {s} : Holding(x)' = Holding(x)
      /\ \A x \in Session : Posting(x)' = Posting(x)
  BY <1>1, <1>3, SendersFinite, FS_RemoveElement DEF Holding, Posting
<1>5. /\ pending'[s] = pending[s] - 1
      /\ \A x \in Session \ {s} : pending'[x] = pending[x]
  BY <1>1 DEF Shape
<1>6. \A x \in Session : /\ Posted(x)' = Posted(x) /\ Queued(x)' = Queued(x)
                         /\ Posted(x) \in Nat /\ Queued(x) \in Nat
                         /\ Holding(x) \in Nat /\ Posting(x) \in Nat
  BY <1>1, Sizes DEF Posted, Queued
<1>7. Balanced'
  BY <1>4, <1>5, <1>6 DEF Balanced
<1>8. OneWriteAtATime'
  BY <1>1 DEF OneWriteAtATime
<1> QED
  BY <1>2, <1>7, <1>8

\* The rejected sender closes the session and is done.
LEMMA SendCloseInv ==
  ASSUME ConnectionInv, NEW t \in Sender, SendClose(t)
  PROVE  ConnectionInv'
<1> USE DEF ConnectionInv
<1> PICK s \in Session : s = target[t]
  BY DEF SendClose, Shape
<1>1. /\ step[t] = "close" /\ s = target[t] /\ t \in Caller
      /\ closed' = closed \cup {s}
      /\ closing' = IF s \in closed THEN closing ELSE closing \cup {s}
      /\ cleaning' = [cleaning EXCEPT ![t] = s]
      /\ step' = [step EXCEPT ![t] = "idle"]
      /\ target' = [target EXCEPT ![t] = NoSession]
      /\ outgoing' = [outgoing EXCEPT ![t] = NoMessage]
      /\ UNCHANGED <<table, shut, starting, reading, pending, posted, sendQue, writing, wire>>
  BY ConnectionAssumption DEF SendClose, SendIdle, Fail, Close, readVars, sendVars, Shape
<1>2. Shape'
  BY <1>1 DEF Shape
<1>3. \A x \in Session : Counted(x)' = Counted(x) /\ Admitted(x)' = Admitted(x)
  BY <1>1 DEF Counted, Admitted, Shape
<1>4. \A x \in Session : /\ Holding(x)' = Holding(x) /\ Posting(x)' = Posting(x)
                         /\ Posted(x)' = Posted(x) /\ Queued(x)' = Queued(x)
                         /\ pending'[x] = pending[x]
  BY <1>1, <1>3 DEF Holding, Posting, Posted, Queued
<1>5. Balanced'
  BY <1>4 DEF Balanced
<1>6. OneWriteAtATime'
  BY <1>1 DEF OneWriteAtATime
<1> QED
  BY <1>2, <1>5, <1>6

-----------------------------------------------------------------------------
\* No step of any thread on any connection disturbs the accounting.
LEMMA ConnectionStep ==
  ASSUME ConnectionInv, [ConnectionNext]_connectionVars
  PROVE  ConnectionInv'
<1> USE ConnectionAssumption DEF ConnectionInv
<1>1. ASSUME NEW s \in Session,
             Shut(s) \/ Accept(s) \/ StartRead(s) \/ ClearSession(s)
               \/ ReadUnregistered(s) \/ ReadFailed(s) \/ (\E t \in Caller : Abort(t, s))
      PROVE  ConnectionInv'
  <2>1. Shape' /\ UNCHANGED <<sendVars, senderVars>> /\ closed \subseteq closed'
    <3> USE DEF Shape, sendVars, senderVars, closeVars, readVars
    <3>1. CASE Shut(s)
      BY <3>1 DEF Shut
    <3>2. CASE Accept(s)
      BY <3>2 DEF Accept
    <3>3. CASE StartRead(s)
      BY <3>3 DEF StartRead
    <3>4. CASE ClearSession(s)
      BY <3>4 DEF ClearSession
    <3>5. CASE ReadUnregistered(s)
      BY <3>5 DEF ReadUnregistered, Close
    <3>6. CASE ReadFailed(s)
      BY <3>6 DEF ReadFailed, Fail, Close
    <3>7. CASE \E t \in Caller : Abort(t, s)
      BY <3>7 DEF Abort, Fail, Close
    <3> QED
      BY <1>1, <3>1, <3>2, <3>3, <3>4, <3>5, <3>6, <3>7
  <2> QED
    BY <2>1, QuietStep
<1>2. ASSUME NEW t \in Caller, CleanedUp(t)
      PROVE  ConnectionInv'
  <2>1. Shape' /\ UNCHANGED <<sendVars, senderVars>> /\ closed \subseteq closed'
    BY <1>2 DEF CleanedUp, Shape, sendVars, senderVars, readVars
  <2> QED
    BY <2>1, QuietStep
<1>3. CASE UNCHANGED connectionVars
  <2>1. Shape' /\ UNCHANGED <<sendVars, senderVars>> /\ closed \subseteq closed'
    BY <1>3 DEF connectionVars, Shape, sendVars, senderVars, readVars, closeVars
  <2> QED
    BY <2>1, QuietStep
<1> QED
  BY <1>1, <1>2, <1>3, SendOnIOInv, WriteDoneInv, WriteFailedInv, SendInv, SendPostInv,
     SendRejectInv, SendCloseInv DEF ConnectionNext

-----------------------------------------------------------------------------
(* The instance.  What main relies on when it stops: after Shutdown no     *)
(* call is being handled, the worker leaves only between two requests,     *)
(* and neither leaves anything half done.                                  *)

InstanceInv ==
  /\ asked \in [Session -> 0..MaxRequests]
  /\ pushes \in 0..MaxPushes
  /\ stage \in {"taken", "handling", "answered"}
  /\ busyRpc \in BOOLEAN
  /\ victim \in [Sender -> Session \cup {NoSession}]
  /\ phase \in Phase
  /\ toClose \subseteq Session
  /\ phase \notin {"serve", "rpc"} => ~ busyRpc
  /\ ~ busyRpc => Free(Rpc)
  /\ worker # "busy" => stage = "taken"
  /\ stage = "taken" => Free(Worker)
  /\ phase \in {"close", "drain", "exited"} => worker = "exited"

IInv == QueueInv /\ ConnectionInv /\ InstanceInv

\* A step of the instance is at most one step of the logic queue and at most one
\* of the connections.
LEMMA Steps ==
  ASSUME IInv, [Next]_vars
  PROVE  [LogicNext]_logicVars /\ [ConnectionNext]_connectionVars
<1> USE DEF ConnectionNext, LogicNext
<1>1. Worker \in Sender /\ Rpc \in Sender /\ Worker \in Caller /\ Rpc \in Caller
      /\ Main \in Thread /\ Main \in Caller /\ Session \subseteq Thread
      /\ Session \subseteq Caller
  BY ChatInstanceAssumption
<1>2. Push \in Message /\ Offline \in Message
  BY ChatInstanceAssumption DEF Push, Offline
<1>3. ASSUME NEW s \in Session, Io(s)
      PROVE  [LogicNext]_logicVars /\ [ConnectionNext]_connectionVars
  <2>1. CASE FrameArrives(s)
    <3>1. asked[s] + 1 \in 1..MaxRequests
      BY <2>1, ChatInstanceAssumption DEF FrameArrives, IInv, InstanceInv
    <3>2. <<s, asked[s] + 1>> \in Node
      BY <3>1, ChatInstanceAssumption
    <3> QED
      BY <1>1, <2>1, <3>2 DEF FrameArrives, ReadFrame
  <2>2. CASE NotifyWorker(s)
    BY <1>1, <2>2 DEF NotifyWorker
  <2>3. CASE CleanUp(s)
    BY <1>1, <2>3 DEF CleanUp
  <2>4. CASE IoStep(s)
    BY <2>4 DEF IoStep
  <2> QED
    BY <1>3, <2>1, <2>2, <2>3, <2>4 DEF Io
<1>4. ASSUME NEW t \in Sender, SendStep(t) \/ ClearVictim(t) \/ CleanUp(t)
      PROVE  [LogicNext]_logicVars /\ [ConnectionNext]_connectionVars
  <2>1. CASE SendStep(t)
    BY <2>1 DEF SendStep
  <2>2. CASE ClearVictim(t)
    BY <2>2 DEF ClearVictim, IInv, InstanceInv
  <2>3. CASE CleanUp(t)
    BY <2>3, ConnectionAssumption DEF CleanUp
  <2> QED
    BY <1>4, <2>1, <2>2, <2>3
<1>5. ASSUME NEW t \in Sender, NEW s \in Session, PushTo(t, s) \/ KickOut(t, s)
      PROVE  [ConnectionNext]_connectionVars
  BY <1>2, <1>5 DEF PushTo, KickOut
<1>6. CASE WorkerStep
  <2>1. CASE Waiting
    BY <2>1 DEF Waiting
  <2>2. CASE WorkerDrop
    BY <2>2 DEF WorkerDrop
  <2>3. CASE WorkerHandle
    BY <2>3 DEF WorkerHandle
  <2>4. CASE WorkerAnswer
    <3>1. current[1] \in Session /\ current[2] \in Message
      BY <2>4, ChatInstanceAssumption
      DEF WorkerAnswer, IInv, QueueInv, LogicTypeOK, InstanceInv, Offline
    <3> QED
      BY <1>1, <2>4, <3>1 DEF WorkerAnswer
  <2>5. CASE WorkerThrow
    <3>1. current[1] \in Session
      BY <2>5, ChatInstanceAssumption
      DEF WorkerThrow, IInv, QueueInv, LogicTypeOK
    <3> QED
      BY <1>1, <2>5, <3>1 DEF WorkerThrow
  <2>6. CASE WorkerDone
    BY <2>6 DEF WorkerDone
  <2> QED
    BY <1>1, <1>4, <1>6, <2>1, <2>2, <2>3, <2>4, <2>5, <2>6 DEF WorkerStep
<1>7. CASE RpcStep
  BY <1>1, <1>4, <1>7 DEF RpcStep, RpcEnd
<1>8. CASE MainStep
  <2>1. CASE RpcDown \/ Joined \/ StopAfterDrain \/ ExitMain
    BY <2>1 DEF RpcDown, Joined, StopAfterDrain, ExitMain
  <2>2. CASE StopLogic
    BY <1>1, <2>2 DEF StopLogic
  <2>3. CASE NotifyWorker(Main)
    BY <1>1, <2>3 DEF NotifyWorker
  <2>4. CASE CleanUp(Main)
    BY <1>1, <2>4 DEF CleanUp
  <2>5. CASE \E s \in Session : StopSession(s)
    BY <1>1, <2>5 DEF StopSession
  <2> QED
    BY <1>8, <2>1, <2>2, <2>3, <2>4, <2>5 DEF MainStep
<1>9. CASE Environment
  <2>1. CASE Signal
    BY <2>1 DEF Signal
  <2>2. CASE SpuriousWakeup /\ UNCHANGED <<connectionVars, instanceVars>>
    BY <2>2
  <2>3. ASSUME NEW s \in Session, Connect(s) \/ Expired(s) \/ ClientGone(s) \/ ClientRejected(s)
        PROVE  [LogicNext]_logicVars /\ [ConnectionNext]_connectionVars
    BY <1>1, <2>3 DEF Connect, Expired, ClientGone, ClientRejected
  <2>4. ASSUME NEW s \in Session, RpcBegin(s) \/ WorkerReaches(s)
        PROVE  [LogicNext]_logicVars /\ [ConnectionNext]_connectionVars
    BY <1>1, <1>5, <2>4 DEF RpcBegin, WorkerReaches
  <2> QED
    BY <1>9, <2>1, <2>2, <2>3, <2>4 DEF Environment
<1>10. CASE UNCHANGED vars
  BY <1>10 DEF vars
<1> QED
  BY <1>3, <1>6, <1>7, <1>8, <1>9, <1>10 DEF Next

\* The part of main, the worker and the gRPC service.
LEMMA InstanceStep ==
  ASSUME IInv, [Next]_vars
  PROVE  InstanceInv'
<1> USE DEF InstanceInv, Free, OutOfSend
<1>1. InstanceInv /\ Shape /\ QueueInv
  BY DEF IInv, ConnectionInv
<1>2. /\ Worker \in Sender /\ Rpc \in Sender /\ Worker # Rpc
      /\ Worker \notin Thread /\ Rpc \notin Thread
      /\ Main \in Thread /\ Session \subseteq Thread
      /\ Thread \subseteq Caller /\ Sender \subseteq Caller
  BY ChatInstanceAssumption
<1>3. ASSUME NEW s \in Session, Io(s)
      PROVE  InstanceInv'
  <2> USE <1>1, <1>2
  <2>1. CASE FrameArrives(s)
    <3>1. asked' \in [Session -> 0..MaxRequests]
      BY <2>1, ChatInstanceAssumption DEF FrameArrives
    <3> QED
      BY <2>1, <3>1
      DEF FrameArrives, ReadFrame, Post, connectionVars, closeVars, senderVars
  <2>2. CASE NotifyWorker(s)
    BY <2>2 DEF NotifyWorker, Notify, instanceVars, connectionVars, closeVars, senderVars,
                QueueInv, DrainedAtExit
  <2>3. CASE CleanUp(s)
    BY <2>3 DEF CleanUp, CleanedUp, instanceVars, logicVars, senderVars
  <2>4. CASE IoStep(s)
    <3>1. /\ UNCHANGED <<step, worker, asked, pushes, stage, busyRpc, victim, phase, toClose>>
          /\ cleaning' = cleaning \/ cleaning' = [cleaning EXCEPT ![s] = s]
      BY <2>4 DEF IoStep, instanceVars, logicVars, senderVars, StartRead, ReadFailed, Shut,
                  SendOnIO, WriteDone, WriteFailed, Fail, closeVars
    <3>2. s \notin Sender \cup {Main}
      BY ChatInstanceAssumption
    <3>3. \A u \in Sender \cup {Main} : cleaning'[u] = cleaning[u]
      BY <3>1, <3>2 DEF Shape
    <3> QED
      BY <3>1, <3>3
  <2> QED
    BY <1>3, <2>1, <2>2, <2>3, <2>4 DEF Io
<1>4. ASSUME NEW t \in Sender, SendStep(t) \/ ClearVictim(t) \/ CleanUp(t),
             t = Worker => stage # "taken", t = Rpc => busyRpc
      PROVE  InstanceInv'
  <2>1. /\ UNCHANGED <<worker, asked, pushes, stage, busyRpc, phase, toClose>>
        /\ victim' = victim \/ victim' = [victim EXCEPT ![t] = NoSession]
    BY <1>4 DEF SendStep, ClearVictim, CleanUp, instanceVars, logicVars
  <2>2. \A u \in Sender \ {t} : step'[u] = step[u] /\ cleaning'[u] = cleaning[u]
    <3> USE <1>1, <1>2 DEF Shape
    <3>1. CASE SendStep(t)
      BY <3>1 DEF SendStep, SendPost, SendReject, SendClose, SendIdle, Fail, closeVars
    <3>2. CASE ClearVictim(t)
      BY <3>2 DEF ClearVictim, ClearSession, closeVars, senderVars
    <3>3. CASE CleanUp(t)
      BY <3>3 DEF CleanUp, CleanedUp, senderVars
    <3> QED
      BY <1>4, <3>1, <3>2, <3>3
  <2> QED
    BY <1>1, <1>2, <1>4, <2>1, <2>2
<1>5. ASSUME NEW t \in Sender, NEW s \in Session, PushTo(t, s) \/ KickOut(t, s)
      PROVE  /\ pushes' \in 0..MaxPushes
             /\ victim' \in [Sender -> Session \cup {NoSession}]
             /\ \A u \in Sender : u # t => (Free(u)' <=> Free(u))
  <2>1. /\ pushes < MaxPushes /\ pushes' = pushes + 1
        /\ victim' = victim \/ victim' = [victim EXCEPT ![t] = s]
        /\ step' = step \/ \E x : step' = [step EXCEPT ![t] = x]
        /\ cleaning' = cleaning
    BY <1>5 DEF PushTo, KickOut, Send, connectionVars, closeVars, senderVars
  <2>2. pushes' \in 0..MaxPushes
    BY <1>1, <2>1, ChatInstanceAssumption
  <2> QED
    BY <1>1, <2>1, <2>2 DEF Shape
<1>6. CASE WorkerStep
  <2> USE <1>1, <1>2
  <2>1. CASE Waiting
    BY <2>1 DEF Waiting, WorkerNext, Wait, Take, Exit, instanceVars, connectionVars, closeVars,
                senderVars
  <2>2. CASE WorkerDrop
    BY <2>2 DEF WorkerDrop, Done, instanceVars, connectionVars, closeVars, senderVars
  <2>3. CASE WorkerHandle
    BY <2>3 DEF WorkerHandle, logicVars, connectionVars, closeVars, senderVars
  <2>4. CASE WorkerAnswer
    <3>1. /\ worker = "busy" /\ stage' = "answered"
          /\ step' = step \/ \E x : step' = [step EXCEPT ![Worker] = x]
          /\ UNCHANGED <<cleaning, worker, asked, pushes, busyRpc, victim, phase, toClose>>
      BY <2>4 DEF WorkerAnswer, Send, logicVars, connectionVars, closeVars, senderVars
    <3> QED
      BY <3>1 DEF Shape
  <2>5. CASE WorkerThrow
    <3>1. /\ worker = "busy" /\ stage' = "answered"
          /\ cleaning' = [cleaning EXCEPT ![Worker] = current[1]]
          /\ UNCHANGED <<step, worker, asked, pushes, busyRpc, victim, phase, toClose>>
      BY <2>5 DEF WorkerThrow, Abort, Fail, logicVars, senderVars
    <3> QED
      BY <3>1 DEF Shape
  <2>6. CASE WorkerDone
    BY <2>6 DEF WorkerDone, Done, connectionVars, closeVars, senderVars
  <2>7. CASE SendStep(Worker) \/ ClearVictim(Worker) \/ CleanUp(Worker)
    <3>1. stage # "taken"
      BY <2>7 DEF SendStep, SendPost, SendReject, SendClose, ClearVictim, CleanUp, CleanedUp
    <3> QED
      BY <1>4, <2>7, <3>1
  <2> QED
    BY <1>6, <2>1, <2>2, <2>3, <2>4, <2>5, <2>6, <2>7 DEF WorkerStep
<1>7. CASE RpcStep
  <2>1. CASE RpcEnd
    BY <1>1, <1>2, <2>1 DEF RpcEnd, logicVars, connectionVars, closeVars, senderVars
  <2>2. CASE SendStep(Rpc) \/ ClearVictim(Rpc) \/ CleanUp(Rpc)
    <3>1. busyRpc
      BY <1>1, <2>2 DEF SendStep, SendPost, SendReject, SendClose, ClearVictim, CleanUp, CleanedUp
    <3> QED
      BY <1>2, <1>4, <2>2, <3>1
  <2> QED
    BY <1>7, <2>1, <2>2 DEF RpcStep
<1>8. ASSUME NEW s \in Session, NEW t \in Thread, Abort(t, s)
      PROVE  /\ UNCHANGED step
             /\ cleaning'[Worker] = cleaning[Worker] /\ cleaning'[Rpc] = cleaning[Rpc]
  BY <1>1, <1>2, <1>8 DEF Abort, Fail, Shape, senderVars
<1>9. CASE MainStep
  <2> USE <1>1, <1>2 DEF GoTo, MainAt, Phase
  <2>1. CASE RpcDown
    BY <2>1 DEF RpcDown, logicVars, connectionVars, closeVars, senderVars
  <2>2. CASE StopLogic
    BY <2>2 DEF StopLogic, Stop, connectionVars, closeVars, senderVars
  <2>3. CASE NotifyWorker(Main)
    BY <2>3 DEF NotifyWorker, Notify, instanceVars, connectionVars, closeVars, senderVars
  <2>4. CASE CleanUp(Main)
    BY <2>4 DEF CleanUp, CleanedUp, instanceVars, logicVars, senderVars, Shape
  <2>5. CASE Joined
    BY <2>5 DEF Joined, logicVars, connectionVars, closeVars, senderVars, Shape
  <2>6. CASE StopAfterDrain \/ ExitMain
    BY <2>6 DEF StopAfterDrain, ExitMain, logicVars, connectionVars, closeVars, senderVars
  <2>7. CASE \E s \in Session : StopSession(s)
    BY <1>8, <2>7 DEF StopSession, logicVars
  <2> QED
    BY <1>9, <2>1, <2>2, <2>3, <2>4, <2>5, <2>6, <2>7 DEF MainStep
<1>10. CASE Environment
  <2> USE <1>1, <1>2
  <2>1. CASE Signal
    BY <2>1 DEF Signal, GoTo, Phase, logicVars, connectionVars, closeVars, senderVars
  <2>2. CASE SpuriousWakeup /\ UNCHANGED <<connectionVars, instanceVars>>
    BY <2>2 DEF SpuriousWakeup, instanceVars, connectionVars, closeVars, senderVars
  <2>3. ASSUME NEW s \in Session, Connect(s) PROVE InstanceInv'
    BY <2>3 DEF Connect, Accept, logicVars, instanceVars, closeVars, senderVars
  <2>4. ASSUME NEW s \in Session, Expired(s) PROVE InstanceInv'
    BY <1>8, <2>4 DEF Expired, logicVars, instanceVars
  <2>5. ASSUME NEW s \in Session, ClientGone(s) PROVE InstanceInv'
    BY <2>5 DEF ClientGone, ReadFailed, Fail, Shape, logicVars, instanceVars, senderVars
  <2>6. ASSUME NEW s \in Session, ClientRejected(s) PROVE InstanceInv'
    BY <2>6 DEF ClientRejected, ReadUnregistered, logicVars, instanceVars, senderVars
  <2>7. ASSUME NEW s \in Session, RpcBegin(s) PROVE InstanceInv'
    BY <1>5, <2>7 DEF RpcBegin, logicVars
  <2>8. ASSUME NEW s \in Session, WorkerReaches(s) PROVE InstanceInv'
    BY <1>5, <2>8 DEF WorkerReaches, logicVars
  <2> QED
    BY <1>10, <2>1, <2>2, <2>3, <2>4, <2>5, <2>6, <2>7, <2>8 DEF Environment
<1>11. CASE UNCHANGED vars
  BY <1>1, <1>11 DEF vars, logicVars, instanceVars, connectionVars, closeVars, senderVars
<1> QED
  BY <1>3, <1>6, <1>7, <1>9, <1>10, <1>11 DEF Next

-----------------------------------------------------------------------------
\* The inductive invariant: the logic queue, the connections and main hold
\* together, whatever the threads of one process do.
THEOREM InductiveInvariant == Spec => []IInv
<1>1. Init => IInv
  <2> SUFFICES ASSUME Init PROVE IInv
    OBVIOUS
  <2>1. QueueInv /\ ConnectionInv
    BY QueueInit, ConnectionStart DEF Init
  <2>2. InstanceInv
    <3>1. MaxRequests \in Nat /\ MaxPushes \in Nat /\ Worker \in Sender /\ Rpc \in Sender
          /\ Sender \subseteq Caller
      BY ChatInstanceAssumption
    <3>2. asked \in [Session -> 0..MaxRequests] /\ pushes \in 0..MaxPushes
      BY <3>1 DEF Init
    <3>3. Free(Worker) /\ Free(Rpc)
      BY <3>1 DEF Init, ConnectionInit, Free, OutOfSend
    <3> QED
      BY <3>2, <3>3 DEF Init, LogicInit, InstanceInv, Phase
  <2> QED
    BY <2>1, <2>2 DEF IInv
<1>2. IInv /\ [Next]_vars => IInv'
  BY Steps, QueueStep, ConnectionStep, InstanceStep DEF IInv
<1> QED
  BY <1>1, <1>2, PTL DEF Spec

\* Every variable keeps its type; the count of unfinished sends in particular
\* never falls below zero (CSession.cpp:84, 106, 130, 136).
THEOREM TypeCorrect == Spec => []TypeOK
<1>1. IInv => TypeOK
  BY CountIsNatural DEF IInv, QueueInv, ConnectionInv, InstanceInv, TypeOK
<1> QED
  BY <1>1, InductiveInvariant, PTL

\* The worker never sleeps through a request or the stop flag.
THEOREM WakeupsAreNotLost == Spec => []NoLostWakeup
<1>1. IInv => NoLostWakeup
  BY DEF IInv, QueueInv
<1> QED
  BY <1>1, InductiveInvariant, PTL

\* What was accepted before Stop has been handled when the worker leaves.
THEOREM WorkerDrains == Spec => []DrainedAtExit
<1>1. IInv => DrainedAtExit
  BY DEF IInv, QueueInv
<1> QED
  BY <1>1, InductiveInvariant, PTL

\* The atomic counter agrees with what is posted, queued and in a sender's hands.
THEOREM CountIsExact == Spec => []PendingIsExact
<1>1. IInv => PendingIsExact
  BY BalancedMeans DEF IInv, ConnectionInv
<1> QED
  BY <1>1, InductiveInvariant, PTL

\* MAX_SENDQUE bounds the messages of a session, wherever they wait.
THEOREM MemoryIsBounded == Spec => []SendsAreBounded
<1>1. IInv => SendsAreBounded
  BY BalancedMeans DEF IInv, ConnectionInv
<1> QED
  BY <1>1, InductiveInvariant, PTL

\* No two writes overlap on a socket, and no queued message waits for nothing.
THEOREM WritesAreSequential == Spec => []OneWriteAtATime
<1>1. IInv => OneWriteAtATime
  BY DEF IInv, ConnectionInv
<1> QED
  BY <1>1, InductiveInvariant, PTL

\* CServer::Stop finds no other thread at work on a session.
THEOREM StopIsAlone == Spec => []QuietAtStop
<1>1. Worker \in Sender /\ Rpc \in Sender /\ Sender = {Worker, Rpc}
  BY ChatInstanceAssumption
<1>2. IInv => QuietAtStop
  BY <1>1 DEF IInv, InstanceInv, QuietAtStop
<1> QED
  BY <1>2, InductiveInvariant, PTL

-----------------------------------------------------------------------------
(* The order of the answers.  The requests of a session stand in one line  *)
(* from the logic queue to the socket: each thread only moves the front of *)
(* a section to the back of the next one, or drops what a closed           *)
(* connection no longer needs.                                             *)

Before(A, B) == \A a \in A, b \in B : a < b

\* What is written, queued, posted, in the worker's Send, with the worker, and in the
\* logic queue, of the n requests a session has sent.
Lined(W, Q, P, H, C, N, n) ==
  /\ Before(W, Q \cup P \cup H \cup C \cup N)
  /\ Before(Q, P \cup H \cup C \cup N)
  /\ Before(P, H \cup C \cup N)
  /\ Before(H, C \cup N)
  /\ Before(C, N)
  /\ W \cup Q \cup P \cup H \cup C \cup N \subseteq 1..n

Ascending(q) == \A i, j \in Places(q) : i < j => q[i] < q[j]

InLine(s) ==
  /\ Lined(Answers(wire[s]), Answers(sendQue[s]), Answers(posted[s]), InHand(s), Taken(s),
           InQueue(s), asked[s])
  /\ Ascending(sendQue[s]) /\ Ascending(posted[s])

RequestsAscend ==
  \A i, j \in DOMAIN que : i < j /\ que[i][1] = que[j][1] => que[i][2] < que[j][2]

\* Only the worker answers, once for each request, and only what has a handler.
HandInv ==
  /\ stage = "handling" => current \notin Unhandled
  /\ \A k \in 1..MaxRequests : outgoing[Rpc] # k
  /\ stage # "answered" => \A k \in 1..MaxRequests : outgoing[Worker] # k
  /\ \A t \in Sender : step[t] = "idle" => target[t] = NoSession /\ outgoing[t] = NoMessage

\* A session is closed before it is cleaned up, and one that has sent a request is read
\* from until it is closed.
ReadInv ==
  /\ \A t \in Caller : cleaning[t] # NoSession => cleaning[t] \in closed
  /\ \A s \in Session \ closed : asked[s] > 0 => s \in reading

\* The last answer written exists.
WireInv ==
  \A s \in Session : Places(wire[s]) # {} => \E i \in Places(wire[s]) : LastPlace(wire[s], i)

Lines == \A s \in Session : InLine(s)
OrderInv == IInv /\ Lines /\ RequestsAscend /\ HandInv /\ ReadInv /\ WireInv

\* A message counts as an answer, or not.
Own(m) == IF IsAnswer(m) THEN {m} ELSE {}

\* Nothing is in an empty sequence.
LEMMA EmptySequence == Answers(<<>>) = {} /\ Ascending(<<>>)
  BY DEF Answers, ToSet, Ascending, Places

\* What is in a sequence with one more element.
LEMMA ToSetAppend ==
  ASSUME NEW S, NEW q \in Seq(S), NEW m \in S
  PROVE  ToSet(Append(q, m)) = ToSet(q) \cup {m}
<1>1. /\ DOMAIN Append(q, m) = DOMAIN q \cup {Len(q) + 1}
      /\ \A i \in DOMAIN q : Append(q, m)[i] = q[i]
      /\ Append(q, m)[Len(q) + 1] = m
  OBVIOUS
<1> QED
  BY <1>1 DEF ToSet

\* A sequence is its first element and the rest.
LEMMA ToSetTail ==
  ASSUME NEW S, NEW q \in Seq(S), q # <<>>
  PROVE  /\ ToSet(q) = {Head(q)} \cup ToSet(Tail(q))
         /\ Head(q) = q[1] /\ 1 \in DOMAIN q
         /\ \A i \in DOMAIN Tail(q) : i + 1 \in DOMAIN q /\ Tail(q)[i] = q[i + 1] /\ i \in Nat /\ i >= 1
<1>1. /\ Head(q) = q[1] /\ 1 \in DOMAIN q
      /\ \A i \in DOMAIN Tail(q) : i + 1 \in DOMAIN q /\ Tail(q)[i] = q[i + 1] /\ i \in Nat /\ i >= 1
  OBVIOUS
<1>2. \A i \in DOMAIN q : i # 1 => i - 1 \in DOMAIN Tail(q) /\ Tail(q)[i - 1] = q[i]
  OBVIOUS
<1>3. ToSet(q) \subseteq {Head(q)} \cup ToSet(Tail(q))
  BY <1>1, <1>2 DEF ToSet
<1>4. {Head(q)} \cup ToSet(Tail(q)) \subseteq ToSet(q)
  BY <1>1 DEF ToSet
<1> QED
  BY <1>1, <1>3, <1>4

\* The answers in a sequence with one more message.
LEMMA AnswersOfAppend ==
  ASSUME NEW q \in Seq(Message), NEW m \in Message
  PROVE  /\ Answers(Append(q, m)) = Answers(q) \cup Own(m)
         /\ Ascending(q) /\ Before(Answers(q), Own(m)) => Ascending(Append(q, m))
<1>1. Answers(Append(q, m)) = Answers(q) \cup Own(m)
  BY ToSetAppend DEF Answers, Own
<1>2. ASSUME Ascending(q), Before(Answers(q), Own(m)) PROVE Ascending(Append(q, m))
  <2>1. /\ DOMAIN Append(q, m) = DOMAIN q \cup {Len(q) + 1}
        /\ \A i \in DOMAIN q : Append(q, m)[i] = q[i] /\ i \in Nat /\ i <= Len(q)
        /\ Append(q, m)[Len(q) + 1] = m /\ Len(q) \in Nat
    OBVIOUS
  <2>2. \A i \in Places(q) : q[i] \in Answers(q)
    BY DEF Places, Answers, ToSet
  <2>3. IsAnswer(m) => \A i \in Places(q) : q[i] < m
    BY <1>2, <2>2 DEF Before, Own
  <2>4. \A i \in Places(Append(q, m)) : i \in Places(q) \/ (i = Len(q) + 1 /\ IsAnswer(m))
    BY <2>1 DEF Places
  <2>5. Places(q) \subseteq DOMAIN q
    BY DEF Places
  <2> QED
    BY <1>2, <2>1, <2>3, <2>4, <2>5 DEF Ascending
<1> QED
  BY <1>1, <1>2

\* The first message of a sequence and the answers after it.
LEMMA AnswersOfTail ==
  ASSUME NEW q \in Seq(Message), q # <<>>
  PROVE  /\ Answers(q) = Own(Head(q)) \cup Answers(Tail(q))
         /\ Ascending(q) => Ascending(Tail(q)) /\ Before(Own(Head(q)), Answers(Tail(q)))
<1>1. Answers(q) = Own(Head(q)) \cup Answers(Tail(q))
  BY ToSetTail DEF Answers, Own
<1>2. /\ Head(q) = q[1] /\ 1 \in DOMAIN q
      /\ \A i \in DOMAIN Tail(q) : i + 1 \in DOMAIN q /\ Tail(q)[i] = q[i + 1] /\ i \in Nat /\ i >= 1
  BY ToSetTail
<1> PICK r : r = Tail(q)
  OBVIOUS
<1>3. \A i \in Places(r) : i + 1 \in Places(q) /\ r[i] = q[i + 1] /\ i \in Nat /\ i >= 1
  BY <1>2 DEF Places
<1>4. ASSUME Ascending(q) PROVE Ascending(r)
  <2>1. ASSUME NEW i \in Places(r), NEW j \in Places(r), i < j PROVE r[i] < r[j]
    <3>1. i + 1 \in Places(q) /\ j + 1 \in Places(q) /\ i + 1 < j + 1
      BY <1>3, <2>1
    <3>2. q[i + 1] < q[j + 1]
      BY <1>4, <3>1 DEF Ascending
    <3> QED
      BY <1>3, <3>2
  <2> QED
    BY <2>1 DEF Ascending
<1>5. ASSUME Ascending(q), NEW a \in Own(Head(q)), NEW b \in Answers(r) PROVE a < b
  <2>1. PICK i \in Places(r) : b = r[i]
    BY DEF Answers, ToSet, Places
  <2>2. a = q[1] /\ 1 \in Places(q)
    BY <1>2 DEF Own, Places
  <2>3. i + 1 \in Places(q) /\ r[i] = q[i + 1] /\ i \in Nat /\ i >= 1
    BY <1>3
  <2>4. 1 < i + 1
    BY <2>3
  <2>5. q[1] < q[i + 1]
    BY <1>5, <2>2, <2>3, <2>4 DEF Ascending
  <2> QED
    BY <2>1, <2>2, <2>3, <2>5
<1> QED
  BY <1>1, <1>4, <1>5 DEF Before

-----------------------------------------------------------------------------
(* The moves along the line.                                               *)

\* A line that loses requests, while the client may have sent more.
LEMMA LineShorter ==
  ASSUME NEW W, NEW Q, NEW P, NEW H, NEW C, NEW N, NEW n \in Nat,
         NEW Q1 \in SUBSET Q, NEW P1 \in SUBSET P, NEW H1 \in SUBSET H, NEW C1 \in SUBSET C,
         NEW m \in Nat, n <= m,
         Lined(W, Q, P, H, C, N, n)
  PROVE  Lined(W, Q1, P1, H1, C1, N, m)
<1>1. 1..n \subseteq 1..m
  OBVIOUS
<1> QED
  BY <1>1 DEF Lined, Before

\* The next number joins the end of the line.
LEMMA LineLonger ==
  ASSUME NEW W, NEW Q, NEW P, NEW H, NEW C, NEW N, NEW n \in Nat,
         Lined(W, Q, P, H, C, N, n)
  PROVE  Lined(W, Q, P, H, C, N \cup {n + 1}, n + 1)
<1>1. /\ 1..n \subseteq 1..(n + 1) /\ n + 1 \in 1..(n + 1)
      /\ \A k \in 1..n : k < n + 1
  OBVIOUS
<1>2. \A k \in W \cup Q \cup P \cup H \cup C \cup N : k < n + 1
  BY <1>1 DEF Lined
<1> QED
  BY <1>1, <1>2 DEF Lined, Before

\* The worker takes the first request of the logic queue.
LEMMA LineTaken ==
  ASSUME NEW W, NEW Q, NEW P, NEW H, NEW O, NEW N, NEW n,
         Before(O, N), Lined(W, Q, P, H, {}, O \cup N, n)
  PROVE  Lined(W, Q, P, H, O, N, n)
  BY DEF Lined, Before

\* The worker enters Send with its answer.
LEMMA LineAnswered ==
  ASSUME NEW W, NEW Q, NEW P, NEW C, NEW N, NEW n,
         Lined(W, Q, P, {}, C, N, n)
  PROVE  Lined(W, Q, P, C, {}, N, n)
  BY DEF Lined, Before

\* The worker posts its answer.
LEMMA LinePosted ==
  ASSUME NEW W, NEW Q, NEW P, NEW H, NEW C, NEW N, NEW n,
         Lined(W, Q, P, H, C, N, n)
  PROVE  Lined(W, Q, P \cup H, {}, C, N, n)
  BY DEF Lined, Before

\* The IO thread moves the first posted message to the send queue.
LEMMA LineQueued ==
  ASSUME NEW W, NEW Q, NEW O, NEW P, NEW H, NEW C, NEW N, NEW n,
         Before(O, P), Lined(W, Q, O \cup P, H, C, N, n)
  PROVE  Lined(W, Q \cup O, P, H, C, N, n) /\ Before(Q, O)
  BY DEF Lined, Before

\* The first message of the send queue is written.
LEMMA LineWritten ==
  ASSUME NEW W, NEW O, NEW Q, NEW P, NEW H, NEW C, NEW N, NEW n,
         Before(O, Q), Lined(W, O \cup Q, P, H, C, N, n)
  PROVE  /\ Lined(W \cup O, Q, P, H, C, N, n)
         /\ Before(O, Q \cup P \cup H \cup C \cup N)
  BY DEF Lined, Before

-----------------------------------------------------------------------------
(* What the refinement sees of a session, and the steps it sees as the end *)
(* of a connection or not at all.                                          *)

\* Nothing of session s changes that the line or the refinement looks at.
Still(s) ==
  /\ wire'[s] = wire[s] /\ sendQue'[s] = sendQue[s] /\ posted'[s] = posted[s]
  /\ InHand(s)' = InHand(s) /\ Taken(s)' = Taken(s) /\ InQueue(s)' = InQueue(s)
  /\ asked'[s] = asked[s]
  /\ Over(s)' = Over(s)

Refines == [Replies!Next(1..MaxRequests)]_(Replies!vars)

\* A still session is seen unchanged, and stays in line.
LEMMA StillSeen ==
  ASSUME NEW s \in Session, Still(s)
  PROVE  /\ Owed(s)' = Owed(s) /\ LastAnswer(s)' = LastAnswer(s) /\ Over(s)' = Over(s)
         /\ InLine(s) => InLine(s)'
  BY DEF Still, Owed, LastAnswer, Over, Requests, Sending, InLine, Places, LastPlace

\* The refinement is a step of one client.
LEMMA OneClient ==
  ASSUME NEW s \in Session, \A x \in Session \ {s} : Still(x)
  PROVE  /\ \A x \in Session \ {s} :
              Owed(x)' = Owed(x) /\ LastAnswer(x)' = LastAnswer(x) /\ Over(x)' = Over(x)
         /\ [x \in Session |-> Owed(x)]' = [[x \in Session |-> Owed(x)] EXCEPT ![s] = Owed(s)']
         /\ [x \in Session |-> LastAnswer(x)]'
              = [[x \in Session |-> LastAnswer(x)] EXCEPT ![s] = LastAnswer(s)']
         /\ (Over(s)' <=> Over(s))
              => {x \in Session : Over(x)}' = {x \in Session : Over(x)}
<1>1. \A x \in Session \ {s} :
        Owed(x)' = Owed(x) /\ LastAnswer(x)' = LastAnswer(x) /\ Over(x)' = Over(x)
  BY StillSeen
<1>2. [x \in Session |-> Owed(x)]' = [[x \in Session |-> Owed(x)] EXCEPT ![s] = Owed(s)']
  BY <1>1
<1>3. [x \in Session |-> LastAnswer(x)]'
        = [[x \in Session |-> LastAnswer(x)] EXCEPT ![s] = LastAnswer(s)']
  BY <1>1
<1>4. (Over(s)' <=> Over(s)) => {x \in Session : Over(x)}' = {x \in Session : Over(x)}
  BY <1>1
<1> QED
  BY <1>1, <1>2, <1>3, <1>4

\* A connection that ends, or a step the clients do not see.
LEMMA AtMostEnds ==
  ASSUME NEW s \in Session, \A x \in Session \ {s} : Still(x),
         LastAnswer(s)' = LastAnswer(s),
         Over(s) => Over(s)',
         ~ Over(s)' => Owed(s)' = Owed(s)
  PROVE  Refines
<1> DEFINE owes == [x \in Session |-> Owed(x)]
           last == [x \in Session |-> LastAnswer(x)]
           over == {x \in Session : Over(x)}
<1>1. owes' = [owes EXCEPT ![s] = Owed(s)'] /\ last' = last
  BY OneClient
<1>2. CASE ~ Over(s) /\ Over(s)'
  <2>1. over' = over \cup {s} /\ s \notin over
    BY <1>2, OneClient
  <2>2. Owed(s)' = {}
    BY <1>2 DEF Owed
  <2>3. Replies!End(s)
    BY <1>1, <2>1, <2>2 DEF Replies!End
  <2> QED
    BY <2>3 DEF Refines, Replies!Next
<1>3. CASE Over(s)' <=> Over(s)
  <2>1. Owed(s)' = Owed(s)
    BY <1>3 DEF Owed
  <2>2. owes' = owes
    BY <1>1, <2>1
  <2>3. over' = over
    BY <1>3, OneClient
  <2> QED
    BY <1>1, <2>2, <2>3 DEF Refines, Replies!vars
<1> QED
  BY <1>2, <1>3

\* A step that only drops requests of one session.
LEMMA LosingStep ==
  ASSUME NEW s \in Session, Lines, asked[s] \in Nat, asked'[s] \in Nat,
         \A x \in Session \ {s} : Still(x),
         wire'[s] = wire[s],
         sendQue'[s] = sendQue[s] \/ sendQue'[s] = <<>>,
         posted[s] \in Seq(Message),
         posted'[s] = posted[s] \/ (posted[s] # <<>> /\ posted'[s] = Tail(posted[s])),
         InHand(s)' \subseteq InHand(s), Taken(s)' \subseteq Taken(s),
         InQueue(s)' = InQueue(s),
         asked[s] <= asked'[s],
         Over(s) => Over(s)',
         ~ Over(s)' => Owed(s)' = Owed(s)
  PROVE  Lines' /\ Refines
<1>1. LastAnswer(s)' = LastAnswer(s)
  BY DEF LastAnswer
<1>2. Refines
  BY <1>1, AtMostEnds
<1>3. InLine(s)'
  <2>1. InLine(s)
    BY DEF Lines
  <2>2. Answers(wire[s])' = Answers(wire[s])
    BY DEF Answers
  <2>3. Answers(sendQue[s])' \subseteq Answers(sendQue[s])
    BY EmptySequence DEF Answers
  <2>4. Answers(posted[s])' \subseteq Answers(posted[s]) /\ Ascending(posted[s])'
    <3>1. CASE posted'[s] = posted[s]
      BY <2>1, <3>1 DEF InLine, Answers, Ascending, Places
    <3>2. CASE posted[s] # <<>> /\ posted'[s] = Tail(posted[s])
      <4>1. Answers(Tail(posted[s])) \subseteq Answers(posted[s]) /\ Ascending(Tail(posted[s]))
        BY <2>1, <3>2, AnswersOfTail DEF InLine
      <4> QED
        BY <3>2, <4>1 DEF Answers, Ascending, Places
    <3> QED
      BY <3>1, <3>2
  <2>5. Lined(Answers(wire[s]), Answers(sendQue[s])', Answers(posted[s])', InHand(s)', Taken(s)',
              InQueue(s), asked'[s])
    BY <2>1, <2>3, <2>4, LineShorter DEF InLine
  <2>6. Ascending(sendQue[s])'
    BY <2>1, EmptySequence DEF InLine, Ascending, Places
  <2> QED
    BY <2>2, <2>4, <2>5, <2>6 DEF InLine
<1>4. \A x \in Session \ {s} : InLine(x)'
  BY StillSeen DEF Lines
<1>5. Lines'
  BY <1>3, <1>4 DEF Lines
<1> QED
  BY <1>2, <1>5

\* What each section of the line depends on.
LEMMA Sections ==
  ASSUME NEW s \in Session
  PROVE  /\ UNCHANGED <<worker, stage, current>> => Taken(s)' = Taken(s)
         /\ UNCHANGED que => InQueue(s)' = InQueue(s)
         /\ UNCHANGED <<target, outgoing>> => InHand(s)' = InHand(s)
         /\ UNCHANGED <<closed, starting, reading, table>> => Over(s)' = Over(s)
  BY DEF Taken, InQueue, InHand, Over

\* The types these steps rely on.
LEMMA LineTypes ==
  ASSUME IInv, NEW s \in Session
  PROVE  /\ asked[s] \in Nat
         /\ posted[s] \in Seq(Message) /\ sendQue[s] \in Seq(Message) /\ wire[s] \in Seq(Message)
  BY ChatInstanceAssumption DEF IInv, InstanceInv, ConnectionInv, Shape

\* A step that changes nothing of the line of any session.
LEMMA UnseenStep ==
  ASSUME Lines, UNCHANGED <<wire, sendQue, posted, target, outgoing, asked, que>>,
         \A x \in Session : Taken(x)' = Taken(x) /\ Over(x)' = Over(x)
  PROVE  Lines' /\ Refines
<1>1. \A x \in Session : Still(x)
  BY Sections DEF Still
<1>2. Lines'
  BY <1>1, StillSeen DEF Lines
<1>3. /\ [x \in Session |-> Owed(x)]' = [x \in Session |-> Owed(x)]
      /\ [x \in Session |-> LastAnswer(x)]' = [x \in Session |-> LastAnswer(x)]
      /\ {x \in Session : Over(x)}' = {x \in Session : Over(x)}
  <2>1. \A x \in Session :
          Owed(x)' = Owed(x) /\ LastAnswer(x)' = LastAnswer(x) /\ Over(x)' = Over(x)
    BY <1>1, StillSeen
  <2> QED
    BY <2>1
<1>4. Refines
  BY <1>3 DEF Refines, Replies!vars
<1> QED
  BY <1>2, <1>4

\* A step that at most ends the connection of one session.
LEMMA ClosingStep ==
  ASSUME IInv, Lines, NEW s \in Session,
         UNCHANGED <<wire, sendQue, posted, target, outgoing, asked, que>>,
         \A x \in Session : Taken(x)' = Taken(x),
         \A x \in Session \ {s} : Over(x)' = Over(x),
         Over(s) => Over(s)'
  PROVE  Lines' /\ Refines
<1>1. \A x \in Session \ {s} : Still(x)
  BY Sections DEF Still
<1>2. InHand(s)' = InHand(s) /\ InQueue(s)' = InQueue(s) /\ Taken(s)' = Taken(s)
  BY Sections
<1>3. ~ Over(s)' => Owed(s)' = Owed(s)
  BY <1>2 DEF Owed, Requests, Sending
<1>4. asked[s] \in Nat /\ asked[s] <= asked[s] /\ asked'[s] = asked[s] /\ posted[s] \in Seq(Message)
  BY LineTypes
<1> QED
  BY <1>1, <1>2, <1>3, <1>4, LosingStep

\* A step that closes session s for the table or for good, and no other.
LEMMA OverSpreads ==
  ASSUME NEW s \in Session,
         closed' = closed \/ closed' = closed \cup {s},
         table' = table \/ table' = table \ {s},
         starting' = starting,
         reading' = reading \/ (reading' = reading \ {s} /\ s \in closed')
  PROVE  /\ \A x \in Session \ {s} : Over(x)' = Over(x)
         /\ Over(s) => Over(s)'
  BY DEF Over

-----------------------------------------------------------------------------
(* The IO thread of a session.                                             *)

\* A posted message is queued, or dropped with its connection.
LEMMA SendOnIOOrder ==
  ASSUME OrderInv, NEW s \in Session, SendOnIO(s), UNCHANGED <<logicVars, instanceVars>>
  PROVE  Lines' /\ Refines
<1>1. /\ posted[s] # <<>> /\ posted' = [posted EXCEPT ![s] = Tail(@)]
      /\ s \in closed => sendQue' = sendQue
      /\ s \notin closed => sendQue' = [sendQue EXCEPT ![s] = Append(@, Head(posted[s]))]
      /\ UNCHANGED <<table, closed, starting, reading, wire, target, outgoing, worker, stage,
                     current, que, asked>>
  BY DEF SendOnIO, closeVars, readVars, senderVars, logicVars, instanceVars
<1>2. IInv /\ Lines /\ Shape
  BY DEF OrderInv, IInv, ConnectionInv
<1>3. \A x \in Session : /\ InHand(x)' = InHand(x) /\ InQueue(x)' = InQueue(x)
                         /\ Taken(x)' = Taken(x) /\ Over(x)' = Over(x)
  BY <1>1, Sections
<1>4. \A x \in Session \ {s} : Still(x)
  BY <1>1, <1>2, <1>3 DEF Still, Shape
<1>5. /\ asked[s] \in Nat /\ asked'[s] = asked[s] /\ asked[s] <= asked[s]
      /\ posted[s] \in Seq(Message) /\ sendQue[s] \in Seq(Message)
      /\ posted'[s] = Tail(posted[s]) /\ wire'[s] = wire[s]
  BY <1>1, <1>2, LineTypes DEF Shape
<1>6. CASE s \in closed
  <2>1. Over(s) /\ Over(s)' /\ sendQue'[s] = sendQue[s]
    BY <1>1, <1>6 DEF Over
  <2> QED
    BY <1>1, <1>2, <1>3, <1>4, <1>5, <2>1, LosingStep
<1>7. CASE s \notin closed
  <2> PICK m \in Message : m = Head(posted[s])
    BY <1>1, <1>5
  <2>0. posted[s] \in Seq(Message) /\ posted[s] # <<>>
    BY <1>1, <1>5
  <2>01. Tail(posted[s]) \in Seq(Message)
    BY <2>0
  <2> PICK rest \in Seq(Message) : rest = Tail(posted[s])
    BY <2>01
  <2>1. sendQue'[s] = Append(sendQue[s], m) /\ posted'[s] = rest
    BY <1>1, <1>2, <1>5, <1>7 DEF Shape
  <2>2. InLine(s)
    BY <1>2 DEF Lines
  <2>3. /\ Answers(posted[s]) = Own(m) \cup Answers(rest)
        /\ Ascending(rest) /\ Before(Own(m), Answers(rest))
    BY <1>1, <1>5, <2>2, AnswersOfTail DEF InLine
  <2>4. Lined(Answers(wire[s]), Answers(sendQue[s]), Own(m) \cup Answers(rest), InHand(s),
              Taken(s), InQueue(s), asked[s])
    BY <2>2, <2>3 DEF InLine
  <2>5. /\ Lined(Answers(wire[s]), Answers(sendQue[s]) \cup Own(m), Answers(rest), InHand(s),
                 Taken(s), InQueue(s), asked[s])
        /\ Before(Answers(sendQue[s]), Own(m))
    BY <2>3, <2>4, LineQueued
  <2>6. /\ Answers(Append(sendQue[s], m)) = Answers(sendQue[s]) \cup Own(m)
        /\ Ascending(Append(sendQue[s], m))
    BY <1>5, <2>2, <2>5, AnswersOfAppend DEF InLine
  <2>7. /\ Answers(sendQue[s])' = Answers(sendQue[s]) \cup Own(m) /\ Ascending(sendQue[s])'
        /\ Answers(posted[s])' = Answers(rest) /\ Ascending(posted[s])'
        /\ Answers(wire[s])' = Answers(wire[s])
    BY <1>5, <2>1, <2>3, <2>6 DEF Answers, Ascending, Places
  <2>8. InLine(s)'
    BY <1>3, <1>5, <2>5, <2>7 DEF InLine
  <2>9. Lines'
    BY <1>2, <1>4, <2>8, StillSeen DEF Lines
  <2>10. Sending(s)' = Sending(s) /\ Requests(s)' = Requests(s)
    BY <1>3, <2>3, <2>7 DEF Sending, Requests
  <2>11. Owed(s)' = Owed(s) /\ LastAnswer(s)' = LastAnswer(s)
    BY <1>3, <1>5, <2>10 DEF Owed, LastAnswer
  <2>12. Refines
    BY <1>3, <1>4, <2>11, AtMostEnds
  <2> QED
    BY <2>9, <2>12
<1> QED
  BY <1>6, <1>7

\* The last answer of a sequence with one more message.
LEMMA LastOfAppend ==
  ASSUME NEW q \in Seq(Message), NEW m \in Message,
         Places(q) # {} => \E i \in Places(q) : LastPlace(q, i)
  PROVE  /\ LastAnswerIn(Append(q, m)) = IF IsAnswer(m) THEN m ELSE LastAnswerIn(q)
         /\ Places(Append(q, m)) # {} => \E i \in Places(Append(q, m)) : LastPlace(Append(q, m), i)
         /\ LastAnswerIn(q) = 0 \/ LastAnswerIn(q) \in Answers(q)
<1> DEFINE r == Append(q, m)
           n == Len(q) + 1
<1>1. /\ DOMAIN r = DOMAIN q \cup {n} /\ r[n] = m /\ n \in Int
      /\ \A i \in DOMAIN q : r[i] = q[i] /\ i \in Int /\ i < n
  OBVIOUS
<1> HIDE DEF r, n
<1>2. \A x, i, j : LastPlace(x, i) /\ LastPlace(x, j) /\ i \in Int /\ j \in Int => i = j
  BY DEF LastPlace
<1>3. Places(q) \subseteq DOMAIN q
  BY DEF Places
<1>4. ASSUME IsAnswer(m)
      PROVE  /\ LastAnswerIn(r) = m
             /\ \E i \in Places(r) : LastPlace(r, i)
  <2>1. Places(r) = Places(q) \cup {n}
    BY <1>1, <1>4 DEF Places
  <2>2. LastPlace(r, n)
    BY <1>1, <1>3, <2>1 DEF LastPlace
  <2>3. n \in DOMAIN r /\ DOMAIN r \subseteq Int
    BY <1>1
  <2>4. (CHOOSE i \in DOMAIN r : LastPlace(r, i)) = n
    BY <1>2, <2>2, <2>3
  <2>5. LastAnswerIn(r) = m
    BY <1>1, <2>1, <2>4 DEF LastAnswerIn
  <2> QED
    BY <2>1, <2>2, <2>5
<1>5. ASSUME ~ IsAnswer(m)
      PROVE  /\ LastAnswerIn(r) = LastAnswerIn(q)
             /\ Places(r) # {} => \E i \in Places(r) : LastPlace(r, i)
  <2>1. Places(r) = Places(q)
    BY <1>1, <1>5 DEF Places
  <2>2. CASE Places(q) = {}
    BY <2>1, <2>2 DEF LastAnswerIn
  <2>3. CASE Places(q) # {}
    <3>1. PICK i \in Places(q) : LastPlace(q, i)
      BY <2>3
    <3>2. LastPlace(r, i) /\ i \in DOMAIN q /\ i \in DOMAIN r
      BY <1>1, <1>3, <2>1, <3>1 DEF LastPlace
    <3>3. DOMAIN q \subseteq Int /\ DOMAIN r \subseteq Int
      BY <1>1
    <3>4. (CHOOSE j \in DOMAIN q : LastPlace(q, j)) = i
      BY <1>2, <3>1, <3>2, <3>3
    <3>5. (CHOOSE j \in DOMAIN r : LastPlace(r, j)) = i
      BY <1>2, <3>2, <3>3
    <3>6. LastAnswerIn(r) = r[i] /\ LastAnswerIn(q) = q[i]
      BY <2>1, <2>3, <3>4, <3>5 DEF LastAnswerIn
    <3> QED
      BY <1>1, <2>1, <3>1, <3>2, <3>6
  <2> QED
    BY <2>2, <2>3
<1>6. LastAnswerIn(q) = 0 \/ LastAnswerIn(q) \in Answers(q)
  <2>1. CASE Places(q) # {}
    <3>1. PICK i \in Places(q) : LastPlace(q, i)
      BY <2>1
    <3>2. DOMAIN q \subseteq Int /\ i \in DOMAIN q
      BY <1>1, <1>3
    <3>3. (CHOOSE j \in DOMAIN q : LastPlace(q, j)) = i
      BY <1>2, <3>1, <3>2
    <3>4. LastAnswerIn(q) = q[i]
      BY <2>1, <3>3 DEF LastAnswerIn
    <3> QED
      BY <3>4 DEF Answers, ToSet, Places
  <2> QED
    BY <2>1 DEF LastAnswerIn
<1> QED
  BY <1>4, <1>5, <1>6 DEF r

\* A written answer is the oldest one owed; on a connection that is over it is late.
LEMMA WriteDoneOrder ==
  ASSUME OrderInv, NEW s \in Session, WriteDone(s), UNCHANGED <<logicVars, instanceVars>>
  PROVE  Lines' /\ WireInv' /\ Refines
<1>1. /\ sendQue' = [sendQue EXCEPT ![s] = Tail(@)]
      /\ wire' = [wire EXCEPT ![s] = Append(@, Head(sendQue[s]))]
      /\ s \in writing
      /\ UNCHANGED <<table, closed, starting, reading, posted, target, outgoing, worker, stage,
                     current, que, asked>>
  BY DEF WriteDone, closeVars, readVars, senderVars, logicVars, instanceVars
<1>2. IInv /\ Lines /\ Shape /\ WireInv /\ OneWriteAtATime
  BY DEF OrderInv, IInv, ConnectionInv
<1>3. \A x \in Session : /\ InHand(x)' = InHand(x) /\ InQueue(x)' = InQueue(x)
                         /\ Taken(x)' = Taken(x) /\ Over(x)' = Over(x)
  BY <1>1, Sections
<1>4. \A x \in Session \ {s} : Still(x)
  BY <1>1, <1>2, <1>3 DEF Still, Shape
<1>5. /\ sendQue[s] \in Seq(Message) /\ sendQue[s] # <<>> /\ wire[s] \in Seq(Message)
      /\ asked'[s] = asked[s] /\ posted'[s] = posted[s]
  BY <1>1, <1>2, LineTypes DEF OneWriteAtATime
<1>6. Head(sendQue[s]) \in Message /\ Tail(sendQue[s]) \in Seq(Message)
  BY <1>5
<1> PICK m \in Message : m = Head(sendQue[s])
  BY <1>6
<1> PICK rest \in Seq(Message) : rest = Tail(sendQue[s])
  BY <1>6
<1>7. sendQue'[s] = rest /\ wire'[s] = Append(wire[s], m)
  BY <1>1, <1>2 DEF Shape
<1>8. InLine(s)
  BY <1>2 DEF Lines
<1>9. /\ Answers(sendQue[s]) = Own(m) \cup Answers(rest)
      /\ Ascending(rest) /\ Before(Own(m), Answers(rest))
  BY <1>5, <1>8, AnswersOfTail DEF InLine
<1>10. Answers(Append(wire[s], m)) = Answers(wire[s]) \cup Own(m)
  BY <1>5, AnswersOfAppend
<1>11. Lined(Answers(wire[s]), Own(m) \cup Answers(rest), Answers(posted[s]), InHand(s), Taken(s),
             InQueue(s), asked[s])
  BY <1>8, <1>9 DEF InLine
<1>12. /\ Lined(Answers(wire[s]) \cup Own(m), Answers(rest), Answers(posted[s]), InHand(s),
                Taken(s), InQueue(s), asked[s])
       /\ Before(Own(m), Answers(rest) \cup Answers(posted[s]) \cup InHand(s) \cup Taken(s)
                           \cup InQueue(s))
  BY <1>9, <1>11, LineWritten
<1>13. /\ Answers(wire[s])' = Answers(wire[s]) \cup Own(m)
       /\ Answers(sendQue[s])' = Answers(rest) /\ Ascending(sendQue[s])'
       /\ Answers(posted[s])' = Answers(posted[s]) /\ Ascending(posted[s])'
  BY <1>5, <1>7, <1>8, <1>9, <1>10 DEF Answers, Ascending, Places, InLine
<1>14. InLine(s)'
  BY <1>3, <1>5, <1>12, <1>13 DEF InLine
<1>15. Lines'
  BY <1>2, <1>4, <1>14, StillSeen DEF Lines
<1>16. Places(wire[s]) # {} => \E i \in Places(wire[s]) : LastPlace(wire[s], i)
  BY <1>2 DEF WireInv
<1>17. /\ LastAnswerIn(Append(wire[s], m)) = IF IsAnswer(m) THEN m ELSE LastAnswerIn(wire[s])
       /\ Places(Append(wire[s], m)) # {}
            => \E i \in Places(Append(wire[s], m)) : LastPlace(Append(wire[s], m), i)
       /\ LastAnswerIn(wire[s]) = 0 \/ LastAnswerIn(wire[s]) \in Answers(wire[s])
  BY <1>5, <1>16, LastOfAppend
<1>18. WireInv'
  <2>1. \A x \in Session \ {s} : wire'[x] = wire[x]
    BY <1>4 DEF Still
  <2> QED
    BY <1>2, <1>7, <1>17, <2>1 DEF WireInv, Places, LastPlace
<1>19. LastAnswer(s)' = IF IsAnswer(m) THEN m ELSE LastAnswer(s)
  BY <1>7, <1>17 DEF LastAnswer
<1>20. Sending(s) = Sending(s)' \cup Own(m) /\ Requests(s)' = Requests(s)
  BY <1>3, <1>9, <1>13 DEF Sending, Requests
<1>21. Sending(s)' \cup Requests(s)' \subseteq
         Answers(rest) \cup Answers(posted[s]) \cup InHand(s) \cup Taken(s) \cup InQueue(s)
  BY <1>3, <1>13 DEF Sending, Requests
<1>22. Over(s)' <=> Over(s)
  BY <1>3
<1>23. CASE ~ IsAnswer(m)
  <2>1. Own(m) = {} /\ LastAnswer(s)' = LastAnswer(s)
    BY <1>19, <1>23 DEF Own
  <2>2. Owed(s)' = Owed(s)
    BY <1>20, <1>22, <2>1 DEF Owed
  <2> QED
    BY <1>4, <1>15, <1>18, <1>22, <2>1, <2>2, AtMostEnds
<1>24. CASE IsAnswer(m)
  <2> DEFINE owes == [x \in Session |-> Owed(x)]
             last == [x \in Session |-> LastAnswer(x)]
             over == {x \in Session : Over(x)}
  <2>1. Own(m) = {m} /\ LastAnswer(s)' = m /\ m \in 1..MaxRequests
    BY <1>19, <1>24 DEF Own, IsAnswer
  <2>2. owes' = [owes EXCEPT ![s] = Owed(s)'] /\ last' = [last EXCEPT ![s] = m] /\ over' = over
    BY <1>4, <1>22, <2>1, OneClient
  <2>3. m > last[s]
    <3>1. m \in Int /\ m > 0
      BY <2>1
    <3>2. Before(Answers(wire[s]), Own(m))
      BY <1>11 DEF Lined, Before
    <3> QED
      BY <1>17, <2>1, <3>1, <3>2 DEF Before, LastAnswer
  <2>4. CASE Over(s)
    <3>1. Owed(s) = {} /\ Owed(s)' = {}
      BY <1>22, <2>4 DEF Owed
    <3>2. owes' = owes
      BY <2>2, <3>1
    <3>3. Replies!Late(s, m)
      BY <2>2, <2>3, <2>4, <3>2 DEF Replies!Late
    <3>4. Refines
      BY <2>1, <3>3 DEF Refines, Replies!Next
    <3> QED
      BY <1>15, <1>18, <3>4
  <2>5. CASE ~ Over(s)
    <3>1. Owed(s) = Owed(s)' \cup {m}
      BY <1>20, <1>22, <2>1, <2>5 DEF Owed
    <3>2. \A k \in Owed(s)' : m < k
      BY <1>12, <1>21, <1>22, <2>1, <2>5 DEF Owed, Before
    <3>3. m \in Int
      BY <2>1
    <3>4. m \notin Owed(s)' /\ Owed(s)' = Owed(s) \ {m}
      BY <3>1, <3>2, <3>3
    <3>5. \A k \in Owed(s) : m <= k
      <4>1. \A k \in Owed(s) : k \in Int
        BY DEF Owed, Requests, Sending, InQueue, Taken, InHand, Answers, IsAnswer
      <4>2. \A k \in Owed(s) : k = m \/ m < k
        BY <3>1, <3>2
      <4> QED
        BY <3>3, <4>1, <4>2
    <3>6. Replies!Answer(s)
      BY <2>2, <3>1, <3>4, <3>5 DEF Replies!Answer
    <3>7. Refines
      BY <3>6 DEF Refines, Replies!Next
    <3> QED
      BY <1>15, <1>18, <3>7
  <2> QED
    BY <2>4, <2>5
<1> QED
  BY <1>23, <1>24

\* What else an IO thread does: it starts and ends reading, closes the socket, and
\* drops what it cannot write.
LEMMA IoStepOrder ==
  ASSUME OrderInv, NEW s \in Session, IoStep(s)
  PROVE  Lines' /\ Refines
<1>1. UNCHANGED <<logicVars, instanceVars>>
  BY DEF IoStep
<1>2. UNCHANGED <<que, worker, stage, current, asked>>
  BY <1>1 DEF logicVars, instanceVars
<1>3. IInv /\ Lines /\ Shape
  BY DEF OrderInv, IInv, ConnectionInv
<1>4. \A x \in Session : Taken(x)' = Taken(x) /\ InQueue(x)' = InQueue(x)
  BY <1>2, Sections
<1>5. CASE StartRead(s)
  <2>1. /\ starting' = starting \ {s} /\ s \in starting
        /\ reading' = IF s \in closed THEN reading ELSE reading \cup {s}
        /\ UNCHANGED <<table, closed, wire, sendQue, posted, target, outgoing>>
    BY <1>5 DEF StartRead, closeVars, sendVars, senderVars
  <2>2. \A x \in Session : Over(x)' = Over(x)
    BY <2>1 DEF Over
  <2> QED
    BY <1>2, <1>3, <1>4, <2>1, <2>2, UnseenStep
<1>6. CASE ReadFailed(s)
  <2>1. /\ reading' = reading \ {s} /\ closed' = closed \cup {s} /\ s \in closed'
        /\ UNCHANGED <<table, starting, wire, sendQue, posted, target, outgoing>>
    BY <1>6 DEF ReadFailed, Fail, Close, sendVars, senderVars
  <2>2. (\A x \in Session \ {s} : Over(x)' = Over(x)) /\ (Over(s) => Over(s)')
    BY <2>1, OverSpreads
  <2> QED
    BY <1>2, <1>3, <1>4, <2>1, <2>2, ClosingStep
<1>7. CASE Shut(s)
  <2>1. UNCHANGED <<table, closed, starting, reading, wire, sendQue, posted, target, outgoing>>
    BY <1>7 DEF Shut, readVars, sendVars, senderVars
  <2>2. \A x \in Session : Over(x)' = Over(x)
    BY <2>1, Sections
  <2> QED
    BY <1>2, <1>3, <1>4, <2>1, <2>2, UnseenStep
<1>8. CASE WriteFailed(s)
  <2>1. /\ sendQue' = [sendQue EXCEPT ![s] = <<>>] /\ closed' = closed \cup {s} /\ s \in closed'
        /\ UNCHANGED <<table, starting, reading, wire, posted, target, outgoing>>
    BY <1>8 DEF WriteFailed, Fail, Close, readVars, senderVars
  <2>2. (\A x \in Session \ {s} : Over(x)' = Over(x)) /\ Over(s)'
    BY <2>1, OverSpreads DEF Over
  <2>3. \A x \in Session : InHand(x)' = InHand(x)
    BY <2>1, Sections
  <2>4. \A x \in Session \ {s} : Still(x)
    BY <1>2, <1>3, <1>4, <2>1, <2>2, <2>3 DEF Still, Shape
  <2>5. /\ asked[s] \in Nat /\ asked'[s] \in Nat /\ asked[s] <= asked'[s]
        /\ posted[s] \in Seq(Message) /\ sendQue'[s] = <<>>
    BY <1>2, <1>3, <2>1, LineTypes DEF Shape
  <2> QED
    BY <1>3, <1>4, <2>1, <2>2, <2>3, <2>4, <2>5, LosingStep
<1> QED
  BY <1>1, <1>5, <1>6, <1>7, <1>8, SendOnIOOrder, WriteDoneOrder DEF IoStep

-----------------------------------------------------------------------------
(* Send.                                                                   *)

\* A sender posts its message: the worker's answer moves on, nothing else does.
LEMMA SendPostOrder ==
  ASSUME OrderInv, NEW t \in Sender, SendPost(t), UNCHANGED <<logicVars, instanceVars>>
  PROVE  Lines' /\ Refines
<1>1. IInv /\ Lines /\ Shape /\ HandInv /\ Worker \in Sender /\ Sender = {Worker, Rpc}
  BY ChatInstanceAssumption DEF OrderInv, IInv, ConnectionInv
<1> PICK s \in Session : s = target[t]
  BY <1>1 DEF SendPost, Shape
<1> PICK m \in Message : m = outgoing[t]
  BY <1>1 DEF SendPost, Shape
<1>2. /\ posted' = [posted EXCEPT ![s] = Append(@, m)]
      /\ target' = [target EXCEPT ![t] = NoSession]
      /\ outgoing' = [outgoing EXCEPT ![t] = NoMessage]
      /\ UNCHANGED <<table, closed, starting, reading, wire, sendQue, worker, stage,
                     current, que, asked>>
  BY DEF SendPost, SendIdle, closeVars, readVars, logicVars, instanceVars
<1>3. \A x \in Session : /\ InQueue(x)' = InQueue(x) /\ Taken(x)' = Taken(x)
                         /\ Over(x)' = Over(x)
  BY <1>2, Sections
<1>4. \A x \in Session \ {s} : InHand(x)' = InHand(x)
  BY <1>1, <1>2, ConnectionAssumption DEF InHand, Shape
<1>5. InHand(s) = InHand(s)' \cup Own(m) /\ (InHand(s)' = {} \/ Own(m) = {})
  <2>1. CASE t = Worker
    BY <1>1, <1>2, <2>1, ConnectionAssumption DEF InHand, Own, IsAnswer, Shape
  <2>2. CASE t = Rpc /\ t # Worker
    <3>1. ~ IsAnswer(m)
      BY <1>1, <2>2 DEF HandInv, IsAnswer
    <3>2. InHand(s)' = InHand(s)
      BY <1>1, <1>2, <2>2 DEF InHand, Shape
    <3> QED
      BY <3>1, <3>2 DEF Own
  <2> QED
    BY <1>1, <2>1, <2>2
<1>6. \A x \in Session \ {s} : Still(x)
  BY <1>1, <1>2, <1>3, <1>4 DEF Still, Shape
<1>7. /\ posted[s] \in Seq(Message) /\ posted'[s] = Append(posted[s], m)
      /\ asked'[s] = asked[s] /\ wire'[s] = wire[s] /\ sendQue'[s] = sendQue[s]
  BY <1>1, <1>2, LineTypes DEF Shape
<1>8. InLine(s)
  BY <1>1 DEF Lines
<1>9. /\ Lined(Answers(wire[s]), Answers(sendQue[s]), Answers(posted[s]) \cup Own(m), InHand(s)',
               Taken(s), InQueue(s), asked[s])
      /\ Before(Answers(posted[s]), Own(m))
  <2>1. CASE Own(m) = {}
    <3>1. InHand(s)' = InHand(s) /\ Answers(posted[s]) \cup Own(m) = Answers(posted[s])
      BY <1>5, <2>1
    <3> QED
      BY <1>8, <2>1, <3>1 DEF InLine, Before
  <2>2. CASE InHand(s)' = {}
    <3>1. InHand(s) = Own(m)
      BY <1>5, <2>2
    <3>2. Lined(Answers(wire[s]), Answers(sendQue[s]), Answers(posted[s]), Own(m), Taken(s),
                InQueue(s), asked[s])
      BY <1>8, <3>1 DEF InLine
    <3>3. Lined(Answers(wire[s]), Answers(sendQue[s]), Answers(posted[s]) \cup Own(m), {}, Taken(s),
                InQueue(s), asked[s])
      BY <3>2, LinePosted
    <3>4. Before(Answers(posted[s]), Own(m))
      BY <3>2 DEF Lined, Before
    <3> QED
      BY <2>2, <3>3, <3>4
  <2> QED
    BY <1>5, <2>1, <2>2
<1>10. /\ Answers(Append(posted[s], m)) = Answers(posted[s]) \cup Own(m)
       /\ Ascending(Append(posted[s], m))
  BY <1>7, <1>8, <1>9, AnswersOfAppend DEF InLine
<1>11. /\ Answers(posted[s])' = Answers(posted[s]) \cup Own(m) /\ Ascending(posted[s])'
       /\ Answers(sendQue[s])' = Answers(sendQue[s]) /\ Ascending(sendQue[s])'
       /\ Answers(wire[s])' = Answers(wire[s])
  BY <1>7, <1>8, <1>10 DEF Answers, Ascending, Places, InLine
<1>12. InLine(s)'
  BY <1>3, <1>7, <1>9, <1>11 DEF InLine
<1>13. Lines'
  BY <1>1, <1>6, <1>12, StillSeen DEF Lines
<1>14. Sending(s)' = Sending(s) /\ Requests(s)' = Requests(s)
  BY <1>3, <1>5, <1>11 DEF Sending, Requests
<1>15. Owed(s)' = Owed(s) /\ LastAnswer(s)' = LastAnswer(s)
  BY <1>3, <1>7, <1>14 DEF Owed, LastAnswer
<1>16. Refines
  BY <1>3, <1>6, <1>15, AtMostEnds
<1> QED
  BY <1>13, <1>16

\* A rejected message is dropped with its connection.
LEMMA SendCloseOrder ==
  ASSUME OrderInv, NEW t \in Sender, SendClose(t), UNCHANGED <<logicVars, instanceVars>>
  PROVE  Lines' /\ Refines
<1>1. IInv /\ Lines /\ Shape /\ HandInv /\ Worker \in Sender /\ Sender = {Worker, Rpc}
  BY ChatInstanceAssumption DEF OrderInv, IInv, ConnectionInv
<1> PICK s \in Session : s = target[t]
  BY <1>1 DEF SendClose, Shape
<1>2. /\ closed' = closed \cup {s}
      /\ target' = [target EXCEPT ![t] = NoSession]
      /\ outgoing' = [outgoing EXCEPT ![t] = NoMessage]
      /\ UNCHANGED <<table, starting, reading, wire, sendQue, posted, worker, stage,
                     current, que, asked>>
  BY DEF SendClose, Fail, Close, SendIdle, readVars, sendVars, logicVars, instanceVars
<1>3. \A x \in Session : InQueue(x)' = InQueue(x) /\ Taken(x)' = Taken(x)
  BY <1>2, Sections
<1>4. (\A x \in Session \ {s} : Over(x)' = Over(x)) /\ Over(s)'
  BY <1>2, OverSpreads DEF Over
<1>5. /\ \A x \in Session \ {s} : InHand(x)' = InHand(x)
      /\ InHand(s)' \subseteq InHand(s)
  BY <1>1, <1>2, ConnectionAssumption DEF InHand, Shape
<1>6. \A x \in Session \ {s} : Still(x)
  BY <1>2, <1>3, <1>4, <1>5 DEF Still
<1>7. /\ asked[s] \in Nat /\ asked'[s] \in Nat /\ asked[s] <= asked'[s]
      /\ posted[s] \in Seq(Message)
  BY <1>1, <1>2, LineTypes
<1> QED
  BY <1>1, <1>2, <1>3, <1>4, <1>5, <1>6, <1>7, LosingStep

\* The steps of Send.
LEMMA SendStepOrder ==
  ASSUME OrderInv, NEW t \in Sender, SendStep(t)
  PROVE  Lines' /\ Refines
<1>1. UNCHANGED <<logicVars, instanceVars>>
  BY DEF SendStep
<1>2. CASE SendReject(t)
  <2>1. UNCHANGED <<table, closed, starting, reading, wire, sendQue, posted, target, outgoing,
                    que, worker, stage, current, asked>>
    BY <1>1, <1>2 DEF SendReject, closeVars, readVars, logicVars, instanceVars
  <2>2. \A x \in Session : Taken(x)' = Taken(x) /\ Over(x)' = Over(x)
    BY <2>1, Sections
  <2> QED
    BY <2>1, <2>2, UnseenStep DEF OrderInv
<1> QED
  BY <1>1, <1>2, SendPostOrder, SendCloseOrder DEF SendStep

\* A message that is no answer enters Send.
LEMMA PushOrder ==
  ASSUME OrderInv, NEW t \in Sender, NEW s \in Session,
         PushTo(t, s) \/ KickOut(t, s), UNCHANGED <<logicVars, asked>>,
         \A x \in Session : Taken(x)' = Taken(x)
  PROVE  Lines' /\ Refines
<1>1. IInv /\ Lines /\ Shape /\ HandInv /\ Worker \in Sender /\ Sender = {Worker, Rpc}
      /\ ~ IsAnswer(Push) /\ ~ IsAnswer(Offline)
  BY ChatInstanceAssumption DEF OrderInv, IInv, ConnectionInv, IsAnswer, Push, Offline
<1>2. UNCHANGED <<que, worker, current, asked>>
  BY DEF logicVars
<1>3. CASE UNCHANGED connectionVars
  <2>1. UNCHANGED <<table, closed, starting, reading, wire, sendQue, posted, target, outgoing>>
    BY <1>3 DEF connectionVars, closeVars, readVars, sendVars, senderVars
  <2>2. \A x \in Session : Over(x)' = Over(x)
    BY <2>1, Sections
  <2> QED
    BY <1>1, <1>2, <2>1, <2>2, UnseenStep
<1>4. ASSUME NEW m, ~ IsAnswer(m), Send(t, s, m)
      PROVE  Lines' /\ Refines
  <2>1. /\ target' = [target EXCEPT ![t] = s] /\ outgoing' = [outgoing EXCEPT ![t] = m]
        /\ step[t] = "idle"
        /\ UNCHANGED <<table, closed, starting, reading, wire, sendQue, posted>>
    BY <1>4 DEF Send, closeVars, readVars
  <2>2. \A k \in 1..MaxRequests : outgoing[t] # k
    BY <1>1, <2>1, ConnectionAssumption, ChatInstanceAssumption DEF HandInv, Offline
  <2>3. \A x \in Session : InHand(x)' = InHand(x)
    BY <1>1, <1>4, <2>1, <2>2 DEF InHand, Shape, IsAnswer
  <2>4. \A x \in Session : Over(x)' = Over(x) /\ InQueue(x)' = InQueue(x)
    BY <1>2, <2>1, Sections
  <2>5. \A x \in Session \ {s} : Still(x)
    BY <1>2, <2>1, <2>3, <2>4 DEF Still
  <2>6. Owed(s)' = Owed(s)
    BY <2>1, <2>3, <2>4 DEF Owed, Requests, Sending
  <2>7. /\ asked[s] \in Nat /\ asked'[s] \in Nat /\ asked[s] <= asked'[s]
        /\ posted[s] \in Seq(Message)
    BY <1>1, <1>2, LineTypes
  <2> QED
    BY <1>1, <2>1, <2>3, <2>4, <2>5, <2>6, <2>7, LosingStep
<1> QED
  BY <1>1, <1>3, <1>4 DEF PushTo, KickOut

-----------------------------------------------------------------------------
(* The logic queue and the worker.                                         *)

\* An accepted frame is the youngest request of its session.
LEMMA FrameOrder ==
  ASSUME OrderInv, NEW s \in Session, FrameArrives(s)
  PROVE  Lines' /\ RequestsAscend' /\ Refines
<1> DEFINE k == asked[s] + 1
<1>1. /\ asked' = [asked EXCEPT ![s] = @ + 1] /\ s \in table
      /\ que' = Append(que, <<s, k>>) \/ que' = que
      /\ UNCHANGED <<table, closed, starting, reading, wire, sendQue, posted, target, outgoing,
                     worker, stage, current>>
  BY DEF FrameArrives, ReadFrame, Post, connectionVars, closeVars, readVars, sendVars, senderVars
<1>2. IInv /\ Lines /\ Shape /\ RequestsAscend
  BY DEF OrderInv, IInv, ConnectionInv
<1>3. /\ asked[s] \in Nat /\ asked'[s] = k /\ k \in 1..MaxRequests /\ posted[s] \in Seq(Message)
      /\ asked[s] <= k /\ k \in Nat
  <2>1. asked \in [Session -> 0..MaxRequests] /\ MaxRequests \in Nat /\ asked[s] < MaxRequests
    BY <1>2, ChatInstanceAssumption DEF FrameArrives, IInv, InstanceInv
  <2>2. posted[s] \in Seq(Message)
    BY <1>2, LineTypes
  <2> QED
    BY <1>1, <2>1, <2>2
<1>4. \A x \in Session : InHand(x)' = InHand(x) /\ Taken(x)' = Taken(x) /\ Over(x)' = Over(x)
  BY <1>1, Sections
<1>5. \A x \in Session \ {s} : asked'[x] = asked[x]
  BY <1>1, <1>2 DEF IInv, InstanceInv
<1>6. CASE que' = que
  <2>1. \A x \in Session : InQueue(x)' = InQueue(x)
    BY <1>6, Sections
  <2>2. \A x \in Session \ {s} : Still(x)
    BY <1>1, <1>4, <1>5, <2>1 DEF Still
  <2>3. Owed(s)' = Owed(s)
    BY <1>1, <1>4, <2>1 DEF Owed, Requests, Sending
  <2>4. RequestsAscend'
    BY <1>2, <1>6 DEF RequestsAscend
  <2>5. asked'[s] \in Nat /\ asked[s] <= asked'[s]
    BY <1>3
  <2>6. Lines' /\ Refines
    BY <1>1, <1>2, <1>3, <1>4, <2>1, <2>2, <2>3, <2>5, LosingStep
  <2> QED
    BY <2>4, <2>6
<1>7. CASE que' = Append(que, <<s, k>>)
  <2>1. que \in Seq(Node) /\ <<s, k>> \in Node
    BY <1>2, <1>3, ChatInstanceAssumption DEF IInv, QueueInv, LogicTypeOK
  <2>2. ToSet(que') = ToSet(que) \cup {<<s, k>>}
    BY <1>7, <2>1, ToSetAppend
  <2>3. InQueue(s)' = InQueue(s) \cup {k}
    BY <1>3, <2>2 DEF InQueue
  <2>4. \A x \in Session \ {s} : InQueue(x)' = InQueue(x)
    BY <2>2 DEF InQueue
  <2>5. \A x \in Session \ {s} : Still(x)
    BY <1>1, <1>4, <1>5, <2>4 DEF Still
  <2>6. InLine(s)
    BY <1>2 DEF Lines
  <2>7. Lined(Answers(wire[s]), Answers(sendQue[s]), Answers(posted[s]), InHand(s), Taken(s),
              InQueue(s) \cup {k}, k)
    BY <1>3, <2>6, LineLonger DEF InLine
  <2>8. /\ Answers(posted[s])' = Answers(posted[s]) /\ Ascending(posted[s])'
        /\ Answers(sendQue[s])' = Answers(sendQue[s]) /\ Ascending(sendQue[s])'
        /\ Answers(wire[s])' = Answers(wire[s])
    BY <1>1, <2>6 DEF Answers, Ascending, Places, InLine
  <2>9. InLine(s)'
    BY <1>3, <1>4, <2>3, <2>7, <2>8 DEF InLine
  <2>10. Lines'
    BY <1>2, <2>5, <2>9, StillSeen DEF Lines
  <2>11. RequestsAscend'
    <3>1. /\ DOMAIN que' = DOMAIN que \cup {Len(que) + 1} /\ que'[Len(que) + 1] = <<s, k>>
          /\ \A i \in DOMAIN que : que'[i] = que[i] /\ i < Len(que) + 1 /\ i \in Nat
          /\ Len(que) \in Nat
      BY <1>7, <2>1
    <3>2. ASSUME NEW i \in DOMAIN que, que[i][1] = s PROVE que[i][2] < k
      <4>1. que[i] \in Node /\ que[i] \in ToSet(que)
        BY <2>1 DEF ToSet
      <4>2. que[i][2] \in 1..MaxRequests /\ que[i] = <<s, que[i][2]>>
        BY <3>2, <4>1, ChatInstanceAssumption
      <4>3. que[i][2] \in InQueue(s)
        BY <4>1, <4>2 DEF InQueue
      <4>4. que[i][2] \in 1..asked[s]
        BY <2>6, <4>3 DEF InLine, Lined
      <4> QED
        BY <1>3, <4>4
    <3>3. ASSUME NEW i \in DOMAIN que', NEW j \in DOMAIN que', i < j, que'[i][1] = que'[j][1]
          PROVE  que'[i][2] < que'[j][2]
      <4>1. i \in DOMAIN que
        BY <3>1, <3>3
      <4>2. CASE j \in DOMAIN que
        BY <1>2, <3>1, <3>3, <4>1, <4>2 DEF RequestsAscend
      <4>3. CASE j = Len(que) + 1
        BY <3>1, <3>2, <3>3, <4>1, <4>3
      <4> QED
        BY <3>1, <4>2, <4>3
    <3> QED
      BY <3>3 DEF RequestsAscend
  <2>12. LastAnswer(s)' = LastAnswer(s)
    BY <1>1 DEF LastAnswer
  <2>13. Sending(s)' = Sending(s)
    BY <1>4, <2>8 DEF Sending
  <2>14. CASE Over(s) \/ <<s, k>> \in Unhandled
    <3>1. <<s, k>> \in Unhandled => Requests(s)' = Requests(s)
      BY <1>4, <2>3 DEF Requests
    <3>2. Owed(s)' = Owed(s)
      BY <1>4, <2>13, <2>14, <3>1 DEF Owed
    <3>3. Refines
      BY <1>4, <2>5, <2>12, <3>2, AtMostEnds
    <3> QED
      BY <2>10, <2>11, <3>3
  <2>15. CASE ~ Over(s) /\ <<s, k>> \notin Unhandled
    <3> DEFINE owes == [x \in Session |-> Owed(x)]
               last == [x \in Session |-> LastAnswer(x)]
               over == {x \in Session : Over(x)}
    <3>1. Requests(s)' = Requests(s) \cup {k}
      BY <1>4, <2>3, <2>15 DEF Requests
    <3>2. Owed(s)' = Owed(s) \cup {k}
      BY <1>4, <2>13, <2>15, <3>1 DEF Owed
    <3>3. owes' = [owes EXCEPT ![s] = Owed(s)'] /\ last' = last /\ over' = over
      BY <1>4, <2>5, <2>12, OneClient
    <3>4. owes' = [owes EXCEPT ![s] = @ \cup {k}]
      BY <3>2, <3>3
    <3>5. Lined(Answers(wire[s]), Answers(sendQue[s]), Answers(posted[s]), InHand(s), Taken(s),
                InQueue(s), asked[s])
      BY <2>6 DEF InLine
    <3>6. \A j \in Owed(s) \cup Answers(wire[s]) : j \in 1..asked[s]
      BY <3>5 DEF Lined, Owed, Requests, Sending
    <3>7. \A j \in Owed(s) \cup Answers(wire[s]) : k > j
      BY <1>3, <3>6
    <3>8. LastAnswer(s) = 0 \/ LastAnswer(s) \in Answers(wire[s])
      <4>1. Places(wire[s]) # {} => \E i \in Places(wire[s]) : LastPlace(wire[s], i)
        BY DEF OrderInv, WireInv
      <4>2. wire[s] \in Seq(Message) /\ 0 \in Message
        BY <1>2, LineTypes, ChatInstanceAssumption DEF Offline
      <4> QED
        BY <4>1, <4>2, LastOfAppend DEF LastAnswer
    <3>9. k > LastAnswer(s)
      BY <1>3, <3>7, <3>8
    <3>10. Replies!Accept(s, k)
      BY <2>15, <3>3, <3>4, <3>7, <3>9 DEF Replies!Accept
    <3>11. Refines
      BY <1>3, <3>10 DEF Refines, Replies!Next
    <3> QED
      BY <2>10, <2>11, <3>11
  <2> QED
    BY <2>14, <2>15
<1> QED
  BY <1>1, <1>6, <1>7

\* The worker takes the request at the head of the queue.
LEMMA TakeOrder ==
  ASSUME OrderInv, Take, UNCHANGED <<connectionVars, instanceVars>>
  PROVE  Lines' /\ RequestsAscend' /\ Refines
<1>1. /\ worker = "check" /\ worker' = "busy" /\ que # <<>>
      /\ current' = Head(que) /\ que' = Tail(que)
      /\ UNCHANGED <<table, closed, starting, reading, wire, sendQue, posted, target, outgoing,
                     stage, asked>>
  BY DEF Take, connectionVars, closeVars, readVars, sendVars, senderVars, instanceVars
<1>2. IInv /\ Lines /\ RequestsAscend
  BY DEF OrderInv
<1>3. que \in Seq(Node) /\ que # <<>> /\ stage = "taken"
  BY <1>1, <1>2 DEF IInv, QueueInv, LogicTypeOK, InstanceInv
<1>4. /\ ToSet(que) = {Head(que)} \cup ToSet(que')
      /\ Head(que) = que[1] /\ 1 \in DOMAIN que
      /\ \A i \in DOMAIN que' : i + 1 \in DOMAIN que /\ que'[i] = que[i + 1] /\ i \in Nat /\ i >= 1
  BY <1>1, <1>3, ToSetTail
<1>5. Head(que) \in Node
  BY <1>3
<1> PICK s \in Session, k \in 1..MaxRequests : Head(que) = <<s, k>>
  BY <1>5, ChatInstanceAssumption
<1>6. \A x \in Session : InHand(x)' = InHand(x) /\ Over(x)' = Over(x)
  BY <1>1, Sections
<1>7. /\ \A x \in Session : Taken(x) = {}
      /\ \A x \in Session \ {s} : Taken(x)' = {}
      /\ Taken(s)' = {k}
  BY <1>1, <1>3 DEF Taken
<1>8. /\ InQueue(s) = {k} \cup InQueue(s)'
      /\ \A x \in Session \ {s} : InQueue(x)' = InQueue(x)
  BY <1>4 DEF InQueue
<1>9. \A x \in Session \ {s} : Still(x)
  BY <1>1, <1>6, <1>7, <1>8 DEF Still
<1>10. Before({k}, InQueue(s)')
  <2>1. ASSUME NEW j \in InQueue(s)' PROVE k < j
    <3>1. <<s, j>> \in ToSet(que')
      BY DEF InQueue
    <3> PICK i \in DOMAIN que' : <<s, j>> = que'[i]
      BY <3>1 DEF ToSet
    <3>2. i + 1 \in DOMAIN que /\ que[i + 1] = <<s, j>> /\ i \in Nat /\ i >= 1
      BY <1>4
    <3>3. 1 < i + 1 /\ que[1] = <<s, k>>
      BY <1>4, <3>2
    <3> QED
      BY <1>2, <1>4, <3>2, <3>3 DEF RequestsAscend
  <2> QED
    BY <2>1 DEF Before
<1>11. InLine(s)
  BY <1>2 DEF Lines
<1>12. Lined(Answers(wire[s]), Answers(sendQue[s]), Answers(posted[s]), InHand(s), {},
             {k} \cup InQueue(s)', asked[s])
  BY <1>7, <1>8, <1>11 DEF InLine
<1>13. Lined(Answers(wire[s]), Answers(sendQue[s]), Answers(posted[s]), InHand(s), {k},
             InQueue(s)', asked[s])
  BY <1>10, <1>12, LineTaken
<1>14. InLine(s)'
  BY <1>1, <1>6, <1>7, <1>11, <1>13 DEF InLine, Answers, Ascending, Places
<1>15. Lines'
  BY <1>2, <1>9, <1>14, StillSeen DEF Lines
<1>16. RequestsAscend'
  <2>1. ASSUME NEW i \in DOMAIN que', NEW j \in DOMAIN que', i < j, que'[i][1] = que'[j][1]
        PROVE  que'[i][2] < que'[j][2]
    <3>1. /\ i + 1 \in DOMAIN que /\ que'[i] = que[i + 1] /\ i \in Nat
          /\ j + 1 \in DOMAIN que /\ que'[j] = que[j + 1] /\ j \in Nat
      BY <1>4
    <3>2. i + 1 < j + 1
      BY <2>1, <3>1
    <3>3. que[i + 1][1] = que[j + 1][1]
      BY <2>1, <3>1
    <3>4. que[i + 1][2] < que[j + 1][2]
      BY <1>2, <3>1, <3>2, <3>3 DEF RequestsAscend
    <3> QED
      BY <3>1, <3>4
  <2> QED
    BY <2>1 DEF RequestsAscend
<1>17. Requests(s)' = Requests(s) /\ Sending(s)' = Sending(s)
  BY <1>1, <1>6, <1>7, <1>8 DEF Requests, Sending
<1>18. Owed(s)' = Owed(s) /\ LastAnswer(s)' = LastAnswer(s)
  BY <1>1, <1>6, <1>17 DEF Owed, LastAnswer
<1>19. Refines
  BY <1>6, <1>9, <1>18, AtMostEnds
<1> QED
  BY <1>15, <1>16, <1>19

\* A dropped request has no handler, or its connection is over.
LEMMA DropOrder ==
  ASSUME OrderInv, WorkerDrop
  PROVE  Lines' /\ Refines
<1>1. /\ worker = "busy" /\ stage = "taken" /\ ~ Runnable(current) /\ worker' = "check"
      /\ UNCHANGED <<table, closed, starting, reading, wire, sendQue, posted, target, outgoing,
                     que, stage, asked>>
  BY DEF WorkerDrop, Done, connectionVars, closeVars, readVars, sendVars, senderVars, instanceVars
<1>2. IInv /\ Lines /\ ReadInv
  BY DEF OrderInv
<1>3. current \in Node
  BY <1>1, <1>2 DEF IInv, QueueInv, LogicTypeOK
<1> PICK s \in Session, k \in 1..MaxRequests : current = <<s, k>>
  BY <1>3, ChatInstanceAssumption
<1>4. \A x \in Session : /\ InHand(x)' = InHand(x) /\ InQueue(x)' = InQueue(x)
                         /\ Over(x)' = Over(x) /\ Taken(x)' = {}
  BY <1>1, Sections DEF Taken
<1>5. \A x \in Session \ {s} : Taken(x) = {}
  BY DEF Taken
<1>6. \A x \in Session \ {s} : Still(x)
  BY <1>1, <1>4, <1>5 DEF Still
<1>7. Taken(s) = {k}
  BY <1>1 DEF Taken
<1>8. /\ asked[s] \in Nat /\ asked'[s] \in Nat /\ asked[s] <= asked'[s]
      /\ posted[s] \in Seq(Message)
  BY <1>1, <1>2, LineTypes
<1>9. CASE <<s, k>> \in Unhandled
  <2>1. Requests(s)' = Requests(s)
    BY <1>4, <1>7, <1>9 DEF Requests
  <2>2. Owed(s)' = Owed(s)
    BY <1>1, <1>4, <2>1 DEF Owed, Sending
  <2> QED
    BY <1>1, <1>2, <1>4, <1>6, <1>8, <2>2, LosingStep
<1>10. CASE s \notin table \/ s \in closed
  <2>1. k \in 1..asked[s]
    BY <1>2, <1>7 DEF Lines, InLine, Lined
  <2>2. asked[s] > 0
    BY <1>8, <2>1
  <2>3. Over(s)
    BY <1>2, <1>10, <2>2 DEF ReadInv, Over
  <2> QED
    BY <1>1, <1>2, <1>4, <1>6, <1>8, <2>3, LosingStep
<1> QED
  BY <1>1, <1>9, <1>10 DEF Runnable

\* The answer follows its request, or its connection is gone.
LEMMA AnswerOrder ==
  ASSUME OrderInv, WorkerAnswer
  PROVE  Lines' /\ Refines
<1>1. /\ worker = "busy" /\ stage = "handling" /\ stage' = "answered"
      /\ UNCHANGED <<que, worker, current, asked>>
  BY DEF WorkerAnswer, logicVars
<1>2. IInv /\ Lines /\ Shape /\ HandInv
  BY DEF OrderInv, IInv, ConnectionInv
<1>3. current \in Node /\ Worker \in Sender
  BY <1>1, <1>2, ChatInstanceAssumption DEF IInv, QueueInv, LogicTypeOK
<1> PICK s \in Session, k \in 1..MaxRequests : current = <<s, k>>
  BY <1>3, ChatInstanceAssumption
<1>4. /\ \A x \in Session : Taken(x)' = {} /\ InHand(x) = {} /\ InQueue(x)' = InQueue(x)
      /\ \A x \in Session \ {s} : Taken(x) = {}
      /\ Taken(s) = {k}
  BY <1>1, <1>2, Sections DEF Taken, InHand, HandInv
<1>5. /\ asked[s] \in Nat /\ asked'[s] \in Nat /\ asked[s] <= asked'[s]
      /\ posted[s] \in Seq(Message)
  BY <1>1, <1>2, LineTypes
<1>6. CASE s \in closed /\ UNCHANGED connectionVars
  <2>1. UNCHANGED <<table, closed, starting, reading, wire, sendQue, posted, target, outgoing>>
    BY <1>6 DEF connectionVars, closeVars, readVars, sendVars, senderVars
  <2>2. \A x \in Session : InHand(x)' = InHand(x) /\ Over(x)' = Over(x)
    BY <2>1, Sections
  <2>3. \A x \in Session \ {s} : Still(x)
    BY <1>1, <1>4, <2>1, <2>2 DEF Still
  <2>4. Over(s)'
    BY <1>6, <2>2 DEF Over
  <2> QED
    BY <1>2, <1>4, <1>5, <2>1, <2>2, <2>3, <2>4, LosingStep
<1>7. CASE Send(Worker, s, k)
  <2>1. /\ target' = [target EXCEPT ![Worker] = s] /\ outgoing' = [outgoing EXCEPT ![Worker] = k]
        /\ UNCHANGED <<table, closed, starting, reading, wire, sendQue, posted>>
    BY <1>7 DEF Send, closeVars, readVars
  <2>2. /\ InHand(s)' = {k}
        /\ \A x \in Session \ {s} : InHand(x)' = {}
    BY <1>2, <1>3, <2>1 DEF InHand, Shape
  <2>3. \A x \in Session : Over(x)' = Over(x)
    BY <2>1, Sections
  <2>4. \A x \in Session \ {s} : Still(x)
    BY <1>1, <1>4, <2>1, <2>2, <2>3 DEF Still
  <2>5. InLine(s)
    BY <1>2 DEF Lines
  <2>6. Lined(Answers(wire[s]), Answers(sendQue[s]), Answers(posted[s]), {}, {k}, InQueue(s),
              asked[s])
    BY <1>4, <2>5 DEF InLine
  <2>7. Lined(Answers(wire[s]), Answers(sendQue[s]), Answers(posted[s]), {k}, {}, InQueue(s),
              asked[s])
    BY <2>6, LineAnswered
  <2>8. InLine(s)'
    BY <1>1, <1>4, <2>1, <2>2, <2>5, <2>7 DEF InLine, Answers, Ascending, Places
  <2>9. Lines'
    BY <1>2, <2>4, <2>8, StillSeen DEF Lines
  <2>10. <<s, k>> \notin Unhandled
    BY <1>1, <1>2 DEF HandInv
  <2>11. (Requests(s) \cup Sending(s))' = Requests(s) \cup Sending(s)
    BY <1>4, <2>1, <2>2, <2>10 DEF Requests, Sending
  <2>12. Owed(s)' = Owed(s) /\ LastAnswer(s)' = LastAnswer(s)
    BY <2>1, <2>3, <2>11 DEF Owed, LastAnswer
  <2>13. Refines
    BY <2>3, <2>4, <2>12, AtMostEnds
  <2> QED
    BY <2>9, <2>13
<1> QED
  BY <1>6, <1>7 DEF WorkerAnswer

\* A thrown request is dropped with its connection.
LEMMA ThrowOrder ==
  ASSUME OrderInv, WorkerThrow
  PROVE  Lines' /\ Refines
<1>1. /\ worker = "busy" /\ stage = "handling" /\ stage' = "answered"
      /\ closed' = closed \cup {current[1]}
      /\ UNCHANGED <<table, starting, reading, wire, sendQue, posted, target, outgoing,
                     que, worker, current, asked>>
  BY DEF WorkerThrow, Abort, Fail, Close, readVars, sendVars, senderVars, logicVars
<1>2. IInv /\ Lines
  BY DEF OrderInv
<1>3. current \in Node
  BY <1>1, <1>2 DEF IInv, QueueInv, LogicTypeOK
<1> PICK s \in Session, k \in 1..MaxRequests : current = <<s, k>>
  BY <1>3, ChatInstanceAssumption
<1>4. \A x \in Session : /\ InHand(x)' = InHand(x) /\ InQueue(x)' = InQueue(x)
                         /\ Taken(x)' = {}
  BY <1>1, Sections DEF Taken
<1>5. \A x \in Session \ {s} : Taken(x) = {}
  BY DEF Taken
<1>6. (\A x \in Session \ {s} : Over(x)' = Over(x)) /\ Over(s)'
  BY <1>1, OverSpreads DEF Over
<1>7. \A x \in Session \ {s} : Still(x)
  BY <1>1, <1>4, <1>5, <1>6 DEF Still
<1>8. /\ asked[s] \in Nat /\ asked'[s] \in Nat /\ asked[s] <= asked'[s]
      /\ posted[s] \in Seq(Message)
  BY <1>1, <1>2, LineTypes
<1> QED
  BY <1>1, <1>2, <1>4, <1>6, <1>7, <1>8, LosingStep

-----------------------------------------------------------------------------
(* The other steps of the process.                                         *)

\* Tables are cleaned up after connections that are closed.
LEMMA CleanUpOrder ==
  ASSUME OrderInv, NEW t \in Caller, CleanUp(t)
  PROVE  Lines' /\ Refines
<1>1. IInv /\ Lines /\ Shape /\ ReadInv
  BY DEF OrderInv, IInv, ConnectionInv
<1> PICK s \in Session : s = cleaning[t]
  BY <1>1 DEF CleanUp, CleanedUp, Shape
<1>2. /\ table' = table \ {s}
      /\ UNCHANGED <<closed, starting, reading, wire, sendQue, posted, target, outgoing,
                     que, worker, stage, current, asked>>
  BY DEF CleanUp, CleanedUp, readVars, sendVars, senderVars, logicVars, instanceVars
<1>3. \A x \in Session \ {s} : Over(x)' = Over(x)
  BY <1>2, OverSpreads
<1>4. Over(s) => Over(s)'
  BY <1>2, OverSpreads
<1>5. \A x \in Session : Taken(x)' = Taken(x)
  BY <1>2, Sections
<1> QED
  BY <1>1, <1>2, <1>3, <1>4, <1>5, ClosingStep

\* The victim of a kick leaves the table.
LEMMA ClearVictimOrder ==
  ASSUME OrderInv, NEW t \in Sender, ClearVictim(t)
  PROVE  Lines' /\ Refines
<1>1. IInv /\ Lines
  BY DEF OrderInv
<1> PICK s \in Session : s = victim[t]
  BY <1>1 DEF ClearVictim, IInv, InstanceInv
<1>2. /\ table' = table \ {s}
      /\ UNCHANGED <<closed, starting, reading, wire, sendQue, posted, target, outgoing,
                     que, worker, stage, current, asked>>
  BY DEF ClearVictim, ClearSession, closeVars, readVars, sendVars, senderVars, logicVars
<1>3. (\A x \in Session \ {s} : Over(x)' = Over(x)) /\ (Over(s) => Over(s)')
  BY <1>2, OverSpreads
<1>4. \A x \in Session : Taken(x)' = Taken(x)
  BY <1>2, Sections
<1> QED
  BY <1>1, <1>2, <1>3, <1>4, ClosingStep

\* Another thread closes a connection.
LEMMA AbortOrder ==
  ASSUME OrderInv, NEW t, NEW s \in Session, Abort(t, s),
         UNCHANGED <<logicVars, asked, stage>>
  PROVE  Lines' /\ Refines
<1>1. IInv /\ Lines
  BY DEF OrderInv
<1>2. /\ closed' = closed \cup {s}
      /\ UNCHANGED <<table, starting, reading, wire, sendQue, posted, target, outgoing,
                     que, worker, stage, current, asked>>
  BY DEF Abort, Fail, Close, readVars, sendVars, senderVars, logicVars
<1>3. (\A x \in Session \ {s} : Over(x)' = Over(x)) /\ (Over(s) => Over(s)')
  BY <1>2, OverSpreads
<1>4. \A x \in Session : Taken(x)' = Taken(x)
  BY <1>2, Sections
<1> QED
  BY <1>1, <1>2, <1>3, <1>4, ClosingStep

\* A new connection, one that fails, and one that is no longer known.
LEMMA EnvironmentOrder ==
  ASSUME OrderInv, NEW s \in Session, Connect(s) \/ ClientGone(s) \/ ClientRejected(s)
  PROVE  Lines' /\ Refines
<1>1. IInv /\ Lines
  BY DEF OrderInv
<1>2. /\ UNCHANGED <<wire, sendQue, posted, target, outgoing, que, worker, stage, current, asked>>
      /\ \A x \in Session \ {s} : Over(x)' = Over(x)
      /\ Over(s) => Over(s)'
  <2>1. CASE Connect(s)
    BY <2>1 DEF Connect, Accept, closeVars, sendVars, senderVars, logicVars, instanceVars, Over
  <2>2. CASE ClientGone(s)
    BY <2>2 DEF ClientGone, ReadFailed, Fail, Close, sendVars, senderVars, logicVars, instanceVars,
                Over
  <2>3. CASE ClientRejected(s)
    BY <2>3 DEF ClientRejected, ReadUnregistered, Close, sendVars, senderVars, logicVars,
                instanceVars, Over
  <2> QED
    BY <2>1, <2>2, <2>3
<1>3. \A x \in Session : Taken(x)' = Taken(x)
  BY <1>2, Sections
<1> QED
  BY <1>1, <1>2, <1>3, ClosingStep

\* Steps that leave the connections alone and neither take nor drop a request.
LEMMA IdleOrder ==
  ASSUME OrderInv, UNCHANGED <<connectionVars, que, asked>>,
         \A x \in Session : Taken(x)' = Taken(x)
  PROVE  Lines' /\ Refines
<1>1. UNCHANGED <<table, closed, starting, reading, wire, sendQue, posted, target, outgoing>>
  BY DEF connectionVars, closeVars, readVars, sendVars, senderVars
<1>2. \A x \in Session : Over(x)' = Over(x)
  BY <1>1, Sections
<1> QED
  BY <1>1, <1>2, UnseenStep DEF OrderInv

\* Every step of the process keeps the requests in line, and refines OrderedReplies.
LEMMA LineStep ==
  ASSUME OrderInv, [Next]_vars
  PROVE  Lines' /\ Refines
<1>1. /\ Worker \in Sender /\ Rpc \in Sender /\ Worker \in Caller /\ Rpc \in Caller
      /\ Main \in Caller /\ Session \subseteq Caller
  BY ChatInstanceAssumption
<1>2. worker # "busy" => stage = "taken"
  BY DEF OrderInv, IInv, InstanceInv
<1> DEFINE Idle == /\ UNCHANGED <<connectionVars, que, asked>>
                   /\ \A x \in Session : Taken(x)' = Taken(x)
<1>3. ASSUME Idle PROVE Lines' /\ Refines
  BY <1>3, IdleOrder
<1>4. ASSUME NEW t, NotifyWorker(t) PROVE Lines' /\ Refines
  <2>1. Idle
    BY <1>4 DEF NotifyWorker, Notify, instanceVars, Taken
  <2> QED
    BY <1>3, <2>1
<1>5. ASSUME NEW s \in Session, Io(s) PROVE Lines' /\ Refines
  BY <1>1, <1>4, <1>5, FrameOrder, CleanUpOrder, IoStepOrder DEF Io
<1>6. ASSUME NEW t \in Sender, SendStep(t) \/ ClearVictim(t) \/ CleanUp(t)
      PROVE  Lines' /\ Refines
  BY <1>6, ConnectionAssumption, SendStepOrder, ClearVictimOrder, CleanUpOrder
<1>7. CASE WorkerStep
  <2>1. CASE Waiting
    <3>1. CASE Take
      BY <2>1, <3>1, TakeOrder DEF Waiting
    <3>2. CASE Wait \/ Exit
      <4>1. Idle
        BY <2>1, <3>2 DEF Waiting, Wait, Exit, instanceVars, Taken
      <4> QED
        BY <1>3, <4>1
    <3> QED
      BY <2>1, <3>1, <3>2 DEF Waiting, WorkerNext
  <2>2. CASE WorkerHandle
    <3>1. Idle
      BY <2>2 DEF WorkerHandle, logicVars, Taken
    <3> QED
      BY <1>3, <3>1
  <2>3. CASE WorkerDone
    <3>1. Idle
      BY <2>3 DEF WorkerDone, Done, Taken
    <3> QED
      BY <1>3, <3>1
  <2> QED
    BY <1>1, <1>6, <1>7, <2>1, <2>2, <2>3, DropOrder, AnswerOrder, ThrowOrder DEF WorkerStep
<1>8. CASE RpcStep
  <2>1. CASE RpcEnd
    <3>1. Idle
      BY <2>1 DEF RpcEnd, logicVars, Taken
    <3> QED
      BY <1>3, <3>1
  <2> QED
    BY <1>1, <1>6, <1>8, <2>1 DEF RpcStep
<1>9. CASE MainStep
  <2>1. CASE RpcDown \/ StopLogic \/ Joined \/ StopAfterDrain \/ ExitMain
    <3>1. Idle
      BY <2>1 DEF RpcDown, StopLogic, Stop, Joined, StopAfterDrain, ExitMain, GoTo, logicVars, Taken
    <3> QED
      BY <1>3, <3>1
  <2>2. CASE \E s \in Session : StopSession(s)
    BY <2>2, AbortOrder DEF StopSession
  <2> QED
    BY <1>1, <1>4, <1>9, <2>1, <2>2, CleanUpOrder DEF MainStep
<1>10. CASE Environment
  <2>1. CASE Signal \/ (SpuriousWakeup /\ UNCHANGED <<connectionVars, instanceVars>>)
    <3>1. Idle
      BY <2>1 DEF Signal, GoTo, SpuriousWakeup, logicVars, instanceVars, Taken
    <3> QED
      BY <1>3, <3>1
  <2>2. ASSUME NEW s \in Session, Expired(s) PROVE Lines' /\ Refines
    BY <2>2, AbortOrder DEF Expired, instanceVars
  <2>3. ASSUME NEW s \in Session, RpcBegin(s) \/ WorkerReaches(s) PROVE Lines' /\ Refines
    <3>1. \A x \in Session : Taken(x)' = Taken(x)
      BY <2>3, Sections DEF RpcBegin, WorkerReaches, logicVars
    <3> QED
      BY <1>1, <2>3, <3>1, PushOrder DEF RpcBegin, WorkerReaches
  <2> QED
    BY <1>10, <2>1, <2>2, <2>3, EnvironmentOrder DEF Environment
<1>11. CASE UNCHANGED vars
  <2>1. Idle
    BY <1>11 DEF vars, logicVars, instanceVars, Taken
  <2> QED
    BY <1>3, <2>1
<1> QED
  BY <1>5, <1>7, <1>8, <1>9, <1>10, <1>11 DEF Next

-----------------------------------------------------------------------------
(* The rest of the invariant.                                              *)

\* The logic queue changes at its two ends only.
LEMMA AscendStep ==
  ASSUME OrderInv, [Next]_vars
  PROVE  RequestsAscend'
<1>1. CASE UNCHANGED que
  BY <1>1 DEF OrderInv, RequestsAscend
<1>2. ASSUME NEW s \in Session, FrameArrives(s) PROVE RequestsAscend'
  BY <1>2, FrameOrder
<1>3. CASE Take /\ UNCHANGED <<connectionVars, instanceVars>>
  BY <1>3, TakeOrder
<1>4. \/ UNCHANGED que
      \/ \E s \in Session : FrameArrives(s)
      \/ Take /\ UNCHANGED <<connectionVars, instanceVars>>
  <2>1. ASSUME NEW t, NotifyWorker(t) \/ CleanUp(t) \/ SendStep(t) \/ ClearVictim(t)
        PROVE  UNCHANGED que
    BY <2>1 DEF NotifyWorker, Notify, CleanUp, SendStep, ClearVictim, logicVars
  <2>2. CASE \E s \in Session : Io(s)
    BY <2>1, <2>2 DEF Io, IoStep, logicVars
  <2>3. CASE WorkerStep
    BY <2>1, <2>3 DEF WorkerStep, Waiting, WorkerNext, Wait, Exit, WorkerDrop, WorkerHandle,
                      WorkerAnswer, WorkerThrow, WorkerDone, Done, logicVars
  <2>4. CASE RpcStep
    BY <2>1, <2>4 DEF RpcStep, RpcEnd, logicVars
  <2>5. CASE MainStep
    BY <2>1, <2>5 DEF MainStep, RpcDown, StopLogic, Stop, Joined, StopAfterDrain, ExitMain,
                      StopSession, logicVars
  <2>6. CASE Environment
    BY <2>6 DEF Environment, Signal, SpuriousWakeup, Connect, Expired, RpcBegin, WorkerReaches,
                ClientGone, ClientRejected, logicVars
  <2>7. CASE UNCHANGED vars
    BY <2>7 DEF vars, logicVars
  <2> QED
    BY <2>2, <2>3, <2>4, <2>5, <2>6, <2>7 DEF Next
<1> QED
  BY <1>1, <1>2, <1>3, <1>4

\* Only HandleWrite writes.
LEMMA WireStep ==
  ASSUME OrderInv, [Next]_vars
  PROVE  WireInv'
<1>1. CASE UNCHANGED wire
  BY <1>1 DEF OrderInv, WireInv
<1>2. ASSUME NEW s \in Session, WriteDone(s), UNCHANGED <<logicVars, instanceVars>> PROVE WireInv'
  BY <1>2, WriteDoneOrder
<1>3. \/ UNCHANGED wire
      \/ \E s \in Session : WriteDone(s) /\ UNCHANGED <<logicVars, instanceVars>>
  <2> USE DEF sendVars
  <2>1. ASSUME NEW t, CleanUp(t) \/ SendStep(t) \/ ClearVictim(t)
        PROVE  UNCHANGED wire
    BY <2>1 DEF CleanUp, CleanedUp, SendStep, SendPost, SendReject, SendClose, ClearVictim,
                ClearSession
  <2>2. ASSUME NEW t, NotifyWorker(t) PROVE UNCHANGED wire
    BY <2>2 DEF NotifyWorker, connectionVars
  <2>3. ASSUME NEW t, NEW s, PushTo(t, s) \/ KickOut(t, s) \/ Abort(t, s) PROVE UNCHANGED wire
    BY <2>3 DEF PushTo, KickOut, Abort, Send, connectionVars
  <2>4. CASE \E s \in Session : Io(s)
    BY <2>1, <2>2, <2>4 DEF Io, IoStep, FrameArrives, ReadFrame, StartRead, ReadFailed, Shut,
                            SendOnIO, WriteFailed, connectionVars
  <2>5. CASE WorkerStep
    BY <2>1, <2>3, <2>5 DEF WorkerStep, Waiting, WorkerDrop, WorkerHandle, WorkerAnswer, Send,
                            WorkerThrow, WorkerDone, connectionVars
  <2>6. CASE RpcStep
    BY <2>1, <2>6 DEF RpcStep, RpcEnd, connectionVars
  <2>7. CASE MainStep
    BY <2>1, <2>2, <2>3, <2>7 DEF MainStep, RpcDown, StopLogic, Joined, StopAfterDrain, ExitMain,
                                  StopSession, connectionVars
  <2>8. CASE Environment
    BY <2>3, <2>8 DEF Environment, Signal, Connect, Accept, Expired, RpcBegin, WorkerReaches,
                      ClientGone, ReadFailed, ClientRejected, ReadUnregistered, connectionVars
  <2>9. CASE UNCHANGED vars
    BY <2>9 DEF vars, connectionVars
  <2> QED
    BY <2>4, <2>5, <2>6, <2>7, <2>8, <2>9 DEF Next
<1> QED
  BY <1>1, <1>2, <1>3

\* Closed before cleaned up, and read from until closed.
LEMMA ReadStep ==
  ASSUME OrderInv, [Next]_vars
  PROVE  ReadInv'
<1>1. Shape /\ ReadInv /\ IInv
  BY DEF OrderInv, IInv, ConnectionInv
<1>2. [ConnectionNext]_connectionVars
  BY <1>1, Steps
<1> DEFINE Goal == /\ \A t \in Caller : cleaning'[t] # NoSession => cleaning'[t] \in closed'
                   /\ \A s \in Session : s \in reading /\ s \notin closed' => s \in reading'
<1>3. Goal /\ closed \subseteq closed'
  <2>1. ASSUME closed' = closed, reading \subseteq reading', cleaning' = cleaning
        PROVE  Goal /\ closed \subseteq closed'
    BY <1>1, <2>1 DEF ReadInv
  <2>2. ASSUME NEW s \in Session, NEW t \in Caller,
               closed' = closed \cup {s}, reading \ {s} \subseteq reading',
               cleaning' = cleaning \/ cleaning' = [cleaning EXCEPT ![t] = s]
        PROVE  Goal /\ closed \subseteq closed'
    BY <1>1, <2>2 DEF ReadInv, Shape
  <2>3. ASSUME NEW s \in Session, Shut(s) \/ Accept(s) \/ StartRead(s) \/ ClearSession(s)
                 \/ SendOnIO(s) \/ WriteDone(s)
        PROVE  Goal /\ closed \subseteq closed'
    <3>1. closed' = closed /\ reading \subseteq reading' /\ cleaning' = cleaning
      BY <2>3 DEF Shut, Accept, StartRead, ClearSession, SendOnIO, WriteDone, closeVars, readVars
    <3> QED
      BY <2>1, <3>1
  <2>4. ASSUME NEW s \in Session, ReadUnregistered(s) \/ ReadFailed(s) \/ WriteFailed(s)
        PROVE  Goal /\ closed \subseteq closed'
    <3>1. /\ s \in Caller /\ closed' = closed \cup {s} /\ reading \ {s} \subseteq reading'
          /\ cleaning' = cleaning \/ cleaning' = [cleaning EXCEPT ![s] = s]
      BY <2>4, ConnectionAssumption DEF ReadUnregistered, ReadFailed, WriteFailed, Fail, Close,
                                        readVars
    <3> QED
      BY <2>2, <3>1
  <2>5. ASSUME NEW s \in Session, NEW t \in Caller, Abort(t, s)
        PROVE  Goal /\ closed \subseteq closed'
    <3>1. /\ closed' = closed \cup {s} /\ reading \ {s} \subseteq reading'
          /\ cleaning' = [cleaning EXCEPT ![t] = s]
      BY <2>5 DEF Abort, Fail, Close, readVars
    <3> QED
      BY <2>2, <3>1
  <2>6. ASSUME NEW t \in Sender, SendPost(t) \/ SendReject(t) \/ \E s, m : Send(t, s, m)
        PROVE  Goal /\ closed \subseteq closed'
    <3>1. closed' = closed /\ reading \subseteq reading' /\ cleaning' = cleaning
      BY <2>6 DEF SendPost, SendReject, Send, closeVars, readVars
    <3> QED
      BY <2>1, <3>1
  <2>7. ASSUME NEW t \in Sender, SendClose(t)
        PROVE  Goal /\ closed \subseteq closed'
    <3> PICK s \in Session : s = target[t]
      BY <1>1, <2>7 DEF SendClose, Shape
    <3>1. /\ t \in Caller /\ closed' = closed \cup {s} /\ reading \ {s} \subseteq reading'
          /\ cleaning' = [cleaning EXCEPT ![t] = s]
      BY <2>7, ConnectionAssumption DEF SendClose, Fail, Close, readVars
    <3> QED
      BY <2>2, <3>1
  <2>8. ASSUME NEW t \in Caller, CleanedUp(t)
        PROVE  Goal /\ closed \subseteq closed'
    <3>1. UNCHANGED <<closed, reading>> /\ cleaning' = [cleaning EXCEPT ![t] = NoSession]
      BY <2>8 DEF CleanedUp, readVars
    <3> QED
      BY <1>1, <3>1 DEF ReadInv, Shape
  <2>9. CASE UNCHANGED connectionVars
    <3>1. closed' = closed /\ reading \subseteq reading' /\ cleaning' = cleaning
      BY <2>9 DEF connectionVars, closeVars, readVars
    <3> QED
      BY <2>1, <3>1
  <2> HIDE DEF Goal
  <2>10. CASE \E t \in Sender : SendPost(t) \/ SendReject(t) \/ SendClose(t)
    BY <2>6, <2>7, <2>10
  <2>11. CASE \E t \in Caller : CleanedUp(t)
    BY <2>8, <2>11
  <2>12. ASSUME NEW s \in Session,
                \/ Shut(s) \/ Accept(s) \/ StartRead(s) \/ ClearSession(s)
                \/ ReadUnregistered(s) \/ ReadFailed(s)
                \/ SendOnIO(s) \/ WriteDone(s) \/ WriteFailed(s)
                \/ \E t \in Caller : Abort(t, s)
                \/ \E t \in Sender, m \in Message : Send(t, s, m)
         PROVE  Goal /\ closed \subseteq closed'
    BY <2>3, <2>4, <2>5, <2>6, <2>12
  <2> QED
    BY <1>2, <2>9, <2>10, <2>11, <2>12 DEF ConnectionNext
<1>4. UNCHANGED asked \/ \E s \in Session : FrameArrives(s)
  <2> USE DEF instanceVars
  <2>1. ASSUME NEW t, NotifyWorker(t) \/ CleanUp(t) \/ SendStep(t) \/ ClearVictim(t)
        PROVE  UNCHANGED asked
    BY <2>1 DEF NotifyWorker, CleanUp, SendStep, ClearVictim
  <2>2. CASE \E s \in Session : Io(s)
    BY <2>1, <2>2 DEF Io, IoStep
  <2>3. CASE WorkerStep
    BY <2>1, <2>3 DEF WorkerStep, Waiting, WorkerDrop, WorkerHandle, WorkerAnswer, WorkerThrow,
                      WorkerDone
  <2>4. CASE RpcStep
    BY <2>1, <2>4 DEF RpcStep, RpcEnd
  <2>5. CASE MainStep
    BY <2>1, <2>5 DEF MainStep, RpcDown, StopLogic, Joined, StopAfterDrain, ExitMain, StopSession,
                      GoTo
  <2>6. CASE Environment
    BY <2>6 DEF Environment, Signal, GoTo, Connect, Expired, RpcBegin, WorkerReaches, ClientGone,
                ClientRejected
  <2>7. CASE UNCHANGED vars
    BY <2>7 DEF vars
  <2> QED
    BY <2>2, <2>3, <2>4, <2>5, <2>6, <2>7 DEF Next
<1>5. ASSUME NEW s \in Session, asked'[s] > 0 PROVE asked[s] > 0 \/ s \in reading
  <2>1. CASE UNCHANGED asked
    BY <1>5, <2>1
  <2>2. ASSUME NEW x \in Session, FrameArrives(x) PROVE asked[s] > 0 \/ s \in reading
    BY <1>1, <1>5, <2>2 DEF FrameArrives, ReadFrame, IInv, InstanceInv
  <2> QED
    BY <1>4, <2>1, <2>2
<1> QED
  BY <1>1, <1>3, <1>5 DEF ReadInv

\* Who sends what.
LEMMA HandStep ==
  ASSUME OrderInv, [Next]_vars
  PROVE  HandInv'
<1>1. Shape /\ HandInv /\ IInv /\ QueueInv
  BY DEF OrderInv, IInv, ConnectionInv
<1>2. /\ Worker \in Sender /\ Rpc \in Sender /\ Worker # Rpc /\ Sender = {Worker, Rpc}
      /\ ~ IsAnswer(NoMessage) /\ ~ IsAnswer(Push) /\ ~ IsAnswer(Offline)
  BY ChatInstanceAssumption, ConnectionAssumption DEF IsAnswer, Push, Offline
<1> DEFINE Kept == /\ UNCHANGED senderVars
                   /\ UNCHANGED <<stage, current>>
<1>3. ASSUME Kept PROVE HandInv'
  BY <1>1, <1>3 DEF HandInv, senderVars
<1>4. ASSUME NEW t \in Sender, SendStep(t) PROVE HandInv'
  <2>1. UNCHANGED <<stage, current>>
    BY <1>4 DEF SendStep, instanceVars, logicVars
  <2>2. CASE SendReject(t)
    <3>1. /\ step' = [step EXCEPT ![t] = "close"] /\ UNCHANGED <<target, outgoing>>
      BY <2>2 DEF SendReject
    <3> QED
      BY <1>1, <2>1, <3>1 DEF HandInv, Shape
  <2>3. CASE SendPost(t) \/ SendClose(t)
    <3>1. SendIdle(t)
      BY <2>3 DEF SendPost, SendClose
    <3> QED
      BY <1>1, <1>2, <2>1, <3>1 DEF HandInv, Shape, SendIdle, IsAnswer
  <2> QED
    BY <1>4, <2>2, <2>3 DEF SendStep
<1>5. ASSUME NEW t \in Sender, NEW s \in Session, PushTo(t, s) \/ KickOut(t, s),
             UNCHANGED <<stage, current>>
      PROVE  HandInv'
  <2>1. CASE UNCHANGED connectionVars
    BY <1>3, <1>5, <2>1 DEF connectionVars
  <2>2. ASSUME NEW m, ~ IsAnswer(m), Send(t, s, m) PROVE HandInv'
    <3>1. /\ step' = [step EXCEPT ![t] = IF Overflow(s) THEN "reject" ELSE "post"]
          /\ target' = [target EXCEPT ![t] = s] /\ outgoing' = [outgoing EXCEPT ![t] = m]
      BY <2>2 DEF Send
    <3> QED
      BY <1>1, <1>2, <1>5, <2>2, <3>1 DEF HandInv, Shape, IsAnswer
  <2> QED
    BY <1>2, <1>5, <2>1, <2>2 DEF PushTo, KickOut
<1>6. ASSUME NEW t, NotifyWorker(t) \/ CleanUp(t) \/ ClearVictim(t) PROVE HandInv'
  <2>1. Kept
    BY <1>6 DEF NotifyWorker, Notify, CleanUp, CleanedUp, ClearVictim, ClearSession, connectionVars,
                instanceVars, logicVars
  <2> QED
    BY <1>3, <2>1
<1>7. ASSUME NEW t, NEW s, Abort(t, s), UNCHANGED <<logicVars, stage>> PROVE HandInv'
  <2>1. Kept
    BY <1>7 DEF Abort, logicVars
  <2> QED
    BY <1>3, <2>1
<1>8. CASE \E s \in Session : Io(s)
  <2> PICK s \in Session : Io(s)
    BY <1>8
  <2>1. CASE FrameArrives(s)
    <3>1. Kept
      BY <2>1 DEF FrameArrives, ReadFrame, Post, connectionVars
    <3> QED
      BY <1>3, <3>1
  <2>2. CASE IoStep(s)
    <3>1. Kept
      BY <2>2 DEF IoStep, StartRead, ReadFailed, Shut, SendOnIO, WriteDone, WriteFailed,
                  logicVars, instanceVars
    <3> QED
      BY <1>3, <3>1
  <2> QED
    BY <1>6, <2>1, <2>2 DEF Io
<1>9. CASE WorkerStep
  <2>1. CASE Waiting
    <3>1. /\ stage = "taken" /\ stage' = stage /\ UNCHANGED senderVars
      BY <1>1, <2>1 DEF Waiting, WorkerNext, Wait, Take, Exit, connectionVars, instanceVars,
                        IInv, InstanceInv
    <3> QED
      BY <1>1, <3>1 DEF HandInv, senderVars
  <2>2. CASE WorkerDrop
    <3>1. /\ stage = "taken" /\ stage' = stage /\ UNCHANGED senderVars
      BY <2>2 DEF WorkerDrop, connectionVars, instanceVars
    <3> QED
      BY <1>1, <3>1 DEF HandInv, senderVars
  <2>3. CASE WorkerHandle
    <3>1. /\ stage = "taken" /\ current' = current /\ current \notin Unhandled
          /\ UNCHANGED senderVars
      BY <2>3 DEF WorkerHandle, Runnable, connectionVars, logicVars
    <3> QED
      BY <1>1, <3>1 DEF HandInv, senderVars
  <2>4. CASE WorkerAnswer
    <3>1. stage' = "answered"
      BY <2>4 DEF WorkerAnswer
    <3>2. CASE UNCHANGED connectionVars
      BY <1>1, <3>1, <3>2 DEF HandInv, connectionVars, senderVars
    <3>3. CASE Send(Worker, current[1], current[2])
      <4>1. /\ step' = [step EXCEPT ![Worker] = IF Overflow(current[1]) THEN "reject" ELSE "post"]
            /\ target' = [target EXCEPT ![Worker] = current[1]]
            /\ outgoing' = [outgoing EXCEPT ![Worker] = current[2]]
        BY <3>3 DEF Send
      <4> QED
        BY <1>1, <1>2, <3>1, <4>1 DEF HandInv, Shape
    <3> QED
      BY <2>4, <3>2, <3>3 DEF WorkerAnswer
  <2>5. CASE WorkerThrow
    <3>1. stage' = "answered" /\ UNCHANGED senderVars
      BY <2>5 DEF WorkerThrow, Abort
    <3> QED
      BY <1>1, <3>1 DEF HandInv, senderVars
  <2>6. CASE WorkerDone
    <3>1. stage' = "taken" /\ step[Worker] = "idle" /\ UNCHANGED senderVars
      BY <2>6 DEF WorkerDone, Free, OutOfSend, connectionVars
    <3> QED
      BY <1>1, <1>2, <3>1 DEF HandInv, senderVars, IsAnswer
  <2> QED
    BY <1>2, <1>4, <1>6, <1>9, <2>1, <2>2, <2>3, <2>4, <2>5, <2>6 DEF WorkerStep
<1>10. CASE RpcStep
  <2>1. CASE RpcEnd
    <3>1. Kept
      BY <2>1 DEF RpcEnd, logicVars, connectionVars
    <3> QED
      BY <1>3, <3>1
  <2> QED
    BY <1>2, <1>4, <1>6, <1>10, <2>1 DEF RpcStep
<1>11. CASE MainStep
  <2>1. CASE RpcDown \/ StopLogic \/ Joined \/ StopAfterDrain \/ ExitMain
    <3>1. Kept
      BY <2>1 DEF RpcDown, StopLogic, Stop, Joined, StopAfterDrain, ExitMain, GoTo, logicVars,
                  connectionVars
    <3> QED
      BY <1>3, <3>1
  <2>2. CASE \E s \in Session : StopSession(s)
    BY <1>7, <2>2 DEF StopSession
  <2> QED
    BY <1>6, <1>11, <2>1, <2>2 DEF MainStep
<1>12. CASE Environment
  <2>1. CASE \/ Signal \/ (SpuriousWakeup /\ UNCHANGED <<connectionVars, instanceVars>>)
             \/ \E s \in Session : Connect(s) \/ ClientGone(s) \/ ClientRejected(s)
    <3>1. Kept
      BY <2>1 DEF Signal, GoTo, SpuriousWakeup, Connect, Accept, ClientGone, ReadFailed,
                  ClientRejected, ReadUnregistered, logicVars, instanceVars, connectionVars
    <3> QED
      BY <1>3, <3>1
  <2>2. ASSUME NEW s \in Session, Expired(s) PROVE HandInv'
    BY <1>7, <2>2 DEF Expired, instanceVars
  <2>3. ASSUME NEW s \in Session, RpcBegin(s) \/ WorkerReaches(s) PROVE HandInv'
    BY <1>2, <1>5, <2>3 DEF RpcBegin, WorkerReaches, logicVars
  <2> QED
    BY <1>12, <2>1, <2>2, <2>3 DEF Environment
<1>13. CASE UNCHANGED vars
  <2>1. Kept
    BY <1>13 DEF vars, logicVars, connectionVars, instanceVars
  <2> QED
    BY <1>3, <2>1
<1> QED
  BY <1>8, <1>9, <1>10, <1>11, <1>12, <1>13 DEF Next

\* The invariant behind the order of the answers.
THEOREM OrderInvariant == Spec => []OrderInv
<1>1. Init /\ IInv => OrderInv
  <2> SUFFICES ASSUME Init, IInv PROVE OrderInv
    OBVIOUS
  <2>1. /\ \A s \in Session : wire[s] = <<>> /\ sendQue[s] = <<>> /\ posted[s] = <<>> /\ asked[s] = 0
        /\ que = <<>> /\ worker = "check" /\ stage = "taken" /\ closed = {}
        /\ \A t \in Caller : cleaning[t] = NoSession
        /\ \A t \in Sender : step[t] = "idle" /\ target[t] = NoSession /\ outgoing[t] = NoMessage
    BY DEF Init, ConnectionInit, LogicInit
  <2>2. Worker \in Sender /\ Rpc \in Sender /\ \A k \in 1..MaxRequests : NoMessage # k
    BY ChatInstanceAssumption, ConnectionAssumption DEF Offline
  <2>3. ASSUME NEW s \in Session PROVE InLine(s)
    <3>1. /\ InHand(s) = {} /\ Taken(s) = {} /\ InQueue(s) = {}
      BY <2>1, <2>2 DEF InHand, Taken, InQueue, ToSet
    <3>2. Answers(wire[s]) = {} /\ Answers(sendQue[s]) = {} /\ Answers(posted[s]) = {}
      BY <2>1, EmptySequence
    <3>3. Ascending(sendQue[s]) /\ Ascending(posted[s])
      BY <2>1, EmptySequence
    <3> QED
      BY <3>1, <3>2, <3>3 DEF InLine, Lined, Before
  <2>4. Lines
    BY <2>3 DEF Lines
  <2>5. RequestsAscend
    BY <2>1 DEF RequestsAscend
  <2>6. HandInv
    BY <2>1, <2>2 DEF HandInv
  <2>7. ReadInv
    BY <2>1 DEF ReadInv
  <2>8. WireInv
    BY <2>1 DEF WireInv, Places
  <2> QED
    BY <2>4, <2>5, <2>6, <2>7, <2>8 DEF OrderInv
<1>2. OrderInv /\ [Next]_vars /\ IInv' => OrderInv'
  BY LineStep, AscendStep, HandStep, ReadStep, WireStep DEF OrderInv
<1> QED
  BY <1>1, <1>2, InductiveInvariant, PTL DEF Spec

\* One ChatServer keeps the promise of OrderedReplies to any number of clients, with
\* any number of requests and any limits: the IO threads, the worker and the senders
\* answer what was accepted in the order of its acceptance, and lose nothing while the
\* connection lasts.
THEOREM RepliesAreOrdered == Spec => AnswersInOrder
<1>1. Init => Replies!Init
  <2> SUFFICES ASSUME Init PROVE Replies!Init
    OBVIOUS
  <2>1. /\ \A s \in Session : wire[s] = <<>> /\ sendQue[s] = <<>> /\ posted[s] = <<>>
        /\ que = <<>> /\ worker = "check" /\ closed = {} /\ starting = {} /\ reading = {}
        /\ \A t \in Sender : target[t] = NoSession
    BY DEF Init, ConnectionInit, LogicInit
  <2>2. ASSUME NEW s \in Session PROVE Owed(s) = {} /\ LastAnswer(s) = 0 /\ ~ Over(s)
    <3>1. InHand(s) = {} /\ Taken(s) = {} /\ InQueue(s) = {}
      BY <2>1, ChatInstanceAssumption, ConnectionAssumption DEF InHand, Taken, InQueue, ToSet
    <3>2. Answers(sendQue[s]) = {} /\ Answers(posted[s]) = {} /\ Places(wire[s]) = {}
      BY <2>1, EmptySequence DEF Places
    <3> QED
      BY <2>1, <3>1, <3>2 DEF Owed, Requests, Sending, LastAnswer, LastAnswerIn, Over
  <2>3. /\ [s \in Session |-> Owed(s)] = [s \in Session |-> {}]
        /\ [s \in Session |-> LastAnswer(s)] = [s \in Session |-> 0]
        /\ {s \in Session : Over(s)} = {}
    BY <2>2
  <2> QED
    BY <2>3 DEF Replies!Init
<1>2. OrderInv /\ [Next]_vars => [Replies!Next(1..MaxRequests)]_(Replies!vars)
  BY LineStep DEF Refines
<1> QED
  BY <1>1, <1>2, OrderInvariant, PTL DEF Spec, AnswersInOrder
=============================================================================
