--------------------------- MODULE ConnPoolProofs ---------------------------
(***************************************************************************)
(* The safety of ConnPool for any number of threads and any pool size.     *)
(* The inductive invariant has a part for each question: what a thread's   *)
(* progress says of what it holds (Progress), where the contexts are       *)
(* (OneOwner), how many there are (Counted), who sleeps (NoConnectionSleeps)*)
(* and what Close leaves (ClosedLeavesNothing).                            *)
(***************************************************************************)
EXTENDS ConnPool, FiniteSetTheorems, TLAPS

\* TypeOK without the bounds of the count, which follow from Counted.
Shape ==
  /\ idle \in Seq(Conn)
  /\ live \subseteq Conn
  /\ count \in Int
  /\ stop \in BOOLEAN /\ requested \in BOOLEAN
  /\ client \in [Client -> {"out", "get", "wait", "using", "signal"}]
  /\ held \in [Client -> Conn \cup {NoConn}]
  /\ checker \in CheckStep
  /\ left \in Nat
  /\ checked \in Conn \cup {NoConn}
  /\ closer \in {"open", "notify", "join", "clear", "closed"}
  /\ faults \in 0..MaxFaults

\* A thread holds a context exactly between two of its steps, and Close runs
\* after the flag is set and clears after the check thread has left.
Progress ==
  /\ \A t \in Client : client[t] = "using" <=> held[t] # NoConn
  /\ checker \in {"ping", "return", "push"} <=> checked # NoConn
  /\ stop <=> closer # "open"
  /\ checker = "exited" => stop
  /\ closer \in {"clear", "closed"} => checker = "exited"
  /\ closer = "closed" => idle = <<>>

Pushing == IF checker = "push" THEN 1 ELSE 0
Discounting == IF checker = "discount" THEN 1 ELSE 0

\* The accounting, also while the pool is being closed; and the check thread
\* connects only where there is room.
Counted ==
  /\ count <= PoolSize
  /\ checker \in {"connect", "push"} => count < PoolSize
  /\ Cardinality(live) + Discounting <= count + Pushing
  /\ ~ stop => Cardinality(live) + Discounting = count + Pushing

IInv ==
  /\ Shape
  /\ Progress
  /\ OneOwner
  /\ Counted
  /\ NoConnectionSleeps

-----------------------------------------------------------------------------
(* Facts about the queue, the borrowers and the numbers.                   *)

\* A context that is pushed is appended, and stays distinct from the others.
LEMMA PushFacts ==
  ASSUME NEW q \in Seq(Conn), NEW c \in Conn
  PROVE  /\ Append(q, c) \in Seq(Conn) /\ Len(Append(q, c)) = Len(q) + 1
         /\ Contents(Append(q, c)) = Contents(q) \cup {c}
         /\ Distinct(q) /\ c \notin Contents(q) => Distinct(Append(q, c))
<1> DEFINE r == Append(q, c)
<1>1. r \in Seq(Conn) /\ Len(r) = Len(q) + 1 /\ Len(q) \in Nat
  OBVIOUS
<1>2. DOMAIN q = 1..Len(q) /\ DOMAIN r = 1..(Len(q) + 1)
  BY <1>1
<1>3. \A i \in 1..Len(q) : r[i] = q[i]
  OBVIOUS
<1>4. r[Len(q) + 1] = c
  OBVIOUS
<1> HIDE DEF r
<1>5. Contents(r) = Contents(q) \cup {c}
  BY <1>1, <1>2, <1>3, <1>4 DEF Contents
<1>6. Distinct(q) /\ c \notin Contents(q) => Distinct(r)
  BY <1>1, <1>2, <1>3, <1>4 DEF Contents, Distinct
<1> QED
  BY <1>1, <1>5, <1>6 DEF r

\* Taking the first context leaves exactly the others.
LEMMA PopFacts ==
  ASSUME NEW q \in Seq(Conn), q # <<>>, Distinct(q)
  PROVE  /\ Head(q) \in Conn /\ Head(q) \in Contents(q)
         /\ Tail(q) \in Seq(Conn) /\ Len(Tail(q)) = Len(q) - 1 /\ Len(q) \in Nat \ {0}
         /\ Distinct(Tail(q)) /\ Contents(Tail(q)) = Contents(q) \ {Head(q)}
<1> DEFINE r == Tail(q)
<1>1. r \in Seq(Conn) /\ Len(r) = Len(q) - 1 /\ Len(q) \in Nat \ {0}
  OBVIOUS
<1>2. DOMAIN q = 1..Len(q) /\ DOMAIN r = 1..(Len(q) - 1)
  BY <1>1
<1>3. \A i \in 1..(Len(q) - 1) : r[i] = q[i + 1]
  OBVIOUS
<1>4. Head(q) = q[1] /\ q[1] \in Conn
  OBVIOUS
<1> HIDE DEF r
<1>5. Distinct(r)
  BY <1>1, <1>2, <1>3 DEF Distinct
<1>6. Contents(r) = Contents(q) \ {q[1]}
  <2>1. ASSUME NEW c \in Contents(r) PROVE c \in Contents(q) \ {q[1]}
    <3>1. PICK i \in 1..(Len(q) - 1) : c = q[i + 1]
      BY <1>2, <1>3 DEF Contents
    <3>2. i + 1 \in DOMAIN q /\ 1 \in DOMAIN q /\ i + 1 # 1
      BY <1>1, <1>2
    <3> QED
      BY <3>1, <3>2 DEF Contents, Distinct
  <2>2. ASSUME NEW c \in Contents(q) \ {q[1]} PROVE c \in Contents(r)
    <3>1. PICK i \in 1..Len(q) : c = q[i]
      BY <1>2 DEF Contents
    <3>2. i - 1 \in 1..(Len(q) - 1) /\ r[i - 1] = q[i]
      <4>1. i - 1 \in 1..(Len(q) - 1)
        BY <1>1, <3>1
      <4> QED
        BY <1>3, <4>1
    <3> QED
      BY <1>2, <3>1, <3>2 DEF Contents
  <2> QED
    BY <2>1, <2>2
<1>7. Head(q) \in Contents(q)
  BY <1>1, <1>2, <1>4 DEF Contents
<1> QED
  BY <1>1, <1>4, <1>5, <1>6, <1>7 DEF r

\* What is lent joins the borrowed contexts.
LEMMA Lend ==
  ASSUME Shape, NEW t \in Client, held[t] = NoConn,
         NEW c \in Conn, held' = [held EXCEPT ![t] = c]
  PROVE  Borrowed' = Borrowed \cup {c}
  BY ConnPoolAssumption DEF Shape, Borrowed

\* What is brought back leaves them.
LEMMA Regain ==
  ASSUME Shape, OneOwner, NEW t \in Client, held[t] # NoConn,
         held' = [held EXCEPT ![t] = NoConn]
  PROVE  Borrowed' = Borrowed \ {held[t]} /\ held[t] \in Borrowed
<1>1. \A u \in Client : u # t => held[u] # held[t]
  BY DEF OneOwner
<1>2. \A u \in Client : held'[u] = IF u = t THEN NoConn ELSE held[u]
  BY DEF Shape
<1> QED
  BY <1>1, <1>2 DEF Borrowed

\* The contexts and the threads are finitely many.
LEMMA Finite ==
  ASSUME Shape
  PROVE  /\ IsFiniteSet(live) /\ Cardinality(live) \in Nat
         /\ \A c \in live : Cardinality(live \ {c}) = Cardinality(live) - 1
         /\ \A c \in Conn \ live : Cardinality(live \cup {c}) = Cardinality(live) + 1
<1>1. IsFiniteSet(live)
  BY ConnPoolAssumption, FS_Subset DEF Shape
<1> QED
  BY <1>1, FS_CardinalityType, FS_AddElement, FS_RemoveElement

\* Whom a notification wakes: nobody, or one of the waiting clients.
LEMMA WokenFacts ==
  ASSUME NEW pcs \in [Client -> {"out", "get", "wait", "using", "signal"}],
         \A t \in Waiters : pcs[t] = "wait", client' \in Woken(pcs)
  PROVE  /\ client' \in [Client -> {"out", "get", "wait", "using", "signal"}]
         /\ \A t \in Client : client'[t] = "using" <=> pcs[t] = "using"
         /\ \/ Waiters = {} /\ client' = pcs
            \/ \E t \in Waiters : client' = [pcs EXCEPT ![t] = "get"]
<1>1. CASE Waiters = {}
  BY <1>1 DEF Woken
<1>2. CASE Waiters # {}
  <2>1. PICK t \in Waiters : client' = [pcs EXCEPT ![t] = "get"]
    BY <1>2 DEF Woken
  <2>2. t \in Client /\ pcs[t] = "wait"
    BY <2>1 DEF Waiters
  <2> QED
    BY <2>1, <2>2
<1> QED
  BY <1>1, <1>2

-----------------------------------------------------------------------------
(* One lemma for each part of the invariant.                               *)

\* The threads hold what their progress says.
LEMMA ProgressStep ==
  ASSUME IInv, [Next]_vars
  PROVE  Shape' /\ Progress'
<1> USE ConnPoolAssumption DEF IInv, Shape, Progress, ClientAt, CheckerAt, CloserAt,
        CheckStep, Fault
<1>1. ASSUME NEW t \in Client, Enter(t) \/ SpuriousWakeup(t) \/ WaitForConnection(t)
                            \/ BorrowNothing(t)
      PROVE Shape' /\ Progress'
  BY <1>1 DEF Enter, SpuriousWakeup, WaitForConnection, BorrowNothing,
              poolVars, checkerVars
<1>2. ASSUME NEW t \in Client, Borrow(t) PROVE Shape' /\ Progress'
  <2>1. Head(idle) \in Conn /\ Tail(idle) \in Seq(Conn)
    BY <1>2 DEF Borrow
  <2> QED
    BY <1>2, <2>1 DEF Borrow, checkerVars
<1>3. ASSUME NEW t \in Client, ReturnGood(t) PROVE Shape' /\ Progress'
  <2>1. held[t] \in Conn
    BY <1>3 DEF ReturnGood
  <2>2. Append(idle, held[t]) \in Seq(Conn)
    BY <2>1
  <2> DEFINE pcs == [client EXCEPT ![t] = "out"]
  <2>3. /\ client' \in [Client -> {"out", "get", "wait", "using", "signal"}]
        /\ \A u \in Client : client'[u] = "using" <=> pcs[u] = "using"
    <3>1. pcs \in [Client -> {"out", "get", "wait", "using", "signal"}]
      OBVIOUS
    <3>2. \A u \in Waiters : pcs[u] = "wait"
      BY <1>3 DEF ReturnGood, Waiters
    <3>3. client' \in Woken(pcs)
      BY <1>3 DEF ReturnGood
    <3> HIDE DEF pcs
    <3> QED
      BY <3>1, <3>2, <3>3, WokenFacts
  <2> QED
    BY <1>3, <2>2, <2>3 DEF ReturnGood, Push, checkerVars
<1>4. ASSUME NEW t \in Client, ReturnBroken(t) \/ ReturnStopped(t) PROVE Shape' /\ Progress'
  <2>1. CASE ReturnBroken(t)
    BY <2>1 DEF ReturnBroken, Free, checkerVars
  <2>2. CASE ReturnStopped(t)
    BY <2>2 DEF ReturnStopped, Free, checkerVars
  <2> QED
    BY <1>4, <2>1, <2>2
<1>5. ASSUME NEW t \in Client, SignalChecker(t) PROVE Shape' /\ Progress'
  BY <1>5 DEF SignalChecker, CheckerWoken, poolVars
<1>6. ASSUME CheckSleep \/ CheckBegin \/ CheckExit \/ CheckSize \/ CheckTaken \/ PingGood
          \/ Discount \/ CheckGap \/ CheckFull \/ NotConnected
      PROVE Shape' /\ Progress'
  <2>1. CASE CheckSleep \/ CheckExit \/ CheckTaken \/ PingGood \/ CheckGap \/ CheckFull
    BY <2>1 DEF CheckSleep, CheckExit, CheckTaken, PingGood, CheckGap, CheckFull,
                poolVars, clientVars
  <2>2. CASE CheckBegin
    BY <2>2 DEF CheckBegin, poolVars, clientVars
  <2>3. CASE CheckSize
    BY <2>3 DEF CheckSize, poolVars, clientVars
  <2>4. CASE Discount \/ NotConnected
    BY <2>4 DEF Discount, NotConnected, poolVars, clientVars
  <2> QED
    BY <1>6, <2>1, <2>2, <2>3, <2>4
<1>7. ASSUME CheckTake PROVE Shape' /\ Progress'
  <2>1. Head(idle) \in Conn /\ Tail(idle) \in Seq(Conn)
    BY <1>7 DEF CheckTake
  <2> QED
    BY <1>7, <2>1 DEF CheckTake, clientVars
<1>8. ASSUME PingBroken \/ \E c \in Conn : Connected(c) PROVE Shape' /\ Progress'
  BY <1>8 DEF PingBroken, Connected, Free, clientVars
<1>9. ASSUME CheckReturn PROVE Shape' /\ Progress'
  <2>1. CASE stop
    BY <1>9, <2>1 DEF CheckReturn, Free
  <2>2. CASE ~ stop
    <3>1. Append(idle, checked) \in Seq(Conn)
      BY <1>9 DEF CheckReturn
    <3>2. /\ client' \in [Client -> {"out", "get", "wait", "using", "signal"}]
          /\ \A u \in Client : client'[u] = "using" <=> client[u] = "using"
      <4>1. \A u \in Waiters : client[u] = "wait"
        BY DEF Waiters
      <4>2. client' \in Woken(client)
        BY <1>9, <2>2 DEF CheckReturn
      <4> QED
        BY <4>1, <4>2, WokenFacts
    <3> QED
      BY <1>9, <2>2, <3>1, <3>2 DEF CheckReturn, Push
  <2> QED
    BY <2>1, <2>2
<1>10. ASSUME PushConnected PROVE Shape' /\ Progress'
  <2>1. checked \in Conn
    BY <1>10 DEF PushConnected
  <2>2. Append(idle, checked) \in Seq(Conn)
    BY <2>1
  <2> QED
    BY <1>10, <2>1, <2>2 DEF PushConnected, Push, Free, clientVars
<1>11. ASSUME NotifyConnected PROVE Shape' /\ Progress'
  <2>1. /\ client' \in [Client -> {"out", "get", "wait", "using", "signal"}]
        /\ \A u \in Client : client'[u] = "using" <=> client[u] = "using"
    <3>1. \A u \in Waiters : client[u] = "wait"
      BY DEF Waiters
    <3>2. client' \in Woken(client)
      BY <1>11 DEF NotifyConnected
    <3> QED
      BY <3>1, <3>2, WokenFacts
  <2> QED
    BY <1>11, <2>1 DEF NotifyConnected, poolVars
<1>12. ASSUME Close \/ Join PROVE Shape' /\ Progress'
  BY <1>12 DEF Close, Join, poolVars, clientVars, checkerVars
<1>13. ASSUME NotifyAll PROVE Shape' /\ Progress'
  BY <1>13 DEF NotifyAll, CheckerWoken, poolVars
<1>14. ASSUME ClearConnections PROVE Shape' /\ Progress'
  BY <1>14 DEF ClearConnections, clientVars, checkerVars
<1>15. CASE UNCHANGED vars
  BY <1>15 DEF vars, poolVars, clientVars, checkerVars
<1> QED
  BY <1>1, <1>2, <1>3, <1>4, <1>5, <1>6, <1>7, <1>8, <1>9, <1>10, <1>11, <1>12,
     <1>13, <1>14, <1>15 DEF Next, ClientNext, CheckerNext, CloserNext

\* A step that moves no context leaves every context with its owner.
LEMMA OwnersUnmoved ==
  ASSUME OneOwner, UNCHANGED <<idle, live, held, checked>>
  PROVE  OneOwner'
  BY DEF OneOwner, Idle, Borrowed, InHand

\* No step shares a context, loses one, or frees one that is in use.
LEMMA OneOwnerStep ==
  ASSUME IInv, [Next]_vars
  PROVE  OneOwner'
<1> USE ConnPoolAssumption DEF ClientAt, CheckerAt, CloserAt, Idle, InHand
<1>0. Shape /\ Progress /\ OneOwner
  BY DEF IInv
<1>1. ASSUME NEW t \in Client,
             Enter(t) \/ SpuriousWakeup(t) \/ WaitForConnection(t) \/ BorrowNothing(t)
               \/ SignalChecker(t)
      PROVE OneOwner'
  BY <1>0, <1>1, OwnersUnmoved DEF Enter, SpuriousWakeup, WaitForConnection, BorrowNothing,
       SignalChecker, poolVars, checkerVars
<1>2. ASSUME NEW t \in Client, Borrow(t) PROVE OneOwner'
  <2>1. /\ Head(idle) \in Conn /\ Head(idle) \in Contents(idle)
        /\ Distinct(Tail(idle)) /\ Contents(Tail(idle)) = Contents(idle) \ {Head(idle)}
    BY <1>0, <1>2, PopFacts DEF Borrow, Shape, OneOwner
  <2>2. held[t] = NoConn /\ held' = [held EXCEPT ![t] = Head(idle)]
    BY <1>0, <1>2 DEF Borrow, Progress
  <2>3. Borrowed' = Borrowed \cup {Head(idle)}
    BY <1>0, <2>1, <2>2, Lend
  <2>4. idle' = Tail(idle) /\ live' = live /\ checked' = checked
    BY <1>2 DEF Borrow, checkerVars
  <2>5. \A u, v \in Client : held'[u] = held'[v] => u = v \/ held'[u] = NoConn
    <3>1. \A u \in Client : held[u] # Head(idle)
      BY <1>0, <2>1 DEF OneOwner, Borrowed
    <3> QED
      BY <1>0, <2>2, <3>1 DEF OneOwner, Shape
  <2> QED
    BY <1>0, <2>1, <2>3, <2>4, <2>5 DEF OneOwner
<1>3. ASSUME NEW t \in Client, ReturnGood(t) PROVE OneOwner'
  <2>1. held[t] \in Conn /\ held' = [held EXCEPT ![t] = NoConn]
    BY <1>0, <1>3 DEF ReturnGood, Progress, Shape
  <2>2. Borrowed' = Borrowed \ {held[t]} /\ held[t] \in Borrowed
    BY <1>0, <2>1, Regain
  <2>3. idle' = Append(idle, held[t]) /\ live' = live /\ checked' = checked
    BY <1>3 DEF ReturnGood, Push, checkerVars
  <2>4. Distinct(idle') /\ Contents(idle') = Contents(idle) \cup {held[t]}
    BY <1>0, <2>1, <2>2, <2>3, PushFacts DEF OneOwner, Shape
  <2>5. \A u, v \in Client : held'[u] = held'[v] => u = v \/ held'[u] = NoConn
    BY <1>0, <2>1 DEF OneOwner, Shape
  <2> QED
    BY <1>0, <2>2, <2>3, <2>4, <2>5 DEF OneOwner
<1>4. ASSUME NEW t \in Client, ReturnBroken(t) \/ ReturnStopped(t) PROVE OneOwner'
  <2>1. held[t] \in Conn /\ held' = [held EXCEPT ![t] = NoConn]
    BY <1>0, <1>4 DEF ReturnBroken, ReturnStopped, Progress, Shape
  <2>2. Borrowed' = Borrowed \ {held[t]} /\ held[t] \in Borrowed
    BY <1>0, <2>1, Regain
  <2>3. idle' = idle /\ live' = live \ {held[t]} /\ checked' = checked
    BY <1>4 DEF ReturnBroken, ReturnStopped, Free, checkerVars
  <2>4. \A u, v \in Client : held'[u] = held'[v] => u = v \/ held'[u] = NoConn
    BY <1>0, <2>1 DEF OneOwner, Shape
  <2> QED
    BY <1>0, <2>2, <2>3, <2>4 DEF OneOwner
<1>5. ASSUME CheckSleep \/ CheckBegin \/ CheckExit \/ CheckSize \/ CheckTaken \/ PingGood
          \/ Discount \/ CheckGap \/ CheckFull \/ NotConnected \/ NotifyConnected
      PROVE OneOwner'
  <2>1. UNCHANGED <<idle, live, held, checked>>
    BY <1>5 DEF CheckSleep, CheckBegin, CheckExit, CheckSize, CheckTaken, PingGood,
         Discount, CheckGap, CheckFull, NotConnected, NotifyConnected, poolVars, clientVars
  <2> QED
    BY <1>0, <2>1, OwnersUnmoved
<1>6. ASSUME CheckTake PROVE OneOwner'
  <2>1. /\ Head(idle) \in Conn /\ Head(idle) \in Contents(idle)
        /\ Distinct(Tail(idle)) /\ Contents(Tail(idle)) = Contents(idle) \ {Head(idle)}
    BY <1>0, <1>6, PopFacts DEF CheckTake, Shape, OneOwner
  <2>2. checked = NoConn /\ checked' = Head(idle) /\ idle' = Tail(idle)
    BY <1>0, <1>6 DEF CheckTake, Progress
  <2>3. live' = live /\ held' = held /\ Borrowed' = Borrowed
    BY <1>6 DEF CheckTake, clientVars, Borrowed
  <2> QED
    BY <1>0, <2>1, <2>2, <2>3 DEF OneOwner
<1>7. ASSUME PingBroken PROVE OneOwner'
  <2>1. checked \in Conn
    BY <1>0, <1>7 DEF PingBroken, Progress, Shape
  <2>2. checked' = NoConn /\ live' = live \ {checked} /\ idle' = idle
    BY <1>7 DEF PingBroken, Free
  <2>3. held' = held /\ Borrowed' = Borrowed
    BY <1>7 DEF PingBroken, clientVars, Borrowed
  <2>4. NoConn \notin Contents(idle) \cup Borrowed
    BY <1>0 DEF OneOwner, Shape, Borrowed
  <2> QED
    BY <1>0, <2>1, <2>2, <2>3, <2>4 DEF OneOwner
<1>8. ASSUME CheckReturn \/ PushConnected PROVE OneOwner'
  <2>1. checked \in Conn /\ checked' = NoConn
    BY <1>0, <1>8 DEF CheckReturn, PushConnected, Progress, Shape
  <2>2. held' = held /\ Borrowed' = Borrowed
    BY <1>8 DEF CheckReturn, PushConnected, clientVars, Borrowed
  <2>3. \/ live' = live \ {checked} /\ idle' = idle
        \/ live' = live /\ idle' = Append(idle, checked)
    BY <1>8 DEF CheckReturn, PushConnected, Free, Push
  <2>4. /\ Contents(Append(idle, checked)) = Contents(idle) \cup {checked}
        /\ Distinct(Append(idle, checked))
    BY <1>0, <2>1, PushFacts DEF OneOwner, Shape
  <2>5. NoConn \notin live /\ NoConn \notin Contents(idle) \cup Borrowed
    BY <1>0 DEF Shape, OneOwner
  <2>6. CASE live' = live \ {checked} /\ idle' = idle
    BY <1>0, <2>1, <2>2, <2>5, <2>6 DEF OneOwner
  <2>7. CASE live' = live /\ idle' = Append(idle, checked)
    BY <1>0, <2>1, <2>2, <2>4, <2>5, <2>7 DEF OneOwner
  <2> QED
    BY <2>3, <2>6, <2>7
<1>9. ASSUME NEW c \in Conn, Connected(c) PROVE OneOwner'
  <2>1. checked = NoConn /\ checked' = c /\ live' = live \cup {c} /\ idle' = idle
    BY <1>0, <1>9 DEF Connected, Progress
  <2>2. held' = held /\ Borrowed' = Borrowed
    BY <1>9 DEF Connected, clientVars, Borrowed
  <2>3. c \notin live
    BY <1>9 DEF Connected
  <2> QED
    BY <1>0, <2>1, <2>2, <2>3 DEF OneOwner
<1>10. ASSUME Close \/ NotifyAll \/ Join PROVE OneOwner'
  <2>1. UNCHANGED <<idle, live, held, checked>>
    BY <1>10 DEF Close, NotifyAll, Join, poolVars, clientVars, checkerVars
  <2> QED
    BY <1>0, <2>1, OwnersUnmoved
<1>11. ASSUME ClearConnections PROVE OneOwner'
  <2>1. live' = live \ Contents(idle) /\ idle' = <<>>
    BY <1>11 DEF ClearConnections
  <2>2. checked' = checked /\ held' = held /\ Borrowed' = Borrowed
    BY <1>11 DEF ClearConnections, clientVars, checkerVars, Borrowed
  <2>3. Contents(<<>>) = {} /\ Distinct(<<>>)
    BY DEF Contents, Distinct
  <2> QED
    BY <1>0, <2>1, <2>2, <2>3 DEF OneOwner
<1>12. CASE UNCHANGED vars
  BY <1>0, <1>12, OwnersUnmoved DEF vars, poolVars, clientVars, checkerVars
<1> QED
  BY <1>1, <1>2, <1>3, <1>4, <1>5, <1>6, <1>7, <1>8, <1>9, <1>10, <1>11, <1>12
     DEF Next, ClientNext, CheckerNext, CloserNext

\* No step loses count.
LEMMA CountedStep ==
  ASSUME IInv, [Next]_vars
  PROVE  Counted'
<1> USE ConnPoolAssumption DEF ClientAt, CheckerAt, CloserAt, Counted, Pushing, Discounting
<1>0. Shape /\ Progress /\ OneOwner /\ Counted
  BY DEF IInv
<1>1. /\ Cardinality(live) \in Nat /\ count \in Int /\ IsFiniteSet(live)
      /\ \A c \in live : Cardinality(live \ {c}) = Cardinality(live) - 1
      /\ \A c \in Conn \ live : Cardinality(live \cup {c}) = Cardinality(live) + 1
  BY <1>0, Finite DEF Shape
<1>2. ASSUME NEW t \in Client,
             Enter(t) \/ SpuriousWakeup(t) \/ WaitForConnection(t) \/ BorrowNothing(t)
               \/ Borrow(t) \/ ReturnGood(t)
      PROVE Counted'
  BY <1>0, <1>2 DEF Enter, SpuriousWakeup, WaitForConnection, BorrowNothing, Borrow,
       ReturnGood, poolVars, checkerVars
<1>3. ASSUME NEW t \in Client, SignalChecker(t) PROVE Counted'
  BY <1>0, <1>3 DEF SignalChecker, CheckerWoken, poolVars
<1>4. ASSUME NEW t \in Client, ReturnBroken(t) \/ ReturnStopped(t) PROVE Counted'
  <2>1. held[t] \in live /\ live' = live \ {held[t]}
    BY <1>0, <1>4 DEF ReturnBroken, ReturnStopped, Progress, OneOwner, Borrowed, Free
  <2>2. Cardinality(live') = Cardinality(live) - 1
    BY <1>1, <2>1
  <2>3. checker' = checker /\ stop' = stop
    BY <1>4 DEF ReturnBroken, ReturnStopped, checkerVars
  <2>4. IF stop THEN count' = count ELSE count' = count - 1
    BY <1>4 DEF ReturnBroken, ReturnStopped
  <2> QED
    BY <1>0, <1>1, <2>2, <2>3, <2>4
<1>5. ASSUME CheckSleep \/ CheckBegin \/ CheckExit \/ CheckSize \/ CheckTake \/ CheckTaken
          \/ PingGood \/ CheckGap \/ CheckFull \/ NotConnected \/ NotifyConnected
      PROVE Counted'
  <2>1. live' = live /\ count' = count /\ stop' = stop
    BY <1>5 DEF CheckSleep, CheckBegin, CheckExit, CheckSize, CheckTake, CheckTaken,
         PingGood, CheckGap, CheckFull, NotConnected, NotifyConnected, poolVars
  <2>2. /\ checker \notin {"push", "discount"} /\ checker' \notin {"push", "discount"}
        /\ checker' = "connect" => count < PoolSize
    BY <1>5 DEF CheckSleep, CheckBegin, CheckExit, CheckSize, CheckTake, CheckTaken,
         PingGood, CheckGap, CheckFull, NotConnected, NotifyConnected
  <2> QED
    BY <1>0, <2>1, <2>2
<1>6. ASSUME PingBroken PROVE Counted'
  <2>1. checked \in live
    BY <1>0, <1>6 DEF PingBroken, Progress, OneOwner, InHand
  <2>2. Cardinality(live') = Cardinality(live) - 1
    BY <1>1, <1>6, <2>1 DEF PingBroken, Free
  <2> QED
    BY <1>0, <1>1, <1>6, <2>2 DEF PingBroken
<1>7. ASSUME CheckReturn \/ PushConnected PROVE Counted'
  <2>1. checked \in live
    BY <1>0, <1>7 DEF CheckReturn, PushConnected, Progress, OneOwner, InHand
  <2>2. Cardinality(live \ {checked}) = Cardinality(live) - 1
    BY <1>1, <2>1
  <2>3. CASE CheckReturn
    BY <1>0, <1>1, <2>2, <2>3 DEF CheckReturn, Free
  <2>4. CASE PushConnected
    <3>1. /\ checker = "push" /\ checker' \in {"eval", "notify"} /\ stop' = stop
          /\ IF stop THEN live' = live \ {checked} /\ count' = count
             ELSE live' = live /\ count' = count + 1
      BY <2>4 DEF PushConnected, Free
    <3> QED
      BY <1>0, <1>1, <2>2, <3>1
  <2> QED
    BY <1>7, <2>3, <2>4
<1>8. ASSUME Discount PROVE Counted'
  BY <1>0, <1>1, <1>8 DEF Discount
<1>9. ASSUME NEW c \in Conn, Connected(c) PROVE Counted'
  <2>1. Cardinality(live') = Cardinality(live) + 1
    BY <1>1, <1>9 DEF Connected
  <2> QED
    BY <1>0, <1>1, <1>9, <2>1 DEF Connected
<1>10. ASSUME Close \/ Join PROVE Counted'
  BY <1>0, <1>1, <1>10 DEF Close, Join, poolVars, checkerVars
<1>11. ASSUME NotifyAll PROVE Counted'
  BY <1>0, <1>11 DEF NotifyAll, CheckerWoken, poolVars
<1>12. ASSUME ClearConnections PROVE Counted'
  <2>1. live' \subseteq live
    BY <1>12 DEF ClearConnections
  <2>2. Cardinality(live') \in Nat /\ Cardinality(live') <= Cardinality(live)
    BY <1>1, <2>1, FS_Subset, FS_CardinalityType
  <2>3. stop /\ count' = count /\ stop' = stop /\ checker' = checker
    BY <1>0, <1>12 DEF ClearConnections, checkerVars, Progress
  <2> QED
    BY <1>0, <1>1, <2>2, <2>3
<1>13. CASE UNCHANGED vars
  BY <1>0, <1>13 DEF vars, poolVars, checkerVars
<1> QED
  BY <1>2, <1>3, <1>4, <1>5, <1>6, <1>7, <1>8, <1>9, <1>10, <1>11, <1>12, <1>13
     DEF Next, ClientNext, CheckerNext, CloserNext

-----------------------------------------------------------------------------
(* Who sleeps.                                                             *)

Notified == IF checker = "notify" THEN 1 ELSE 0

\* A client more, or a client less, at its predicate.
LEMMA GettingFacts ==
  ASSUME Shape, Shape'
  PROVE  /\ Cardinality(Getting) \in Nat
         /\ Getting \subseteq Getting' => Cardinality(Getting) <= Cardinality(Getting')
         /\ \A t \in Client :
              /\ t \notin Getting /\ Getting' = Getting \cup {t} =>
                   Cardinality(Getting') = Cardinality(Getting) + 1
              /\ t \in Getting /\ Getting' = Getting \ {t} =>
                   Cardinality(Getting') = Cardinality(Getting) - 1
<1>1. IsFiniteSet(Getting) /\ IsFiniteSet(Getting')
  <2>1. Getting \subseteq Client /\ Getting' \subseteq Client
    BY DEF Getting
  <2> QED
    BY <2>1, ConnPoolAssumption, FS_Subset
<1> QED
  BY <1>1, FS_CardinalityType, FS_AddElement, FS_RemoveElement, FS_Subset

\* No notification is lost.
LEMMA SleepStep ==
  ASSUME IInv, [Next]_vars
  PROVE  NoConnectionSleeps'
<1> USE ConnPoolAssumption DEF ClientAt, CheckerAt, CloserAt
<1>0. Shape /\ Progress /\ OneOwner /\ NoConnectionSleeps /\ Shape'
  BY ProgressStep DEF IInv
<1>1. /\ Cardinality(Getting) \in Nat /\ Cardinality(Getting') \in Nat
      /\ Getting \subseteq Getting' => Cardinality(Getting) <= Cardinality(Getting')
      /\ \A t \in Client :
           /\ t \notin Getting /\ Getting' = Getting \cup {t} =>
                Cardinality(Getting') = Cardinality(Getting) + 1
           /\ t \in Getting /\ Getting' = Getting \ {t} =>
                Cardinality(Getting') = Cardinality(Getting) - 1
  <2>1. Getting' \subseteq Client
    BY DEF Getting
  <2>2. Cardinality(Getting') \in Nat
    BY <2>1, FS_Subset, FS_CardinalityType
  <2> QED
    BY <1>0, <2>2, GettingFacts
<1>2. Len(idle) \in Nat
  BY <1>0 DEF Shape
<1>3. SUFFICES ASSUME Waiters' # {}
      PROVE IF stop' THEN closer' = "notify"
            ELSE Len(idle') <= Cardinality(Getting') + Notified'
  BY DEF NoConnectionSleeps, Notified
<1>4. Waiters # {} => IF stop THEN closer = "notify"
                      ELSE Len(idle) <= Cardinality(Getting) + Notified
  BY <1>0 DEF NoConnectionSleeps, Notified
<1> HIDE DEF NoConnectionSleeps
<1> DEFINE Goal == IF stop' THEN closer' = "notify"
                   ELSE Len(idle') <= Cardinality(Getting') + Notified'
<1>5. ASSUME NEW t \in Client, Enter(t) \/ SpuriousWakeup(t) PROVE Goal
  <2>1. t \notin Getting /\ Getting' = Getting \cup {t} /\ Waiters' \subseteq Waiters
    BY <1>0, <1>5 DEF Enter, SpuriousWakeup, Getting, Waiters, Shape
  <2>2. idle' = idle /\ stop' = stop /\ closer' = closer /\ Notified' = Notified
    BY <1>5 DEF Enter, SpuriousWakeup, poolVars, checkerVars, Notified
  <2> QED
    BY <1>1, <1>2, <1>3, <1>4, <2>1, <2>2 DEF Notified
<1>6. ASSUME NEW t \in Client, WaitForConnection(t) PROVE Goal
  <2>1. ~ stop' /\ Len(idle') = 0
    BY <1>6 DEF WaitForConnection, poolVars
  <2> QED
    BY <1>1, <2>1 DEF Notified
<1>7. ASSUME NEW t \in Client, BorrowNothing(t) \/ ReturnStopped(t) PROVE Goal
  <2>1. stop /\ stop' = stop /\ closer' = closer /\ Waiters' = Waiters
    BY <1>0, <1>7 DEF BorrowNothing, ReturnStopped, Waiters, Shape
  <2> QED
    BY <1>3, <1>4, <2>1
<1>8. ASSUME NEW t \in Client, Borrow(t) PROVE Goal
  <2>1. t \in Getting /\ Getting' = Getting \ {t} /\ Waiters' = Waiters
    BY <1>0, <1>8 DEF Borrow, Getting, Waiters, Shape
  <2>2. Len(idle') = Len(idle) - 1
    BY <1>0, <1>8, PopFacts DEF Borrow, Shape, OneOwner
  <2>3. ~ stop /\ ~ stop' /\ Notified' = Notified
    BY <1>8 DEF Borrow, checkerVars, Notified
  <2> QED
    <3>1. Cardinality(Getting') = Cardinality(Getting) - 1
      BY <1>1, <2>1
    <3> QED
      BY <1>1, <1>2, <1>3, <1>4, <2>1, <2>2, <2>3, <3>1 DEF Notified
<1>9. ASSUME NEW t \in Client, ReturnGood(t) PROVE Goal
  <2> DEFINE pcs == [client EXCEPT ![t] = "out"]
  <2>1. held[t] \in Conn /\ Len(idle') = Len(idle) + 1
    BY <1>0, <1>9, PushFacts DEF ReturnGood, Push, Progress, Shape
  <2>2. ~ stop /\ ~ stop' /\ Notified' = Notified
    BY <1>9 DEF ReturnGood, checkerVars, Notified
  <2>3. CASE Waiters = {}
    <3>1. client' = pcs
      BY <1>9, <2>3 DEF ReturnGood, Woken
    <3>2. Waiters' = {}
      BY <1>0, <2>3, <3>1 DEF Waiters, Shape
    <3> QED
      BY <1>3, <3>2
  <2>4. CASE Waiters # {}
    <3>1. PICK w \in Waiters : client' = [pcs EXCEPT ![w] = "get"]
      BY <1>9, <2>4 DEF ReturnGood, Woken
    <3>2. w \in Client /\ w # t /\ w \notin Getting /\ Getting' = Getting \cup {w}
      BY <1>0, <1>9, <3>1 DEF ReturnGood, Waiters, Getting, Shape
    <3>3. Cardinality(Getting') = Cardinality(Getting) + 1
      BY <1>1, <3>2
    <3> QED
      BY <1>1, <1>2, <1>4, <2>1, <2>2, <2>4, <3>3 DEF Notified
  <2> QED
    BY <2>3, <2>4
<1>10. ASSUME NEW t \in Client, ReturnBroken(t) PROVE Goal
  <2>1. Getting' = Getting /\ Waiters' = Waiters
    BY <1>0, <1>10 DEF ReturnBroken, Getting, Waiters, Shape
  <2>2. idle' = idle /\ stop' = stop /\ closer' = closer /\ Notified' = Notified
    BY <1>10 DEF ReturnBroken, checkerVars, Notified
  <2> QED
    BY <1>3, <1>4, <2>1, <2>2
<1>11. ASSUME NEW t \in Client, SignalChecker(t) PROVE Goal
  <2>1. Getting' = Getting /\ Waiters' = Waiters
    BY <1>0, <1>11 DEF SignalChecker, Getting, Waiters, Shape
  <2>2. idle' = idle /\ stop' = stop /\ closer' = closer /\ Notified' = Notified
    BY <1>11 DEF SignalChecker, CheckerWoken, poolVars, Notified
  <2> QED
    BY <1>3, <1>4, <2>1, <2>2
<1>12. ASSUME CheckSleep \/ CheckBegin \/ CheckExit \/ CheckSize \/ CheckTaken
           \/ PingGood \/ PingBroken \/ Discount \/ CheckGap \/ CheckFull \/ NotConnected
           \/ Join \/ \E c \in Conn : Connected(c)
       PROVE Goal
  <2>1. Getting' = Getting /\ Waiters' = Waiters
    BY <1>12 DEF CheckSleep, CheckBegin, CheckExit, CheckSize, CheckTaken, PingGood,
         PingBroken, Discount, CheckGap, CheckFull, NotConnected, Join, Connected,
         clientVars, Getting, Waiters
  <2>2. idle' = idle /\ stop' = stop /\ Notified' = Notified
    BY <1>12 DEF CheckSleep, CheckBegin, CheckExit, CheckSize, CheckTaken, PingGood,
         PingBroken, Discount, CheckGap, CheckFull, NotConnected, Join, Connected,
         poolVars, checkerVars, Notified
  <2>3. closer' = closer \/ closer = "join"
    BY <1>12 DEF CheckSleep, CheckBegin, CheckExit, CheckSize, CheckTaken, PingGood,
         PingBroken, Discount, CheckGap, CheckFull, NotConnected, Join, Connected
  <2>4. closer = "join" => stop
    BY <1>0 DEF Progress
  <2> QED
    BY <1>3, <1>4, <2>1, <2>2, <2>3, <2>4
<1>13. ASSUME CheckTake PROVE Goal
  <2>1. Getting' = Getting /\ Waiters' = Waiters
    BY <1>13 DEF CheckTake, clientVars, Getting, Waiters
  <2>2. Len(idle') = Len(idle) - 1
    BY <1>0, <1>13, PopFacts DEF CheckTake, Shape, OneOwner
  <2>3. ~ stop /\ ~ stop' /\ Notified' = Notified
    BY <1>13 DEF CheckTake, Notified
  <2> QED
    BY <1>1, <1>2, <1>3, <1>4, <2>1, <2>2, <2>3 DEF Notified
<1>14. ASSUME CheckReturn PROVE Goal
  <2>1. stop' = stop /\ closer' = closer /\ Notified' = Notified
    BY <1>14 DEF CheckReturn, Notified
  <2>2. CASE stop
    <3>1. Waiters' = Waiters
      BY <1>14, <2>2 DEF CheckReturn, Waiters
    <3> QED
      BY <1>3, <1>4, <2>1, <2>2, <3>1
  <2>3. CASE ~ stop /\ Waiters = {}
    <3>1. Waiters' = {}
      BY <1>14, <2>3 DEF CheckReturn, Woken, Waiters
    <3> QED
      BY <1>3, <3>1
  <2>4. CASE ~ stop /\ Waiters # {}
    <3>1. PICK w \in Waiters : client' = [client EXCEPT ![w] = "get"]
      BY <1>14, <2>4 DEF CheckReturn, Woken
    <3>2. w \in Client /\ w \notin Getting /\ Getting' = Getting \cup {w}
      BY <1>0, <3>1 DEF Waiters, Getting, Shape
    <3>3. Len(idle') = Len(idle) + 1
      BY <1>0, <1>14, <2>4, PushFacts DEF CheckReturn, Push, Progress, Shape
    <3>4. Cardinality(Getting') = Cardinality(Getting) + 1
      BY <1>1, <3>2
    <3> QED
      BY <1>1, <1>2, <1>4, <2>1, <2>4, <3>3, <3>4 DEF Notified
  <2> QED
    BY <2>2, <2>3, <2>4
<1>15. ASSUME PushConnected PROVE Goal
  <2>1. stop' = stop /\ closer' = closer /\ Getting' = Getting /\ Waiters' = Waiters
    BY <1>15 DEF PushConnected, clientVars, Getting, Waiters
  <2>2. CASE stop
    BY <1>3, <1>4, <2>1, <2>2
  <2>3. CASE ~ stop
    <3>1. Len(idle') = Len(idle) + 1 /\ Notified = 0 /\ Notified' = 1
      BY <1>0, <1>15, <2>3, PushFacts DEF PushConnected, Push, Progress, Shape, Notified
    <3> QED
      BY <1>1, <1>2, <1>3, <1>4, <2>1, <2>3, <3>1
  <2> QED
    BY <2>2, <2>3
<1>16. ASSUME NotifyConnected PROVE Goal
  <2>1. idle' = idle /\ stop' = stop /\ closer' = closer /\ Notified = 1 /\ Notified' = 0
    BY <1>16 DEF NotifyConnected, poolVars, Notified
  <2>2. CASE Waiters = {}
    <3>1. Waiters' = {}
      BY <1>16, <2>2 DEF NotifyConnected, Woken, Waiters
    <3> QED
      BY <1>3, <3>1
  <2>3. CASE Waiters # {}
    <3>1. PICK w \in Waiters : client' = [client EXCEPT ![w] = "get"]
      BY <1>16, <2>3 DEF NotifyConnected, Woken
    <3>2. w \in Client /\ w \notin Getting /\ Getting' = Getting \cup {w}
      BY <1>0, <3>1 DEF Waiters, Getting, Shape
    <3>3. Cardinality(Getting') = Cardinality(Getting) + 1
      BY <1>1, <3>2
    <3> QED
      BY <1>1, <1>2, <1>4, <2>1, <2>3, <3>3
  <2> QED
    BY <2>2, <2>3
<1>17. ASSUME Close PROVE Goal
  BY <1>17 DEF Close
<1>18. ASSUME NotifyAll PROVE Goal
  <2>1. Waiters' = {}
    BY <1>0, <1>18 DEF NotifyAll, Waiters, Shape
  <2> QED
    BY <1>3, <2>1
<1>19. ASSUME ClearConnections PROVE Goal
  <2>1. stop' = stop /\ stop /\ Waiters' = Waiters /\ closer # "notify"
    BY <1>0, <1>19 DEF ClearConnections, clientVars, Waiters, Progress
  <2> QED
    BY <1>3, <1>4, <2>1
<1>20. CASE UNCHANGED vars
  <2>1. /\ idle' = idle /\ stop' = stop /\ closer' = closer /\ Notified' = Notified
        /\ Getting' = Getting /\ Waiters' = Waiters
    BY <1>20 DEF vars, poolVars, clientVars, checkerVars, Notified, Getting, Waiters
  <2> QED
    BY <1>3, <1>4, <2>1
<1> QED
  BY <1>5, <1>6, <1>7, <1>8, <1>9, <1>10, <1>11, <1>12, <1>13, <1>14, <1>15, <1>16,
     <1>17, <1>18, <1>19, <1>20 DEF Next, ClientNext, CheckerNext, CloserNext

-----------------------------------------------------------------------------
(* The theorems.                                                           *)

\* The constructor leaves a pool in order.
LEMMA InitInv == Init => IInv
<1> SUFFICES ASSUME Init PROVE IInv
  OBVIOUS
<1> USE ConnPoolAssumption
<1>1. PICK n \in 0..PoolSize : idle \in [1..n -> Conn]
  BY DEF Init
<1>2. n \in Nat /\ idle \in Seq(Conn) /\ Len(idle) = n /\ DOMAIN idle = 1..n
  BY <1>1
<1>3. Contents(idle) \subseteq Conn
  BY <1>1, <1>2 DEF Contents
<1>4. Shape
  <2>1. live \subseteq Conn /\ count \in Int /\ faults \in 0..MaxFaults
    BY <1>2, <1>3 DEF Init
  <2>2. /\ client \in [Client -> {"out", "get", "wait", "using", "signal"}]
        /\ held \in [Client -> Conn \cup {NoConn}]
    BY DEF Init
  <2> QED
    BY <1>2, <2>1, <2>2 DEF Shape, CheckStep, Init
<1>5. Progress
  BY DEF Progress, Init
<1>6. OneOwner
  <2>1. Borrowed = {} /\ InHand = {}
    BY DEF Borrowed, InHand, Init
  <2>2. NoConn \notin Contents(idle)
    BY <1>3
  <2> QED
    BY <2>1, <2>2 DEF OneOwner, Idle, Init
<1>7. Counted
  <2>1. \A i, j \in 1..n : idle[i] = idle[j] => i = j
    BY <1>2 DEF Init, Distinct
  <2>2. idle \in Bijection(1..n, Contents(idle))
    <3>1. Contents(idle) = {idle[i] : i \in 1..n}
      BY <1>2 DEF Contents
    <3>2. idle \in [1..n -> Contents(idle)]
      BY <1>1, <3>1
    <3> QED
      BY <2>1, <3>1, <3>2 DEF Bijection, Injection, IsInjective, Surjection
  <2>3. ExistsBijection(1..n, Contents(idle))
    BY <2>2 DEF ExistsBijection
  <2>4. Cardinality(Contents(idle)) = n
    BY <1>2, <2>3, FS_CountingElements
  <2>5. Cardinality(live) = n /\ count = n /\ checker = "eval"
    BY <1>2, <2>4 DEF Init
  <2> QED
    BY <1>1, <1>2, <2>5 DEF Counted, Pushing, Discounting
<1>8. NoConnectionSleeps
  BY DEF NoConnectionSleeps, Waiters, Init
<1> QED
  BY <1>4, <1>5, <1>6, <1>7, <1>8 DEF IInv

\* What the invariant means for the properties the runs check.
LEMMA InvMeans ==
  ASSUME IInv
  PROVE  TypeOK /\ OneOwner /\ CapacityIsKept /\ NoConnectionSleeps /\ ClosedLeavesNothing
<1> USE ConnPoolAssumption
<1>1. Shape /\ Progress /\ OneOwner /\ Counted /\ NoConnectionSleeps
  BY DEF IInv
<1>2. IsFiniteSet(live) /\ Cardinality(live) \in Nat /\ count \in Int
  BY <1>1, Finite DEF Shape
<1>3. checker = "push" => Cardinality(live) >= 1
  <2> SUFFICES ASSUME checker = "push" PROVE Cardinality(live) >= 1
    OBVIOUS
  <2>1. checked \in live
    BY <1>1 DEF Progress, OneOwner, InHand
  <2>2. Cardinality({checked}) = 1 /\ {checked} \subseteq live
    BY <2>1, FS_Singleton
  <2> QED
    BY <1>2, <2>2, FS_Subset
<1>4. count \in 0..PoolSize
  <2>1. CASE stop
    BY <1>1, <1>2, <1>3, <2>1 DEF Counted, Pushing, Discounting
  <2>2. CASE ~ stop
    BY <1>1, <1>2, <1>3, <2>2 DEF Counted, Pushing, Discounting
  <2> QED
    BY <1>1, <2>1, <2>2 DEF Shape
<1>5. TypeOK
  BY <1>1, <1>4 DEF Shape, TypeOK
<1>6. CapacityIsKept
  BY <1>1, <1>2 DEF Counted, CapacityIsKept, Pushing, Discounting
<1>7. ClosedLeavesNothing
  <2> SUFFICES ASSUME closer = "closed" PROVE checker = "exited" /\ live = Borrowed
    BY DEF ClosedLeavesNothing
  <2>1. checker = "exited" /\ idle = <<>> /\ checked = NoConn
    BY <1>1 DEF Progress
  <2>2. Idle = {} /\ InHand = {}
    BY <2>1 DEF Idle, Contents, InHand
  <2> QED
    BY <1>1, <2>1, <2>2 DEF OneOwner
<1> QED
  BY <1>1, <1>5, <1>6, <1>7

\* The inductive invariant holds in every state of the pool.
THEOREM InductiveInvariant == Spec => []IInv
<1>1. IInv /\ [Next]_vars => IInv'
  BY ProgressStep, OneOwnerStep, CountedStep, SleepStep DEF IInv
<1> QED
  BY InitInv, <1>1, PTL DEF Spec

\* Every variable keeps its type, and connection_count_ stays within poolSize_
\* and never falls below zero (RedisMgr.cpp:540, 580).
THEOREM TypeCorrect == Spec => []TypeOK
  BY InductiveInvariant, InvMeans, PTL

\* No context is shared, leaked, freed twice or used after it was freed.
THEOREM ContextsHaveOneOwner == Spec => []OneOwner
  BY InductiveInvariant, InvMeans, PTL

\* connection_count_ is exact, and there are never more than poolSize_ contexts.
THEOREM CapacityIsExact == Spec => []CapacityIsKept
  BY InductiveInvariant, InvMeans, PTL

\* No client sleeps next to an idle connection.
THEOREM WakeupsAreNotLost == Spec => []NoConnectionSleeps
  BY InductiveInvariant, InvMeans, PTL

\* Close leaves no thread and no context behind.
THEOREM CloseIsComplete == Spec => []ClosedLeavesNothing
  BY InductiveInvariant, InvMeans, PTL
=============================================================================
