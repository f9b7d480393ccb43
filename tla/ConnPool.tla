------------------------------ MODULE ConnPool ------------------------------
(***************************************************************************)
(* RedisConPool: the connections to Redis that all threads of a ChatServer *)
(* share.  A client thread borrows a connection, runs a command on it and  *)
(* brings it back; a broken one is freed and the check thread asked to     *)
(* make up for it.  That thread also pings the idle connections once a     *)
(* minute.  Close, at the end of main, stops both.  An action is a         *)
(* critical section of the mutex, or a call to Redis or a notification     *)
(* made without it.  b_stop_ is written under the mutex, and read without  *)
(* it only to leave a loop that the next critical section leaves as well.  *)
(***************************************************************************)
EXTENDS Naturals, Sequences, FiniteSets

CONSTANTS
  Client,           \* the threads that run commands
  Conn, NoConn,     \* redisContext objects
  PoolSize,         \* poolSize_
  MaxFaults         \* bound: failures of commands and of attempts to connect

ASSUME ConnPoolAssumption ==
  /\ IsFiniteSet(Client)
  /\ IsFiniteSet(Conn) /\ NoConn \notin Conn
  /\ PoolSize \in Nat \ {0} /\ MaxFaults \in Nat

VARIABLES
  idle,         \* connections_
  live,         \* the contexts that have been connected and not freed
  count,        \* connection_count_
  stop,         \* b_stop_
  requested,    \* check_requested_
  client,       \* each client: "out" | "get" (the predicate) | "wait" (on cond_)
                \*              | "using" | "signal" (check_cond_)
  held,         \* the context each client has borrowed
  checker,      \* progress of the check thread
  left,         \* the connections it has still to ping
  checked,      \* the context it has in hand
  closer,       \* progress of Close: "open" | "notify" | "join" | "clear" | "closed"
  faults        \* the failures so far

poolVars    == <<idle, live, count>>
clientVars  == <<client, held>>
checkerVars == <<checker, left, checked>>
vars == <<poolVars, stop, requested, clientVars, checkerVars, closer, faults>>

CheckStep == {"eval", "sleep", "size", "take", "ping", "return", "discount",
              "gap", "connect", "push", "notify", "exited"}

TypeOK ==
  /\ idle \in Seq(Conn)
  /\ live \subseteq Conn
  /\ count \in 0..PoolSize
  /\ stop \in BOOLEAN /\ requested \in BOOLEAN
  /\ client \in [Client -> {"out", "get", "wait", "using", "signal"}]
  /\ held \in [Client -> Conn \cup {NoConn}]
  /\ checker \in CheckStep
  /\ left \in Nat
  /\ checked \in Conn \cup {NoConn}
  /\ closer \in {"open", "notify", "join", "clear", "closed"}
  /\ faults \in 0..MaxFaults

Contents(q) == {q[i] : i \in DOMAIN q}
Distinct(q) == \A i, j \in DOMAIN q : q[i] = q[j] => i = j

\* The constructor connects as often as it can; what is missing is requested.
Init ==
  /\ \E n \in 0..PoolSize : idle \in [1..n -> Conn]
  /\ Distinct(idle)
  /\ live = Contents(idle)
  /\ count = Len(idle)
  /\ stop = FALSE /\ requested = TRUE
  /\ client = [t \in Client |-> "out"]
  /\ held = [t \in Client |-> NoConn]
  /\ checker = "eval" /\ left = 0 /\ checked = NoConn
  /\ closer = "open"
  /\ faults = 0

-----------------------------------------------------------------------------
(* Building blocks.                                                        *)

Fault == faults < MaxFaults /\ faults' = faults + 1

Waiters == {t \in Client : client[t] = "wait"}

Push(c) == idle' = Append(idle, c)
Free(c) == live' = live \ {c}

\* cond_.notify_one: the clients' states pcs, with one of the waiting ones back
\* at its predicate.
Woken(pcs) ==
  IF Waiters = {} THEN {pcs} ELSE {[pcs EXCEPT ![t] = "get"] : t \in Waiters}

\* check_cond_.notify_one: the predicate of a sleeping check thread is evaluated.
CheckerWoken == checker' = IF checker = "sleep" THEN "eval" ELSE checker

-----------------------------------------------------------------------------
(* A client: getConnection, a command, returnConnection.                   *)

ClientAt(t, from, to) ==
  /\ client[t] = from
  /\ client' = [client EXCEPT ![t] = to]

Enter(t) ==
  /\ ClientAt(t, "out", "get")
  /\ UNCHANGED <<poolVars, stop, requested, held, checkerVars, closer, faults>>

Borrow(t) ==
  /\ ~ stop /\ idle # <<>>
  /\ ClientAt(t, "get", "using")
  /\ held' = [held EXCEPT ![t] = Head(idle)]
  /\ idle' = Tail(idle)
  /\ UNCHANGED <<live, count, stop, requested, checkerVars, closer, faults>>

WaitForConnection(t) ==
  /\ ~ stop /\ idle = <<>>
  /\ ClientAt(t, "get", "wait")
  /\ UNCHANGED <<poolVars, stop, requested, held, checkerVars, closer, faults>>

\* A null pointer after Close; the command fails.
BorrowNothing(t) ==
  /\ stop
  /\ ClientAt(t, "get", "out")
  /\ UNCHANGED <<poolVars, stop, requested, held, checkerVars, closer, faults>>

SpuriousWakeup(t) ==
  /\ ClientAt(t, "wait", "get")
  /\ UNCHANGED <<poolVars, stop, requested, held, checkerVars, closer, faults>>

\* Mutant of ReturnGood: the connection is returned, and nobody is told.
ReturnGoodQuietly(t) ==
  /\ ~ stop
  /\ ClientAt(t, "using", "out")
  /\ held' = [held EXCEPT ![t] = NoConn]
  /\ Push(held[t])
  /\ UNCHANGED <<live, count, stop, requested, checkerVars, closer, faults>>

ReturnGood(t) ==
  /\ ~ stop
  /\ client[t] = "using"
  /\ client' \in Woken([client EXCEPT ![t] = "out"])
  /\ held' = [held EXCEPT ![t] = NoConn]
  /\ Push(held[t])
  /\ UNCHANGED <<live, count, stop, requested, checkerVars, closer, faults>>

\* Mutant of ReturnBroken: the broken connection is still counted.
ReturnBrokenCounted(t) ==
  /\ ~ stop
  /\ Fault
  /\ ClientAt(t, "using", "signal")
  /\ held' = [held EXCEPT ![t] = NoConn]
  /\ Free(held[t])
  /\ requested' = TRUE
  /\ UNCHANGED <<idle, count, stop, checkerVars, closer>>

\* The command left an error in the context.
ReturnBroken(t) ==
  /\ ~ stop
  /\ Fault
  /\ ClientAt(t, "using", "signal")
  /\ held' = [held EXCEPT ![t] = NoConn]
  /\ Free(held[t])
  /\ count' = count - 1
  /\ requested' = TRUE
  /\ UNCHANGED <<idle, stop, checkerVars, closer>>

\* Mutant of ReturnStopped: the connection goes back to a pool that was closed.
ReturnStoppedPushes(t) ==
  /\ stop
  /\ ClientAt(t, "using", "out")
  /\ held' = [held EXCEPT ![t] = NoConn]
  /\ Push(held[t])
  /\ UNCHANGED <<live, count, stop, requested, checkerVars, closer, faults>>

\* After Close the borrower frees it; nothing is counted any more.
ReturnStopped(t) ==
  /\ stop
  /\ ClientAt(t, "using", "out")
  /\ held' = [held EXCEPT ![t] = NoConn]
  /\ Free(held[t])
  /\ UNCHANGED <<idle, count, stop, requested, checkerVars, closer, faults>>

SignalChecker(t) ==
  /\ ClientAt(t, "signal", "out")
  /\ CheckerWoken
  /\ UNCHANGED <<poolVars, stop, requested, held, left, checked, closer, faults>>

-----------------------------------------------------------------------------
(* The check thread.                                                       *)

CheckerAt(from, to) ==
  /\ checker = from
  /\ checker' = to

\* The predicate of check_cond_.
CheckSleep ==
  /\ ~ stop /\ ~ requested
  /\ CheckerAt("eval", "sleep")
  /\ UNCHANGED <<poolVars, stop, requested, clientVars, left, checked, closer, faults>>

\* Woken up with something to do, or 60 s are over.
CheckBegin ==
  /\ ~ stop
  /\ (requested /\ CheckerAt("eval", "size")) \/ CheckerAt("sleep", "size")
  /\ requested' = FALSE
  /\ UNCHANGED <<poolVars, stop, clientVars, left, checked, closer, faults>>

CheckExit ==
  /\ stop
  /\ CheckerAt("eval", "exited") \/ CheckerAt("sleep", "exited")
  /\ UNCHANGED <<poolVars, stop, requested, clientVars, left, checked, closer, faults>>

CheckSize ==
  /\ CheckerAt("size", "take")
  /\ left' = Len(idle)
  /\ UNCHANGED <<poolVars, stop, requested, clientVars, checked, closer, faults>>

\* getConNonBlock.
CheckTake ==
  /\ ~ stop /\ left > 0 /\ idle # <<>>
  /\ CheckerAt("take", "ping")
  /\ left' = left - 1
  /\ checked' = Head(idle)
  /\ idle' = Tail(idle)
  /\ UNCHANGED <<live, count, stop, requested, clientVars, closer, faults>>

CheckTaken ==
  /\ stop \/ left = 0 \/ idle = <<>>
  /\ CheckerAt("take", "gap")
  /\ left' = 0
  /\ UNCHANGED <<poolVars, stop, requested, clientVars, checked, closer, faults>>

PingGood ==
  /\ CheckerAt("ping", "return")
  /\ UNCHANGED <<poolVars, stop, requested, clientVars, left, checked, closer, faults>>

PingBroken ==
  /\ Fault
  /\ CheckerAt("ping", "discount")
  /\ Free(checked)
  /\ checked' = NoConn
  /\ UNCHANGED <<idle, count, stop, requested, clientVars, left, closer>>

CheckReturn ==
  /\ CheckerAt("return", "take")
  /\ checked' = NoConn
  /\ \/ stop /\ Free(checked) /\ UNCHANGED <<idle, client>>
     \/ ~ stop /\ Push(checked) /\ client' \in Woken(client) /\ UNCHANGED live
  /\ UNCHANGED <<count, stop, requested, held, left, closer, faults>>

Discount ==
  /\ CheckerAt("discount", "take")
  /\ count' = count - 1
  /\ UNCHANGED <<idle, live, stop, requested, clientVars, left, checked, closer, faults>>

\* Mutant of CheckGap: one connection more than poolSize_.
CheckGapOffByOne ==
  /\ ~ stop /\ count <= PoolSize
  /\ CheckerAt("gap", "connect")
  /\ UNCHANGED <<poolVars, stop, requested, clientVars, left, checked, closer, faults>>

\* As long as connections are missing, connect one more.
CheckGap ==
  /\ ~ stop /\ count < PoolSize
  /\ CheckerAt("gap", "connect")
  /\ UNCHANGED <<poolVars, stop, requested, clientVars, left, checked, closer, faults>>

\* Mutant of CheckFull: the missing connections are left to the clients.
CheckFullAlways ==
  /\ CheckerAt("gap", "eval")
  /\ UNCHANGED <<poolVars, stop, requested, clientVars, left, checked, closer, faults>>

\* Mutant of CheckFull: the loop does not look at b_stop_, and spins.
CheckFullSpins ==
  /\ count >= PoolSize
  /\ CheckerAt("gap", "eval")
  /\ UNCHANGED <<poolVars, stop, requested, clientVars, left, checked, closer, faults>>

CheckFull ==
  /\ stop \/ count >= PoolSize
  /\ CheckerAt("gap", "eval")
  /\ UNCHANGED <<poolVars, stop, requested, clientVars, left, checked, closer, faults>>

\* reconnect, up to its critical section.
Connected(c) ==
  /\ c \notin live
  /\ CheckerAt("connect", "push")
  /\ live' = live \cup {c}
  /\ checked' = c
  /\ UNCHANGED <<idle, count, stop, requested, clientVars, left, closer, faults>>

\* The round ends without the connection; the next one is a minute away, unless
\* it is requested.
NotConnected ==
  /\ Fault
  /\ CheckerAt("connect", "eval")
  /\ UNCHANGED <<poolVars, stop, requested, clientVars, left, checked, closer>>

PushConnected ==
  /\ checked' = NoConn
  /\ \/ /\ stop
        /\ CheckerAt("push", "eval")
        /\ Free(checked)
        /\ UNCHANGED <<idle, count>>
     \/ /\ ~ stop
        /\ CheckerAt("push", "notify")
        /\ Push(checked)
        /\ count' = count + 1
        /\ UNCHANGED live
  /\ UNCHANGED <<stop, requested, clientVars, left, closer, faults>>

\* cond_.notify_one, after the mutex is released.
NotifyConnected ==
  /\ CheckerAt("notify", "gap")
  /\ client' \in Woken(client)
  /\ UNCHANGED <<poolVars, stop, requested, held, left, checked, closer, faults>>

-----------------------------------------------------------------------------
(* Close.                                                                  *)

CloserAt(from, to) ==
  /\ closer = from
  /\ closer' = to

Close ==
  /\ CloserAt("open", "notify")
  /\ stop' = TRUE
  /\ UNCHANGED <<poolVars, requested, clientVars, checkerVars, faults>>

\* Mutant of NotifyAll: a single client is woken up.
NotifyOne ==
  /\ CloserAt("notify", "join")
  /\ client' \in Woken(client)
  /\ CheckerWoken
  /\ UNCHANGED <<poolVars, stop, requested, held, left, checked, faults>>

NotifyAll ==
  /\ CloserAt("notify", "join")
  /\ client' = [t \in Client |-> IF client[t] = "wait" THEN "get" ELSE client[t]]
  /\ CheckerWoken
  /\ UNCHANGED <<poolVars, stop, requested, held, left, checked, faults>>

\* Mutant of Join: the check thread is left to itself.
NotJoined ==
  /\ CloserAt("join", "clear")
  /\ UNCHANGED <<poolVars, stop, requested, clientVars, checkerVars, faults>>

Join ==
  /\ checker = "exited"
  /\ CloserAt("join", "clear")
  /\ UNCHANGED <<poolVars, stop, requested, clientVars, checkerVars, faults>>

\* Mutant of ClearConnections: the contexts are freed and stay in the queue.
ClearConnectionsOnly ==
  /\ CloserAt("clear", "closed")
  /\ live' = live \ Contents(idle)
  /\ UNCHANGED <<idle, count, stop, requested, clientVars, checkerVars, faults>>

ClearConnections ==
  /\ CloserAt("clear", "closed")
  /\ live' = live \ Contents(idle)
  /\ idle' = <<>>
  /\ UNCHANGED <<count, stop, requested, clientVars, checkerVars, faults>>

-----------------------------------------------------------------------------
ClientNext(t) ==
  \/ Borrow(t) \/ WaitForConnection(t) \/ BorrowNothing(t)
  \/ ReturnGood(t) \/ ReturnBroken(t) \/ ReturnStopped(t) \/ SignalChecker(t)

CheckerNext ==
  \/ CheckSleep \/ CheckBegin \/ CheckExit \/ CheckSize \/ CheckTake \/ CheckTaken
  \/ PingGood \/ PingBroken \/ CheckReturn \/ Discount
  \/ CheckGap \/ CheckFull \/ NotConnected \/ PushConnected \/ NotifyConnected
  \/ \E c \in Conn : Connected(c)

\* The two notify_all calls of Close are one step.
CloserNext == NotifyAll \/ Join \/ ClearConnections

Next ==
  \/ \E t \in Client : Enter(t) \/ SpuriousWakeup(t) \/ ClientNext(t)
  \/ CheckerNext
  \/ Close \/ CloserNext

Spec == Init /\ [][Next]_vars
-----------------------------------------------------------------------------
Idle == Contents(idle)
Borrowed == {held[t] : t \in Client} \ {NoConn}
InHand == {checked} \ {NoConn}
Getting == {t \in Client : client[t] = "get"}

\* A context that has been connected and not freed is in exactly one place, and
\* no place holds one that has been freed: nothing is lent twice, freed twice,
\* used after it was freed, or lost, on any path of any thread
\* (RedisMgr.cpp:586-667).
OneOwner ==
  /\ live = Idle \cup Borrowed \cup InHand
  /\ Distinct(idle)
  /\ \A t, u \in Client : held[t] = held[u] => t = u \/ held[t] = NoConn
  /\ Idle \cap Borrowed = {} /\ checked \notin Idle \cup Borrowed

\* connection_count_ is "the idle and the lent connections" (RedisMgr.h:78),
\* except between a critical section of the check thread and the next, and it
\* keeps their number within poolSize_, even while the pool is being closed.
CapacityIsKept ==
  /\ Cardinality(live) <= PoolSize
  /\ ~ stop => count + (IF checker = "push" THEN 1 ELSE 0)
              = Cardinality(live) + (IF checker = "discount" THEN 1 ELSE 0)

\* No lost wakeup: while a client waits, every idle connection has a client
\* about to look for it, or a notification on its way, although clients and
\* the check thread take connections past the queue of waiters; and nobody is
\* left waiting on a pool that was closed.
NoConnectionSleeps ==
  Waiters # {} =>
    IF stop THEN closer = "notify"
            ELSE Len(idle) <= Cardinality(Getting) + (IF checker = "notify" THEN 1 ELSE 0)

\* When Close returns the check thread is gone, and every connection has been
\* freed but those still in use, which their borrowers free.
ClosedLeavesNothing ==
  closer = "closed" => checker = "exited" /\ live = Borrowed

-----------------------------------------------------------------------------
\* Every thread goes on, commands and attempts to connect return, and a client
\* that finds a connection idle again and again gets one.  Nobody has to start
\* a command, or to close the pool.
FairSpec ==
  /\ Spec
  /\ \A t \in Client : WF_vars(ClientNext(t)) /\ SF_vars(Borrow(t))
  /\ WF_vars(CheckerNext) /\ WF_vars(CloserNext)

\* Once the failures are over, getConnection returns.
BorrowersAreServed ==
  \A t \in Client : client[t] = "get" ~> client[t] \in {"using", "out"}

\* A connection that is missing is made up for.
CapacityIsRestored == count < PoolSize ~> count = PoolSize \/ stop

\* Close returns, whatever the check thread was doing (RedisMgr.cpp:655-667).
CloseEnds == stop ~> closer = "closed"
=============================================================================
