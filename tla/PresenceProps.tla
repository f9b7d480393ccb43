---------------------------- MODULE PresenceProps ----------------------------
(***************************************************************************)
(* What Presence must guarantee, under which faults.                       *)
(***************************************************************************)
EXTENDS Presence

\* A session UserMgr hands out is a live entry of its own instance's table and
\* is bound to the very user it was looked up by: LoginHandler registers under
\* the lifecycle mutex, so that no cleanup can slip between its checks and
\* SetUserSession.  It holds under every fault of the model.
MappedIsRegistered ==
  \A i \in Instance, u \in User :
    LET s == umap[i][u] IN
    s # NoSession => s \in table /\ uid[s] = u /\ Home[s] = i

\* Outside the user lock, Redis leads to every open session UserMgr hands out.
\* So at most one open session is logged in per user over all instances, a
\* message routed by uip_<uid> finds it, and its cleanup will find itself in
\* usession_<uid>.  It needs kicks that arrive in time and a lock that outlives
\* its holder's work.
OnlineIsRoutable ==
  \A i \in Instance, u \in User :
    LET s == umap[i][u] IN
    ulock[u] = NoSession /\ s # NoSession /\ s \notin closed =>
      uip[u] = i /\ usession[u] = s

\* DealExceptionSession "must not delete the state of a new connection"
\* (CSession.cpp:369): a key is deleted only when the session it stands for
\* has been closed.
DeletesOwnStateOnly ==
  [][\A u \in User :
       /\ usession[u] # NoSession /\ usession'[u] = NoSession =>
            usession[u] \in closed
       /\ uip[u] # NoInstance /\ uip'[u] = NoInstance =>
            umap[uip[u]][u] \in closed \cup {NoSession}]_vars

\* A cleanup that had the user lock, or needed none, leaves no trace of its
\* session: neither in the table, nor in UserMgr, nor in usession_<uid>; and no
\* login of the session is in a position to put one there afterwards.
CleanupIsFinal ==
  [][\A s \in Session :
       cleanup[s] \in {"called", "release"} /\ cleanup'[s] = "done" =>
         /\ s \notin table'
         /\ \A i \in Instance, u \in User : umap'[i][u] # s
         /\ \A u \in User : usession[u] # s
         /\ login[s] \notin {"auth", "acquire"} \cup LoginLocked]_vars

\* The protocol implements LoginRegistry, with usession_<uid> as the owner.
Registry == INSTANCE LoginRegistry WITH
  owner <- usession,
  spent <- {s \in Session : uid[s] # NoUser /\ login[s] \notin {"map", "setsession"}},
  ended <- closed \cup {s \in Session : conn[s] = "gone"}

ImplementsRegistry == Registry!Spec

\* "No lock is needed here: it is held already when this service is called, and
\* taking it again would deadlock" (ChatServiceImpl.cpp:190): handling a kick
\* never waits for the lock of the login that sent it.
KickTakesNoLock ==
  \A s, t \in Session :
    kick[s] = "awaitOld" /\ victim[s] = t /\ cleanup[t] = "acquire" =>
      ulock[uid[t]] # s

\* The worker thread always comes back from LoginHandler, whatever the kicks,
\* locks and cleanups it waits for.
LoginEnds == \A s \in Session : login[s] = "lifecycle" ~> login[s] = "idle"

\* A session that was closed for a failure is cleaned up, unless its process dies.
CleanupEnds ==
  \A s \in Session : cleanup[s] = "called" ~> cleanup[s] = "done" \/ conn[s] = "gone"

\* A lock is never held for good.
LockIsReturned == \A u \in User : ulock[u] # NoSession ~> ulock[u] = NoSession
=============================================================================
