------------------------------ MODULE Presence ------------------------------
(***************************************************************************)
(* Who is logged in, and where.  A ChatServer instance keeps a table of    *)
(* its TCP sessions (CServer::_sessions) and a map from user to session    *)
(* (UserMgr); all instances share two Redis keys per user, uip_<uid> (the  *)
(* instance) and usession_<uid> (the session), and a Redis lock with a     *)
(* time to live.  Three activities change this state and interleave:       *)
(*   - LoginHandler, on the single worker thread of an instance;           *)
(*   - CSession::DealExceptionSession, on whatever thread saw the failure; *)
(*   - ChatServiceImpl::NotifyKickUser, on a gRPC thread of the instance   *)
(*     the user was logged in at.                                          *)
(* One action is one critical section or one call to Redis or to a peer.   *)
(*                                                                         *)
(* A session is a TCP connection and is never reused, so login, cleanup    *)
(* and the kick a login issues are program counters per session.           *)
(***************************************************************************)
EXTENDS Integers

CONSTANTS
  Instance, Session, User,
  Home,                         \* the instance that accepts each session
  NoInstance, NoSession, NoUser,
  Crashes,                      \* instances may crash and restart
  LossyRpc,                     \* a kick may be lost or outlive its deadline
  LockExpires,                  \* the user lock may expire while its holder works
  RedisFails                    \* any single Redis command may fail

ASSUME PresenceAssumption ==
  /\ Home \in [Session -> Instance]
  /\ NoInstance \notin Instance
  /\ NoSession \notin Session
  /\ NoUser \notin User
  /\ {Crashes, LossyRpc, LockExpires, RedisFails} \subseteq BOOLEAN

VARIABLES
  conn,       \* the connection: "new" | "up" | "gone" (with its crashed process)
  table,      \* the sessions in their instance's CServer::_sessions
  closed,     \* CSession::_b_close
  uid,        \* CSession::_user_uid
  lifecycle,  \* holder of CSession::_lifecycle_mutex
  umap,       \* UserMgr::_uid_to_session of every instance
  worker,     \* the session whose login the worker of an instance executes
  login,      \* progress of LoginHandler for a session
  wanted,     \* the uid named by the login request
  old,        \* the session LoginHandler found to be kicked, or waits for
  cleanup,    \* progress of DealExceptionSession for a session
  kick,       \* progress of the NotifyKickUser call issued by a session's login
  kickUser,   \* the uid in that call
  kickAt,     \* the instance it is addressed to
  victim,     \* the session its handler found
  uip,        \* Redis uip_<uid>
  usession,   \* Redis usession_<uid>
  ulock       \* Redis lock:lock_<uid>: the session whose login or cleanup holds it

connVars  == <<conn, table, closed, uid, lifecycle>>
loginVars == <<worker, login, wanted, old>>
kickVars  == <<kick, kickUser, kickAt, victim>>
redisVars == <<uip, usession, ulock>>
vars == <<connVars, umap, loginVars, cleanup, kickVars, redisVars>>

LoginStep == {"idle", "queued", "lifecycle", "auth", "acquire", "recheck",
              "locate", "notify", "awaitOld", "clearOld", "rpc", "setip",
              "map", "setsession", "unlock", "respond", "awaitSelf"}
CleanupStep == {"idle", "called", "acquire", "check", "delsession", "delip",
                "clear", "release", "drop", "done"}
\* The steps taken with the user lock.
LoginLocked == {"recheck", "locate", "notify", "awaitOld", "clearOld", "rpc",
                "setip", "map", "setsession", "unlock"}
CleanupLocked == {"check", "delsession", "delip", "clear", "release"}
KickStep == {"none", "sent", "notify", "awaitOld", "clear"}

TypeOK ==
  /\ conn \in [Session -> {"new", "up", "gone"}]
  /\ table \subseteq Session
  /\ closed \subseteq Session
  /\ uid \in [Session -> User \cup {NoUser}]
  /\ lifecycle \in [Session -> {"free", "login", "cleanup"}]
  /\ umap \in [Instance -> [User -> Session \cup {NoSession}]]
  /\ worker \in [Instance -> Session \cup {NoSession}]
  /\ login \in [Session -> LoginStep]
  /\ wanted \in [Session -> User \cup {NoUser}]
  /\ old \in [Session -> Session \cup {NoSession}]
  /\ cleanup \in [Session -> CleanupStep]
  /\ kick \in [Session -> KickStep]
  /\ kickUser \in [Session -> User \cup {NoUser}]
  /\ kickAt \in [Session -> Instance \cup {NoInstance}]
  /\ victim \in [Session -> Session \cup {NoSession}]
  /\ uip \in [User -> Instance \cup {NoInstance}]
  /\ usession \in [User -> Session \cup {NoSession}]
  /\ ulock \in [User -> Session \cup {NoSession}]

Init ==
  /\ conn = [s \in Session |-> "new"]
  /\ table = {}
  /\ closed = {}
  /\ uid = [s \in Session |-> NoUser]
  /\ lifecycle = [s \in Session |-> "free"]
  /\ umap = [i \in Instance |-> [u \in User |-> NoSession]]
  /\ worker = [i \in Instance |-> NoSession]
  /\ login = [s \in Session |-> "idle"]
  /\ wanted = [s \in Session |-> NoUser]
  /\ old = [s \in Session |-> NoSession]
  /\ cleanup = [s \in Session |-> "idle"]
  /\ kick = [s \in Session |-> "none"]
  /\ kickUser = [s \in Session |-> NoUser]
  /\ kickAt = [s \in Session |-> NoInstance]
  /\ victim = [s \in Session |-> NoSession]
  /\ uip = [u \in User |-> NoInstance]
  /\ usession = [u \in User |-> NoSession]
  /\ ulock = [u \in User |-> NoSession]

-----------------------------------------------------------------------------
(* Building blocks.                                                        *)

\* RedisMgr::Set and Del report a failure that no caller here looks at: the
\* key keeps its value.
Written(f, u, v) ==
  {[f EXCEPT ![u] = v]} \cup (IF RedisFails THEN {f} ELSE {})

\* UserMgr::RmvUserSession: unmap u only if it is still mapped to s.
RmvUserSession(m, u, s) == IF m[u] = s THEN [m EXCEPT ![u] = NoSession] ELSE m

\* CServer::ClearSession: under the table's mutex, unmap the session's user and
\* drop the session; a session that is not in the table changes nothing.
ClearSession(s) ==
  /\ table' = table \ {s}
  /\ umap' = IF s \in table /\ uid[s] # NoUser
             THEN [umap EXCEPT ![Home[s]] = RmvUserSession(umap[Home[s]], uid[s], s)]
             ELSE umap

\* The call of DealExceptionSession that follows every Close: only the first
\* caller does the work, later ones return at _cleanup_started.
Called(c, s) == IF c[s] = "idle" THEN [c EXCEPT ![s] = "called"] ELSE c

\* The calling thread is back from DealExceptionSession.
CleanupReturned(s) == cleanup[s] = "done"

\* DistLock::acquireLock, SET NX EX retried for ACQUIRE_TIME_OUT.
TakeLock(s, u) == ulock[u] = NoSession /\ ulock' = [ulock EXCEPT ![u] = s]

\* It gives up only if the lock was taken all along, or if Redis failed; then
\* the SET may have been executed although its reply was lost.
FailLock(s, u) ==
  \/ ulock[u] # NoSession /\ UNCHANGED ulock
  \/ RedisFails /\ UNCHANGED ulock
  \/ RedisFails /\ TakeLock(s, u)

\* DistLock::releaseLock, a compare-and-delete.
ReleaseLock(s, u) ==
  ulock' \in IF ulock[u] = s THEN Written(ulock, u, NoSession) ELSE {ulock}

-----------------------------------------------------------------------------
(* The connection.                                                         *)

\* CServer::HandleAccept registers the session before it starts reading.
Accept(s) ==
  /\ conn[s] = "new"
  /\ conn' = [conn EXCEPT ![s] = "up"]
  /\ table' = table \cup {s}
  /\ UNCHANGED <<closed, uid, lifecycle, umap, loginVars, cleanup, kickVars, redisVars>>

\* A read or a write fails, a frame is invalid, a request throws, or the
\* heartbeat is found expired: Close, then DealExceptionSession.
IoError(s) ==
  /\ conn[s] = "up"
  /\ cleanup[s] = "idle"
  /\ closed' = closed \cup {s}
  /\ cleanup' = Called(cleanup, s)
  /\ UNCHANGED <<conn, table, uid, lifecycle, umap, loginVars, kickVars, redisVars>>

\* A frame of a session that was dropped from the table: the read loop closes
\* the connection, without a cleanup, and reads no further.
RejectUnregistered(s) ==
  /\ conn[s] = "up"
  /\ s \notin table \cup closed
  /\ closed' = closed \cup {s}
  /\ UNCHANGED <<conn, table, uid, lifecycle, umap, loginVars, cleanup, kickVars, redisVars>>

\* A login request is read and posted to the logic queue.
LoginRequest(s, u) ==
  /\ conn[s] = "up"
  /\ s \in table \ closed
  /\ login[s] = "idle"
  /\ login' = [login EXCEPT ![s] = "queued"]
  /\ wanted' = [wanted EXCEPT ![s] = u]
  /\ UNCHANGED <<connVars, umap, worker, old, cleanup, kickVars, redisVars>>

-----------------------------------------------------------------------------
(* LoginHandler.  Except for LoginDequeue, the session is the one its      *)
(* instance's worker is busy with.                                         *)

LoginAt(s, from, to) ==
  /\ login[s] = from
  /\ login' = [login EXCEPT ![s] = to]

\* Mutant of Admissible: a connection may log in twice.
AdmissibleAgain(s) == s \in table \ closed

\* DealMsg: the request is dropped if the connection is closed or no longer in
\* the table, and ValidateChatRequest refuses it if a user is already bound.
Admissible(s) == s \in table \ closed /\ uid[s] = NoUser

LoginDequeue(s) ==
  /\ worker[Home[s]] = NoSession
  /\ \/ /\ Admissible(s)
        /\ LoginAt(s, "queued", "lifecycle")
        /\ worker' = [worker EXCEPT ![Home[s]] = s]
        /\ UNCHANGED wanted
     \/ /\ ~ Admissible(s)
        /\ LoginAt(s, "queued", "idle")
        /\ wanted' = [wanted EXCEPT ![s] = NoUser]
        /\ UNCHANGED worker
  /\ UNCHANGED <<connVars, umap, old, cleanup, kickVars, redisVars>>

\* Mutant of LoginLifecycle: the connection is looked at without the mutex.
LoginLifecycleUnlocked(s) ==
  /\ LoginAt(s, "lifecycle", IF s \in closed THEN "respond" ELSE "auth")
  /\ UNCHANGED <<connVars, umap, worker, wanted, old, cleanup, kickVars, redisVars>>

\* Take the lifecycle mutex, then look whether the connection closed meanwhile.
LoginLifecycle(s) ==
  /\ lifecycle[s] = "free"
  /\ \/ /\ s \notin closed
        /\ LoginAt(s, "lifecycle", "auth")
        /\ lifecycle' = [lifecycle EXCEPT ![s] = "login"]
     \/ /\ s \in closed
        /\ LoginAt(s, "lifecycle", "respond")
        /\ UNCHANGED lifecycle
  /\ UNCHANGED <<conn, table, closed, uid, umap, worker, wanted, old,
                 cleanup, kickVars, redisVars>>

\* Token and profile; a refusal leaves through the lifecycle unlock.
LoginAuth(s) ==
  /\ \/ LoginAt(s, "auth", "acquire") /\ UNCHANGED lifecycle
     \/ /\ LoginAt(s, "auth", "respond")
        /\ lifecycle' = [lifecycle EXCEPT ![s] = "free"]
  /\ UNCHANGED <<conn, table, closed, uid, umap, worker, wanted, old,
                 cleanup, kickVars, redisVars>>

LoginAcquire(s) ==
  /\ \/ /\ LoginAt(s, "acquire", "recheck")
        /\ TakeLock(s, wanted[s])
        /\ UNCHANGED lifecycle
     \/ /\ LoginAt(s, "acquire", "respond")
        /\ FailLock(s, wanted[s])
        /\ lifecycle' = [lifecycle EXCEPT ![s] = "free"]
  /\ UNCHANGED <<conn, table, closed, uid, umap, worker, wanted, old,
                 cleanup, kickVars, uip, usession>>

LoginRecheck(s) ==
  /\ IF s \in table \ closed THEN LoginAt(s, "recheck", "locate")
                             ELSE LoginAt(s, "recheck", "unlock")
  /\ UNCHANGED <<connVars, umap, worker, wanted, old, cleanup, kickVars, redisVars>>

\* GET uip_<uid>: here, elsewhere, or nowhere (also when the GET fails).  Here,
\* the worker also looks up the session to be kicked.
LoginLocate(s) ==
  LET i == Home[s]
      u == wanted[s]
  IN
  /\ \/ /\ LoginAt(s, "locate", "setip")
        /\ \/ uip[u] = NoInstance \/ RedisFails
           \/ uip[u] = i /\ umap[i][u] = NoSession
        /\ UNCHANGED <<old, kickVars>>
     \/ /\ LoginAt(s, "locate", "notify")
        /\ uip[u] = i /\ umap[i][u] # NoSession
        /\ old' = [old EXCEPT ![s] = umap[i][u]]
        /\ UNCHANGED kickVars
     \/ /\ LoginAt(s, "locate", "rpc")
        /\ uip[u] \notin {i, NoInstance}
        /\ kick' = [kick EXCEPT ![s] = "sent"]
        /\ kickUser' = [kickUser EXCEPT ![s] = u]
        /\ kickAt' = [kickAt EXCEPT ![s] = uip[u]]
        /\ UNCHANGED <<old, victim>>
  /\ UNCHANGED <<connVars, umap, worker, wanted, cleanup, redisVars>>

\* old_session->NotifyOffline: a closed session ignores it, a session whose
\* send queue is full is closed and cleaned up on this thread.
LoginNotifyOld(s) ==
  LET t == old[s] IN
  /\ \/ LoginAt(s, "notify", "clearOld") /\ UNCHANGED <<closed, cleanup>>
     \/ /\ t \notin closed
        /\ LoginAt(s, "notify", "awaitOld")
        /\ closed' = closed \cup {t}
        /\ cleanup' = Called(cleanup, t)
  /\ UNCHANGED <<conn, table, uid, lifecycle, umap, worker, wanted, old,
                 kickVars, redisVars>>

LoginAwaitOld(s) ==
  /\ LoginAt(s, "awaitOld", "clearOld")
  /\ CleanupReturned(old[s])
  /\ UNCHANGED <<connVars, umap, worker, wanted, old, cleanup, kickVars, redisVars>>

LoginClearOld(s) ==
  /\ LoginAt(s, "clearOld", "setip")
  /\ ClearSession(old[s])
  /\ old' = [old EXCEPT ![s] = NoSession]
  /\ UNCHANGED <<conn, closed, uid, lifecycle, worker, wanted, cleanup,
                 kickVars, redisVars>>

\* NotifyKickUser has returned, or its deadline has passed; the result is not
\* looked at.  A handler stuck behind a full send queue needs as long as the
\* deadline (ACQUIRE_TIME_OUT is 5 s, the deadline too).
LoginRpcDone(s) ==
  /\ LoginAt(s, "rpc", "setip")
  /\ kick[s] = "none" \/ LossyRpc \/ kick[s] = "awaitOld"
  /\ UNCHANGED <<connVars, umap, worker, wanted, old, cleanup, kickVars, redisVars>>

\* SetUserId, then SET uip_<uid>.
LoginSetIp(s) ==
  /\ LoginAt(s, "setip", "map")
  /\ uid' = [uid EXCEPT ![s] = wanted[s]]
  /\ uip' \in Written(uip, wanted[s], Home[s])
  /\ UNCHANGED <<conn, table, closed, lifecycle, umap, worker, wanted, old,
                 cleanup, kickVars, usession, ulock>>

\* UserMgr::SetUserSession.
LoginMap(s) ==
  /\ LoginAt(s, "map", "setsession")
  /\ umap' = [umap EXCEPT ![Home[s]] = [umap[Home[s]] EXCEPT ![wanted[s]] = s]]
  /\ UNCHANGED <<connVars, worker, wanted, old, cleanup, kickVars, redisVars>>

\* Mutant of LoginSetSession: the two keys are mixed up.
LoginSetSessionServer(s) ==
  /\ LoginAt(s, "setsession", "unlock")
  /\ usession' = [usession EXCEPT ![wanted[s]] = Home[s]]
  /\ UNCHANGED <<connVars, umap, worker, wanted, old, cleanup, kickVars, uip, ulock>>

LoginSetSession(s) ==
  /\ LoginAt(s, "setsession", "unlock")
  /\ usession' \in Written(usession, wanted[s], s)
  /\ UNCHANGED <<connVars, umap, worker, wanted, old, cleanup, kickVars, uip, ulock>>

\* Mutant of LoginUnlock: the Defers are declared in the other order, so that
\* the response is sent before the lifecycle mutex is released.
LoginUnlockLate(s) ==
  /\ LoginAt(s, "unlock", "respond")
  /\ ReleaseLock(s, wanted[s])
  /\ UNCHANGED <<connVars, umap, worker, wanted, old, cleanup, kickVars, uip, usession>>

\* The Defers run inside out: the user lock, the lifecycle mutex, the response.
LoginUnlock(s) ==
  /\ LoginAt(s, "unlock", "respond")
  /\ ReleaseLock(s, wanted[s])
  /\ lifecycle' = [lifecycle EXCEPT ![s] = "free"]
  /\ UNCHANGED <<conn, table, closed, uid, umap, worker, wanted, old,
                 cleanup, kickVars, uip, usession>>

\* The worker is done with s.
LoginEnd(s) ==
  /\ worker' = [worker EXCEPT ![Home[s]] = NoSession]
  /\ wanted' = [wanted EXCEPT ![s] = NoUser]

\* The response is sent, or finds the send queue full: then the worker closes
\* and cleans up its own session, no longer holding the lifecycle mutex.
LoginRespond(s) ==
  /\ \/ /\ LoginAt(s, "respond", "idle")
        /\ LoginEnd(s)
        /\ UNCHANGED <<closed, cleanup>>
     \/ /\ s \notin closed
        /\ LoginAt(s, "respond", "awaitSelf")
        /\ closed' = closed \cup {s}
        /\ cleanup' = Called(cleanup, s)
        /\ UNCHANGED <<worker, wanted>>
  /\ UNCHANGED <<conn, table, uid, lifecycle, umap, old, kickVars, redisVars>>

LoginAwaitSelf(s) ==
  /\ LoginAt(s, "awaitSelf", "idle")
  /\ CleanupReturned(s)
  /\ LoginEnd(s)
  /\ UNCHANGED <<connVars, umap, old, cleanup, kickVars, redisVars>>

-----------------------------------------------------------------------------
(* DealExceptionSession.                                                   *)

CleanupAt(s, from, to) ==
  /\ cleanup[s] = from
  /\ cleanup' = [cleanup EXCEPT ![s] = to]

\* Mutant of CleanupEnter: the mutex is not taken.
CleanupEnterUnlocked(s) ==
  /\ uid[s] # NoUser
  /\ CleanupAt(s, "called", "acquire")
  /\ UNCHANGED <<connVars, umap, loginVars, kickVars, redisVars>>

\* Take the lifecycle mutex and set _cleanup_started.  A session without a user
\* only leaves the table.
CleanupEnter(s) ==
  /\ lifecycle[s] = "free"
  /\ \/ /\ uid[s] = NoUser
        /\ CleanupAt(s, "called", "done")
        /\ ClearSession(s)
        /\ UNCHANGED lifecycle
     \/ /\ uid[s] # NoUser
        /\ CleanupAt(s, "called", "acquire")
        /\ lifecycle' = [lifecycle EXCEPT ![s] = "cleanup"]
        /\ UNCHANGED <<table, umap>>
  /\ UNCHANGED <<conn, closed, uid, loginVars, kickVars, redisVars>>

\* Without the lock the shared keys are left alone.
CleanupAcquire(s) ==
  /\ \/ CleanupAt(s, "acquire", "check") /\ TakeLock(s, uid[s])
     \/ CleanupAt(s, "acquire", "drop") /\ FailLock(s, uid[s])
  /\ UNCHANGED <<connVars, umap, loginVars, kickVars, uip, usession>>

\* Mutant of CleanupCheck: every cleanup deletes.
CleanupCheckNothing(s) ==
  /\ CleanupAt(s, "check", "delsession")
  /\ UNCHANGED <<connVars, umap, loginVars, kickVars, redisVars>>

\* GET usession_<uid>: only the registered session may delete.
CleanupCheck(s) ==
  /\ \/ CleanupAt(s, "check", "delsession") /\ usession[uid[s]] = s
     \/ CleanupAt(s, "check", "clear") /\ (usession[uid[s]] # s \/ RedisFails)
  /\ UNCHANGED <<connVars, umap, loginVars, kickVars, redisVars>>

CleanupDelSession(s) ==
  /\ CleanupAt(s, "delsession", "delip")
  /\ usession' \in Written(usession, uid[s], NoSession)
  /\ UNCHANGED <<connVars, umap, loginVars, kickVars, uip, ulock>>

CleanupDelIp(s) ==
  /\ CleanupAt(s, "delip", "clear")
  /\ uip' \in Written(uip, uid[s], NoInstance)
  /\ UNCHANGED <<connVars, umap, loginVars, kickVars, usession, ulock>>

CleanupClear(s) ==
  /\ CleanupAt(s, "clear", "release")
  /\ ClearSession(s)
  /\ UNCHANGED <<conn, closed, uid, lifecycle, loginVars, kickVars, redisVars>>

CleanupRelease(s) ==
  /\ CleanupAt(s, "release", "done")
  /\ ReleaseLock(s, uid[s])
  /\ lifecycle' = [lifecycle EXCEPT ![s] = "free"]
  /\ UNCHANGED <<conn, table, closed, uid, umap, loginVars, kickVars, uip, usession>>

\* Without an identifier releaseLock releases nothing, not even a lock that a
\* SET with a lost reply has taken.
CleanupDrop(s) ==
  /\ CleanupAt(s, "drop", "done")
  /\ ClearSession(s)
  /\ lifecycle' = [lifecycle EXCEPT ![s] = "free"]
  /\ UNCHANGED <<conn, closed, uid, loginVars, kickVars, redisVars>>

-----------------------------------------------------------------------------
(* NotifyKickUser at kickAt[s], called by the login of s.                  *)

KickTo(s, from, to) ==
  /\ kick[s] = from
  /\ kick' = [kick EXCEPT ![s] = to]

\* The call has ended: its record is forgotten.
KickEnd(s, from) ==
  /\ KickTo(s, from, "none")
  /\ kickUser' = [kickUser EXCEPT ![s] = NoUser]
  /\ kickAt' = [kickAt EXCEPT ![s] = NoInstance]
  /\ victim' = [victim EXCEPT ![s] = NoSession]

KickFind(s) ==
  LET t == umap[kickAt[s]][kickUser[s]] IN
  /\ \/ KickEnd(s, "sent") /\ t = NoSession
     \/ /\ KickTo(s, "sent", "notify")
        /\ t # NoSession
        /\ victim' = [victim EXCEPT ![s] = t]
        /\ UNCHANGED <<kickUser, kickAt>>
  /\ UNCHANGED <<connVars, umap, loginVars, cleanup, redisVars>>

KickNotify(s) ==
  LET t == victim[s] IN
  /\ \/ KickTo(s, "notify", "clear") /\ UNCHANGED <<closed, cleanup>>
     \/ /\ t \notin closed
        /\ KickTo(s, "notify", "awaitOld")
        /\ closed' = closed \cup {t}
        /\ cleanup' = Called(cleanup, t)
  /\ UNCHANGED <<conn, table, uid, lifecycle, umap, loginVars, kickUser, kickAt,
                 victim, redisVars>>

KickAwait(s) ==
  /\ KickTo(s, "awaitOld", "clear")
  /\ CleanupReturned(victim[s])
  /\ UNCHANGED <<connVars, umap, loginVars, cleanup, kickUser, kickAt, victim, redisVars>>

\* Mutant of KickClear: the old client is told, but its session stays.
KickClearNothing(s) ==
  /\ KickEnd(s, "clear")
  /\ UNCHANGED <<connVars, umap, loginVars, cleanup, redisVars>>

KickClear(s) ==
  /\ KickEnd(s, "clear")
  /\ ClearSession(victim[s])
  /\ UNCHANGED <<conn, closed, uid, lifecycle, loginVars, cleanup, redisVars>>

\* The call never reaches the peer.
KickLost(s) ==
  /\ LossyRpc
  /\ KickEnd(s, "sent")
  /\ UNCHANGED <<connVars, umap, loginVars, cleanup, redisVars>>

-----------------------------------------------------------------------------
(* The environment.                                                        *)

\* Mutant of Stranded: the lock has no time to live.
StrandedForever(u) == FALSE

\* The lock of u is held by nobody who will release it: its holder crashed, or
\* the reply to the command that took or released it was lost.  A kick of that
\* login is over by the time the lock expires, unless kicks may be late.
Stranded(u) ==
  \E s \in Session :
    /\ ulock[u] = s
    /\ login[s] \notin LoginLocked
    /\ cleanup[s] \notin CleanupLocked
    /\ kick[s] = "none" \/ LossyRpc

\* LOCK_TIME_OUT passes.
Expire(u) ==
  /\ ulock[u] # NoSession
  /\ LockExpires \/ Stranded(u)
  /\ ulock' = [ulock EXCEPT ![u] = NoSession]
  /\ UNCHANGED <<connVars, umap, loginVars, cleanup, kickVars, uip, usession>>

\* An instance dies, with its sessions, its threads and the calls it serves; the
\* calls it made may still be executed by the peer, and the keys in Redis stay.
\* Sessions of the restarted instance are those still "new".
Crash(i) ==
  LET Dead(s) == Home[s] = i /\ conn[s] = "up" IN
  /\ Crashes
  /\ \E s \in Session : Dead(s)
  /\ conn' = [s \in Session |-> IF Dead(s) THEN "gone" ELSE conn[s]]
  /\ table' = {s \in table : ~ Dead(s)}
  /\ lifecycle' = [s \in Session |-> IF Dead(s) THEN "free" ELSE lifecycle[s]]
  /\ umap' = [umap EXCEPT ![i] = [u \in User |-> NoSession]]
  /\ worker' = [worker EXCEPT ![i] = NoSession]
  /\ login' = [s \in Session |-> IF Dead(s) THEN "idle" ELSE login[s]]
  /\ wanted' = [s \in Session |-> IF Dead(s) THEN NoUser ELSE wanted[s]]
  /\ old' = [s \in Session |-> IF Dead(s) THEN NoSession ELSE old[s]]
  /\ cleanup' = [s \in Session |-> IF Dead(s) THEN "idle" ELSE cleanup[s]]
  /\ kick' = [s \in Session |-> IF kickAt[s] = i THEN "none" ELSE kick[s]]
  /\ kickUser' = [s \in Session |-> IF kickAt[s] = i THEN NoUser ELSE kickUser[s]]
  /\ kickAt' = [s \in Session |-> IF kickAt[s] = i THEN NoInstance ELSE kickAt[s]]
  /\ victim' = [s \in Session |-> IF kickAt[s] = i THEN NoSession ELSE victim[s]]
  /\ UNCHANGED <<closed, uid, redisVars>>

-----------------------------------------------------------------------------
LoginNext(s) ==
  \/ LoginLifecycle(s) \/ LoginAuth(s) \/ LoginAcquire(s) \/ LoginRecheck(s)
  \/ LoginLocate(s) \/ LoginNotifyOld(s) \/ LoginAwaitOld(s) \/ LoginClearOld(s)
  \/ LoginRpcDone(s) \/ LoginSetIp(s) \/ LoginMap(s) \/ LoginSetSession(s)
  \/ LoginUnlock(s) \/ LoginRespond(s) \/ LoginAwaitSelf(s)

CleanupNext(s) ==
  \/ CleanupEnter(s) \/ CleanupAcquire(s) \/ CleanupCheck(s)
  \/ CleanupDelSession(s) \/ CleanupDelIp(s) \/ CleanupClear(s) \/ CleanupRelease(s)
  \/ CleanupDrop(s)

KickNext(s) ==
  KickFind(s) \/ KickNotify(s) \/ KickAwait(s) \/ KickClear(s) \/ KickLost(s)

ClientNext(s) ==
  \/ Accept(s) \/ IoError(s) \/ RejectUnregistered(s)
  \/ \E u \in User : LoginRequest(s, u)

Next ==
  \/ \E s \in Session :
       ClientNext(s) \/ LoginDequeue(s) \/ LoginNext(s) \/ CleanupNext(s) \/ KickNext(s)
  \/ \E u \in User : Expire(u)
  \/ \E i \in Instance : Crash(i)

Spec == Init /\ [][Next]_vars

\* Every thread the code starts keeps running, and Redis does expire keys.
Fairness ==
  /\ \A s \in Session : /\ WF_vars(LoginDequeue(s))
                        /\ WF_vars(LoginNext(s))
                        /\ WF_vars(CleanupNext(s))
                        /\ WF_vars(KickNext(s))
  /\ \A u \in User : WF_vars(Stranded(u) /\ Expire(u))

FairSpec == Spec /\ Fairness
=============================================================================
