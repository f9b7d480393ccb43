--------------------------- MODULE PresenceProofs ---------------------------
(***************************************************************************)
(* For any number of instances, sessions and users.  Under every fault of  *)
(* the model: the state has its type, UserMgr hands out only sessions that *)
(* are registered, and what a login, a cleanup or a kick holds fits what   *)
(* its session has become (SessionInv).  The promises about Redis hold     *)
(* under hypotheses that name the faults they exclude: a lock that expires *)
(* under its holder (LockExpires), a command of Redis that fails           *)
(* (RedisFails), a kick that is lost between two instances (LossyRpc).     *)
(***************************************************************************)
EXTENDS PresenceProps, TLAPS

-----------------------------------------------------------------------------
(* The inductive invariant.                                                *)

\* The steps taken with the lifecycle mutex.
LoginHolds == {"auth", "acquire"} \cup LoginLocked
CleanupHolds == {"acquire", "drop"} \cup CleanupLocked

\* The mutex is held exactly by the activity that is between lock and unlock,
\* so login and cleanup of a session exclude each other.
LifecycleHeld ==
  \A s \in Session :
    /\ login[s] \in LoginHolds => lifecycle[s] = "login"
    /\ cleanup[s] \in CleanupHolds => lifecycle[s] = "cleanup"

\* Until it is mapped, a session that passed the recheck stays in the table.
Registering == {"locate", "notify", "awaitOld", "clearOld", "rpc", "setip", "map"}

RegisteringInTable == \A s \in Session : login[s] \in Registering => s \in table

\* A login starts on a session without a user and binds it to the wanted one.
BeforeBinding == {"lifecycle", "auth", "acquire", "recheck", "locate", "notify",
                  "awaitOld", "clearOld", "rpc", "setip"}

BindsOnce ==
  \A s \in Session :
    /\ login[s] # "idle" => wanted[s] \in User
    /\ login[s] \in BeforeBinding => uid[s] = NoUser
    /\ login[s] = "map" => uid[s] = wanted[s]

\* A session another thread can have got from UserMgr: it has a user and has
\* been mapped already.
Mapped(s) == uid[s] # NoUser /\ login[s] # "map"

KicksMapped ==
  \A s \in Session :
    /\ old[s] # NoSession => Mapped(old[s])
    /\ victim[s] # NoSession => Mapped(victim[s])
    /\ login[s] \in {"notify", "awaitOld", "clearOld"} => old[s] # NoSession
    /\ kick[s] \in {"notify", "awaitOld", "clear"} => victim[s] # NoSession
    /\ kick[s] # "none" => kickUser[s] \in User /\ kickAt[s] \in Instance

UmapMapped ==
  \A i \in Instance, u \in User :
    umap[i][u] # NoSession => Mapped(umap[i][u])

IInvBind == BindsOnce /\ KicksMapped

IInv ==
  /\ TypeOK
  /\ LifecycleHeld
  /\ RegisteringInTable
  /\ BindsOnce
  /\ KicksMapped
  /\ UmapMapped
  /\ MappedIsRegistered

-----------------------------------------------------------------------------
(* Type correctness.                                                       *)

USE PresenceAssumption DEF loginVars, connVars, kickVars, redisVars

\* ClearSession keeps the types of the table and of UserMgr.
LEMMA ClearSessionType ==
  ASSUME TypeOK, NEW s \in Session, ClearSession(s)
  PROVE  /\ table' \subseteq Session
         /\ umap' \in [Instance -> [User -> Session \cup {NoSession}]]
BY DEF TypeOK, ClearSession, RmvUserSession

\* Connections, their failures and the queueing of logins keep the types.
LEMMA ClientType ==
  ASSUME TypeOK, NEW s \in Session, ClientNext(s)
  PROVE  TypeOK'
<1>1. CASE Accept(s)
  BY <1>1 DEF TypeOK, Accept
<1>2. CASE IoError(s)
  BY <1>2 DEF TypeOK, IoError, Called, CleanupStep
<1>3. CASE RejectUnregistered(s)
  BY <1>3 DEF TypeOK, RejectUnregistered
<1>4. ASSUME NEW u \in User, LoginRequest(s, u)
      PROVE  TypeOK'
  BY <1>4 DEF TypeOK, LoginRequest, LoginStep
<1> QED
  BY <1>1, <1>2, <1>3, <1>4 DEF ClientNext

\* Every step of LoginHandler keeps the types.
LEMMA LoginType ==
  ASSUME TypeOK, IInvBind, NEW s \in Session, LoginDequeue(s) \/ LoginNext(s)
  PROVE  TypeOK'
<1>0. login' \in [Session -> LoginStep]
  <2>1. \E from, to \in LoginStep : LoginAt(s, from, to)
    <3>1. CASE LoginDequeue(s) \/ LoginLifecycle(s) \/ LoginAuth(s) \/ LoginAcquire(s)
      BY <3>1 DEF LoginDequeue, LoginLifecycle, LoginAuth, LoginAcquire, LoginStep
    <3>2. CASE LoginRecheck(s) \/ LoginLocate(s) \/ LoginNotifyOld(s) \/ LoginAwaitOld(s)
      BY <3>2 DEF LoginRecheck, LoginLocate, LoginNotifyOld, LoginAwaitOld, LoginStep
    <3>3. CASE LoginClearOld(s) \/ LoginRpcDone(s) \/ LoginSetIp(s) \/ LoginMap(s)
      BY <3>3 DEF LoginClearOld, LoginRpcDone, LoginSetIp, LoginMap, LoginStep
    <3>4. CASE LoginSetSession(s) \/ LoginUnlock(s) \/ LoginRespond(s) \/ LoginAwaitSelf(s)
      BY <3>4 DEF LoginSetSession, LoginUnlock, LoginRespond, LoginAwaitSelf, LoginStep
    <3> QED
      BY <3>1, <3>2, <3>3, <3>4 DEF LoginNext
  <2> QED
    BY <2>1 DEF TypeOK, LoginAt
<1>1. CASE LoginDequeue(s)
  BY <1>0, <1>1 DEF TypeOK, LoginDequeue
<1>2. CASE LoginLifecycle(s)
  BY <1>0, <1>2 DEF TypeOK, LoginLifecycle
<1>3. CASE LoginAuth(s)
  BY <1>0, <1>3 DEF TypeOK, LoginAuth
<1>4. CASE LoginAcquire(s)
  <2>1. ulock' \in [User -> Session \cup {NoSession}]
    <3>1. ulock' = ulock \/ ulock' = [ulock EXCEPT ![wanted[s]] = s]
      BY <1>4 DEF LoginAcquire, TakeLock, FailLock
    <3> QED
      BY <3>1 DEF TypeOK
  <2>2. lifecycle' \in [Session -> {"free", "login", "cleanup"}]
    BY <1>4 DEF TypeOK, LoginAcquire
  <2> QED
    BY <1>0, <1>4, <2>1, <2>2 DEF TypeOK, LoginAcquire
<1>5. CASE LoginRecheck(s)
  BY <1>0, <1>5 DEF TypeOK, LoginRecheck
<1>6. CASE LoginLocate(s)
  <2>1. wanted[s] \in User
    BY <1>6 DEF LoginLocate, LoginAt, IInvBind, BindsOnce
  <2>2. umap[Home[s]][wanted[s]] \in Session \cup {NoSession} /\ uip[wanted[s]] \in Instance \cup {NoInstance}
    BY <2>1 DEF TypeOK
  <2>3. old' \in [Session -> Session \cup {NoSession}]
    BY <1>6, <2>2 DEF TypeOK, LoginLocate
  <2>4. /\ kick' \in [Session -> KickStep]
        /\ kickUser' \in [Session -> User \cup {NoUser}]
        /\ kickAt' \in [Session -> Instance \cup {NoInstance}]
        /\ victim' = victim
    BY <1>6, <2>1, <2>2 DEF TypeOK, LoginLocate, KickStep
  <2> QED
    BY <1>0, <1>6, <2>3, <2>4 DEF TypeOK, LoginLocate
<1>7. CASE LoginNotifyOld(s)
  <2>1. old[s] \in Session
    BY <1>7 DEF TypeOK, LoginNotifyOld, LoginAt, IInvBind, KicksMapped
  <2> QED
    BY <1>0, <1>7, <2>1 DEF TypeOK, LoginNotifyOld, Called, CleanupStep
<1>8. CASE LoginAwaitOld(s)
  BY <1>0, <1>8 DEF TypeOK, LoginAwaitOld
<1>9. CASE LoginClearOld(s)
  <2>1. old[s] \in Session
    BY <1>9 DEF TypeOK, LoginClearOld, LoginAt, IInvBind, KicksMapped
  <2> QED
    BY <1>0, <1>9, <2>1, ClearSessionType DEF TypeOK, LoginClearOld
<1>10. CASE LoginRpcDone(s)
  BY <1>0, <1>10 DEF TypeOK, LoginRpcDone
<1>11. CASE LoginSetIp(s)
  <2>1. uip' \in [User -> Instance \cup {NoInstance}]
    BY <1>0, <1>11 DEF Written, TypeOK, LoginSetIp, IInvBind, BindsOnce
  <2> QED
    BY <1>0, <1>11, <2>1 DEF TypeOK, LoginSetIp
<1>12. CASE LoginMap(s)
  BY <1>0, <1>12 DEF TypeOK, LoginMap
<1>13. CASE LoginSetSession(s)
  <2>1. usession' \in [User -> Session \cup {NoSession}]
    BY <1>0, <1>13 DEF Written, TypeOK, LoginSetSession, IInvBind, BindsOnce
  <2> QED
    BY <1>0, <1>13, <2>1 DEF TypeOK, LoginSetSession
<1>14. CASE LoginUnlock(s)
  <2>1. ulock' \in [User -> Session \cup {NoSession}]
    BY <1>0, <1>14 DEF Written, TypeOK, LoginUnlock, ReleaseLock, IInvBind, BindsOnce
  <2> QED
    BY <1>0, <1>14, <2>1 DEF TypeOK, LoginUnlock
<1>15. CASE LoginRespond(s)
  BY <1>0, <1>15 DEF TypeOK, LoginRespond, LoginEnd, Called, CleanupStep
<1>16. CASE LoginAwaitSelf(s)
  BY <1>0, <1>16 DEF TypeOK, LoginAwaitSelf, LoginEnd
<1> QED
  BY <1>1, <1>2, <1>3, <1>4, <1>5, <1>6, <1>7, <1>8, <1>9, <1>10, <1>11, <1>12,
     <1>13, <1>14, <1>15, <1>16 DEF LoginNext

\* Every step of DealExceptionSession keeps the types.
LEMMA CleanupType ==
  ASSUME TypeOK, NEW s \in Session, CleanupNext(s)
  PROVE  TypeOK'
<1>1. CASE CleanupEnter(s)
  BY <1>1, ClearSessionType DEF TypeOK, CleanupAt, CleanupStep, CleanupEnter
<1>2. CASE CleanupAcquire(s)
  <2>1. ulock' \in [User -> Session \cup {NoSession}]
    BY <1>2 DEF TypeOK, CleanupAt, CleanupStep, CleanupAcquire, TakeLock, FailLock
  <2> QED
    BY <1>2, <2>1 DEF TypeOK, CleanupAt, CleanupStep, CleanupAcquire
<1>3. CASE CleanupCheck(s)
  BY <1>3 DEF TypeOK, CleanupAt, CleanupStep, CleanupCheck
<1>4. CASE CleanupDelSession(s)
  <2>1. usession' \in [User -> Session \cup {NoSession}]
    BY <1>4 DEF TypeOK, CleanupAt, CleanupStep, CleanupDelSession, Written
  <2> QED
    BY <1>4, <2>1 DEF TypeOK, CleanupAt, CleanupStep, CleanupDelSession
<1>5. CASE CleanupDelIp(s)
  <2>1. uip' \in [User -> Instance \cup {NoInstance}]
    BY <1>5 DEF TypeOK, CleanupAt, CleanupStep, CleanupDelIp, Written
  <2> QED
    BY <1>5, <2>1 DEF TypeOK, CleanupAt, CleanupStep, CleanupDelIp
<1>6. CASE CleanupClear(s)
  BY <1>6, ClearSessionType DEF TypeOK, CleanupAt, CleanupStep, CleanupClear
<1>7. CASE CleanupRelease(s)
  <2>1. ulock' \in [User -> Session \cup {NoSession}]
    BY <1>7 DEF TypeOK, CleanupAt, CleanupStep, CleanupRelease, ReleaseLock, Written
  <2> QED
    BY <1>7, <2>1 DEF TypeOK, CleanupAt, CleanupStep, CleanupRelease
<1>8. CASE CleanupDrop(s)
  BY <1>8, ClearSessionType DEF TypeOK, CleanupAt, CleanupStep, CleanupDrop
<1> QED
  BY <1>1, <1>2, <1>3, <1>4, <1>5, <1>6, <1>7, <1>8 DEF CleanupNext

\* Every step of a kick, lost and late ones included, keeps the types.
LEMMA KickType ==
  ASSUME TypeOK, IInvBind, NEW s \in Session, KickNext(s)
  PROVE  TypeOK'
<1>1. CASE KickFind(s)
  <2>1. umap[kickAt[s]][kickUser[s]] \in Session \cup {NoSession}
    BY <1>1 DEF TypeOK, KickFind, KickEnd, KickTo, IInvBind, KicksMapped
  <2>2. CASE KickEnd(s, "sent")
    BY <1>1, <2>2 DEF TypeOK, KickFind, KickEnd, KickTo, KickStep
  <2>3. CASE ~ KickEnd(s, "sent")
    <3>1. kick' = [kick EXCEPT ![s] = "notify"] /\ victim' = [victim EXCEPT ![s] = umap[kickAt[s]][kickUser[s]]]
      BY <1>1, <2>3 DEF KickFind, KickTo
    <3>2. kick' \in [Session -> KickStep] /\ victim' \in [Session -> Session \cup {NoSession}]
      BY <2>1, <3>1 DEF TypeOK, KickStep
    <3> QED
      BY <1>1, <2>3, <3>2 DEF TypeOK, KickFind
  <2> QED
    BY <2>2, <2>3
<1>2. CASE KickNotify(s)
  <2>1. victim[s] \in Session
    BY <1>2 DEF TypeOK, KickNotify, KickTo, IInvBind, KicksMapped
  <2>2. closed' \subseteq Session /\ cleanup' \in [Session -> CleanupStep]
    BY <1>2, <2>1 DEF TypeOK, KickNotify, Called, CleanupStep
  <2>3. kick' \in [Session -> KickStep]
    <3>1. kick' = [kick EXCEPT ![s] = "clear"] \/ kick' = [kick EXCEPT ![s] = "awaitOld"]
      BY <1>2 DEF KickNotify, KickTo
    <3> QED
      BY <3>1 DEF TypeOK, KickStep
  <2>4. UNCHANGED <<conn, table, uid, lifecycle, umap, loginVars, kickUser, kickAt, victim, redisVars>>
    BY <1>2 DEF KickNotify
  <2> QED
    BY <2>2, <2>3, <2>4 DEF TypeOK, loginVars, redisVars
<1>3. CASE KickAwait(s)
  BY <1>3 DEF TypeOK, KickAwait, KickTo, KickStep
<1>4. CASE KickClear(s)
  <2>1. victim[s] \in Session
    BY <1>4 DEF TypeOK, KickClear, KickEnd, KickTo, IInvBind, KicksMapped
  <2> QED
    BY <1>4, <2>1, ClearSessionType DEF TypeOK, KickClear, KickEnd, KickTo, KickStep
<1>5. CASE KickLost(s)
  BY <1>5 DEF TypeOK, KickLost, KickEnd, KickTo, KickStep
<1> QED
  BY <1>1, <1>2, <1>3, <1>4, <1>5 DEF KickNext

\* Expiry and crashes keep the types.
LEMMA EnvironmentType ==
  ASSUME TypeOK,
         (\E u \in User : Expire(u)) \/ (\E i \in Instance : Crash(i))
  PROVE  TypeOK'
<1>1. ASSUME NEW u \in User, Expire(u)
      PROVE  TypeOK'
  BY <1>1 DEF TypeOK, Expire
<1>2. ASSUME NEW i \in Instance, Crash(i)
      PROVE  TypeOK'
  BY <1>2 DEF TypeOK, Crash, LoginStep, CleanupStep, KickStep
<1> QED
  BY <1>1, <1>2

-----------------------------------------------------------------------------
(* The inductive step, for everything but the types.                       *)

Exclusion == LifecycleHeld /\ RegisteringInTable

Registration == UmapMapped /\ MappedIsRegistered

USE DEF LoginHolds, CleanupHolds, LoginLocked, CleanupLocked, Registering, BeforeBinding

\* ClearSession of a session no login is registering, and that is mapped only
\* as its own user and at home, leaves no dangling entry in UserMgr.
LEMMA ClearSessionInv ==
  ASSUME IInv, NEW s \in Session, ClearSession(s),
         login[s] \notin Registering,
         \A t \in Session : /\ login'[t] \in Registering => login[t] \in Registering
                            /\ login'[t] = "map" => login[t] = "map",
         UNCHANGED uid
  PROVE  RegisteringInTable' /\ Registration'
<1>1. RegisteringInTable'
  BY DEF IInv, RegisteringInTable, ClearSession
<1>2. \A i \in Instance, u \in User :
        umap'[i][u] # NoSession => umap'[i][u] = umap[i][u] /\ (umap[i][u] = s => s \notin table)
  BY DEF IInv, TypeOK, MappedIsRegistered, ClearSession, RmvUserSession
<1> QED
  BY <1>1, <1>2 DEF IInv, TypeOK, Registration, UmapMapped, Mapped, MappedIsRegistered, ClearSession

\* A client's step registers nobody.
LEMMA ClientInv ==
  ASSUME IInv, NEW s \in Session, ClientNext(s)
  PROVE  Exclusion' /\ IInvBind' /\ Registration'
<1> USE DEF IInv, TypeOK, LifecycleHeld, RegisteringInTable, BindsOnce, KicksMapped, Mapped,
            UmapMapped, MappedIsRegistered, Exclusion, IInvBind, Registration
<1>1. CASE Accept(s)
  BY <1>1 DEF Accept
<1>2. CASE IoError(s)
  BY <1>2 DEF IoError, Called
<1>3. CASE RejectUnregistered(s)
  BY <1>3 DEF RejectUnregistered
<1>4. ASSUME NEW u \in User, LoginRequest(s, u)
      PROVE  Exclusion' /\ IInvBind' /\ Registration'
  BY <1>4 DEF LoginRequest
<1> QED
  BY <1>1, <1>2, <1>3, <1>4 DEF ClientNext

\* A login registers only its own session, with the mutex held and the session in the table.
LEMMA LoginInv ==
  ASSUME IInv, NEW s \in Session, LoginDequeue(s) \/ LoginNext(s)
  PROVE  Exclusion' /\ IInvBind' /\ Registration'
<1> USE DEF LoginAt
<1>0. /\ \A t \in Session \ {s} : login'[t] = login[t]
      /\ s \in DOMAIN login
  BY DEF IInv, TypeOK, LoginNext, LoginDequeue, LoginLifecycle, LoginAuth, LoginAcquire,
     LoginRecheck, LoginLocate, LoginNotifyOld, LoginAwaitOld, LoginClearOld,
     LoginRpcDone, LoginSetIp, LoginMap, LoginSetSession, LoginUnlock, LoginRespond,
     LoginAwaitSelf
<1>a. ASSUME UNCHANGED <<table, uid, umap>>,
             login'[s] # "map", login[s] # "map"
      PROVE  Registration'
  BY <1>0, <1>a DEF IInv, TypeOK, Registration, UmapMapped, Mapped, MappedIsRegistered
<1>1. CASE LoginDequeue(s)
  BY <1>0, <1>1, <1>a DEF IInv, TypeOK, LoginDequeue, Admissible, LifecycleHeld, RegisteringInTable,
     BindsOnce, KicksMapped, Mapped, Exclusion, IInvBind
<1>2. CASE LoginLifecycle(s)
  BY <1>0, <1>2, <1>a DEF IInv, TypeOK, LoginLifecycle, LifecycleHeld, RegisteringInTable,
     BindsOnce, KicksMapped, Mapped, Exclusion, IInvBind
<1>3. CASE LoginAuth(s)
  BY <1>0, <1>3, <1>a DEF IInv, TypeOK, LoginAuth, LifecycleHeld, RegisteringInTable,
     BindsOnce, KicksMapped, Mapped, Exclusion, IInvBind
<1>4. CASE LoginAcquire(s)
  BY <1>0, <1>4, <1>a DEF IInv, TypeOK, LoginAcquire, LifecycleHeld, RegisteringInTable,
     BindsOnce, KicksMapped, Mapped, Exclusion, IInvBind
<1>5. CASE LoginRecheck(s)
  BY <1>0, <1>5, <1>a DEF IInv, TypeOK, LoginRecheck, LifecycleHeld, RegisteringInTable,
     BindsOnce, KicksMapped, Mapped, Exclusion, IInvBind
<1>6. CASE LoginLocate(s)
  <2>1. wanted[s] \in User /\ Home[s] \in Instance
    BY <1>6 DEF IInv, LoginLocate, BindsOnce
  <2>2. Exclusion' /\ BindsOnce'
    BY <1>0, <1>6 DEF IInv, TypeOK, LoginLocate, LifecycleHeld, RegisteringInTable,
       BindsOnce, Exclusion
  <2>3. \A t \in Session : Mapped(t) => Mapped(t)'
    BY <1>0, <1>6 DEF IInv, TypeOK, LoginLocate, Mapped
  <2>4. \A t \in Session : old'[t] # NoSession => old'[t] \in Session /\ Mapped(old'[t])
    <3>1. CASE old' = old
      BY <3>1 DEF IInv, TypeOK, KicksMapped
    <3>2. CASE umap[Home[s]][wanted[s]] # NoSession
               /\ old' = [old EXCEPT ![s] = umap[Home[s]][wanted[s]]]
      <4>1. /\ umap[Home[s]][wanted[s]] \in Session
            /\ Mapped(umap[Home[s]][wanted[s]])
        BY <2>1, <3>2 DEF IInv, TypeOK, UmapMapped
      <4> QED
        BY <3>2, <4>1 DEF IInv, TypeOK, KicksMapped
    <3> QED
      BY <1>6, <3>1, <3>2 DEF LoginLocate
  <2>5. login'[s] \in {"notify", "awaitOld", "clearOld"} => old'[s] # NoSession
    BY <1>0, <1>6, <2>1 DEF IInv, TypeOK, LoginLocate
  <2>6. \A t \in Session : /\ kick'[t] # "none" => kickUser'[t] \in User /\ kickAt'[t] \in Instance
                           /\ kick'[t] \in {"notify", "awaitOld", "clear"} => victim'[t] # NoSession
    <3>1. CASE UNCHANGED kickVars
      BY <3>1 DEF IInv, KicksMapped
    <3>2. CASE /\ uip[wanted[s]] \notin {Home[s], NoInstance}
               /\ kick' = [kick EXCEPT ![s] = "sent"]
               /\ kickUser' = [kickUser EXCEPT ![s] = wanted[s]]
               /\ kickAt' = [kickAt EXCEPT ![s] = uip[wanted[s]]]
               /\ UNCHANGED victim
      <4>1. uip[wanted[s]] \in Instance
        BY <2>1, <3>2 DEF IInv, TypeOK
      <4> QED
        BY <2>1, <3>2, <4>1 DEF IInv, TypeOK, KicksMapped
    <3> QED
      BY <1>6, <3>1, <3>2 DEF LoginLocate
  <2>7. KicksMapped'
    BY <1>0, <1>6, <2>3, <2>4, <2>5, <2>6 DEF IInv, TypeOK, LoginLocate, KicksMapped
  <2>8. Registration'
    BY <1>0, <1>6, <1>a DEF LoginLocate
  <2> QED
    BY <2>2, <2>7, <2>8 DEF IInvBind
<1>7. CASE LoginNotifyOld(s)
  BY <1>0, <1>7, <1>a DEF IInv, TypeOK, LoginNotifyOld, Called, LifecycleHeld, RegisteringInTable,
     BindsOnce, KicksMapped, Mapped, Exclusion, IInvBind
<1>8. CASE LoginAwaitOld(s)
  BY <1>0, <1>8, <1>a DEF IInv, TypeOK, LoginAwaitOld, LifecycleHeld, RegisteringInTable,
     BindsOnce, KicksMapped, Mapped, Exclusion, IInvBind
<1>10. CASE LoginRpcDone(s)
  BY <1>0, <1>10, <1>a DEF IInv, TypeOK, LoginRpcDone, LifecycleHeld, RegisteringInTable,
     BindsOnce, KicksMapped, Mapped, Exclusion, IInvBind
<1>13. CASE LoginSetSession(s)
  BY <1>0, <1>13, <1>a DEF IInv, TypeOK, LoginSetSession, LifecycleHeld, RegisteringInTable,
     BindsOnce, KicksMapped, Mapped, Exclusion, IInvBind
<1>14. CASE LoginUnlock(s)
  BY <1>0, <1>14, <1>a DEF IInv, TypeOK, LoginUnlock, LifecycleHeld, RegisteringInTable,
     BindsOnce, KicksMapped, Mapped, Exclusion, IInvBind
<1>15. CASE LoginRespond(s)
  BY <1>0, <1>15, <1>a DEF IInv, TypeOK, LoginRespond, LoginEnd, Called, LifecycleHeld, RegisteringInTable,
     BindsOnce, KicksMapped, Mapped, Exclusion, IInvBind
<1>16. CASE LoginAwaitSelf(s)
  BY <1>0, <1>16, <1>a DEF IInv, TypeOK, LoginAwaitSelf, LoginEnd, LifecycleHeld, RegisteringInTable,
     BindsOnce, KicksMapped, Mapped, Exclusion, IInvBind
<1>9. CASE LoginClearOld(s)
  <2>1. old[s] \in Session /\ Mapped(old[s])
    BY <1>9 DEF IInv, TypeOK, LoginClearOld, KicksMapped
  <2>2. old[s] # s /\ login[old[s]] \notin Registering
    BY <1>9, <2>1 DEF IInv, LoginClearOld, BindsOnce, Mapped
  <2>3. RegisteringInTable' /\ Registration'
    BY <1>0, <1>9, <2>1, <2>2, ClearSessionInv DEF LoginClearOld
  <2>4. LifecycleHeld' /\ IInvBind'
    BY <1>0, <1>9, <2>2 DEF IInv, TypeOK, LoginClearOld, LifecycleHeld, BindsOnce,
       KicksMapped, Mapped, IInvBind
  <2> QED
    BY <2>3, <2>4 DEF Exclusion
<1>11. CASE LoginSetIp(s)
  <2>1. /\ uid[s] = NoUser /\ wanted[s] \in User /\ s \in table
        /\ uid' = [uid EXCEPT ![s] = wanted[s]]
        /\ login'[s] = "map"
    BY <1>0, <1>11 DEF IInv, LoginSetIp, BindsOnce, RegisteringInTable
  <2>2. \A t \in Session : Mapped(t) => Mapped(t)' /\ t # s /\ uid'[t] = uid[t]
    BY <1>0, <2>1 DEF IInv, TypeOK, Mapped
  <2>3. Exclusion' /\ BindsOnce'
    BY <1>0, <1>11, <2>1 DEF IInv, TypeOK, LoginSetIp, LifecycleHeld, RegisteringInTable,
       BindsOnce, Exclusion
  <2>4. KicksMapped'
    BY <1>0, <1>11, <2>1, <2>2 DEF IInv, TypeOK, LoginSetIp, KicksMapped
  <2>5. Registration'
    BY <1>11, <2>2 DEF IInv, TypeOK, LoginSetIp, Registration, UmapMapped, MappedIsRegistered
  <2> QED
    BY <2>3, <2>4, <2>5 DEF IInvBind
<1>12. CASE LoginMap(s)
  <2>1. /\ uid[s] = wanted[s] /\ wanted[s] \in User /\ s \in table
        /\ login'[s] = "setsession"
    BY <1>0, <1>12 DEF IInv, LoginMap, BindsOnce, RegisteringInTable
  <2>2. Mapped(s)' /\ \A t \in Session : Mapped(t) => Mapped(t)'
    BY <1>0, <1>12, <2>1 DEF IInv, TypeOK, LoginMap, Mapped
  <2>3. Exclusion' /\ BindsOnce'
    BY <1>0, <1>12, <2>1 DEF IInv, TypeOK, LoginMap, LifecycleHeld, RegisteringInTable,
       BindsOnce, Exclusion
  <2>4. KicksMapped'
    BY <1>0, <1>12, <2>2 DEF IInv, TypeOK, LoginMap, KicksMapped
  <2>5. \A i \in Instance, u \in User :
          \/ umap'[i][u] = umap[i][u]
          \/ i = Home[s] /\ u = wanted[s] /\ umap'[i][u] = s
    BY <1>12, <2>1 DEF IInv, TypeOK, LoginMap
  <2>6. Registration'
    BY <1>12, <2>1, <2>2, <2>5 DEF IInv, TypeOK, LoginMap, Registration, UmapMapped, MappedIsRegistered
  <2> QED
    BY <2>3, <2>4, <2>6 DEF IInvBind
<1> QED
  BY <1>1, <1>2, <1>3, <1>4, <1>5, <1>6, <1>7, <1>8, <1>9, <1>10, <1>11, <1>12,
     <1>13, <1>14, <1>15, <1>16 DEF LoginNext

\* A cleanup unmaps before it lets the session go.
LEMMA CleanupInv ==
  ASSUME IInv, NEW s \in Session, CleanupNext(s)
  PROVE  Exclusion' /\ IInvBind' /\ Registration'
<1> USE DEF CleanupAt
<1>1. /\ \A t \in Session \ {s} : cleanup'[t] = cleanup[t]
      /\ s \in DOMAIN cleanup
      /\ UNCHANGED <<login, uid, wanted, old, kick, kickUser, kickAt, victim>>
  BY DEF IInv, TypeOK, CleanupNext, CleanupEnter, CleanupAcquire, CleanupCheck,
     CleanupDelSession, CleanupDelIp, CleanupClear, CleanupRelease, CleanupDrop
<1>2. IInvBind'
  BY <1>1 DEF IInv, IInvBind, BindsOnce, KicksMapped, Mapped
<1>3. ASSUME ClearSession(s), login[s] \notin LoginHolds
      PROVE  RegisteringInTable' /\ Registration'
  <2>1. login[s] \notin Registering
    BY <1>3
  <2> QED
    BY <1>1, <1>3, <2>1, ClearSessionInv
<1>4. ASSUME UNCHANGED <<table, umap>>
      PROVE  RegisteringInTable' /\ Registration'
  BY <1>1, <1>4 DEF IInv, Registration, RegisteringInTable, UmapMapped, Mapped,
     MappedIsRegistered
<1>5. CASE CleanupEnter(s)
  <2>1. login[s] \notin LoginHolds
    BY <1>5 DEF IInv, LifecycleHeld, CleanupEnter
  <2>2. RegisteringInTable' /\ Registration'
    BY <1>3, <1>4, <1>5, <2>1 DEF CleanupEnter
  <2>3. LifecycleHeld'
    BY <1>1, <1>5, <2>1 DEF IInv, TypeOK, LifecycleHeld, CleanupEnter
  <2> QED
    BY <1>2, <2>2, <2>3 DEF Exclusion
<1>6. CASE CleanupAcquire(s) \/ CleanupCheck(s) \/ CleanupDelSession(s) \/ CleanupDelIp(s)
  <2>1. RegisteringInTable' /\ Registration'
    BY <1>4, <1>6 DEF CleanupAcquire, CleanupCheck, CleanupDelSession, CleanupDelIp
  <2>2. LifecycleHeld'
    BY <1>1, <1>6 DEF IInv, TypeOK, LifecycleHeld, CleanupAcquire, CleanupCheck,
       CleanupDelSession, CleanupDelIp
  <2> QED
    BY <1>2, <2>1, <2>2 DEF Exclusion
<1>7. CASE CleanupClear(s) \/ CleanupRelease(s) \/ CleanupDrop(s)
  <2>1. login[s] \notin LoginHolds
    BY <1>7 DEF IInv, LifecycleHeld, CleanupClear, CleanupRelease, CleanupDrop
  <2>2. RegisteringInTable' /\ Registration'
    BY <1>3, <1>4, <1>7, <2>1 DEF CleanupClear, CleanupRelease, CleanupDrop
  <2>3. LifecycleHeld'
    BY <1>1, <1>7, <2>1 DEF IInv, TypeOK, LifecycleHeld, CleanupClear, CleanupRelease,
       CleanupDrop
  <2> QED
    BY <1>2, <2>2, <2>3 DEF Exclusion
<1> QED
  BY <1>5, <1>6, <1>7 DEF CleanupNext

\* A kick unmaps the victim with its removal from the table.
LEMMA KickInv ==
  ASSUME IInv, NEW s \in Session, KickNext(s)
  PROVE  Exclusion' /\ IInvBind' /\ Registration'
<1>1. UNCHANGED <<login, uid, wanted, old, lifecycle>>
  BY DEF KickNext, KickFind, KickNotify, KickAwait, KickClear, KickLost
<1> USE DEF KickTo, KickEnd
<1>2. BindsOnce'
  BY <1>1 DEF IInv, BindsOnce
<1>3. CASE KickFind(s)
  <2>1. /\ kick[s] = "sent" => umap[kickAt[s]][kickUser[s]] \in Session \cup {NoSession}
        /\ kick[s] = "sent" /\ umap[kickAt[s]][kickUser[s]] # NoSession =>
             Mapped(umap[kickAt[s]][kickUser[s]])
    BY DEF IInv, TypeOK, KicksMapped, UmapMapped
  <2>2. UNCHANGED <<cleanup, table, umap>>
    BY <1>3 DEF KickFind
  <2>3. KicksMapped'
    <3>1. ASSUME NEW t \in Session, t # s
          PROVE  /\ kick'[t] = kick[t] /\ victim'[t] = victim[t]
                 /\ kickUser'[t] = kickUser[t] /\ kickAt'[t] = kickAt[t]
      BY <1>3, <3>1 DEF IInv, TypeOK, KickFind
    <3>2. \/ kick'[s] = "none" /\ victim'[s] = NoSession
          \/ /\ kick[s] = "sent" /\ kick'[s] = "notify"
             /\ victim'[s] = umap[kickAt[s]][kickUser[s]] /\ victim'[s] # NoSession
             /\ kickUser'[s] = kickUser[s] /\ kickAt'[s] = kickAt[s]
      BY <1>3 DEF IInv, TypeOK, KickFind
    <3>3. KicksMapped /\ UNCHANGED <<uid, login, old>>
      BY <1>1 DEF IInv
    <3>4. victim'[s] # NoSession => uid[victim'[s]] # NoUser /\ login[victim'[s]] # "map"
      BY <2>1, <3>2 DEF Mapped
    <3>5. ASSUME NEW t \in Session
          PROVE  /\ victim'[t] # NoSession => uid[victim'[t]] # NoUser /\ login[victim'[t]] # "map"
                 /\ kick'[t] \in {"notify", "awaitOld", "clear"} => victim'[t] # NoSession
                 /\ kick'[t] # "none" => kickUser'[t] \in User /\ kickAt'[t] \in Instance
      <4>1. CASE t = s
        BY <3>2, <3>3, <3>4, <4>1 DEF KicksMapped
      <4>2. CASE t # s
        BY <3>1, <3>3, <4>2 DEF KicksMapped, Mapped
      <4> QED
        BY <4>1, <4>2
    <3> QED
      BY <3>3, <3>5 DEF KicksMapped, Mapped
  <2>4. Exclusion' /\ Registration'
    BY <1>1, <2>2 DEF IInv, Exclusion, LifecycleHeld, RegisteringInTable, Registration,
       UmapMapped, Mapped, MappedIsRegistered
  <2> QED
    BY <1>2, <2>3, <2>4 DEF IInvBind
<1>4. CASE KickNotify(s)
  <2>1. KicksMapped'
    BY <1>1, <1>4 DEF IInv, TypeOK, KickNotify, KicksMapped, Mapped
  <2>2. LifecycleHeld'
    BY <1>1, <1>4 DEF IInv, TypeOK, KickNotify, KicksMapped, Called, LifecycleHeld
  <2>3. RegisteringInTable' /\ Registration'
    BY <1>1, <1>4 DEF IInv, KickNotify, RegisteringInTable, Registration, UmapMapped,
       Mapped, MappedIsRegistered
  <2> QED
    BY <1>2, <2>1, <2>2, <2>3 DEF IInvBind, Exclusion
<1>5. CASE KickAwait(s) \/ KickLost(s)
  <2>1. KicksMapped'
    <3>1. CASE KickAwait(s)
      BY <1>1, <3>1 DEF IInv, TypeOK, KickAwait, KicksMapped, Mapped
    <3>2. CASE KickLost(s)
      BY <1>1, <3>2 DEF IInv, TypeOK, KickLost, KicksMapped, Mapped
    <3> QED
      BY <1>5, <3>1, <3>2
  <2>2. Exclusion' /\ Registration'
    BY <1>1, <1>5 DEF IInv, KickAwait, KickLost, Exclusion, LifecycleHeld, RegisteringInTable,
       Registration, UmapMapped, Mapped, MappedIsRegistered
  <2> QED
    BY <1>2, <2>1, <2>2 DEF IInvBind
<1>6. CASE KickClear(s)
  <2>1. victim[s] \in Session /\ login[victim[s]] \notin Registering
    BY <1>6 DEF IInv, TypeOK, KickClear, KicksMapped, BindsOnce, Mapped
  <2>2. RegisteringInTable' /\ Registration'
    BY <1>1, <1>6, <2>1, ClearSessionInv DEF KickClear
  <2>3. KicksMapped'
    BY <1>1, <1>6 DEF IInv, TypeOK, KickClear, KicksMapped, Mapped
  <2>4. LifecycleHeld'
    BY <1>1, <1>6 DEF IInv, KickClear, LifecycleHeld
  <2> QED
    BY <1>2, <2>2, <2>3, <2>4 DEF IInvBind, Exclusion
<1> QED
  BY <1>3, <1>4, <1>5, <1>6 DEF KickNext

\* A crash empties UserMgr and the table together.
LEMMA EnvironmentInv ==
  ASSUME IInv,
         (\E u \in User : Expire(u)) \/ (\E i \in Instance : Crash(i))
  PROVE  Exclusion' /\ IInvBind' /\ Registration'
<1>1. ASSUME NEW u \in User, Expire(u)
      PROVE  Exclusion' /\ IInvBind' /\ Registration'
  BY <1>1 DEF IInv, Expire, Exclusion, IInvBind, Registration, LifecycleHeld,
     RegisteringInTable, BindsOnce, KicksMapped, UmapMapped, Mapped, MappedIsRegistered
<1>2. ASSUME NEW i \in Instance, Crash(i)
      PROVE  Exclusion' /\ IInvBind' /\ Registration'
  <2> DEFINE Dead(s) == Home[s] = i /\ conn[s] = "up"
  <2>1. \A s \in Session :
          /\ Dead(s) => login'[s] = "idle" /\ cleanup'[s] = "idle" /\ old'[s] = NoSession
          /\ ~ Dead(s) => /\ login'[s] = login[s] /\ cleanup'[s] = cleanup[s]
                          /\ old'[s] = old[s] /\ wanted'[s] = wanted[s]
                          /\ lifecycle'[s] = lifecycle[s] /\ (s \in table => s \in table')
    BY <1>2 DEF Crash
  <2>2. UNCHANGED uid
    BY <1>2 DEF Crash
  <2>3. Exclusion'
    BY <2>1 DEF IInv, Exclusion, LifecycleHeld, RegisteringInTable
  <2>4. BindsOnce' /\ \A s \in Session : Mapped(s) => Mapped(s)'
    BY <2>1, <2>2 DEF IInv, BindsOnce, Mapped
  <2>5. \A s \in Session :
          /\ kickAt[s] = i => kick'[s] = "none" /\ victim'[s] = NoSession
          /\ kickAt[s] # i => /\ kick'[s] = kick[s] /\ victim'[s] = victim[s]
                              /\ kickUser'[s] = kickUser[s] /\ kickAt'[s] = kickAt[s]
    BY <1>2 DEF Crash
  <2>6. KicksMapped'
    <3>1. \A s \in Session : /\ old[s] \in Session \cup {NoSession}
                            /\ victim[s] \in Session \cup {NoSession}
      BY DEF IInv, TypeOK
    <3> QED
      BY <2>1, <2>4, <2>5, <3>1 DEF IInv, KicksMapped
  <2>7. \A j \in Instance, u \in User :
          umap'[j][u] # NoSession => j # i /\ umap'[j][u] = umap[j][u]
    BY <1>2 DEF IInv, TypeOK, Crash
  <2>8. Registration'
    BY <2>1, <2>2, <2>4, <2>7 DEF IInv, TypeOK, Registration, UmapMapped, MappedIsRegistered
  <2> QED
    BY <2>3, <2>4, <2>6, <2>8 DEF IInvBind
<1> QED
  BY <1>1, <1>2

-----------------------------------------------------------------------------
\* The invariant holds of every reachable state: every step of a client, a
\* login, a cleanup, a kick or the environment preserves it.
THEOREM InductiveInvariant == Spec => []IInv
<1>1. Init => IInv
  BY DEF Init, IInv, TypeOK, LoginStep, CleanupStep, KickStep, LifecycleHeld,
     RegisteringInTable, BindsOnce, KicksMapped, UmapMapped, MappedIsRegistered
<1>2. IInv /\ [Next]_vars => IInv'
  <2> SUFFICES ASSUME IInv, [Next]_vars
               PROVE  IInv'
    OBVIOUS
  <2>1. TypeOK /\ IInvBind
    BY DEF IInv, IInvBind
  <2>2. ASSUME NEW s \in Session, ClientNext(s)
        PROVE  IInv'
    BY <2>1, <2>2, ClientType, ClientInv DEF IInv, Exclusion, IInvBind, Registration
  <2>3. ASSUME NEW s \in Session, LoginDequeue(s) \/ LoginNext(s)
        PROVE  IInv'
    BY <2>1, <2>3, LoginType, LoginInv DEF IInv, Exclusion, IInvBind, Registration
  <2>4. ASSUME NEW s \in Session, CleanupNext(s)
        PROVE  IInv'
    BY <2>1, <2>4, CleanupType, CleanupInv DEF IInv, Exclusion, IInvBind, Registration
  <2>5. ASSUME NEW s \in Session, KickNext(s)
        PROVE  IInv'
    BY <2>1, <2>5, KickType, KickInv DEF IInv, Exclusion, IInvBind, Registration
  <2>6. CASE (\E u \in User : Expire(u)) \/ (\E i \in Instance : Crash(i))
    BY <2>1, <2>6, EnvironmentType, EnvironmentInv DEF IInv, Exclusion, IInvBind, Registration
  <2>7. CASE UNCHANGED vars
    BY <2>7 DEF vars, IInv, TypeOK, LifecycleHeld, RegisteringInTable, BindsOnce,
       KicksMapped, UmapMapped, Mapped, MappedIsRegistered
  <2> QED
    BY <2>2, <2>3, <2>4, <2>5, <2>6, <2>7 DEF Next
<1> QED
  BY <1>1, <1>2, PTL DEF Spec

\* Every variable keeps its type.  It rests on the whole invariant, because the
\* code looks a session up in UserMgr and then uses what it found.
THEOREM TypeCorrect == Spec => []TypeOK
BY InductiveInvariant, PTL DEF IInv

\* UserMgr hands out only sessions that are in their own instance's table and
\* bound to the user they were looked up by, whatever crashes, is lost, expires
\* or fails.
THEOREM HandsOutRegisteredOnly == Spec => []MappedIsRegistered
BY InductiveInvariant, PTL DEF IInv

-----------------------------------------------------------------------------
(* What the steps of each activity leave alone.                            *)

\* A login changes only its own progress; the shared state it changes in few places.
LEMMA LoginFrame ==
  ASSUME IInv, NEW s \in Session, LoginDequeue(s) \/ LoginNext(s)
  PROVE  /\ UNCHANGED conn
         /\ closed \subseteq closed'
         /\ \A t \in Session \ {s} :
              /\ login'[t] = login[t] /\ wanted'[t] = wanted[t]
              /\ old'[t] = old[t] /\ uid'[t] = uid[t]
         /\ \A t \in Session :
              cleanup'[t] = cleanup[t] \/ (cleanup'[t] = "called" /\ t \in closed')
         /\ LoginLocate(s) \/ UNCHANGED kickVars
         /\ LoginSetIp(s) \/ UNCHANGED <<uid, uip>>
         /\ LoginMap(s) \/ LoginClearOld(s) \/ UNCHANGED umap
         /\ LoginSetSession(s) \/ UNCHANGED usession
         /\ LoginAcquire(s) \/ LoginUnlock(s) \/ UNCHANGED ulock
         /\ table' \subseteq table
<1> USE DEF IInv, TypeOK, LoginAt
<1>1. CASE LoginDequeue(s)
  BY <1>1 DEF LoginDequeue
<1>2. CASE LoginLifecycle(s)
  BY <1>2 DEF LoginLifecycle
<1>3. CASE LoginAuth(s)
  BY <1>3 DEF LoginAuth
<1>4. CASE LoginAcquire(s)
  BY <1>4 DEF LoginAcquire
<1>5. CASE LoginRecheck(s)
  BY <1>5 DEF LoginRecheck
<1>6. CASE LoginLocate(s)
  BY <1>6 DEF LoginLocate
<1>7. CASE LoginNotifyOld(s)
  BY <1>7 DEF LoginNotifyOld, Called, KicksMapped
<1>8. CASE LoginAwaitOld(s)
  BY <1>8 DEF LoginAwaitOld
<1>9. CASE LoginClearOld(s)
  BY <1>9 DEF LoginClearOld, ClearSession
<1>10. CASE LoginRpcDone(s)
  BY <1>10 DEF LoginRpcDone
<1>11. CASE LoginSetIp(s)
  BY <1>11 DEF LoginSetIp
<1>12. CASE LoginMap(s)
  BY <1>12 DEF LoginMap
<1>13. CASE LoginSetSession(s)
  BY <1>13 DEF LoginSetSession
<1>14. CASE LoginUnlock(s)
  BY <1>14 DEF LoginUnlock
<1>15. CASE LoginRespond(s)
  BY <1>15 DEF LoginRespond, LoginEnd, Called
<1>16. CASE LoginAwaitSelf(s)
  BY <1>16 DEF LoginAwaitSelf, LoginEnd
<1> QED
  BY <1>1, <1>2, <1>3, <1>4, <1>5, <1>6, <1>7, <1>8, <1>9, <1>10, <1>11, <1>12,
     <1>13, <1>14, <1>15, <1>16 DEF LoginNext

\* A cleanup knows nothing of logins and kicks.
LEMMA CleanupFrame ==
  ASSUME IInv, NEW s \in Session, CleanupNext(s)
  PROVE  /\ UNCHANGED <<conn, closed, uid, loginVars, kickVars>>
         /\ \A t \in Session \ {s} : cleanup'[t] = cleanup[t]
         /\ CleanupEnter(s) \/ CleanupClear(s) \/ CleanupDrop(s) \/ UNCHANGED <<table, umap>>
         /\ CleanupDelSession(s) \/ UNCHANGED usession
         /\ CleanupDelIp(s) \/ UNCHANGED uip
         /\ CleanupAcquire(s) \/ CleanupRelease(s) \/ UNCHANGED ulock
         /\ table' \subseteq table
<1> USE DEF IInv, TypeOK, CleanupAt
<1>1. CASE CleanupEnter(s)
  BY <1>1 DEF CleanupEnter, ClearSession
<1>2. CASE CleanupAcquire(s)
  BY <1>2 DEF CleanupAcquire
<1>3. CASE CleanupCheck(s)
  BY <1>3 DEF CleanupCheck
<1>4. CASE CleanupDelSession(s)
  BY <1>4 DEF CleanupDelSession
<1>5. CASE CleanupDelIp(s)
  BY <1>5 DEF CleanupDelIp
<1>6. CASE CleanupClear(s)
  BY <1>6 DEF CleanupClear, ClearSession
<1>7. CASE CleanupRelease(s)
  BY <1>7 DEF CleanupRelease
<1>8. CASE CleanupDrop(s)
  BY <1>8 DEF CleanupDrop, ClearSession
<1> QED
  BY <1>1, <1>2, <1>3, <1>4, <1>5, <1>6, <1>7, <1>8 DEF CleanupNext

\* A kick writes nothing in Redis.
LEMMA KickFrame ==
  ASSUME IInv, NEW s \in Session, KickNext(s)
  PROVE  /\ UNCHANGED <<conn, uid, loginVars, redisVars>>
         /\ closed \subseteq closed'
         /\ \A t \in Session \ {s} :
              /\ kick'[t] = kick[t] /\ kickUser'[t] = kickUser[t]
              /\ kickAt'[t] = kickAt[t] /\ victim'[t] = victim[t]
         /\ \A t \in Session :
              cleanup'[t] = cleanup[t] \/ (cleanup'[t] = "called" /\ t \in closed')
         /\ KickClear(s) \/ UNCHANGED umap
         /\ table' \subseteq table
<1> USE DEF IInv, TypeOK, KickTo, KickEnd
<1>1. CASE KickFind(s)
  BY <1>1 DEF KickFind
<1>2. CASE KickNotify(s)
  BY <1>2 DEF KickNotify, Called, KicksMapped
<1>3. CASE KickAwait(s)
  BY <1>3 DEF KickAwait
<1>4. CASE KickClear(s)
  BY <1>4 DEF KickClear, ClearSession
<1>5. CASE KickLost(s)
  BY <1>5 DEF KickLost
<1> QED
  BY <1>1, <1>2, <1>3, <1>4, <1>5 DEF KickNext

\* A client's step touches neither UserMgr nor Redis.
LEMMA ClientFrame ==
  ASSUME IInv, NEW s \in Session, ClientNext(s)
  PROVE  /\ UNCHANGED <<uid, umap, old, kickVars, redisVars>>
         /\ closed \subseteq closed'
         /\ \A t \in Session : /\ conn'[t] # conn[t] => Accept(t)
                               /\ login'[t] # login[t] => /\ conn[t] = "up" /\ login[t] = "idle"
                                                           /\ login'[t] = "queued"
                               /\ login[t] # "idle" => wanted'[t] = wanted[t]
                               /\ t \in table' \ table => Accept(t)
         /\ \A t \in Session :
              cleanup'[t] = cleanup[t] \/ (cleanup'[t] = "called" /\ t \in closed')
<1> USE DEF IInv, TypeOK
<1>1. CASE Accept(s)
  BY <1>1 DEF Accept
<1>2. CASE IoError(s)
  BY <1>2 DEF IoError, Called
<1>3. CASE RejectUnregistered(s)
  BY <1>3 DEF RejectUnregistered
<1>4. ASSUME NEW u \in User, LoginRequest(s, u)
      PROVE  /\ UNCHANGED <<connVars, umap, old, cleanup, kickVars, redisVars>>
             /\ \A t \in Session :
                  /\ login'[t] # login[t] => /\ conn[t] = "up" /\ login[t] = "idle"
                                              /\ login'[t] = "queued"
                  /\ login[t] # "idle" => wanted'[t] = wanted[t]
  BY <1>4 DEF LoginRequest
<1> QED
  BY <1>1, <1>2, <1>3, <1>4 DEF ClientNext

\* A crash empties its instance and the calls it serves; Redis outlives it.
LEMMA CrashFrame ==
  ASSUME IInv, NEW i \in Instance, Crash(i)
  PROVE  /\ UNCHANGED <<closed, uid, redisVars>>
         /\ table' \subseteq table
         /\ \A s \in Session :
              \/ /\ Home[s] = i /\ conn[s] = "up"
                 /\ conn'[s] = "gone" /\ login'[s] = "idle" /\ cleanup'[s] = "idle"
                 /\ s \notin table'
              \/ /\ Home[s] # i \/ conn[s] # "up"
                 /\ conn'[s] = conn[s] /\ login'[s] = login[s] /\ cleanup'[s] = cleanup[s]
                 /\ wanted'[s] = wanted[s] /\ old'[s] = old[s]
         /\ \A s \in Session :
              \/ kickAt[s] = i /\ kick'[s] = "none" /\ victim'[s] = NoSession
              \/ /\ kickAt[s] # i
                 /\ kick'[s] = kick[s] /\ victim'[s] = victim[s]
                 /\ kickUser'[s] = kickUser[s] /\ kickAt'[s] = kickAt[s]
         /\ \A j \in Instance, u \in User :
              umap'[j][u] = IF j = i THEN NoSession ELSE umap[j][u]
<1> USE DEF IInv, TypeOK, Crash
<1>1. UNCHANGED <<closed, uid, redisVars>> /\ table' \subseteq table
  OBVIOUS
<1>2. \A s \in Session :
        \/ /\ Home[s] = i /\ conn[s] = "up"
           /\ conn'[s] = "gone" /\ login'[s] = "idle" /\ cleanup'[s] = "idle"
           /\ s \notin table'
        \/ /\ Home[s] # i \/ conn[s] # "up"
           /\ conn'[s] = conn[s] /\ login'[s] = login[s] /\ cleanup'[s] = cleanup[s]
           /\ wanted'[s] = wanted[s] /\ old'[s] = old[s]
  OBVIOUS
<1>3. \A s \in Session :
        \/ kickAt[s] = i /\ kick'[s] = "none" /\ victim'[s] = NoSession
        \/ /\ kickAt[s] # i
           /\ kick'[s] = kick[s] /\ victim'[s] = victim[s]
           /\ kickUser'[s] = kickUser[s] /\ kickAt'[s] = kickAt[s]
  OBVIOUS
<1>4. \A j \in Instance, u \in User :
        umap'[j][u] = IF j = i THEN NoSession ELSE umap[j][u]
  OBVIOUS
<1> QED
  BY <1>1, <1>2, <1>3, <1>4

-----------------------------------------------------------------------------
(* A session, its login and its cleanup, under every fault.                *)

\* Only a live connection logs in; only a closed one is cleaned up, and once its
\* cleanup is about to end it is out of the table for good; the handler of a
\* kick waits only for a closed session; and usession_<uid> leads to a session
\* of that very user.
SessionInv ==
  /\ \A s \in Session :
       /\ conn[s] # "up" => login[s] = "idle"
       /\ conn[s] = "new" => s \notin table \cup closed /\ uid[s] = NoUser
       /\ cleanup[s] # "idle" => s \in closed
       /\ cleanup[s] \in CleanupHolds => uid[s] \in User
       /\ cleanup[s] = "release" => s \notin table
       /\ login[s] = "setsession" => uid[s] = wanted[s]
       /\ kick[s] = "awaitOld" => victim[s] \in closed
  /\ \A u \in User : usession[u] # NoSession => uid[usession[u]] = u

\* A client's step keeps SessionInv.
LEMMA ClientSession ==
  ASSUME IInv, SessionInv, NEW s \in Session, ClientNext(s)
  PROVE  SessionInv'
<1>1. CASE Accept(s)
  BY <1>1 DEF IInv, TypeOK, SessionInv, Accept
<1>2. CASE IoError(s)
  BY <1>2 DEF IInv, TypeOK, SessionInv, IoError, Called
<1>3. CASE RejectUnregistered(s)
  BY <1>3 DEF IInv, TypeOK, SessionInv, RejectUnregistered
<1>4. ASSUME NEW u \in User, LoginRequest(s, u)
      PROVE  SessionInv'
  BY <1>4 DEF IInv, TypeOK, SessionInv, LoginRequest
<1> QED
  BY <1>1, <1>2, <1>3, <1>4 DEF ClientNext

\* A login closes only connections that are up or were mapped, and writes itself.
LEMMA LoginSession ==
  ASSUME IInv, SessionInv, NEW s \in Session, LoginDequeue(s) \/ LoginNext(s)
  PROVE  SessionInv'
<1>1. login[s] # "idle" /\ conn[s] = "up"
  BY DEF IInv, TypeOK, SessionInv, LoginNext, LoginAt, LoginDequeue, LoginLifecycle,
     LoginAuth, LoginAcquire, LoginRecheck, LoginLocate, LoginNotifyOld, LoginAwaitOld,
     LoginClearOld, LoginRpcDone, LoginSetIp, LoginMap, LoginSetSession, LoginUnlock,
     LoginRespond, LoginAwaitSelf
<1>2. uid'[s] = uid[s] \/ (uid[s] = NoUser /\ cleanup[s] \notin CleanupHolds)
  BY LoginFrame DEF IInv, BindsOnce, LifecycleHeld, LoginSetIp, LoginAt
<1>3. login'[s] = "setsession" => uid'[s] = wanted'[s]
  <2>1. login'[s] = "setsession" => LoginMap(s)
    BY DEF IInv, TypeOK, LoginNext, LoginAt, LoginDequeue, LoginLifecycle,
       LoginAuth, LoginAcquire, LoginRecheck, LoginLocate, LoginNotifyOld, LoginAwaitOld,
       LoginClearOld, LoginRpcDone, LoginSetIp, LoginMap, LoginSetSession, LoginUnlock,
       LoginRespond, LoginAwaitSelf
  <2> QED
    BY <2>1 DEF LoginMap, LoginAt, IInv, BindsOnce
<1>4. \A t \in Session : t \in closed' \ closed => conn[t] # "new"
  <2>1. LoginNotifyOld(s) \/ LoginRespond(s) \/ UNCHANGED closed
    BY DEF LoginNext, LoginDequeue, LoginLifecycle, LoginAuth, LoginAcquire, LoginRecheck,
       LoginLocate, LoginAwaitOld, LoginClearOld, LoginRpcDone, LoginSetIp, LoginMap,
       LoginSetSession, LoginUnlock, LoginAwaitSelf
  <2>2. LoginNotifyOld(s) => closed' \subseteq closed \cup {old[s]} /\ uid[old[s]] # NoUser
    BY DEF IInv, KicksMapped, Mapped, LoginNotifyOld, LoginAt
  <2>3. LoginRespond(s) => closed' \subseteq closed \cup {s}
    BY DEF LoginRespond
  <2> QED
    BY <1>1, <2>1, <2>2, <2>3 DEF SessionInv
<1>5. \A u \in User : usession'[u] # NoSession => uid'[usession'[u]] = u
  <2> SUFFICES ASSUME NEW u \in User, usession'[u] # NoSession
               PROVE  uid'[usession'[u]] = u
    OBVIOUS
  <2>1. usession'[u] = usession[u] \/ (usession'[u] = s /\ uid[s] = u /\ UNCHANGED uid)
    BY LoginFrame DEF IInv, TypeOK, SessionInv, BindsOnce, LoginSetSession, LoginAt, Written
  <2> QED
    BY <1>2, <2>1, LoginFrame DEF IInv, TypeOK, SessionInv
<1>6. \A t \in Session :
       /\ conn'[t] # "up" => login'[t] = "idle"
       /\ conn'[t] = "new" => t \notin table' \cup closed' /\ uid'[t] = NoUser
       /\ cleanup'[t] # "idle" => t \in closed'
       /\ cleanup'[t] \in CleanupHolds => uid'[t] \in User
       /\ cleanup'[t] = "release" => t \notin table'
       /\ login'[t] = "setsession" => uid'[t] = wanted'[t]
  BY <1>1, <1>2, <1>3, <1>4, LoginFrame DEF SessionInv
<1>7. \A t \in Session : kick'[t] = "awaitOld" => victim'[t] \in closed'
  BY LoginFrame DEF IInv, TypeOK, SessionInv, LoginLocate
<1> QED
  BY <1>5, <1>6, <1>7 DEF SessionInv

\* A cleanup takes its session out of the table before it releases.
LEMMA CleanupSession ==
  ASSUME IInv, SessionInv, NEW s \in Session, CleanupNext(s)
  PROVE  SessionInv'
<1>1. /\ cleanup[s] # "idle"
      /\ cleanup'[s] \in CleanupHolds => uid[s] \in User
      /\ cleanup'[s] = "release" => s \notin table'
  BY DEF IInv, TypeOK, SessionInv, CleanupNext, CleanupAt, CleanupEnter, CleanupAcquire,
     CleanupCheck, CleanupDelSession, CleanupDelIp, CleanupClear, CleanupRelease,
     CleanupDrop, ClearSession
<1>2. \A u \in User : usession'[u] \in {usession[u], NoSession}
  BY CleanupFrame DEF IInv, TypeOK, CleanupDelSession, Written
<1> QED
  BY <1>1, <1>2, CleanupFrame DEF SessionInv

\* The handler of a kick closes the session it is going to wait for.
LEMMA KickSession ==
  ASSUME IInv, SessionInv, NEW s \in Session, KickNext(s)
  PROVE  SessionInv'
<1>1. kick'[s] = "awaitOld" => victim'[s] \in closed'
  BY DEF IInv, TypeOK, SessionInv, KickNext, KickTo, KickEnd, KickFind, KickNotify, KickAwait,
     KickClear, KickLost
<1>2. \A t \in Session : t \in closed' \ closed => conn[t] # "new"
  BY DEF IInv, SessionInv, KicksMapped, Mapped, KickNext, KickTo, KickFind, KickNotify,
     KickAwait, KickClear, KickLost
<1> QED
  BY <1>1, <1>2, KickFrame DEF SessionInv

\* A crash ends logins and cleanups together with their connections.
LEMMA CrashSession ==
  ASSUME IInv, SessionInv, NEW i \in Instance, Crash(i)
  PROVE  SessionInv'
BY CrashFrame DEF SessionInv, IInv, TypeOK

\* SessionInv is inductive relative to IInv.
THEOREM SessionInvariant == Spec => []SessionInv
<1>1. Init => SessionInv
  BY DEF Init, SessionInv
<1>2. IInv /\ SessionInv /\ [Next]_vars => SessionInv'
  <2> SUFFICES ASSUME IInv, SessionInv, [Next]_vars
               PROVE  SessionInv'
    OBVIOUS
  <2>1. ASSUME NEW u \in User, Expire(u)
        PROVE  SessionInv'
    BY <2>1 DEF SessionInv, Expire
  <2>2. CASE UNCHANGED vars
    BY <2>2 DEF SessionInv, vars
  <2> QED
    BY <2>1, <2>2, ClientSession, LoginSession, CleanupSession, KickSession, CrashSession DEF Next
<1> QED
  BY <1>1, <1>2, InductiveInvariant, PTL DEF Spec

-----------------------------------------------------------------------------
(* The user lock, as long as it outlives its holder's work.                *)

\* A login and a cleanup between taking and releasing the lock of a user find
\* themselves in it, and a cleanup that passed its check is still the session
\* in usession_<uid> when it comes to delete the key.
LockInv ==
  \A s \in Session :
    /\ login[s] \in LoginLocked => ulock[wanted[s]] = s
    /\ cleanup[s] \in CleanupLocked => ulock[uid[s]] = s
    /\ cleanup[s] = "delsession" => usession[uid[s]] = s

\* A login takes a lock nobody holds, and returns only its own.
LEMMA LoginLock ==
  ASSUME IInv, SessionInv, LockInv, NEW s \in Session, LoginDequeue(s) \/ LoginNext(s)
  PROVE  LockInv'
<1>1. login'[s] \in LoginLocked => ulock'[wanted'[s]] = s
  <2>1. CASE LoginAcquire(s)
    BY <2>1 DEF IInv, TypeOK, BindsOnce, LoginAcquire, LoginAt, TakeLock
  <2>2. CASE LoginUnlock(s)
    BY <2>2 DEF IInv, TypeOK, LoginUnlock, LoginAt
  <2>3. CASE ~ LoginAcquire(s) /\ ~ LoginUnlock(s)
    <3>1. login'[s] \in LoginLocked => login[s] \in LoginLocked /\ wanted'[s] = wanted[s]
      <4>1. CASE LoginDequeue(s) \/ LoginLifecycle(s) \/ LoginAuth(s) \/ LoginRecheck(s)
        BY <4>1 DEF IInv, TypeOK, LoginAt, LoginDequeue, LoginLifecycle, LoginAuth, LoginRecheck
      <4>2. CASE LoginLocate(s) \/ LoginNotifyOld(s) \/ LoginAwaitOld(s) \/ LoginClearOld(s)
        BY <4>2 DEF IInv, TypeOK, LoginAt, LoginLocate, LoginNotifyOld, LoginAwaitOld, LoginClearOld
      <4>3. CASE LoginRpcDone(s) \/ LoginSetIp(s) \/ LoginMap(s) \/ LoginSetSession(s)
        BY <4>3 DEF IInv, TypeOK, LoginAt, LoginRpcDone, LoginSetIp, LoginMap, LoginSetSession
      <4>4. CASE LoginRespond(s) \/ LoginAwaitSelf(s)
        BY <4>4 DEF IInv, TypeOK, LoginAt, LoginRespond, LoginAwaitSelf
      <4> QED
        BY <2>3, <4>1, <4>2, <4>3, <4>4 DEF LoginNext
    <3> QED
      BY <2>3, <3>1, LoginFrame DEF LockInv
  <2> QED
    BY <2>1, <2>2, <2>3
<1>2. \A u \in User : \/ ulock'[u] = ulock[u]
                      \/ ulock[u] = NoSession
                      \/ ulock[u] = s /\ login[s] \in LoginLocked
  <2>1. CASE LoginAcquire(s)
    BY <2>1 DEF IInv, TypeOK, LoginAcquire, TakeLock, FailLock
  <2>2. CASE LoginUnlock(s)
    BY <2>2 DEF IInv, TypeOK, LoginUnlock, ReleaseLock, Written, LoginAt
  <2> QED
    BY <2>1, <2>2, LoginFrame
<1>3. \A u \in User : usession'[u] # usession[u] => ulock[u] = s /\ login[s] \in LoginLocked
  BY LoginFrame DEF IInv, TypeOK, BindsOnce, LockInv, LoginSetSession, Written, LoginAt
<1>4. \A t \in Session : cleanup'[t] \in CleanupLocked =>
                           cleanup'[t] = cleanup[t] /\ uid'[t] = uid[t] /\ uid[t] \in User
  BY LoginFrame DEF IInv, TypeOK, SessionInv, BindsOnce, LoginSetIp, LoginAt
<1>5. \A t \in Session : cleanup[t] \in CleanupLocked => t # s \/ login[s] \notin LoginLocked
  BY DEF IInv, LifecycleHeld
<1>6. \A t \in Session \ {s} : login[t] \in LoginLocked => wanted[t] \in User
  BY DEF IInv, BindsOnce
<1> QED
  BY <1>1, <1>2, <1>3, <1>4, <1>5, <1>6, LoginFrame DEF LockInv

\* So does a cleanup; and no other session writes the keys of a user meanwhile.
LEMMA CleanupLock ==
  ASSUME IInv, SessionInv, LockInv, NEW s \in Session, CleanupNext(s)
  PROVE  LockInv'
<1>1. cleanup'[s] \in CleanupLocked => ulock'[uid[s]] = s
  BY DEF IInv, TypeOK, SessionInv, LockInv, CleanupNext, CleanupAt, CleanupEnter, CleanupAcquire,
     TakeLock, CleanupCheck, CleanupDelSession, CleanupDelIp, CleanupClear, CleanupRelease,
     CleanupDrop
<1>2. cleanup'[s] = "delsession" => usession'[uid[s]] = s
  BY DEF IInv, TypeOK, CleanupNext, CleanupAt, CleanupEnter, CleanupAcquire,
     CleanupCheck, CleanupDelSession, CleanupDelIp, CleanupClear, CleanupRelease,
     CleanupDrop
<1>3. \A u \in User : \/ ulock'[u] = ulock[u]
                      \/ ulock[u] = NoSession
                      \/ ulock[u] = s /\ cleanup[s] \in CleanupLocked
  BY CleanupFrame DEF IInv, TypeOK, SessionInv, CleanupAcquire, CleanupRelease, TakeLock, FailLock,
     ReleaseLock, Written, CleanupAt
<1>4. \A u \in User : usession'[u] # usession[u] => ulock[u] = s /\ cleanup[s] \in CleanupLocked
  BY CleanupFrame DEF IInv, TypeOK, SessionInv, LockInv, CleanupDelSession, Written, CleanupAt
<1>5. cleanup[s] \in CleanupLocked => login[s] \notin LoginLocked
  BY DEF IInv, LifecycleHeld
<1>6. \A t \in Session : /\ login[t] \in LoginLocked => wanted[t] \in User
                         /\ cleanup[t] \in CleanupLocked => uid[t] \in User
  BY DEF IInv, BindsOnce, SessionInv
<1> QED
  BY <1>1, <1>2, <1>3, <1>4, <1>5, <1>6, CleanupFrame DEF LockInv

\* LockInv is inductive if no lock expires under its holder.
THEOREM LockInvariant == ASSUME ~ LockExpires PROVE Spec => []LockInv
<1>1. Init => LockInv
  BY DEF Init, LockInv
<1>2. IInv /\ SessionInv /\ LockInv /\ [Next]_vars => LockInv'
  <2> SUFFICES ASSUME IInv, SessionInv, LockInv, [Next]_vars
               PROVE  LockInv'
    OBVIOUS
  <2>1. ASSUME NEW s \in Session, ClientNext(s)
        PROVE  LockInv'
    BY <2>1, ClientFrame DEF LockInv
  <2>2. ASSUME NEW s \in Session, KickNext(s)
        PROVE  LockInv'
    BY <2>2, KickFrame DEF LockInv
  <2>3. ASSUME NEW u \in User, Expire(u)
        PROVE  LockInv'
    <3>1. /\ \A s \in Session : ulock[u] = s => login[s] \notin LoginLocked /\ cleanup[s] \notin CleanupLocked
          /\ \A v \in User \ {u} : ulock'[v] = ulock[v]
          /\ UNCHANGED <<login, wanted, cleanup, uid, usession>>
      BY <2>3 DEF IInv, TypeOK, Expire, Stranded
    <3>2. \A s \in Session : /\ login[s] \in LoginLocked => wanted[s] \in User
                             /\ cleanup[s] \in CleanupLocked => uid[s] \in User
      BY DEF IInv, BindsOnce, SessionInv
    <3> QED
      BY <3>1, <3>2 DEF LockInv
  <2>4. ASSUME NEW i \in Instance, Crash(i)
        PROVE  LockInv'
    BY <2>4, CrashFrame DEF LockInv
  <2>5. CASE UNCHANGED vars
    BY <2>5 DEF LockInv, vars
  <2> QED
    BY <2>1, <2>2, <2>3, <2>4, <2>5, LoginLock, CleanupLock DEF Next
<1> QED
  BY <1>1, <1>2, InductiveInvariant, SessionInvariant, PTL DEF Spec

-----------------------------------------------------------------------------
(* Cleanups are final, if Redis answers.                                   *)

\* A cleanup that is past the keys is not the session in usession_<uid>: either
\* it never was, or it has deleted the key; its own login cannot interfere.
KeysInv ==
  \A s \in Session :
    cleanup[s] \in {"delip", "clear", "release"} => usession[uid[s]] # s

\* KeysInv is inductive if no command fails: it needs no lock.
THEOREM KeysInvariant == ASSUME ~ RedisFails PROVE Spec => []KeysInv
<1>1. Init => KeysInv
  BY DEF Init, KeysInv
<1>2. IInv /\ SessionInv /\ KeysInv /\ [Next]_vars => KeysInv'
  <2> SUFFICES ASSUME IInv, SessionInv, KeysInv, [Next]_vars
               PROVE  KeysInv'
    OBVIOUS
  <2>1. ASSUME NEW s \in Session, ClientNext(s)
        PROVE  KeysInv'
    BY <2>1, ClientFrame DEF KeysInv
  <2>2. ASSUME NEW s \in Session, KickNext(s)
        PROVE  KeysInv'
    BY <2>2, KickFrame DEF KeysInv
  <2>3. ASSUME NEW u \in User, Expire(u)
        PROVE  KeysInv'
    BY <2>3 DEF Expire, KeysInv
  <2>4. ASSUME NEW i \in Instance, Crash(i)
        PROVE  KeysInv'
    BY <2>4, CrashFrame DEF KeysInv
  <2>5. ASSUME NEW s \in Session, LoginDequeue(s) \/ LoginNext(s)
        PROVE  KeysInv'
    <3>1. \A u \in User : usession'[u] # usession[u] => usession'[u] = s /\ login[s] \in LoginHolds
      BY <2>5, LoginFrame DEF IInv, TypeOK, LoginSetSession, Written, LoginAt
    <3>2. \A t \in Session : cleanup'[t] \in CleanupHolds =>
                               /\ cleanup'[t] = cleanup[t] /\ uid'[t] = uid[t] /\ uid[t] \in User
                               /\ login[t] \notin LoginHolds
      BY <2>5, LoginFrame DEF IInv, TypeOK, LifecycleHeld, SessionInv, LoginSetIp, LoginAt
    <3> QED
      BY <3>1, <3>2 DEF KeysInv
  <2>6. ASSUME NEW s \in Session, CleanupNext(s)
        PROVE  KeysInv'
    <3>1. cleanup'[s] \in {"delip", "clear", "release"} => usession'[uid[s]] # s
      BY <2>6 DEF IInv, TypeOK, SessionInv, KeysInv, CleanupNext, CleanupAt, CleanupEnter,
         CleanupAcquire, CleanupCheck, CleanupDelSession, Written, CleanupDelIp, CleanupClear,
         CleanupRelease, CleanupDrop
    <3>2. \A u \in User : usession'[u] \in {usession[u], NoSession}
      BY <2>6, CleanupFrame DEF IInv, TypeOK, CleanupDelSession, Written
    <3>3. \A t \in Session : cleanup[t] \in CleanupHolds => uid[t] \in User
      BY DEF SessionInv
    <3> QED
      BY <2>6, <3>1, <3>2, <3>3, CleanupFrame DEF KeysInv
  <2>7. CASE UNCHANGED vars
    BY <2>7 DEF KeysInv, vars
  <2> QED
    BY <2>1, <2>2, <2>3, <2>4, <2>5, <2>6, <2>7 DEF Next
<1> QED
  BY <1>1, <1>2, InductiveInvariant, SessionInvariant, PTL DEF Spec

\* Unless a Redis command fails, a cleanup that ends with the user lock, or without
\* having needed it, leaves its session neither in the table nor in UserMgr nor
\* in usession_<uid>, and no login is about to put it back there; crashes, late
\* or lost kicks and expiring locks do not change that.
THEOREM CleanupEndsForGood == ASSUME ~ RedisFails PROVE Spec => CleanupIsFinal
<1> DEFINE Ends(s) == cleanup[s] \in {"called", "release"} /\ cleanup'[s] = "done"
           Gone(s) == /\ s \notin table'
                      /\ \A i \in Instance, u \in User : umap'[i][u] # s
                      /\ \A u \in User : usession[u] # s
                      /\ login[s] \notin {"auth", "acquire"} \cup LoginLocked
<1>1. IInv /\ IInv' /\ SessionInv /\ KeysInv /\ [Next]_vars =>
        [\A s \in Session : Ends(s) => Gone(s)]_vars
  <2> SUFFICES ASSUME IInv, IInv', SessionInv, KeysInv, [Next]_vars,
                      NEW s \in Session, Ends(s)
               PROVE  Gone(s)
    OBVIOUS
  <2>1. CleanupEnter(s) \/ CleanupRelease(s)
    <3>1. ASSUME NEW t \in Session, ClientNext(t) \/ LoginDequeue(t) \/ LoginNext(t) \/ KickNext(t)
          PROVE  FALSE
      BY <3>1, ClientFrame, LoginFrame, KickFrame
    <3>2. ASSUME NEW i \in Instance, Crash(i)
          PROVE  FALSE
      BY <3>2, CrashFrame
    <3>3. ASSUME NEW u \in User, Expire(u)
          PROVE  FALSE
      BY <3>3 DEF Expire
    <3>4. ~ UNCHANGED vars
      BY DEF vars
    <3>5. PICK t \in Session : CleanupNext(t)
      BY <3>1, <3>2, <3>3, <3>4 DEF Next
    <3>6. t = s
      BY <3>5, CleanupFrame
    <3> QED
      BY <3>5, <3>6 DEF CleanupNext, CleanupAt, CleanupAcquire, CleanupCheck, CleanupDelSession,
         CleanupDelIp, CleanupClear, CleanupDrop
  <2>2. s \notin table'
    BY <2>1 DEF IInv, TypeOK, SessionInv, CleanupEnter, CleanupRelease, CleanupAt, ClearSession
  <2>3. \A i \in Instance, u \in User : umap'[i][u] # s
    BY <2>2 DEF IInv, TypeOK, MappedIsRegistered
  <2>4. \A u \in User : usession[u] # s
    BY <2>1 DEF IInv, TypeOK, SessionInv, KeysInv, CleanupEnter, CleanupRelease, CleanupAt
  <2>5. login[s] \notin {"auth", "acquire"} \cup LoginLocked
    BY <2>1 DEF IInv, LifecycleHeld, CleanupEnter, CleanupRelease, CleanupAt
  <2> QED
    BY <2>2, <2>3, <2>4, <2>5
<1> QED
  BY <1>1, InductiveInvariant, SessionInvariant, KeysInvariant, PTL DEF Spec, CleanupIsFinal

-----------------------------------------------------------------------------
(* Whom the keys stand for, if Redis answers and no lock expires early.    *)

\* ClearSession unmaps its session wherever it is mapped, and nobody else.
LEMMA ClearSessionUnmaps ==
  ASSUME IInv, NEW s \in Session, ClearSession(s), NEW i \in Instance, NEW u \in User
  PROVE  /\ umap'[i][u] # s
         /\ umap'[i][u] = umap[i][u] \/ (umap[i][u] = s /\ umap'[i][u] = NoSession)
BY DEF IInv, TypeOK, MappedIsRegistered, ClearSession, RmvUserSession

\* A session UserMgr hands out for u at i and that is still open.
Online(i, u) == umap[i][u] \notin closed \cup {NoSession}

\* Between the two keys of u being written.
Registered(s, u) == login[s] \in {"map", "setsession"} /\ wanted[s] = u

\* The session that uip_<uid> leads to is the one in usession_<uid>, if it is
\* open and no login is between the writes of the two keys.
RouteInv ==
  /\ \A s \in Session :
       /\ cleanup[s] = "delip" => usession[uid[s]] = NoSession
       /\ login[s] \in {"map", "setsession"} => uip[wanted[s]] = Home[s]
       /\ login[s] = "setsession" => umap[Home[s]][wanted[s]] \in {s, NoSession}
  /\ \A u \in User :
       \/ \E s \in Session : Registered(s, u)
       \/ uip[u] = NoInstance
       \/ ~ Online(uip[u], u)
       \/ usession[u] = umap[uip[u]][u]

\* A login's writes go to the keys and the entries of its user, under the lock.
LEMMA LoginWrites ==
  ASSUME IInv, LockInv, ~ RedisFails, NEW s \in Session, LoginDequeue(s) \/ LoginNext(s)
  PROVE  /\ \A u \in User :
              \/ uip'[u] = uip[u]
              \/ /\ login[s] = "setip" /\ login'[s] = "map" /\ wanted[s] = u
                 /\ uip'[u] = Home[s]
         /\ \A u \in User :
              \/ usession'[u] = usession[u]
              \/ login[s] = "setsession" /\ wanted[s] = u /\ usession'[u] = s
         /\ \A i \in Instance, u \in User :
              \/ umap'[i][u] = umap[i][u]
              \/ umap'[i][u] = NoSession
              \/ /\ login[s] = "map" /\ login'[s] = "setsession" /\ wanted[s] = u /\ i = Home[s]
                 /\ umap'[i][u] = s
         /\ login[s] = "setip" => /\ login'[s] = "map"
                                  /\ uip'[wanted[s]] = Home[s]
         /\ login[s] = "map" => /\ login'[s] = "setsession"
                                /\ umap'[Home[s]][wanted[s]] = s
         /\ login[s] = "setsession" => login'[s] = "unlock" /\ usession'[wanted[s]] = s
         /\ login'[s] = "map" => login[s] = "setip"
         /\ login'[s] = "setsession" => login[s] = "map"
         /\ login[s] \in LoginLocked => wanted'[s] = wanted[s] /\ wanted[s] \in User
<1>1. login[s] \in LoginLocked => wanted[s] \in User
  BY DEF IInv, BindsOnce
<1>2. \A u \in User :
        \/ uip'[u] = uip[u]
        \/ /\ login[s] = "setip" /\ login'[s] = "map" /\ wanted[s] = u
           /\ uip'[u] = Home[s]
  BY LoginFrame DEF IInv, TypeOK, LoginSetIp, LoginAt, Written
<1>3. \A u \in User :
        \/ usession'[u] = usession[u]
        \/ login[s] = "setsession" /\ wanted[s] = u /\ usession'[u] = s
  BY LoginFrame DEF IInv, TypeOK, LoginSetSession, LoginAt, Written
<1>4. \A i \in Instance, u \in User :
        \/ umap'[i][u] = umap[i][u]
        \/ umap'[i][u] = NoSession
        \/ /\ login[s] = "map" /\ login'[s] = "setsession" /\ wanted[s] = u /\ i = Home[s]
           /\ umap'[i][u] = s
  <2>1. CASE LoginMap(s)
    BY <2>1 DEF IInv, TypeOK, LoginMap, LoginAt
  <2>2. CASE LoginClearOld(s)
    <3>1. old[s] \in Session
      BY <2>2 DEF IInv, TypeOK, KicksMapped, LoginClearOld, LoginAt
    <3> QED
      BY <2>2, <3>1, ClearSessionUnmaps DEF LoginClearOld
  <2> QED
    BY <2>1, <2>2, LoginFrame
<1>5. /\ login[s] = "setip" => LoginSetIp(s)
      /\ login[s] = "map" => LoginMap(s)
      /\ login[s] = "setsession" => LoginSetSession(s)
      /\ login'[s] = "map" => login[s] = "setip"
      /\ login'[s] = "setsession" => login[s] = "map"
      /\ login[s] \in LoginLocked => wanted'[s] = wanted[s]
  BY DEF IInv, TypeOK, LoginNext, LoginAt, LoginDequeue, LoginLifecycle,
     LoginAuth, LoginAcquire, TakeLock, LoginRecheck, LoginLocate, LoginNotifyOld, LoginAwaitOld,
     LoginClearOld, LoginRpcDone, LoginSetIp, LoginMap, LoginSetSession, LoginUnlock,
     LoginRespond, LoginAwaitSelf
<1>6. login[s] = "setip" => login'[s] = "map" /\ uip'[wanted[s]] = Home[s]
  BY <1>1, <1>5 DEF IInv, TypeOK, LoginSetIp, LoginAt, Written
<1>7. login[s] = "map" => login'[s] = "setsession" /\ umap'[Home[s]][wanted[s]] = s
  BY <1>1, <1>5 DEF IInv, TypeOK, LoginMap, LoginAt
<1>8. login[s] = "setsession" => login'[s] = "unlock" /\ usession'[wanted[s]] = s
  BY <1>1, <1>5 DEF IInv, TypeOK, LoginSetSession, LoginAt, Written
<1> QED
  BY <1>1, <1>2, <1>3, <1>4, <1>5, <1>6, <1>7, <1>8

\* While one login writes the keys of its user, no other login and no cleanup is
\* between taking and releasing the lock of that user.
LEMMA OneHolder ==
  ASSUME IInv, LockInv, NEW s \in Session, NEW t \in Session,
         \/ login[t] \in LoginLocked /\ wanted[t] = wanted[s]
         \/ cleanup[t] \in CleanupLocked /\ uid[t] = wanted[s],
         login[s] \in LoginLocked
  PROVE  t = s /\ cleanup[t] \notin CleanupLocked
BY DEF IInv, LockInv, LifecycleHeld

\* A login hands the two keys of its user over together.
LEMMA LoginRoute ==
  ASSUME IInv, SessionInv, LockInv, RouteInv, ~ RedisFails,
         NEW s \in Session, LoginDequeue(s) \/ LoginNext(s)
  PROVE  RouteInv'
<1>1. \A t \in Session \ {s} : login'[t] = login[t] /\ wanted'[t] = wanted[t]
  BY LoginFrame
<1>2. \A t \in Session : cleanup'[t] = "delip" => usession'[uid'[t]] = NoSession
  <2> SUFFICES ASSUME NEW t \in Session, cleanup'[t] = "delip"
               PROVE  usession'[uid'[t]] = NoSession
    OBVIOUS
  <2>1. cleanup[t] = "delip" /\ uid[t] \in User
    BY LoginFrame DEF SessionInv
  <2>2. uid'[t] = uid[t]
    BY <2>1, LoginFrame DEF IInv, TypeOK, BindsOnce, LoginSetIp, LoginAt
  <2>3. usession'[uid[t]] = usession[uid[t]]
    BY <2>1, LoginWrites, OneHolder
  <2> QED
    BY <2>1, <2>2, <2>3 DEF RouteInv
<1>3. \A t \in Session : login'[t] \in {"map", "setsession"} => uip'[wanted'[t]] = Home[t]
  <2> SUFFICES ASSUME NEW t \in Session, login'[t] \in {"map", "setsession"}
               PROVE  uip'[wanted'[t]] = Home[t]
    OBVIOUS
  <2>1. CASE t = s
    BY <2>1, LoginWrites DEF RouteInv
  <2>2. CASE t # s
    <3>1. wanted[t] \in User /\ uip[wanted[t]] = Home[t]
      BY <1>1, <2>2 DEF IInv, BindsOnce, RouteInv
    <3>2. uip'[wanted[t]] = uip[wanted[t]]
      BY <1>1, <2>2, <3>1, LoginWrites, OneHolder
    <3> QED
      BY <1>1, <2>2, <3>1, <3>2
  <2> QED
    BY <2>1, <2>2
<1>4. \A t \in Session : login'[t] = "setsession" => umap'[Home[t]][wanted'[t]] \in {t, NoSession}
  <2> SUFFICES ASSUME NEW t \in Session, login'[t] = "setsession"
               PROVE  umap'[Home[t]][wanted'[t]] \in {t, NoSession}
    OBVIOUS
  <2>1. CASE t = s
    BY <2>1, LoginWrites
  <2>2. CASE t # s
    <3>1. wanted[t] \in User /\ umap[Home[t]][wanted[t]] \in {t, NoSession} /\ Home[t] \in Instance
      BY <1>1, <2>2 DEF IInv, BindsOnce, RouteInv
    <3>2. umap'[Home[t]][wanted[t]] \in {umap[Home[t]][wanted[t]], NoSession}
      BY <1>1, <2>2, <3>1, LoginWrites, OneHolder
    <3> QED
      BY <1>1, <2>2, <3>1, <3>2
  <2> QED
    BY <2>1, <2>2
<1>5. \A u \in User :
        \/ \E t \in Session : Registered(t, u)'
        \/ uip'[u] = NoInstance
        \/ ~ Online(uip[u], u)'
        \/ usession'[u] = umap'[uip'[u]][u]
  <2> SUFFICES ASSUME NEW u \in User, \A t \in Session : ~ Registered(t, u)',
                      uip'[u] # NoInstance, Online(uip[u], u)'
               PROVE  usession'[u] = umap'[uip'[u]][u]
    OBVIOUS
  <2>0. ~ (login'[s] \in {"map", "setsession"} /\ wanted'[s] = u)
    BY DEF Registered
  <2>1. uip'[u] = uip[u] /\ uip[u] \in Instance
    <3>1. uip'[u] = uip[u]
      BY <2>0, LoginWrites
    <3> QED
      BY <3>1 DEF IInv, TypeOK
  <2>2. umap'[uip[u]][u] = umap[uip[u]][u]
    BY <1>1, <2>1, LoginWrites DEF Registered, Online
  <2>3. CASE login[s] = "setsession" /\ wanted[s] = u
    BY <2>1, <2>2, <2>3, LoginWrites DEF RouteInv, Online
  <2>4. CASE ~ (login[s] = "setsession" /\ wanted[s] = u)
    <3>1. usession'[u] = usession[u]
      BY <2>4, LoginWrites
    <3>2. \A t \in Session : ~ Registered(t, u)
      BY <1>1, <2>4, LoginWrites DEF Registered
    <3> QED
      BY <2>1, <2>2, <3>1, <3>2, LoginFrame DEF RouteInv, Online
  <2> QED
    BY <2>3, <2>4
<1> QED
  BY <1>2, <1>3, <1>4, <1>5 DEF RouteInv

\* A cleanup deletes the keys of its own session only.
LEMMA CleanupRoute ==
  ASSUME IInv, SessionInv, LockInv, RouteInv, ~ RedisFails, NEW s \in Session, CleanupNext(s)
  PROVE  RouteInv'
<1>1. /\ \A i \in Instance, u \in User : umap'[i][u] \in {umap[i][u], NoSession}
      /\ UNCHANGED <<closed, uid, login, wanted>>
  BY CleanupFrame, ClearSessionUnmaps DEF CleanupEnter, CleanupClear, CleanupDrop
<1>2. \A u \in User :
        \/ usession'[u] = usession[u]
        \/ /\ cleanup[s] = "delsession" /\ cleanup'[s] = "delip" /\ uid[s] = u /\ usession[u] = s
           /\ usession'[u] = NoSession
  BY CleanupFrame DEF IInv, TypeOK, LockInv, CleanupDelSession, CleanupAt, Written
<1>3. \A u \in User :
        \/ uip'[u] = uip[u]
        \/ cleanup[s] = "delip" /\ uid[s] = u /\ uip'[u] = NoInstance
  BY CleanupFrame DEF IInv, TypeOK, CleanupDelIp, CleanupAt, Written
<1>4. cleanup'[s] = "delip" => CleanupDelSession(s)
  BY DEF IInv, TypeOK, CleanupNext, CleanupAt, CleanupEnter, CleanupAcquire, CleanupCheck,
     CleanupDelSession, CleanupDelIp, CleanupClear, CleanupRelease, CleanupDrop
<1>5. \A t \in Session : cleanup'[t] = "delip" => usession'[uid'[t]] = NoSession
  <2> SUFFICES ASSUME NEW t \in Session, cleanup'[t] = "delip"
               PROVE  usession'[uid[t]] = NoSession
    BY <1>1
  <2>1. CASE t = s
    BY <1>4, <2>1 DEF IInv, TypeOK, SessionInv, CleanupDelSession, CleanupAt, Written
  <2>2. CASE t # s
    <3>1. cleanup[t] = "delip" /\ uid[t] \in User /\ usession[uid[t]] = NoSession
      BY <2>2, CleanupFrame DEF SessionInv, RouteInv
    <3> QED
      BY <1>2, <3>1
  <2> QED
    BY <2>1, <2>2
<1>6. \A t \in Session :
        login[t] \in {"map", "setsession"} => /\ uip'[wanted[t]] = uip[wanted[t]]
                                              /\ wanted[t] \in User
  <2> SUFFICES ASSUME NEW t \in Session, login[t] \in {"map", "setsession"}
               PROVE  uip'[wanted[t]] = uip[wanted[t]] /\ wanted[t] \in User
    OBVIOUS
  <2>1. wanted[t] \in User
    BY DEF IInv, BindsOnce
  <2>2. ~ (cleanup[s] = "delip" /\ uid[s] = wanted[t])
    BY OneHolder
  <2> QED
    BY <1>3, <2>1, <2>2
<1>7. \A u \in User :
        \/ \E t \in Session : Registered(t, u)'
        \/ uip'[u] = NoInstance
        \/ ~ Online(uip[u], u)'
        \/ usession'[u] = umap'[uip'[u]][u]
  <2> SUFFICES ASSUME NEW u \in User, \A t \in Session : ~ Registered(t, u)',
                      uip'[u] # NoInstance, Online(uip[u], u)'
               PROVE  usession'[u] = umap'[uip'[u]][u]
    OBVIOUS
  <2>1. uip'[u] = uip[u] /\ uip[u] \in Instance
    BY <1>3 DEF IInv, TypeOK
  <2>2. umap'[uip[u]][u] = umap[uip[u]][u] /\ Online(uip[u], u)
    BY <1>1, <2>1 DEF Online
  <2>3. usession[u] = umap[uip[u]][u]
    BY <1>1, <2>1, <2>2 DEF RouteInv, Registered
  <2>4. usession'[u] = usession[u]
    BY <1>2, <2>2, <2>3 DEF Online, SessionInv
  <2> QED
    BY <2>1, <2>2, <2>3, <2>4
<1> QED
  BY <1>1, <1>5, <1>6, <1>7 DEF RouteInv

\* RouteInv is inductive if no command fails and no lock expires early, whatever
\* becomes of kicks and processes.
THEOREM RouteInvariant == ASSUME ~ RedisFails, ~ LockExpires PROVE Spec => []RouteInv
<1>1. Init => RouteInv
  BY DEF Init, RouteInv, Online
<1>2. IInv /\ SessionInv /\ LockInv /\ RouteInv /\ [Next]_vars => RouteInv'
  <2> SUFFICES ASSUME IInv, SessionInv, LockInv, RouteInv, [Next]_vars
               PROVE  RouteInv'
    OBVIOUS
  <2>1. ASSUME NEW s \in Session, ClientNext(s)
        PROVE  RouteInv'
    <3>1. /\ UNCHANGED <<uid, umap, uip, usession>>
          /\ closed \subseteq closed'
          /\ \A t \in Session :
               /\ login[t] \in {"map", "setsession"} <=> login'[t] \in {"map", "setsession"}
               /\ login'[t] = "setsession" => login[t] = "setsession"
               /\ login[t] \in {"map", "setsession"} => wanted'[t] = wanted[t]
               /\ cleanup'[t] = "delip" => cleanup[t] = "delip"
      BY <2>1, ClientFrame DEF SessionInv
    <3> QED
      BY <3>1 DEF RouteInv, Online, Registered
  <2>2. ASSUME NEW s \in Session, KickNext(s)
        PROVE  RouteInv'
    <3>1. \A i \in Instance, u \in User : umap'[i][u] \in {umap[i][u], NoSession}
      <4>1. CASE KickClear(s)
        <5>1. victim[s] \in Session
          BY <4>1 DEF IInv, TypeOK, KicksMapped, KickClear, KickEnd, KickTo
        <5> QED
          BY <4>1, <5>1, ClearSessionUnmaps DEF KickClear
      <4> QED
        BY <2>2, <4>1, KickFrame
    <3>2. /\ UNCHANGED <<uid, login, wanted, uip, usession>>
          /\ closed \subseteq closed'
          /\ \A t \in Session : cleanup'[t] = "delip" => cleanup[t] = "delip"
      BY <2>2, KickFrame
    <3>3. \A t \in Session : login[t] \in {"map", "setsession"} => wanted[t] \in User
      BY DEF IInv, BindsOnce
    <3>4. \A u \in User : uip[u] # NoInstance => uip[u] \in Instance
      BY DEF IInv, TypeOK
    <3> QED
      BY <3>1, <3>2, <3>3, <3>4 DEF RouteInv, Online, Registered
  <2>3. ASSUME NEW u \in User, Expire(u)
        PROVE  RouteInv'
    BY <2>3 DEF Expire, RouteInv, Online, Registered
  <2>4. ASSUME NEW i \in Instance, Crash(i)
        PROVE  RouteInv'
    <3>1. \A t \in Session :
            \/ login'[t] = "idle" /\ cleanup'[t] = "idle" /\ Home[t] = i
            \/ /\ login'[t] = login[t] /\ cleanup'[t] = cleanup[t] /\ wanted'[t] = wanted[t]
               /\ login[t] # "idle" => Home[t] # i
      BY <2>4, CrashFrame DEF SessionInv
    <3>2. \A j \in Instance, u \in User :
            umap'[j][u] = IF j = i THEN NoSession ELSE umap[j][u]
      BY <2>4, CrashFrame
    <3>3. UNCHANGED <<closed, uid, uip, usession>>
      BY <2>4, CrashFrame
    <3>4. \A t \in Session : login[t] \in {"map", "setsession"} => wanted[t] \in User
      BY DEF IInv, BindsOnce
    <3>5. \A t \in Session :
            /\ cleanup'[t] = "delip" => usession'[uid'[t]] = NoSession
            /\ login'[t] \in {"map", "setsession"} => uip'[wanted'[t]] = Home[t]
            /\ login'[t] = "setsession" => umap'[Home[t]][wanted'[t]] \in {t, NoSession}
      BY <3>1, <3>2, <3>3, <3>4 DEF RouteInv
    <3>6. ASSUME NEW u \in User, \A t \in Session : ~ Registered(t, u)',
                 uip'[u] # NoInstance, Online(uip[u], u)'
          PROVE  usession'[u] = umap'[uip'[u]][u]
      <4>1. uip[u] \in Instance /\ uip[u] # i /\ umap'[uip[u]][u] = umap[uip[u]][u]
        BY <3>2, <3>3, <3>6 DEF IInv, TypeOK, Online
      <4>2. \A t \in Session : ~ Registered(t, u)
        BY <3>1, <3>6, <4>1 DEF Registered, RouteInv
      <4> QED
        BY <3>3, <3>6, <4>1, <4>2 DEF RouteInv, Online
    <3> QED
      BY <3>5, <3>6 DEF RouteInv
  <2>5. CASE UNCHANGED vars
    BY <2>5 DEF vars, RouteInv, Online, Registered
  <2> QED
    BY <2>1, <2>2, <2>3, <2>4, <2>5, LoginRoute, CleanupRoute DEF Next
<1> QED
  BY <1>1, <1>2, InductiveInvariant, SessionInvariant, LockInvariant, PTL DEF Spec

\* "Must not delete the state of a new connection" (CSession.cpp:369): unless a
\* Redis command fails or a lock expires under its holder, usession_<uid> is
\* deleted only when its session is closed, and uip_<uid> only when no open session
\* of the user is left where it leads; crashes and lost kicks included.
THEOREM DeletesItsOwn ==
  ASSUME ~ RedisFails, ~ LockExpires PROVE Spec => DeletesOwnStateOnly
<1> DEFINE Own(u) == /\ usession[u] # NoSession /\ usession'[u] = NoSession =>
                          usession[u] \in closed
                     /\ uip[u] # NoInstance /\ uip'[u] = NoInstance =>
                          umap[uip[u]][u] \in closed \cup {NoSession}
<1>1. IInv /\ SessionInv /\ LockInv /\ RouteInv /\ [Next]_vars => [\A u \in User : Own(u)]_vars
  <2> SUFFICES ASSUME IInv, SessionInv, LockInv, RouteInv, Next, NEW u \in User
               PROVE  Own(u)
    BY DEF vars
  <2>1. ASSUME NEW s \in Session, ClientNext(s) \/ KickNext(s)
        PROVE  Own(u)
    BY <2>1, ClientFrame, KickFrame
  <2>2. ASSUME NEW s \in Session, LoginDequeue(s) \/ LoginNext(s)
        PROVE  Own(u)
    <3>1. Home[s] # NoInstance /\ s # NoSession
      OBVIOUS
    <3> QED
      BY <2>2, <3>1, LoginWrites
  <2>3. ASSUME NEW s \in Session, CleanupNext(s)
        PROVE  Own(u)
    <3>1. /\ usession'[u] # usession[u] => usession[u] = s /\ s \in closed
          /\ uip'[u] # uip[u] => cleanup[s] = "delip" /\ uid[s] = u
      BY <2>3, CleanupFrame DEF IInv, TypeOK, SessionInv, LockInv, CleanupDelSession,
         CleanupDelIp, CleanupAt, Written
    <3>2. ASSUME cleanup[s] = "delip", uid[s] = u, uip[u] # NoInstance
          PROVE  ~ Online(uip[u], u)
      <4>1. usession[u] = NoSession
        BY <3>2 DEF RouteInv
      <4>2. \A t \in Session : ~ Registered(t, u)
        BY <3>2, OneHolder DEF Registered
      <4> QED
        BY <3>2, <4>1, <4>2 DEF RouteInv, Online
    <3> QED
      BY <3>1, <3>2 DEF Online
  <2>4. ASSUME (\E v \in User : Expire(v)) \/ (\E i \in Instance : Crash(i))
        PROVE  Own(u)
    BY <2>4, CrashFrame DEF Expire
  <2> QED
    BY <2>1, <2>2, <2>3, <2>4 DEF Next
<1> QED
  BY <1>1, InductiveInvariant, SessionInvariant, LockInvariant, RouteInvariant, PTL
     DEF Spec, DeletesOwnStateOnly

-----------------------------------------------------------------------------
(* The login protocol implements LoginRegistry.                            *)

\* What stands for `spent' and `ended' of the registry.
Spent == {s \in Session : uid[s] # NoUser /\ login[s] \notin {"map", "setsession"}}
Ended == closed \cup {s \in Session : conn[s] = "gone"}

\* A step that writes no owner, ends some connections and makes some of those
\* forfeit is the registry's End, or a stutter.
LEMMA EndingIsAStep ==
  ASSUME UNCHANGED usession, NEW S \in SUBSET Session, NEW T \in SUBSET S,
         Ended' = Ended \cup S, Spent' = Spent \cup T
  PROVE  Registry!Next
<1>1. Registry!Forfeit(T)
  BY DEF Registry!Forfeit, Spent
<1>2. Registry!End(S)
  BY <1>1 DEF Registry!End, Ended
<1> QED
  BY <1>2 DEF Registry!Next

\* A login's write to usession_<uid> registers its session, which had not
\* taken a user before; if the write fails, its chance is gone.
LEMMA LoginRegisters ==
  ASSUME IInv, SessionInv, NEW s \in Session, LoginDequeue(s) \/ LoginNext(s)
  PROVE  Registry!Next
<1>1. CASE LoginSetSession(s)
  <2>1. /\ Spent' = Spent \cup {s} /\ s \notin Spent
        /\ Ended' = Ended
        /\ wanted[s] \in User
    BY <1>1 DEF IInv, TypeOK, BindsOnce, SessionInv, LoginSetSession, LoginAt, Spent, Ended
  <2>2. CASE usession' = [usession EXCEPT ![wanted[s]] = s]
    <3>1. Registry!Register(wanted[s], s)
      BY <2>1, <2>2 DEF Registry!Register, Spent, Ended
    <3> QED
      BY <2>1, <3>1 DEF Registry!Next
  <2>3. CASE UNCHANGED usession
    <3>1. Registry!Forfeit({s})
      BY <2>1, <2>3 DEF Registry!Forfeit, Spent
    <3>2. UNCHANGED Ended
      BY <2>1
    <3> QED
      BY <3>1, <3>2 DEF Registry!Next, Ended
  <2> QED
    BY <1>1, <2>2, <2>3 DEF LoginSetSession, Written
<1>2. CASE ~ LoginSetSession(s)
  <2>1. login'[s] \in {"map", "setsession"} \/ (uid'[s] = uid[s] /\ login[s] \notin {"map", "setsession"})
    BY <1>2, LoginFrame DEF IInv, TypeOK, LoginNext, LoginAt, LoginDequeue, LoginLifecycle,
       LoginAuth, LoginAcquire, LoginRecheck, LoginLocate, LoginNotifyOld, LoginAwaitOld,
       LoginClearOld, LoginRpcDone, LoginSetIp, LoginMap, LoginUnlock, LoginRespond,
       LoginAwaitSelf
  <2>2. login'[s] \in {"map", "setsession"} => uid[s] = NoUser \/ login[s] \in {"map", "setsession"}
    BY DEF IInv, TypeOK, BindsOnce, LoginNext, LoginAt, LoginDequeue, LoginLifecycle,
       LoginAuth, LoginAcquire, LoginRecheck, LoginLocate, LoginNotifyOld, LoginAwaitOld,
       LoginClearOld, LoginRpcDone, LoginSetIp, LoginMap, LoginSetSession, LoginUnlock,
       LoginRespond, LoginAwaitSelf
  <2>3. Spent' = Spent
    BY <2>1, <2>2, LoginFrame DEF Spent
  <2>4. PICK S \in SUBSET Session : Ended' = Ended \cup S
    <3>1. Ended' = Ended \cup (closed' \ closed) /\ closed' \subseteq Session
      BY LoginFrame, LoginType DEF Ended, IInv, IInvBind, TypeOK
    <3> QED
      BY <3>1
  <2>5. {} \in SUBSET S /\ Spent' = Spent \cup {}
    BY <2>3
  <2>6. UNCHANGED usession
    BY <1>2, LoginFrame
  <2> QED
    BY <2>4, <2>5, <2>6, EndingIsAStep
<1> QED
  BY <1>1, <1>2

\* A cleanup's deletion of usession_<uid> withdraws an owner that has ended.
LEMMA CleanupWithdraws ==
  ASSUME IInv, SessionInv, LockInv, NEW s \in Session, CleanupNext(s)
  PROVE  Registry!Next \/ UNCHANGED Registry!vars
<1>1. UNCHANGED <<Spent, Ended>>
  BY CleanupFrame DEF Spent, Ended
<1>2. CASE UNCHANGED usession
  BY <1>1, <1>2 DEF Registry!vars, Spent, Ended
<1>3. CASE CleanupDelSession(s) /\ ~ UNCHANGED usession
  <2>1. /\ uid[s] \in User
        /\ usession[uid[s]] = s /\ s \in Ended
        /\ usession' = [usession EXCEPT ![uid[s]] = NoSession]
    BY <1>3 DEF SessionInv, LockInv, CleanupDelSession, CleanupAt, Written, Ended
  <2>2. Registry!Withdraw(uid[s])
    BY <1>1, <2>1 DEF Registry!Withdraw, Spent, Ended
  <2> QED
    BY <2>1, <2>2 DEF Registry!Next
<1> QED
  BY <1>2, <1>3, CleanupFrame

\* Under every fault but a lock that expires under its holder, a user is owned
\* by the last session that registered; no session registers twice; and an owner
\* is withdrawn only after its connection has ended.
THEOREM KeepsTheRegistry == ASSUME ~ LockExpires PROVE Spec => ImplementsRegistry
<1>1. Init => Registry!Init
  BY DEF Init, Registry!Init
<1>2. IInv /\ IInv' /\ SessionInv /\ LockInv /\ [Next]_vars => [Registry!Next]_(Registry!vars)
  <2> SUFFICES ASSUME IInv, IInv', SessionInv, LockInv, [Next]_vars
               PROVE  Registry!Next \/ UNCHANGED Registry!vars
    OBVIOUS
  <2>1. ASSUME NEW s \in Session, ClientNext(s) \/ KickNext(s)
        PROVE  Registry!Next
    <3>1. Spent' = Spent /\ UNCHANGED usession
      BY <2>1, ClientFrame, KickFrame DEF Spent
    <3>2. closed \subseteq closed' /\ closed' \subseteq Session
      BY <2>1, ClientFrame, KickFrame DEF IInv, TypeOK
    <3>3. \A t \in Session : conn'[t] = "gone" <=> conn[t] = "gone"
      BY <2>1, ClientFrame, KickFrame DEF Accept, IInv, TypeOK
    <3>4. Ended' = Ended \cup (closed' \ closed)
      BY <3>2, <3>3 DEF Ended
    <3>5. PICK S \in SUBSET Session : Ended' = Ended \cup S
      BY <3>2, <3>4
    <3>6. {} \in SUBSET S /\ Spent' = Spent \cup {}
      BY <3>1
    <3> QED
      BY <3>1, <3>5, <3>6, EndingIsAStep
  <2>2. ASSUME NEW u \in User, Expire(u)
        PROVE  UNCHANGED Registry!vars
    BY <2>2 DEF Expire, Registry!vars
  <2>3. ASSUME NEW i \in Instance, Crash(i)
        PROVE  Registry!Next
    <3> DEFINE D == {s \in Session : Home[s] = i /\ conn[s] = "up"}
               T == {s \in D : uid[s] # NoUser /\ login[s] \in {"map", "setsession"}}
    <3>1. UNCHANGED <<closed, uid, usession>>
      BY <2>3, CrashFrame
    <3>2. \A s \in Session : \/ s \in D /\ conn'[s] = "gone" /\ login'[s] = "idle"
                             \/ s \notin D /\ conn'[s] = conn[s] /\ login'[s] = login[s]
      BY <2>3, CrashFrame
    <3>3. Ended' = Ended \cup D
      BY <3>1, <3>2 DEF Ended
    <3>4. Spent' = Spent \cup T
      BY <3>1, <3>2 DEF Spent
    <3>5. D \in SUBSET Session /\ T \in SUBSET D
      OBVIOUS
    <3> HIDE DEF D, T
    <3> QED
      BY <3>1, <3>3, <3>4, <3>5, EndingIsAStep
  <2>4. CASE UNCHANGED vars
    BY <2>4 DEF vars, Registry!vars
  <2> QED
    BY <2>1, <2>2, <2>3, <2>4, LoginRegisters, CleanupWithdraws DEF Next
<1> QED
  BY <1>1, <1>2, InductiveInvariant, SessionInvariant, LockInvariant, PTL
     DEF Spec, ImplementsRegistry, Registry!Spec

-----------------------------------------------------------------------------
(* One open session per user, if kicks arrive in time as well.             *)

\* No instance hands out an open session of u.
Nobody(u) == \A i \in Instance : ~ Online(i, u)

\* The kick of s is under way where uip_<u> leads, and its handler has found the
\* session that is mapped there, unless that one has gone since.
KickUnderWay(s, u) ==
  /\ kick[s] # "none"
  /\ kickUser[s] = u
  /\ kickAt[s] = uip[u]
  /\ kick[s] # "sent" => umap[uip[u]][u] \in {victim[s], NoSession}

\* Until it writes the keys, the login has got rid of the session that was there,
\* or is about to; and then only its own session is handed out.
Prepared(s) ==
  /\ login[s] \in {"setip", "map"} => Nobody(wanted[s])
  /\ login[s] = "setsession" =>
       \A i \in Instance : Online(i, wanted[s]) => i = Home[s]
  /\ login[s] \in {"notify", "awaitOld", "clearOld"} =>
       /\ uip[wanted[s]] = Home[s]
       /\ umap[Home[s]][wanted[s]] \in {old[s], NoSession}
  /\ login[s] = "rpc" => Nobody(wanted[s]) \/ KickUnderWay(s, wanted[s])

\* Open sessions are handed out only where uip_<uid> leads, unless a login is
\* between the writes of the keys.
WhereUipLeads(u) ==
  \/ \E s \in Session : Registered(s, u)
  \/ \A i \in Instance : Online(i, u) => uip[u] = i

OnlineInv ==
  /\ \A u \in User : WhereUipLeads(u)
  /\ \A s \in Session : Prepared(s)

\* Nobody registers a user whose lock a login holds before its writes.
LEMMA NoneRegistered ==
  ASSUME IInv, LockInv, NEW s \in Session,
         login[s] \in LoginLocked \ {"map", "setsession"}
  PROVE  \A t \in Session : ~ Registered(t, wanted[s])
BY OneHolder DEF Registered

\* A step of another activity leaves the user of a login at work alone: at most
\* it closes or unmaps somebody.
LEMMA StaysPrepared ==
  ASSUME NEW s \in Session, Prepared(s),
         wanted'[s] = wanted[s], login'[s] = login[s], old'[s] = old[s],
         uip'[wanted[s]] = uip[wanted[s]],
         \A i \in Instance : umap'[i][wanted[s]] \in {umap[i][wanted[s]], NoSession},
         closed \subseteq closed',
         login[s] = "rpc" /\ KickUnderWay(s, wanted[s]) =>
           Nobody(wanted[s])' \/ KickUnderWay(s, wanted[s])'
  PROVE  Prepared(s)'
<1>1. \A i \in Instance : Online(i, wanted[s])' => Online(i, wanted[s])
  BY DEF Online
<1>2. Nobody(wanted[s]) => Nobody(wanted[s])'
  BY <1>1 DEF Nobody
<1>3. umap[Home[s]][wanted[s]] \in {old[s], NoSession} =>
        umap'[Home[s]][wanted[s]] \in {old[s], NoSession}
  OBVIOUS
<1> QED
  BY <1>1, <1>2, <1>3 DEF Prepared

\* So is a kick that is not concerned by the step.
LEMMA StaysUnderWay ==
  ASSUME IInv, NEW s \in Session, NEW u \in User, KickUnderWay(s, u),
         kick'[s] = kick[s], kickUser'[s] = kickUser[s], kickAt'[s] = kickAt[s],
         victim'[s] = victim[s], uip'[u] = uip[u],
         \A i \in Instance : umap'[i][u] \in {umap[i][u], NoSession}
  PROVE  KickUnderWay(s, u)'
<1>1. kickAt[s] \in Instance
  BY DEF IInv, KicksMapped, KickUnderWay
<1> QED
  BY <1>1 DEF KickUnderWay

\* Where a user's entries only shrink and its keys stay, uip_<uid> keeps leading
\* to whoever is open, unless the login that was registering the user stops.
LEMMA StillLeads ==
  ASSUME NEW u \in User, WhereUipLeads(u),
         uip'[u] = uip[u], closed \subseteq closed',
         \A i \in Instance : umap'[i][u] \in {umap[i][u], NoSession},
         \A s \in Session : Registered(s, u) => Registered(s, u)'
  PROVE  WhereUipLeads(u)'
<1>1. \A i \in Instance : Online(i, u)' => Online(i, u)
  BY DEF Online
<1> QED
  BY <1>1 DEF WhereUipLeads

\* The step of a login brings it closer to the keys only as the old session goes.
LEMMA LoginPrepares ==
  ASSUME IInv, SessionInv, LockInv, OnlineInv, ~ RedisFails, ~ LossyRpc,
         NEW s \in Session, LoginDequeue(s) \/ LoginNext(s),
         \A t \in Session : kick[t] = "awaitOld" => victim[t] \in closed
  PROVE  Prepared(s)'
<1> DEFINE u == wanted[s]
<1>1. CASE login'[s] \notin {"notify", "awaitOld", "clearOld", "rpc", "setip", "map", "setsession"}
  BY <1>1 DEF Prepared
<1>2. CASE login'[s] \in {"notify", "awaitOld", "clearOld", "rpc", "setip", "map", "setsession"}
  <2>1. /\ login[s] \in LoginLocked \ {"recheck", "unlock", "setsession"}
        /\ wanted'[s] = u /\ u \in User /\ Home[s] \in Instance
    <3>1. login[s] \in LoginLocked \ {"recheck", "unlock", "setsession"}
      BY <1>2 DEF IInv, TypeOK, LoginNext, LoginAt, LoginDequeue, LoginLifecycle,
         LoginAuth, LoginAcquire, LoginRecheck, LoginLocate, LoginNotifyOld, LoginAwaitOld,
         LoginClearOld, LoginRpcDone, LoginSetIp, LoginMap, LoginSetSession, LoginUnlock,
         LoginRespond, LoginAwaitSelf
    <3>2. wanted'[s] = u /\ u \in User
      BY <3>1, LoginWrites
    <3> QED
      BY <3>1, <3>2
  <2>2. login[s] # "map" /\ login[s] # "setip" => \A i \in Instance : Online(i, u) => uip[u] = i
    BY <2>1, NoneRegistered DEF OnlineInv, WhereUipLeads
  <2>3. CASE LoginLocate(s)
    <3>1. /\ UNCHANGED <<closed, umap, uip>>
          /\ login[s] = "locate"
      BY <2>3 DEF LoginLocate, LoginAt
    <3>2. CASE login'[s] = "setip"
      <4>1. uip[u] = NoInstance \/ (uip[u] = Home[s] /\ umap[Home[s]][u] = NoSession)
        BY <2>3, <3>2 DEF LoginLocate, LoginAt, IInv, TypeOK
      <4>2. Nobody(u)
        BY <2>2, <3>1, <4>1 DEF Nobody, Online
      <4>3. Nobody(u)'
        BY <2>1, <3>1, <4>2 DEF Nobody, Online
      <4> QED
        BY <2>1, <3>2, <4>3 DEF Prepared
    <3>3. CASE login'[s] = "notify"
      BY <2>1, <2>3, <3>3 DEF Prepared, LoginLocate, LoginAt, IInv, TypeOK
    <3>4. CASE login'[s] = "rpc"
      <4>1. kick'[s] = "sent" /\ kickUser'[s] = u /\ kickAt'[s] = uip[u] /\ uip'[u] = uip[u]
        BY <2>3, <3>4 DEF LoginLocate, LoginAt, IInv, TypeOK
      <4>2. KickUnderWay(s, u)'
        BY <2>1, <4>1 DEF KickUnderWay
      <4> QED
        BY <2>1, <3>4, <4>2 DEF Prepared
    <3> QED
      BY <2>3, <3>2, <3>3, <3>4 DEF LoginLocate, LoginAt, IInv, TypeOK
  <2>4. CASE LoginNotifyOld(s) \/ LoginAwaitOld(s)
    <3>1. /\ login[s] \in {"notify", "awaitOld"} /\ login'[s] \in {"awaitOld", "clearOld"}
          /\ UNCHANGED <<old, uip, umap>>
      BY <2>4 DEF LoginNotifyOld, LoginAwaitOld, LoginAt, IInv, TypeOK
    <3> QED
      BY <2>1, <3>1 DEF OnlineInv, Prepared
  <2>5. CASE LoginClearOld(s)
    <3>1. /\ login[s] = "clearOld" /\ login'[s] = "setip"
          /\ UNCHANGED <<closed, uip>> /\ old[s] \in Session /\ ClearSession(old[s])
      BY <2>5 DEF LoginClearOld, LoginAt, IInv, TypeOK, KicksMapped
    <3>2. umap'[Home[s]][u] = NoSession
      BY <2>1, <3>1, ClearSessionUnmaps DEF OnlineInv, Prepared
    <3>3. \A i \in Instance : i # Home[s] => ~ Online(i, u)
      BY <2>2, <3>1 DEF OnlineInv, Prepared
    <3>4. \A i \in Instance : umap'[i][u] \in {umap[i][u], NoSession}
      BY <2>1, <3>1, ClearSessionUnmaps
    <3>5. Nobody(u)'
      BY <2>1, <3>1, <3>2, <3>3, <3>4 DEF Nobody, Online
    <3> QED
      BY <2>1, <3>1, <3>5 DEF Prepared
  <2>6. CASE LoginRpcDone(s)
    <3>1. /\ login[s] = "rpc" /\ login'[s] = "setip"
          /\ UNCHANGED <<closed, uip, umap>>
          /\ kick[s] \in {"none", "awaitOld"}
      BY <2>6 DEF LoginRpcDone, LoginAt, IInv, TypeOK
    <3>2. Nobody(u)
      <4>1. CASE KickUnderWay(s, u)
        <5>1. umap[uip[u]][u] \in closed \cup {NoSession}
          BY <3>1, <4>1 DEF KickUnderWay
        <5> QED
          BY <2>2, <3>1, <5>1 DEF Nobody, Online
      <4> QED
        BY <3>1, <4>1 DEF OnlineInv, Prepared
    <3>3. Nobody(u)'
      BY <2>1, <3>1, <3>2 DEF Nobody, Online
    <3> QED
      BY <2>1, <3>1, <3>3 DEF Prepared
  <2>7. CASE LoginSetIp(s)
    <3>1. login[s] = "setip" /\ login'[s] = "map" /\ UNCHANGED <<closed, umap>>
      BY <2>7 DEF LoginSetIp, LoginAt, IInv, TypeOK
    <3>2. Nobody(u)'
      BY <2>1, <3>1 DEF OnlineInv, Prepared, Nobody, Online
    <3> QED
      BY <2>1, <3>1, <3>2 DEF Prepared
  <2>8. CASE LoginMap(s)
    <3>1. login[s] = "map" /\ login'[s] = "setsession" /\ UNCHANGED closed
      BY <2>8 DEF LoginMap, LoginAt, IInv, TypeOK
    <3>2. \A i \in Instance : i # Home[s] => umap'[i][u] = umap[i][u]
      BY <2>1, <2>8 DEF LoginMap, IInv, TypeOK
    <3>3. \A i \in Instance : Online(i, u)' => i = Home[s]
      BY <2>1, <3>1, <3>2 DEF OnlineInv, Prepared, Nobody, Online
    <3> QED
      BY <2>1, <3>1, <3>3 DEF Prepared
  <2> QED
    BY <1>2, <2>1, <2>3, <2>4, <2>5, <2>6, <2>7, <2>8 DEF LoginNext, LoginAt, LoginDequeue,
       LoginLifecycle, LoginAuth, LoginAcquire, LoginRecheck, LoginSetSession, LoginUnlock,
       LoginRespond, LoginAwaitSelf, IInv, TypeOK
<1> QED
  BY <1>1, <1>2

\* A login registers its user where uip_<uid> leads, and disturbs nobody else.
LEMMA LoginOnline ==
  ASSUME IInv, SessionInv, LockInv, RouteInv, OnlineInv, ~ RedisFails, ~ LossyRpc,
         NEW s \in Session, LoginDequeue(s) \/ LoginNext(s)
  PROVE  OnlineInv'
<1>1. Prepared(s)'
  BY LoginPrepares DEF SessionInv
<1>2. ASSUME NEW t \in Session, t # s
      PROVE  Prepared(t)'
  <2>1. login'[t] = login[t] /\ wanted'[t] = wanted[t] /\ old'[t] = old[t]
    BY <1>2, LoginFrame
  <2>2. CASE login[t] \notin LoginLocked
    BY <2>1, <2>2 DEF Prepared
  <2>3. CASE login[t] \in LoginLocked
    <3>1. wanted[t] \in User /\ Prepared(t)
      BY <2>3 DEF IInv, BindsOnce, OnlineInv
    <3>2. ~ (login[s] \in LoginLocked /\ wanted[s] = wanted[t])
      BY <1>2, <2>3, OneHolder
    <3>3. /\ uip'[wanted[t]] = uip[wanted[t]]
          /\ \A i \in Instance : umap'[i][wanted[t]] \in {umap[i][wanted[t]], NoSession}
      BY <3>1, <3>2, LoginWrites
    <3>4. /\ kick'[t] = kick[t] /\ kickUser'[t] = kickUser[t] /\ kickAt'[t] = kickAt[t]
          /\ victim'[t] = victim[t]
      <4>1. CASE LoginLocate(s)
        BY <1>2, <4>1 DEF LoginLocate, IInv, TypeOK
      <4> QED
        BY <4>1, LoginFrame
    <3>5. KickUnderWay(t, wanted[t]) => KickUnderWay(t, wanted[t])'
      BY <2>1, <3>1, <3>3, <3>4 DEF KickUnderWay, IInv, KicksMapped
    <3> QED
      BY <2>1, <3>1, <3>3, <3>5, StaysPrepared, LoginFrame
  <2> QED
    BY <2>2, <2>3
<1>3. ASSUME NEW u \in User
      PROVE  WhereUipLeads(u)'
  <2>1. CASE Registered(s, u)'
    BY <2>1 DEF WhereUipLeads
  <2>2. CASE Registered(s, u) /\ ~ Registered(s, u)'
    <3>1. /\ login[s] = "setsession" /\ login'[s] = "unlock" /\ wanted[s] = u
          /\ uip'[u] = uip[u] /\ uip[u] = Home[s]
      BY <2>2, LoginWrites DEF Registered, RouteInv
    <3>2. UNCHANGED <<umap, closed>>
      BY <3>1 DEF LoginNext, LoginAt, LoginDequeue, LoginLifecycle, LoginAuth, LoginAcquire,
       LoginRecheck, LoginLocate, LoginNotifyOld, LoginAwaitOld, LoginClearOld, LoginRpcDone,
       LoginSetIp, LoginMap, LoginSetSession, LoginUnlock, LoginRespond, LoginAwaitSelf
    <3>3. \A i \in Instance : Online(i, u)' => uip'[u] = i
      BY <3>1, <3>2 DEF OnlineInv, Prepared, Online
    <3> QED
      BY <3>3 DEF WhereUipLeads
  <2>3. CASE ~ Registered(s, u) /\ ~ Registered(s, u)'
    <3>1. ~ (login'[s] \in {"map", "setsession"} /\ login[s] \in LoginLocked /\ wanted[s] = u)
      BY <2>3, LoginWrites DEF Registered
    <3>2. /\ uip'[u] = uip[u]
          /\ \A i \in Instance : umap'[i][u] \in {umap[i][u], NoSession}
      BY <3>1, LoginWrites
    <3>3. \A t \in Session : Registered(t, u) => Registered(t, u)'
      BY <2>3, LoginFrame DEF Registered
    <3>4. WhereUipLeads(u) /\ closed \subseteq closed'
      BY LoginFrame DEF OnlineInv
    <3> QED
      BY <3>2, <3>3, <3>4, StillLeads
  <2> QED
    BY <2>1, <2>2, <2>3
<1> QED
  BY <1>1, <1>2, <1>3 DEF OnlineInv

\* A cleanup that deletes uip_<uid> leaves nobody online it could have led to.
LEMMA CleanupOnline ==
  ASSUME IInv, SessionInv, LockInv, RouteInv, OnlineInv, NEW s \in Session, CleanupNext(s)
  PROVE  OnlineInv'
<1>1. /\ \A i \in Instance, u \in User : umap'[i][u] \in {umap[i][u], NoSession}
      /\ UNCHANGED <<closed, uid, loginVars, kickVars>>
  BY CleanupFrame, ClearSessionUnmaps DEF CleanupEnter, CleanupClear, CleanupDrop
<1>2. \A u \in User : uip'[u] = uip[u] \/ (cleanup[s] = "delip" /\ uid[s] = u)
  BY CleanupFrame DEF IInv, TypeOK, CleanupDelIp, CleanupAt, Written
<1>3. ASSUME NEW t \in Session
      PROVE  Prepared(t)'
  <2>1. CASE login[t] \notin LoginLocked
    BY <1>1, <2>1 DEF Prepared
  <2>2. CASE login[t] \in LoginLocked
    <3>1. wanted[t] \in User /\ Prepared(t)
      BY <2>2 DEF IInv, BindsOnce, OnlineInv
    <3>2. ~ (cleanup[s] \in CleanupLocked /\ uid[s] = wanted[t])
      BY <2>2, OneHolder
    <3>3. /\ uip'[wanted[t]] = uip[wanted[t]]
          /\ \A i \in Instance : umap'[i][wanted[t]] \in {umap[i][wanted[t]], NoSession}
      BY <1>1, <1>2, <3>1, <3>2
    <3>4. KickUnderWay(t, wanted[t]) => KickUnderWay(t, wanted[t])'
      BY <1>1, <3>1, <3>3 DEF KickUnderWay, IInv, KicksMapped
    <3> QED
      BY <1>1, <3>1, <3>3, <3>4, StaysPrepared
  <2> QED
    BY <2>1, <2>2
<1>4. ASSUME NEW u \in User
      PROVE  WhereUipLeads(u)'
  <2>1. CASE uip'[u] = uip[u]
    <3>1. \A t \in Session : Registered(t, u) => Registered(t, u)'
      BY <1>1 DEF Registered
    <3>2. WhereUipLeads(u)
      BY DEF OnlineInv
    <3> QED
      BY <1>1, <2>1, <3>1, <3>2, StillLeads
  <2>2. CASE cleanup[s] = "delip" /\ uid[s] = u
    <3>1. usession[u] = NoSession
      BY <2>2 DEF RouteInv
    <3>2. \A t \in Session : ~ Registered(t, u)
      BY <2>2, OneHolder DEF Registered
    <3>3. \A i \in Instance : Online(i, u) => uip[u] = i
      BY <3>2 DEF OnlineInv, WhereUipLeads
    <3>4. ASSUME NEW i \in Instance, Online(i, u)
          PROVE  FALSE
      <4>1. uip[u] = i /\ i # NoInstance
        BY <3>3, <3>4, PresenceAssumption
      <4>2. usession[u] = umap[i][u]
        BY <3>2, <3>4, <4>1 DEF RouteInv
      <4> QED
        BY <3>1, <3>4, <4>2 DEF Online
    <3> QED
      BY <1>1, <3>4 DEF WhereUipLeads, Online
  <2> QED
    BY <1>2, <2>1, <2>2
<1> QED
  BY <1>3, <1>4 DEF OnlineInv

\* A kick ends only when the session it found is closed or gone.
LEMMA KickOnline ==
  ASSUME IInv, LockInv, OnlineInv, ~ LossyRpc, NEW s \in Session, KickNext(s)
  PROVE  OnlineInv'
<1>1. \A i \in Instance, u \in User : umap'[i][u] \in {umap[i][u], NoSession}
  <2>1. CASE KickClear(s)
    <3>1. victim[s] \in Session
      BY <2>1 DEF IInv, TypeOK, KicksMapped, KickClear, KickEnd, KickTo
    <3> QED
      BY <2>1, <3>1, ClearSessionUnmaps DEF KickClear
  <2> QED
    BY <2>1, KickFrame
<1>2. UNCHANGED <<loginVars, uip>> /\ closed \subseteq closed'
  BY KickFrame
<1>3. ASSUME NEW t \in Session
      PROVE  Prepared(t)'
  <2>1. CASE login[t] \notin LoginLocked
    BY <1>2, <2>1 DEF Prepared
  <2>2. CASE login[t] \in LoginLocked
    <3>1. wanted[t] \in User /\ Prepared(t)
      BY <2>2 DEF IInv, BindsOnce, OnlineInv
    <3>2. ASSUME login[t] = "rpc", KickUnderWay(t, wanted[t])
          PROVE  Nobody(wanted[t])' \/ KickUnderWay(t, wanted[t])'
      <4> DEFINE u == wanted[t]
      <4>1. CASE t # s
        BY <1>1, <1>2, <3>1, <3>2, <4>1, KickFrame DEF KickUnderWay, IInv, KicksMapped
      <4>2. CASE t = s
        <5>1. kickAt[s] \in Instance /\ kickUser[s] = u /\ kickAt[s] = uip[u] /\ uip'[u] = uip[u]
          BY <1>2, <3>2, <4>2 DEF KickUnderWay, IInv, KicksMapped
        <5>2. \A i \in Instance : Online(i, u) => uip[u] = i
          BY <2>2, <3>1, <3>2, NoneRegistered DEF OnlineInv, WhereUipLeads
        <5>3. ASSUME umap'[uip[u]][u] = NoSession
              PROVE  Nobody(u)'
          BY <1>1, <1>2, <3>1, <5>1, <5>2, <5>3 DEF Nobody, Online
        <5>4. CASE KickFind(s)
          <6>1. UNCHANGED umap
            BY <5>4 DEF KickFind
          <6>2. CASE umap[uip[u]][u] = NoSession
            BY <1>2, <5>3, <6>1, <6>2
          <6>3. CASE umap[uip[u]][u] # NoSession
            <7>1. /\ kick'[s] = "notify" /\ victim'[s] = umap[uip[u]][u]
                  /\ kickUser'[s] = kickUser[s] /\ kickAt'[s] = kickAt[s]
              BY <5>1, <5>4, <6>3 DEF KickFind, KickEnd, KickTo, IInv, TypeOK
            <7> QED
              BY <1>2, <4>2, <5>1, <6>1, <7>1 DEF KickUnderWay
          <6> QED
            BY <6>2, <6>3
        <5>5. CASE KickNotify(s) \/ KickAwait(s)
          <6>1. /\ UNCHANGED <<umap, victim, kickUser, kickAt>>
                /\ kick[s] \in {"notify", "awaitOld"} /\ kick'[s] \in {"awaitOld", "clear"}
            BY <5>5 DEF KickNotify, KickAwait, KickTo, IInv, TypeOK
          <6> QED
            BY <1>2, <3>2, <4>2, <6>1 DEF KickUnderWay
        <5>6. CASE KickClear(s)
          <6>1. kick[s] = "clear" /\ victim[s] \in Session /\ ClearSession(victim[s])
            BY <5>6 DEF IInv, TypeOK, KicksMapped, KickClear, KickEnd, KickTo
          <6>2. umap[uip[u]][u] \in {victim[s], NoSession}
            BY <3>2, <4>2, <6>1 DEF KickUnderWay
          <6>3. umap'[uip[u]][u] = NoSession
            BY <1>1, <3>1, <5>1, <6>1, <6>2, ClearSessionUnmaps
          <6> QED
            BY <1>2, <5>3, <6>3
        <5> QED
          BY <5>4, <5>5, <5>6 DEF KickNext, KickLost
      <4> QED
        BY <4>1, <4>2
    <3> QED
      BY <1>1, <1>2, <3>1, <3>2, StaysPrepared
  <2> QED
    BY <2>1, <2>2
<1>4. ASSUME NEW u \in User
      PROVE  WhereUipLeads(u)'
  <2>1. \A t \in Session : Registered(t, u) => Registered(t, u)'
    BY <1>2 DEF Registered
  <2>2. WhereUipLeads(u)
    BY DEF OnlineInv
  <2> QED
    BY <1>1, <1>2, <2>1, <2>2, StillLeads
<1> QED
  BY <1>3, <1>4 DEF OnlineInv

\* A crash puts its instance's sessions out of reach together with their logins.
LEMMA CrashOnline ==
  ASSUME IInv, SessionInv, LockInv, RouteInv, OnlineInv, NEW i \in Instance, Crash(i)
  PROVE  OnlineInv'
<1>1. /\ UNCHANGED <<closed, uip>>
      /\ \A j \in Instance, u \in User :
           umap'[j][u] = IF j = i THEN NoSession ELSE umap[j][u]
  BY CrashFrame
<1>2. \A t \in Session :
        \/ login'[t] = "idle" /\ Home[t] = i
        \/ /\ login'[t] = login[t] /\ wanted'[t] = wanted[t] /\ old'[t] = old[t]
           /\ login[t] # "idle" => Home[t] # i
  BY CrashFrame DEF SessionInv
<1>3. \A u \in User : Nobody(u) => Nobody(u)'
  BY <1>1 DEF Nobody, Online
<1>4. ASSUME NEW t \in Session
      PROVE  Prepared(t)'
  <2>1. CASE login'[t] \notin LoginLocked
    BY <2>1 DEF Prepared
  <2>2. CASE login'[t] \in LoginLocked
    <3>1. /\ login'[t] = login[t] /\ wanted'[t] = wanted[t] /\ old'[t] = old[t]
          /\ wanted[t] \in User /\ Prepared(t)
      BY <1>2, <2>2 DEF IInv, BindsOnce, OnlineInv
    <3>2. ASSUME login[t] = "rpc", KickUnderWay(t, wanted[t])
          PROVE  Nobody(wanted[t])' \/ KickUnderWay(t, wanted[t])'
      <4>1. CASE kickAt[t] = i
        <5>1. \A j \in Instance : Online(j, wanted[t]) => uip[wanted[t]] = j
          BY <3>1, <3>2, NoneRegistered DEF OnlineInv, WhereUipLeads
        <5>2. uip[wanted[t]] = i
          BY <3>2, <4>1 DEF KickUnderWay
        <5> QED
          BY <1>1, <3>1, <5>1, <5>2 DEF Nobody, Online
      <4>2. CASE kickAt[t] # i
        <5>1. /\ kick'[t] = kick[t] /\ kickUser'[t] = kickUser[t]
              /\ kickAt'[t] = kickAt[t] /\ victim'[t] = victim[t]
          BY <4>2, CrashFrame
        <5>2. kickAt[t] \in Instance
          BY <3>2 DEF KickUnderWay, IInv, KicksMapped
        <5> QED
          BY <1>1, <3>1, <3>2, <5>1, <5>2 DEF KickUnderWay
      <4> QED
        BY <4>1, <4>2
    <3>3. \A j \in Instance : umap'[j][wanted[t]] \in {umap[j][wanted[t]], NoSession}
      BY <1>1, <3>1
    <3> QED
      BY <1>1, <3>1, <3>2, <3>3, StaysPrepared
  <2> QED
    BY <2>1, <2>2
<1>5. ASSUME NEW u \in User
      PROVE  WhereUipLeads(u)'
  <2>1. CASE \E t \in Session : Registered(t, u) /\ ~ Registered(t, u)'
    <3>1. PICK t \in Session : Registered(t, u) /\ ~ Registered(t, u)'
      BY <2>1
    <3>2. Home[t] = i
      BY <1>2, <3>1 DEF Registered
    <3>3. \A j \in Instance : Online(j, u) => j = i
      BY <3>1, <3>2 DEF Registered, OnlineInv, Prepared, Nobody
    <3> QED
      BY <1>1, <3>3 DEF WhereUipLeads, Online
  <2>2. CASE \A t \in Session : Registered(t, u) => Registered(t, u)'
    <3>1. \A j \in Instance : umap'[j][u] \in {umap[j][u], NoSession}
      BY <1>1
    <3>2. WhereUipLeads(u)
      BY DEF OnlineInv
    <3> QED
      BY <1>1, <2>2, <3>1, <3>2, StillLeads
  <2> QED
    BY <2>1, <2>2
<1> QED
  BY <1>4, <1>5 DEF OnlineInv

\* OnlineInv is inductive if kicks arrive in time, no command fails and no lock
\* expires early; processes may crash at any point.
THEOREM OnlineInvariant ==
  ASSUME ~ LossyRpc, ~ RedisFails, ~ LockExpires PROVE Spec => []OnlineInv
<1>1. Init => OnlineInv
  BY DEF Init, OnlineInv, WhereUipLeads, Prepared, Online
<1>2. IInv /\ SessionInv /\ LockInv /\ RouteInv /\ OnlineInv /\ [Next]_vars => OnlineInv'
  <2> SUFFICES ASSUME IInv, SessionInv, LockInv, RouteInv, OnlineInv, [Next]_vars
               PROVE  OnlineInv'
    OBVIOUS
  <2>1. ASSUME NEW s \in Session, ClientNext(s)
        PROVE  OnlineInv'
    <3>1. /\ UNCHANGED <<umap, old, kickVars, uip>>
          /\ closed \subseteq closed'
          /\ \A t \in Session : \/ login[t] = "idle" /\ login'[t] \in {"idle", "queued"}
                                \/ login'[t] = login[t] /\ wanted'[t] = wanted[t]
      BY <2>1, ClientFrame
    <3>2. ASSUME NEW t \in Session
          PROVE  Prepared(t)'
      <4>1. CASE login'[t] \notin LoginLocked
        BY <4>1 DEF Prepared
      <4>2. CASE login'[t] \in LoginLocked
        <5>1. login'[t] = login[t] /\ wanted'[t] = wanted[t] /\ Prepared(t)
          BY <3>1, <4>2 DEF OnlineInv
        <5>2. KickUnderWay(t, wanted[t]) => KickUnderWay(t, wanted[t])'
          BY <3>1, <5>1 DEF KickUnderWay
        <5> QED
          BY <3>1, <5>1, <5>2, StaysPrepared
      <4> QED
        BY <4>1, <4>2
    <3>3. ASSUME NEW u \in User
          PROVE  WhereUipLeads(u)'
      <4>1. \A t \in Session : Registered(t, u) => Registered(t, u)'
        BY <3>1 DEF Registered
      <4>2. WhereUipLeads(u)
        BY DEF OnlineInv
      <4> QED
        BY <3>1, <4>1, <4>2, StillLeads
    <3> QED
      BY <3>2, <3>3 DEF OnlineInv
  <2>2. ASSUME (\E u \in User : Expire(u)) \/ UNCHANGED vars
        PROVE  OnlineInv'
    <3>1. UNCHANGED <<closed, umap, login, wanted, old, kick, kickUser, kickAt, victim, uip>>
      BY <2>2 DEF Expire, vars
    <3> QED
      BY <3>1 DEF OnlineInv, WhereUipLeads, Registered, Prepared, Nobody, Online, KickUnderWay
  <2> QED
    BY <2>1, <2>2, LoginOnline, CleanupOnline, KickOnline, CrashOnline DEF Next
<1> QED
  BY <1>1, <1>2, InductiveInvariant, SessionInvariant, LockInvariant, RouteInvariant, PTL DEF Spec

\* Outside the user lock, the two keys in Redis lead to every open session that
\* UserMgr hands out, so that at most one open session per user is logged in over
\* all instances, provided that kicks arrive in time, no command fails and no lock
\* expires under its holder; processes may crash at any point.
THEOREM OnlineIsFound ==
  ASSUME ~ LossyRpc, ~ RedisFails, ~ LockExpires PROVE Spec => []OnlineIsRoutable
<1>1. IInv /\ LockInv /\ RouteInv /\ OnlineInv => OnlineIsRoutable
  <2> SUFFICES ASSUME IInv, LockInv, RouteInv, OnlineInv,
                      NEW i \in Instance, NEW u \in User, ulock[u] = NoSession, Online(i, u)
               PROVE  uip[u] = i /\ usession[u] = umap[i][u]
    BY DEF OnlineIsRoutable, Online
  <2>1. \A s \in Session : ~ Registered(s, u)
    BY DEF Registered, LockInv
  <2>2. uip[u] = i
    BY <2>1 DEF OnlineInv, WhereUipLeads
  <2>3. usession[u] = umap[i][u]
    BY <2>1, <2>2 DEF RouteInv
  <2> QED
    BY <2>2, <2>3
<1> QED
  BY <1>1, InductiveInvariant, LockInvariant, RouteInvariant, OnlineInvariant, PTL

=============================================================================
