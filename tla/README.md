# XiguChat in TLA+

XiguChat is a distributed instant messenger: a Qt client and four C++ servers
around Redis and MySQL.  This directory holds TLA+ models of the parts whose
correctness depends on interleaving, failure and order, TLC configurations that
check them on small instances, and proofs, checked by TLAPS, that their invariants,
action properties and refinements hold for all values of the constants.  Paths are relative to
`src/server/services/ChatServer` unless they start with another directory.

## 1. The system

### Components

| component | state | operations | hard about it |
|---|---|---|---|
| **GateServer** (HTTP) | MySQL users, Redis codes | verification code, registration, password reset, login | several IO threads: requests interleave at every command and statement |
| **VerifyServer** (gRPC) | Redis `code_<email>`, time to live | `GetVerifyCode` | concurrent requests for one address |
| **StatusServer** (gRPC) | Redis `logincount`, `utoken_<uid>` | choose a chat server, leave a token | counts that are up to a minute old: the server may be dead |
| **ChatServer**: session lifecycle | `_sessions`, `UserMgr`, Redis `uip_`, `usession_`, `lock_` | `LoginHandler`, `DealExceptionSession`, `NotifyKickUser` | three threads, several processes, a lock with a time to live, calls that outlive their deadline |
| **ChatServer**: connections | send queue, `_pending_sends`, `_b_close` | read, `Send`, `SendOnIO`, `HandleWrite`, `Close` | senders on many threads, closing at any moment |
| **ChatServer**: logic queue | `_msg_que`, `_b_stop` | `PostMsgToQue`, `DealMsg`, `Stop` | notification after unlocking, only if the queue was empty |
| **ChatServer**: process | timer, acceptor, gRPC server, IO pool | `main`, `CServer::Stop`, `on_timer`, `StopAfterDrain` | order of the shutdown |
| **ChatServer**: Redis pool | idle queue, count, request flag | `getConnection`, `returnConnection`, `checkThread`, `reconnect`, `Close` | borrowers, a repairing thread and Close at once |
| **ChatServer**: business | MySQL friends, threads, messages | apply, authorise, text, history | resent messages, both users at once, route read after the save |
| **ChatServer**: peers | pools of stubs | `Notify*` calls between instances | loss, lateness |
| **Client**: pages and session | busy flags, timers, HTTP replies, connection | code, register, reset, login, go offline, search | answers after a timeout, answers without their question |
| **Client**: cache | friends, applications, messages, pending conversations | synchronise, merge, send, fail | history, pushes and answers in any order |

A client logs in at the GateServer, which asks the StatusServer for a ChatServer
and a token; it then connects to the ChatServer and sends frames.  An IO thread
reads a frame and posts it to the logic queue; the single worker executes the
handler, which uses Redis and MySQL and answers through `CSession::Send`.
Messages for a user at another instance go through gRPC, whose threads call
`Send` as well.  A failure on any thread ends in `DealExceptionSession`.  A login
that finds the user logged in elsewhere kicks the other session: itself if it is
at the same instance, with `NotifyKickUser` if not.

### What makes it correct

- *Lifecycle*: a user has one owner; a session that is gone leaves no trace and
  never comes back; a cleanup never removes a newer login; nobody waits for ever
  for a lock.
- *Connections and queue*: no request or answer is lost or reordered while the
  connection lasts; memory is bounded; accounting is exact; the shutdown loses
  nothing and ends.
- *Pools*: every connection has one owner, the capacity is kept and restored, no
  waiting thread is forgotten.
- *Messages*: stored once per client message id, in one conversation per pair; a
  client that has loaded a history sees all of it and what comes after it, in
  order; what it shows as sent is stored.
- *Accounts*: one account per address however many registrations run at once; one
  code while it lives; a user ends up in the account typed last; no page stays
  busy.

`PROJECT.json` lists every component with its status, and under `hazards` each of
these points at its line.

## 2. Modules

Five groups, each on a question of its own.

    LoginRegistry <-- Presence <- PresenceProps <- MCPresence
                                     ^ PresenceProofs
    OrderedReplies <-- (LogicQueue, Connection) <- ChatInstance <- ChatProps <- MCChat
                                     ^ ChatProofs
    ConnPool <- MCConnPool
       ^ ConnPoolProofs
    Mailbox <-- (ChatStore, ClientCache) <- Messaging <- MessagingProps <- MCMessaging
                     ^ ChatDataProofs                        ^ MessagingInvariant
                                                                 ^ MessagingProofs
                                                                     ^ MessagingRefinement
                                                                     ^ MessagingSync
    AccountStore <- Accounts <- AccountsProps <- MCAccounts
                                     ^ AccountsProofs

`<-` and `^` are EXTENDS, `<--` a refinement.  `ChatDataProofs` is about the sequences,
sorts and merges of the tables and the cache; the modules on Messaging use it.
`MessagingInvariant` holds definitions only.

### Presence: who is logged in, and where

`Presence` models several ChatServer processes and the Redis they share.  A
session (a TCP connection, never reused) has three program counters: `login`
(`LoginHandler` on its instance's worker), `cleanup` (`DealExceptionSession` on
whatever thread saw the failure) and `kick` (the `NotifyKickUser` call its login
issued).  One action is one critical section, one Redis command or one call to a
peer.  `lifecycle` is `_lifecycle_mutex`, `ulock` the Redis lock; `LoginUnlock`
and `LoginRespond` are the destructors of the two `Defer`s in the order they run.
Four constants switch the faults on: `Crashes` (a process dies and restarts
without its memory), `LossyRpc` (a kick is lost, or executed after the caller's
deadline), `LockExpires` (the lock's 10 s pass while its holder works) and
`RedisFails` (any command may fail; a failing SET may have been executed).
`Stranded` locks, whose holder is gone, always may expire.

`LoginRegistry` is what the protocol promises, seen through Redis: a session takes
a user at most once and an owner is withdrawn only after its connection has ended.

### ChatInstance: one process from start to exit

`LogicQueue` is the queue with its mutex, condition variable and worker.
`Connection` is `CSession` between its senders and its IO thread: `posted` holds
what `boost::asio::post` has been given, `sendQue` is `_send_que`, `wire` what has
been written.  A sender is in `step` "post" between the increment of
`_pending_sends` and the post, so that every interleaving of the two is there.
`ChatInstance` composes both with the gRPC thread, the timer and `main`; a kick
appears as a sender that tells its victim and then takes it out of the table.
`OrderedReplies` is what a client may rely on: its accepted requests are answered
in order until its connection is over.

Abstractions: a session has an IO thread of its own, the most concurrency the
pool of contexts can give; a frame is read whole or the read fails; a completion
is taken before the closing of the socket posted later, with which it commutes; the timer's copy of the
table is an expiry of any session at any time; a handler that throws is
`WorkerThrow`; an answer too long for a frame has the same effect as a throw.

### ConnPool: the connections to Redis

`ConnPool` is `RedisConPool` (`src/RedisMgr.cpp:427-672`): clients, the check
thread and `Close`.  Whether a command or a PING breaks the connection, and whether
an attempt to connect succeeds, is nondeterministic and limited by `MaxFaults`.
`live` are the contexts between `redisConnect` and `redisFree`.  A notification
made inside the critical section is part of its action, one made after it is an
action of its own (`NotifyConnected`, `SignalChecker`), with the one exception that
the two `notify_all` of `Close` are one step.  GateServer and StatusServer have a
copy of this class each.

### Messaging: friends, conversations, messages

`ChatStore` is the MySQL tables and the statements of `MysqlDao` on them.  An
insert and its commit are separate, so a row can have an id before anybody sees it,
and the unique key `(thread, sender, client id)` makes a second insert wait.  A
reported failure of a commit may be a commit.  `ClientCache` is `UserMgr` and
`FriendInfo` of the client, as operators from a cache to the next.  `Messaging`
composes them with two servers: `job[s]` is the handler the logic thread of `s` is
in, and one action is one statement, Redis read, call or send of it.
`LoginHandler`, `AddFriendApply`, `AuthFriendApply`, `DealChatTextMsg`, `CreateChat`,
`LoadThreads` and `LoadMessages` name the actions each handler is made of.  On the
client's side, `On...` are the slots of the signals `TcpMgr` emits, the others the
user's doings.  A scenario fixes who is friends with whom at the start and bounds
texts, clicks, faults and logins.

`Mailbox` is what a user may rely on, without servers: a message is stored once and
stays, what is shown as sent or received is stored under that id, and a contact is a
stored friendship.

What may fail, each time at the cost of one of the scenario's `faults`:

| what fails | what the code does | in the model |
|---|---|---|
| a read of a list at login | goes on without it; friends are skipped one by one | `ReadList`, `LoginFriends` (`skipped`) |
| GET `uip_` at login | takes it for no earlier login: no kick (line 282) | `LoginLocate`, `~kicked` |
| the kick's call | ignores its result | `LoginLocate`, `~kicked` |
| SET `uip_`, SET `usession_` | ignores their results, answers Success (lines 311, 315) | `LoginLocate`, `LoginBind`, `~set` |
| the lock, GET or DEL of a cleanup | leaves one key or both | `Cleanup` |
| a statement or its commit | refuses, retries or (welcome messages) logs; what is reported as failed may have been executed | `OrNot`, `SaveFails`, `InsertThread`, `SaveApply`, `Confirm` |
| the applicant's data before an approval (line 449) | answers UidInvalid and changes nothing | the branch of `Confirm` where the transaction fails |
| GET `uip_` for a push | takes the receiver for offline, answers Success (lines 382, 533, 653) | `Route`, third branch |
| the approver's data for the notice (line 553, `ChatServiceImpl.cpp:86`) | sends it with an error, and the client drops it with the welcome messages | `NoticeFails` |
| the call between servers | writes a log; it may have been executed | `PushFails` |

`unpushed` is a ghost: the ids of committed messages whose push the code gave up, that is the
last three rows, a text whose sender is gone before the push, a commit reported as failed,
and an answer to an approval whose session is gone.

What the model shows that nothing in the repository contradicts: the welcome message of
the applicant reaches the approver in one way only, in the answer to the approval
(`LogicSystem.cpp:432-540`).  If the approver's connection goes meanwhile and he logs in
elsewhere, loads the new conversation, still empty, to its end, and only then
`AuthFriendApply` commits the message, nobody tells him: he sees it after the next login.

An answered login may therefore be one that Redis does not lead to (`Located` is false): its
SET of `uip_` failed, or its SET of `usession_` did and the cleanup of an older session took
both keys for its own.  Nobody's push reaches that user then, and nothing in the code
notices; the next login repairs it.  `SyncedThreadsAreComplete` has this as its premise:
nothing has failed, or Redis leads to the user's server.

Abstractions.  A user has one device (two sessions of one are Presence's subject), so
`TokenInvalid` cannot occur.  The user lock lasts while its holder works, a server does not
crash, and a command that is reported as failed was executed then or never: Presence has the
expiry, the crashes and the late kicks.  Connecting and the login frame are one step; the token
and the user's data are checked in `Accounts`.  Frames the server has not taken
are lost with the connection, though those in its queue would still be
executed; ChatInstance models that queue.  `applied` lists every application, the code the
first ten.  Texts are sent one per frame.  Contents, names, icons, the heartbeat,
local images and the answer to an application, which only writes a log, are left out.

### Accounts: from the login page to the chat page

`AccountStore` is the user table with `reg_user` (`src/backup/xigu.sql`) and the
Redis keys of codes, tokens and cached users.  In `Accounts` each HTTP request is
a job of its own, a Redis command, statement or mail at a time; `replies` are
the `QNetworkReply`s the client still waits for, so a job whose reply was aborted
goes on unheard.  `form`, `page` and `notice` are the bridges, `phase`, `timer` and
`pending` the `SessionService`, `search` the search of `ChatBridge` and
`FriendService`.  `wanted` and `disturbed` are ghosts for two properties.

Abstractions.  Codes and tokens are counters: two draws never agree.  The client
types only codes that were mailed, of any age, and equal passwords, as its form
demands.  A deadline of a call GateServer makes is one of the failures.
StatusServer chooses any server, which may be dead; there is one chat server, as which
session replaces which is Presence's question.  A search that finds a friend opens
the chat and is left out.

What the model shows of the code without anything in the repository that says
otherwise: a code is not deleted when it has served, so it registers and resets until it
expires; a name has no unique key, so two concurrent registrations can both have it, after
which a reset by that name writes both rows (`UpdatePwd`); a reset for a name that does not
exist succeeds (`CheckEmail`).

## 3. Runs

| run | instance | question |
|---|---|---|
| `presence_reliable` | 2 instances, 3 connections of one user (two at one instance), crashes | does Redis route to every open session that UserMgr hands out? |
| `presence_lossy` | the same, kicks lost or late instead of crashes | are cleanups final and harmless to newer logins; is `LoginRegistry` implemented? |
| `presence_live` | 1 of 2 instances used, 2 connections, all faults | do logins and cleanups, which wait for each other, end? |
| `presence_expiry` | 2 instances, 2 connections, the lock may expire | finding: a cleanup deletes a newer login's keys |
| `presence_kickwait` | 2 instances, 2 connections, no fault | finding: a kick waits for the lock of its caller |
| `chat_threads` | 2 connections, one request and one push, `MAX_SENDQUE` = 1 | safety of queue, accounting, shutdown order |
| `chat_replies` | 1 connection, 3 requests (one without a handler), 1 push, queues of 2 | order and liveness of answers; the shutdown ends if clients help |
| `chat_shutdown` | 1 connection, smallest bounds | finding: without their help it does not |
| `redis_pool` | 2 clients, pool of 2, 3 contexts, 3 failures | ownership, accounting, wakeups, repair, Close |
| `messaging` | 2 servers, 2 users who act and a third, eight scenarios | is a message stored once, shown truly, and delivered by history or push; is `Mailbox` implemented? |
| `messaging_gap` | the same, one application, approval and text, no fault | finding: a login can miss what comes in while it reads |
| `accounts` | 2 clients, 2 addresses, 2 names, six scenarios | one account per address, one code, the right account, the right search result; do pages come back? |

Bounds, and why they are enough for the cases that matter.

- Three connections of one user are a session, the one that replaces it and a
  third that races the second; with two at one instance and one at another, both
  kinds of kick and a return to the instance left occur.  Two users do not
  interact but through the single worker, which `presence_live` exercises with
  two logins of one user, and a connection bound to a user cannot take another
  (`Admissible`); `User` has one member.
- `MaxQue`, `MaxSendQue` are 1 or 2 for 10000 and 1000: every limit is reached,
  exceeded and left again.  `MaxRequests` exceeds `MaxQue`, so that posts are
  refused.  `MaxPushes` = 1 is the second actor of every race of senders.
- In the pool, two clients and the check thread can take all connections; three
  failures break every initial connection and a repair.  Two clients are also the
  limit of `BorrowersAreServed`: with more, `notify_one` may wake the same one
  again and again, as the standard permits.

- `messaging` starts from eight scenarios, since their product is out of reach:
  strangers who apply, approve and click again; both having applied; an approval
  with a failing statement or call; an approver who logs in again meanwhile; friends without a conversation who both open it
  and text, with no and with two faults; friends whose one logs in twice; and a
  user with two conversations, where `PageSize` = 1 makes every list two pages.  The
  races need two servers and no more: pairs are the unit of every key.  Servers
  are symmetric.
- `accounts` has six: two registrations of one address; code and reset with
  expiry; code, registration and reset with a fault; logins to two accounts; logins with right and
  wrong passwords and a fault; a login and searches by name and uid.  Three or four
  clicks let a request be given up and another one made while the first is still
  under way.  The expiry of codes is on when faults are off.

Deadlock checking is off in all configurations: after `exited`, `closed` or when
every connection has been used, the model ends as the system does.

### Fairness

Weak fairness for threads the code runs: IO threads, worker, gRPC thread, main,
check thread, a client inside `getConnection`.  Redis commands and RPCs return
(RPCs have deadlines; hiredis fails when the peer is gone).  A key with a time to
live whose holder is gone does expire.  Nothing is asked of clients, the timer,
signals or spurious wakeups, with two exceptions that are visible in the name of
the specification: `FairSpecAndClients` lets a client that is told of its kick
hang up, as the real one does (`client/bridge/shellbridge.cpp:25`);
and `SF(Borrow)` in `ConnPool!FairSpec` says that a mutex does not starve a
thread.  `Accounts!Spec` asks for the client's two timers only: `setTransferTimeout` of
`HttpMgr` and the timer of `SessionService`; `FormsAreFreed` holds whatever servers and
network do.  Under failures, liveness of the pool is "once the failures are over":
they are finitely many.

### Findings

1. **A cleanup deletes a newer login's keys when the lock expires**
   (`presence_expiry`, code bug).  `CSession.cpp:363-375` reads `usession_`,
   compares and deletes in separate commands.  The comment at 369 says that a new
   connection's state must not be deleted; a lock that expires in between breaks
   it.  With a lock that lasts, `presence_lossy` shows the property.
2. **A kick waits for its caller's lock** (`presence_kickwait`, the comment at
   `ChatServiceImpl.cpp:190` says otherwise).  `NotifyOffline` on a full send queue
   runs the victim's cleanup, which acquires the lock the calling login holds;
   deadlines of 5 s on both sides resolve it.
3. **A shutdown can wait for a kicked client** (`chat_shutdown`, code bug).
   `CServer::Stop` closes the sessions in `_sessions`; a kicked one has left it
   with its socket open and a read outstanding.

4. **A login can miss what is stored while it reads its lists** (`messaging_gap`;
   the comment at `LogicSystem.cpp:648` and `docs/04-data-model.md:201` say that the next
   login brings what was stored while the user was offline).  `LoginHandler` reads
   conversations, applications and friends (207-254) before it writes the location (311)
   and enters the session (312).  A friendship approved and a text stored in
   between are in no list and are not pushed.  For a conversation that is in the
   answer there is no such gap: its history is asked for after the location is
   written, and `SyncedThreadsAreComplete` holds.

Noted without a run: `docs/01-architecture.md:182` says that `uip_` stays when a
session is cleaned up, `CSession.cpp:375` deletes it; the limitation R9 of
`docs/11`, no repair of the Redis pool, is outdated by the check thread.

### Mutants

Next to most actions stands a mutant of it, marked as such in its comment, that is
not part of any specification: a dropped notification, a reset that is forgotten,
a lock released too late.  `PROJECT.json` says which property of which run each
one breaks.

## 4. Proofs

The theorems hold for any finite or infinite number of users, sessions, instances and
clients, any limits, scenarios and bounds, from the named assumptions of the
modules only (finitely many senders, threads and contexts; limits that are natural
numbers; names that differ; scenarios that are what Init takes them for).  Where a
theorem needs a fault switched off, its statement says so.  Every invariant, every
action property and every refinement of the passing runs is a theorem; their liveness
properties are not.

| module | invariants | theorems about the runs' properties |
|---|---|---|
| PresenceProofs | `IInv`, `SessionInv`, `LockInv`, `KeysInv`, `RouteInv`, `OnlineInv` | `TypeCorrect`, `HandsOutRegisteredOnly`, `CleanupEndsForGood`, `DeletesItsOwn`, `KeepsTheRegistry`, `OnlineIsFound` |
| ChatProofs | `IInv`, `OrderInv` | `TypeCorrect`, `WakeupsAreNotLost`, `WorkerDrains`, `CountIsExact`, `MemoryIsBounded`, `WritesAreSequential`, `StopIsAlone`, `RepliesAreOrdered` |
| ConnPoolProofs | `IInv` | `TypeCorrect`, `ContextsHaveOneOwner`, `CapacityIsExact`, `WakeupsAreNotLost`, `CloseIsComplete` |
| MessagingProofs | `IInv` (in MessagingInvariant) | `TypeCorrect`, `EachIsWelcomedOnce`, `FriendsAreNotRefused`, `PendingIsAnswered`, `ChatsAreInOrder` |
| MessagingRefinement | the same | `NothingIsInvented`, `KeepsThePromises` |
| MessagingSync | `SInv` | `NothingFallsBetween` |
| AccountsProofs | `IInv` | `TypeCorrect`, `AddressesHaveOneAccount`, `AccountsAreKept`, `CodesAreStable`, `SessionsAreAsSubmitted`, `ResultsAnswerTheText` |

**Presence.**  That UserMgr hands out registered sessions only (`MappedIsRegistered`) is
not inductive: a login maps a session long after it has checked that it is open.
`IInv` adds that the lifecycle mutex is held by whoever's program counter says so
(`LifecycleHeld`), that a session under login is in the table, is bound
once, and that what a kick or a login is about to clear has been found in the map.
`SessionInv` adds what a session's connection, login and cleanup say of each other.
Both hold under every fault.  The promises about Redis need more, each exactly the
hypotheses named here; with one of them dropped, TLC finds a counterexample with
two sessions:

| theorem | no `LockExpires` | no `RedisFails` | no `LossyRpc` | because |
|---|---|---|---|---|
| `KeepsTheRegistry` | needed | | | two logins of a user must not work at once (`LockInv`: a holder's lock names the holder, and what a cleanup compared is still there when it deletes) |
| `CleanupEndsForGood` | | needed | | a cleanup past the keys is not in `usession_` (`KeysInv`), for which no lock is needed, only that a DEL deletes |
| `DeletesItsOwn` | needed | needed | | `uip_` leads to the session in `usession_` or to a closed one, unless a login is between the writes of both (`RouteInv`) |
| `OnlineIsFound` | needed | needed | needed | a login that is about to write has got rid of every open session of its user (`OnlineInv`: `Prepared`) |

Crashes are allowed in all of them.

**ChatInstance.**  `IInv` is the conjunction of one invariant for each component and
one for `main`; lemma `Steps` shows that a step of the instance is a step or a
stutter of each component, so each part is proved on its own.  `CountIsExact` rests on
`pending` being posted, queued and in-hand messages, a sum over the senders that needs
the finiteness of `Sender`.  `RepliesAreOrdered` is the refinement of
`OrderedReplies`.  Its argument: the requests of a session stand in one line, from the
logic queue over the worker, the worker's Send, the posted sends and the send queue
to the socket (`Lined`); every thread moves only the front of a section to the
back of the next, or drops what a closed connection no longer needs.  What a request
is owed (`owed` of the abstract specification) is then a set read off the line.

**ConnPool.**  `Progress` ties what a thread holds to its program counter; `Counted`
extends the accounting to the time of closing, where clients free contexts without
counting; that the count never falls below zero follows from it.  `NoConnectionSleeps`
is inductive as it stands: each connection that is put back is matched by a client on
its way.

**Messaging.**  A request, a job between two statements, an answer, a notice and a cache
are each a member of a set computed from the tables: the friends `F` of a user,
the thread numbers `T`, the committed rows `R` and the number of texts typed.  These only
grow (`Grows`), and the sets grow with them, so that what was true of a frame when it was
sent is true when it arrives, however late and in whatever order: that is
`WireInv` and `JobInv`.  `CommitInv` says that two jobs about one row are not both
before its commit, `FaultInv` that without a fault a second attempt finds the thread the
first lost to, `PendingInv` is the property itself with what it needs of the
queues.  On the data side, ChatDataProofs shows what `AppendChatMsgs`,
`UpdateChatMessage` and the synchronisation do to a list that is ordered:
it stays ordered, each client id stays unique, what is shown stays shown, and what is
added was given.  `EachIsWelcomedOnce` then follows from the fixed client ids and the
unique key, `ChatsAreInOrder` from the cache's set, and `KeepsThePromises`
maps every step of servers and clients to a step of `Mailbox` or to a stutter.

**Nothing falls between history and push.**  `SyncedThreadsAreComplete` relates the
tables, two servers, Redis, the wire and a cache: when a client has read a conversation to
its end and nothing is on its way to it, it shows every message to its user that was committed, except
those whose push was given up; provided that `uip_` leads to the user's server, which it does
unless a command has failed.  `IInv` says what may be on a wire, not what has to be; so
`SInv` adds four invariants, none of which is inductive without the others.

| part | what it says | why it is needed |
|---|---|---|
| `LoginInv` | a connection that is not ready carries one login, as a frame, as a job or as an answer, and nothing else but pushes; a ready one carries none | a login clears and fills the cache: a second one under way would take away what the history has brought |
| `LocationInv` | once a login has been answered, or only the answer is left to send, `UserMgr` leads to this connection, so do `uip_` and `usession_` if nothing has failed, and no older login of the user holds the lock and can still write | the route of a push is read from there, after the save |
| `SavedInv` | a text is one message of its sender, saved at most once per job; nothing is saved before the conversation is found | what a handler will push is what it has saved |
| `SyncInv` | every committed message owed to a ready user whom `uip_` leads to (`Here`) in a conversation it has read, up to the last id it has asked from, is in the cache or `Told`: in a frame on the wire, or in the hands of a handler that will push or answer it to this connection | the property itself, for the states in which something is on its way |

The step that decides is a page of history (`LoadMessages`).  It is read after
the location was written, so a message it misses is committed later, and then the route
read after that commit is the connection's, or fails and is among the exceptions (`GivesUp`).  A
location that was not written, or was deleted, is not written again before the next login
(`StaysHere`), so a user who is `Here` was so all along.  The message is told *behind* the page
(`PageOk`, whose index is the place of the page on the wire).  Frames are delivered in
order, so when the page is taken, the message is still on its way, and the page
may count as read to its end.  A page that is cut off by `PageSize` counts up to its last id,
from which the next one asks (`UpTo`).  That a push is shown at all needs that its
sender is known to the client (`KnownIn`): the gap of finding 4 is what happens where he is not.

**Accounts.**  `RowsInv` (unique keys; the row lock names a job between taking an
id and its insert; a job that answered success has its row), `CodesInv` (codes in
Redis, in mails and in hands were drawn, and agree for an address that was not
disturbed), `SessionInv` (the login a client awaits is of the address typed last) and
`SearchInv` (at most one search per client on the wire, and it is the last one) with
the types of everything in between.

What stays with TLC.  Liveness under fairness is out of the prover's reach: `LoginEnds`,
`CleanupEnds`, `LockIsReturned`, `RequestsAreAnswered`, `ShutdownEnds`, `BorrowersAreServed`,
`CapacityIsRestored`, `CloseEnds`, `FormsAreFreed`.  So is `ENABLED`, and so are the
library's induction schemes, which take a predicate as a parameter: what a batch of
messages merges to is proved in ChatDataProofs by way of the least step at which it would fail
(`LeastElement`, from the well-foundedness of the naturals).  The invariants of the proofs were checked by TLC
on the instances of section 3 first; that of `SyncedThreadsAreComplete` came out of
that search, which also showed the late answer described under Messaging.  The scenarios of
the run had missed it; one of them has it now.

## 5. Not modelled, and the plan

Not modelled for good, as nothing in them depends on order or failure: configuration,
logging, JSON, HTTP parsing, password hashing, image cropping, QML and view models, byte
buffers of frames, the heartbeat's answer.  StatusServer's RPC `Login` has no caller.  The
pools of GateServer, StatusServer and MySQL are copies of the protocol in `ConnPool`
but for one thing: `GetFriendList` borrows a second MySQL connection while it holds
one.  That, a pool held by threads that poll for a lock, and the pool of gRPC
stubs would be models of their own; the hazards without a property name them.

No safety property is left to prove.  Models that would extend the project, in the order
of what they are worth: the nested borrower of the MySQL pool, threads that hold a pooled
connection while they poll for a lock, several devices of one user in Messaging, and
the frames left in a server's queue when their connection ends.
