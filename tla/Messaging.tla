----------------------------- MODULE Messaging -----------------------------
(***************************************************************************)
(* Friends, conversations and messages: the business handlers of the chat  *)
(* servers (LogicSystem.cpp), the calls between servers that push to a     *)
(* user of another one (ChatGrpcClient.cpp, ChatServiceImpl.cpp), the      *)
(* tables (ChatStore), and the clients (tcpmgr.cpp, sessionservice.cpp and *)
(* their services) with what they keep (ClientCache).                      *)
(*                                                                         *)
(* Each server has one logic thread, so one job at a time; two servers'    *)
(* jobs interleave at every statement, Redis read and call.  A user has    *)
(* one device here: two sessions of one user are the subject of Presence,  *)
(* connections and queues the subject of ChatInstance.  What the client    *)
(* has written and no server has taken is lost with the connection.        *)
(* A statement, a Redis command or a call may fail; a scenario bounds how  *)
(* often.  The user lock lasts while its holder works and no server        *)
(* crashes: what expiry and crashes do to the keys is shown in Presence.   *)
(***************************************************************************)
EXTENDS ChatStore, ClientCache

CONSTANTS Servers,
          Scenarios    \* what a behaviour starts from, and its bounds: the pairs
                       \* that are friends and those of them with a thread, the
                       \* applications made; how many texts, clicks and faults
                       \* there will be, and how many logins of each user

NoServer == "none"
ASSUME MessagingAssumption ==
    /\ NoServer \notin Servers
    /\ \A c \in Scenarios : /\ c.threads \subseteq c.friends
                            /\ \A f \in c.friends : \E p \in Pairs :
                                  p[1] # p[2] /\ f = {p[1], p[2]}
                            /\ c.asked \subseteq {p \in Pairs : p[1] # p[2]}
                            /\ {c.texts, c.clicks, c.faults} \subseteq Nat
                            /\ c.logins \in [Users -> Nat]

VARIABLES job,      \* [Servers -> what the logic thread is at]
          uip,      \* Redis: [srv, n], srv uip_<uid> ("none" when absent), n the
                    \* session in usession_<uid> (0 when absent)
          mgr,      \* UserMgr: [Servers -> [Users -> session number, 0 none]]
          link,     \* the user's connection: [srv, n], srv "none" when closed
          up, down, \* frames on it, towards the server and towards the client
          phase,    \* SessionService: "off", "connecting" (_connecting), "ready" (_ready)
          cache,    \* UserMgr of the client
          synced,   \* the threads whose history the client has loaded to the end
          scenario, texts, clicks, faults,  \* the bounds, and what was used of them
          unpushed  \* ghost: ids of messages whose push was given up

servers == <<job, uip, mgr>>
clients == <<link, up, down, phase, cache, synced>>
counts  == <<scenario, texts, clicks, faults, unpushed>>
vars    == <<store, servers, clients, counts>>

Idle == [op |-> "idle", by |-> "none", n |-> 0, pc |-> "idle"]

\* The answer to a login, before the lists are read.
NoLists == [op |-> "login", ok |-> TRUE, threads |-> <<>>, more |-> FALSE,
            applies |-> <<>>, friends |-> <<>>]

Init ==
    /\ scenario \in Scenarios
    /\ friends = {p \in Pairs : {p[1], p[2]} \in scenario.friends}
    /\ applied = [p \in Pairs |-> IF p \in scenario.asked THEN 0 ELSE NoApply]
    /\ LET older == SetToSeq(scenario.threads)
       IN threadOf = [p \in Pairs |->
            IF {p[1], p[2]} \in scenario.threads
              THEN CHOOSE i \in DOMAIN older : older[i] = {p[1], p[2]} ELSE 0]
    /\ chat = {} /\ lastId = 0
    /\ job = [s \in Servers |-> Idle]
    /\ uip = [u \in Users |-> [srv |-> NoServer, n |-> 0]]
    /\ mgr = [s \in Servers |-> [u \in Users |-> 0]]
    /\ link = [u \in Users |-> [srv |-> NoServer, n |-> 0]]
    /\ up = [u \in Users |-> <<>>] /\ down = [u \in Users |-> <<>>]
    /\ phase = [u \in Users |-> "off"]
    /\ cache = [u \in Users |-> ClearSession]
    /\ synced = [u \in Users |-> {}]
    /\ texts = 0 /\ clicks = 0 /\ faults = 0 /\ unpushed = {}

-----------------------------------------------------------------------------
(* The servers.  A job is the request, whose it is, the session it came on *)
(* and where the handler stands (pc); thread, todo and saved are the       *)
(* handler's variables, out the answer it builds.                          *)

\* The session n of u is open: session->Send reaches the client.
Open(u, s, n) == link[u] = [srv |-> s, n |-> n]

\* The frames to the client once session n of u on s has been sent this one.
Sent(u, s, n, frame) ==
    IF Open(u, s, n) THEN [down EXCEPT ![u] = Append(@, frame)] ELSE down

At(s, pc) == job[s].pc = pc
GoTo(s, pc) == job' = [job EXCEPT ![s].pc = pc]

\* A statement, read or call that does what it should, or fails.
Try(ok) == /\ ok \/ faults < scenario.faults
           /\ faults' = IF ok THEN faults ELSE faults + 1
           /\ UNCHANGED <<scenario, texts, clicks>>
Works(ok) == Try(ok) /\ UNCHANGED unpushed

\* What is reported as failed has been done, or has not.
OrNot(done) == done \/ UNCHANGED store

\* A frame other than a login needs a session that has been logged in.  That
\* it is well-formed and names its sender is true of this client's frames.
ValidateChatRequest(s, u, req) == req.op = "login" \/ mgr[s][u] = link[u].n

\* DealMsg: the next frame of a connection; the first step of its handler.
DealMsg(s, u) ==
    /\ At(s, "idle") /\ link[u].srv = s /\ up[u] # <<>>
    /\ LET req == Head(up[u])
           first == CASE req.op = "login" -> "threads"
                      [] req.op = "text"  -> IF req.thread = 0 THEN "find" ELSE "save"
                      [] req.op = "apply" -> "save"
                      [] req.op = "auth"  -> "confirm"
                      [] req.op = "create" -> "find"
                      [] OTHER -> "read"
       IN  /\ ValidateChatRequest(s, u, req)
           /\ job' = [job EXCEPT ![s] =
                [op |-> req.op, by |-> u, n |-> link[u].n, pc |-> first, req |-> req,
                 thread |-> IF req.op = "text" THEN req.thread ELSE 0, retry |-> FALSE,
                 todo |-> IF req.op = "text" THEN <<[from |-> u, cid |-> req.cid]>> ELSE <<>>,
                 saved |-> <<>>, dst |-> NoServer, out |-> NoLists]]
    /\ up' = [up EXCEPT ![u] = Tail(@)]
    /\ UNCHANGED <<store, uip, mgr, link, down, phase, cache, synced, counts>>

\* The handler is done: its answer, and the next job.  The answer to an
\* application changes nothing at the client and is left out.
Finish(s, frame) ==
    /\ down' = IF job[s].op = "apply" THEN down ELSE Sent(job[s].by, s, job[s].n, frame)
    /\ job' = [job EXCEPT ![s] = Idle]
    /\ UNCHANGED <<uip, mgr, link, up, phase, cache, synced>>

\* The Defer at the end of a handler sends the answer, with its error set here;
\* a refused text is named, so that the client can show it as failed.
Refuse(s) ==
    Finish(s, IF job[s].op = "text"
                THEN [op |-> "text", ok |-> FALSE, peer |-> job[s].req.to, cid |-> job[s].req.cid]
                ELSE [op |-> job[s].op, ok |-> FALSE])

\* LoginHandler reads a list into its answer; without it the login goes on.
ReadList(s, pc, next, out) ==
    /\ At(s, pc)
    /\ \E ok \in BOOLEAN :
         /\ Works(ok)
         /\ job' = [job EXCEPT ![s].pc = next, ![s].out = IF ok THEN out ELSE @]
    /\ UNCHANGED <<store, uip, mgr, clients>>

\* The first page of conversations, the applications received, the friends:
\* each is read before the user is registered anywhere.
LoginThreads(s) ==
    LET got == ChatThreads(job[s].by, 0)
    IN  ReadList(s, "threads", "applies",
                 [job[s].out EXCEPT !.threads = got.page, !.more = got.more])
LoginApplies(s) ==
    ReadList(s, "applies", "friends", [job[s].out EXCEPT !.applies = ApplyList(job[s].by)])
LoginFriends(s) ==
    /\ At(s, "friends")
    /\ \E skipped \in SUBSET {v \in Users : AreFriends(job[s].by, v)} :
         /\ Works(skipped = {})
         /\ job' = [job EXCEPT ![s].pc = "locate",
                               ![s].out.friends = FriendList(job[s].by, skipped)]
    /\ UNCHANGED <<store, uip, mgr, clients>>

Locked(u) == \E t \in Servers : job[t].by = u /\ At(t, "bind")

\* Under the user's lock: give up when the connection is gone, put an older
\* session off (on another server by a call whose result nobody looks at),
\* and write where the user is.  When uip_ cannot be read there is no older
\* session to put off; whether it was written is not looked at.  (A login's
\* failures here count as one.)
LoginLocate(s) ==
    LET u == job[s].by
        old == uip[u].srv
    IN  /\ At(s, "locate") /\ ~Locked(u)
        /\ IF ~Open(u, s, job[s].n)
             THEN Refuse(s) /\ UNCHANGED <<store, counts>>
             ELSE /\ \E kicked, set \in BOOLEAN :
                       /\ Works(kicked /\ set) /\ (~kicked => old # NoServer)
                       /\ mgr' = IF old = NoServer \/ ~kicked THEN mgr
                                 ELSE [mgr EXCEPT ![old][u] = 0]
                       /\ uip' = IF set THEN [uip EXCEPT ![u].srv = s] ELSE uip
                  /\ GoTo(s, "bind") /\ UNCHANGED <<store, clients>>

\* The lock was not to be had: the login is refused.
LoginUnlocked(s) ==
    /\ At(s, "locate") /\ Works(FALSE) /\ Refuse(s) /\ UNCHANGED store

\* UserMgr has the session, so that pushes reach it; usession_ names it, unless
\* that fails, which is not looked at; the locks are given back; ...
LoginBind(s) ==
    LET u == job[s].by
    IN  /\ At(s, "bind")
        /\ mgr' = [mgr EXCEPT ![s][u] = job[s].n]
        /\ \E set \in BOOLEAN :
             /\ Works(set)
             /\ uip' = IF set THEN [uip EXCEPT ![u].n = job[s].n] ELSE uip
        /\ GoTo(s, "greet")
        /\ UNCHANGED <<store, clients>>

\* ... after that the answer goes out.
LoginGreet(s) ==
    /\ At(s, "greet") /\ Finish(s, job[s].out) /\ UNCHANGED <<store, counts>>

\* The server has noticed that the connection is gone: DealExceptionSession
\* (see Presence) takes the session out of UserMgr and, if it has got the
\* user's lock and usession_ still names the session, deletes both keys.
Cleanup(s, u) ==
    LET n == mgr[s][u]
    IN  /\ n # 0 /\ ~Open(u, s, n)
        /\ mgr' = [mgr EXCEPT ![s][u] = 0]
        /\ \/ Works(FALSE) /\ UNCHANGED uip        \* no lock, or usession_ not read
           \/ ~Locked(u) /\ uip[u].n # n /\ UNCHANGED <<uip, counts>>
           \/ /\ ~Locked(u) /\ uip[u].n = n
              /\ \E srv \in {NoServer, uip[u].srv}, m \in {0, n} :
                   /\ Works(srv = NoServer /\ m = 0)
                   /\ uip' = [uip EXCEPT ![u] = [srv |-> srv, n |-> m]]
        /\ UNCHANGED <<store, job, clients>>

\* The step after GetOrCreatePrivateChat has answered with this thread.
WithThread(s, t) ==
    LET j == job[s]
    IN  CASE j.op = "create" -> [j EXCEPT !.thread = t, !.pc = "answer"]
          [] j.op = "text" -> [j EXCEPT !.thread = t,
                                 !.pc = IF t = 0 THEN "refuse" ELSE "save"]
          [] j.op = "auth" -> [j EXCEPT !.thread = t,
                                 !.pc = IF t = 0 THEN "route" ELSE "save"]

\* (As it would be if the conversation were tried for only once.)
RetryNever(s) == job' = [job EXCEPT ![s] = WithThread(s, 0)]

\* An attempt that ended in an error is made once more, then given up.
RetryThread(s) ==
    job' = [job EXCEPT ![s] = IF job[s].retry THEN WithThread(s, 0)
                              ELSE [job[s] EXCEPT !.pc = "find", !.retry = TRUE]]

\* GetOrCreatePrivateChat, first part of an attempt: the friendship and the
\* conversation there may be.  SaveChatMessages asks for the friendship once
\* more before it, and a text is refused when that question fails.
FindThread(s) ==
    LET j == job[s]
        t == threadOf[<<j.by, j.req.to>>]
    IN  /\ At(s, "find")
        /\ \E ok \in BOOLEAN :
             /\ Works(ok)
             /\ IF ~ok THEN \/ RetryThread(s)
                            \/ /\ j.op = "text" /\ ~j.retry
                               /\ job' = [job EXCEPT ![s] = WithThread(s, 0)]
                ELSE job' = [job EXCEPT ![s] =
                               IF ~AreFriends(j.by, j.req.to) THEN WithThread(s, 0)
                               ELSE IF t # 0 THEN WithThread(s, t)
                               ELSE [j EXCEPT !.pc = "insert"]]
        /\ UNCHANGED <<store, uip, mgr, clients>>

\* Second part: the conversation is made, unless another server was first
\* or the statement fails.
InsertThread(s) ==
    LET j == job[s]
    IN  /\ At(s, "insert")
        /\ \/ /\ CreatePrivateChat(j.by, j.req.to)
              /\ job' = [job EXCEPT ![s] = WithThread(s, NewThread)] /\ UNCHANGED counts
           \/ threadOf[<<j.by, j.req.to>>] # 0 /\ RetryThread(s) /\ UNCHANGED <<store, counts>>
           \/ Works(FALSE) /\ RetryThread(s) /\ OrNot(CreatePrivateChat(j.by, j.req.to))
        /\ UNCHANGED <<uip, mgr, clients>>

\* AddFriendApply: the application is stored, or refused when that fails.
SaveApply(s) ==
    /\ At(s, "save") /\ job[s].op = "apply"
    /\ \/ /\ StoreApply(job[s].by, job[s].req.to) /\ GoTo(s, "route")
          /\ UNCHANGED <<uip, mgr, clients, counts>>
       \/ Works(FALSE) /\ Refuse(s) /\ OrNot(StoreApply(job[s].by, job[s].req.to))

\* AuthFriendApply: the friendship, in one transaction; refused when that fails
\* or, before it, the applicant cannot be read.  The welcome messages that
\* follow have fixed client ids; the applicant's is first.
\* (As it would be if both were named after the one who approves.)
WelcomesByApprover(u, v) ==
    <<[from |-> v, cid |-> <<v, u, 0>>], [from |-> u, cid |-> <<v, u, 0>>]>>

Welcomes(u, v) ==
    <<[from |-> v, cid |-> <<v, u, 0>>], [from |-> u, cid |-> <<u, v, 0>>]>>

Confirm(s) ==
    LET u == job[s].by
        v == job[s].req.to
    IN  /\ At(s, "confirm")
        /\ \/ /\ ConfirmApply(u, v)
              /\ job' = [job EXCEPT ![s].pc = "find", ![s].todo = Welcomes(u, v)]
              /\ UNCHANGED <<uip, mgr, clients, counts>>
           \/ Works(FALSE) /\ Refuse(s) /\ OrNot(ConfirmApply(u, v))

Other(s, from) == IF from = job[s].by THEN job[s].req.to ELSE job[s].by

\* One message is dealt with; without the rest of the text nothing is pushed,
\* the welcome messages are saved each on its own.
NextSave(s, saved) ==
    job' = [job EXCEPT ![s].todo = Tail(@), ![s].saved = saved,
                       ![s].pc = IF Len(job[s].todo) = 1 THEN "route" ELSE "save"]

\* SaveChatMessages: the conversation must be theirs; then the insert ...
SaveMessage(s) ==
    LET j == job[s]
        m == Head(j.todo)
    IN  /\ At(s, "save") /\ j.op \in {"text", "auth"}
        /\ IF IsMember(j.thread, j.by, j.req.to)
             THEN InsertMessage(j.thread, m.from, Other(s, m.from), m.cid) /\ GoTo(s, "commit")
                  /\ UNCHANGED <<uip, mgr, clients>>
             ELSE Refuse(s) /\ UNCHANGED store
        /\ UNCHANGED counts

\* ... and the commit.
CommitSave(s) ==
    LET j == job[s]
        m == Head(j.todo)
    IN  /\ At(s, "commit")
        /\ CommitMessage(j.thread, m.from, m.cid)
        /\ NextSave(s, Append(j.saved, [from |-> m.from, cid |-> m.cid,
                                        id |-> IdOf(j.thread, m.from, m.cid)]))
        /\ UNCHANGED <<uip, mgr, clients, counts>>

\* (As it would be if the result of the save were not looked at.)
SaveFailsUnnoticed(s) ==
    LET j == job[s]
        m == Head(j.todo)
    IN  /\ At(s, "commit") /\ Works(FALSE)
        /\ RollbackMessage(j.thread, m.from, m.cid)
        /\ NextSave(s, Append(j.saved, [from |-> m.from, cid |-> m.cid,
                                        id |-> IdOf(j.thread, m.from, m.cid)]))
        /\ UNCHANGED <<uip, mgr, clients>>

\* The transaction is reported as failed: it was rolled back, or committed
\* and the answer lost.  A text is refused, a welcome message only logged.
SaveFails(s) ==
    LET j == job[s]
        m == Head(j.todo)
    IN  /\ At(s, "commit") /\ Try(FALSE)
        /\ \/ RollbackMessage(j.thread, m.from, m.cid) /\ UNCHANGED unpushed
           \/ /\ CommitMessage(j.thread, m.from, m.cid)
              /\ unpushed' = unpushed \cup {IdOf(j.thread, m.from, m.cid)}
        /\ IF j.op = "text" THEN Refuse(s)
           ELSE NextSave(s, j.saved) /\ UNCHANGED <<uip, mgr, clients>>

RefuseText(s) ==
    /\ At(s, "refuse") /\ Refuse(s) /\ UNCHANGED <<store, counts>>

\* What the other one is to be pushed: the messages of the one who is served.
Ids(s) == {job[s].saved[i].id : i \in {k \in DOMAIN job[s].saved :
                                         job[s].saved[k].from = job[s].by}}

\* Where is the other one?  A text whose sender's connection is gone is not
\* pushed; a user who is nowhere finds what is stored at the next login.  A
\* read that fails is taken for a user who is nowhere.
Route(s) ==
    LET j == job[s]
        where == uip[j.req.to].srv
    IN  /\ At(s, "route")
        /\ \/ /\ j.op = "text" /\ ~Open(j.by, s, j.n)
              /\ job' = [job EXCEPT ![s] = Idle]
              /\ unpushed' = unpushed \cup Ids(s)
              /\ UNCHANGED <<scenario, texts, clicks, faults>>
           \/ /\ j.op = "text" => Open(j.by, s, j.n)
              /\ job' = [job EXCEPT ![s].dst = where,
                                    ![s].pc = IF where = NoServer THEN "answer" ELSE "push"]
              /\ UNCHANGED counts
           \/ /\ j.op = "text" => Open(j.by, s, j.n)
              /\ Try(FALSE) /\ where # NoServer
              /\ GoTo(s, "answer") /\ unpushed' = unpushed \cup Ids(s)
        /\ UNCHANGED <<store, uip, mgr, clients>>

\* What the other one is sent; a message of one's own is shown as sent, one
\* of the other as unread.
Shown(s, u) ==
    [i \in DOMAIN job[s].saved |->
        LET m == job[s].saved[i] IN
        [cid |-> m.cid, id |-> m.id, from |-> m.from,
         status |-> IF m.from = u THEN "sent" ELSE "unread"]]

NotifyAddFriend(s) == [op |-> "notifyApply", peer |-> job[s].by]
NotifyAuthFriend(s) == [op |-> "notifyAuth", peer |-> job[s].by, thread |-> job[s].thread,
                        msgs |-> Shown(s, job[s].req.to)]
NotifyTextChatMsg(s) == [op |-> "notifyText", peer |-> job[s].by, thread |-> job[s].thread,
                         msgs |-> Shown(s, job[s].req.to)]
Notice(s) == CASE job[s].op = "apply" -> NotifyAddFriend(s)
               [] job[s].op = "auth"  -> NotifyAuthFriend(s)
               [] job[s].op = "text"  -> NotifyTextChatMsg(s)

\* UserMgr of the server that was found says which session; on another
\* server ChatServiceImpl asks it, after a call.
Notify(dst, v, frame) ==
    down' = IF mgr[dst][v] = 0 THEN down ELSE Sent(v, dst, mgr[dst][v], frame)

Push(s) ==
    LET j == job[s]
    IN  /\ At(s, "push")
        /\ Notify(j.dst, j.req.to, Notice(s)) /\ GoTo(s, "answer")
        /\ UNCHANGED <<store, uip, mgr, link, up, phase, cache, synced, counts>>

\* The call fails: it did not arrive, or its answer did not.
PushFails(s) ==
    LET j == job[s]
    IN  /\ At(s, "push") /\ j.dst # s /\ Try(FALSE)
        /\ \/ down' = down /\ unpushed' = unpushed \cup Ids(s)
           \/ Notify(j.dst, j.req.to, Notice(s)) /\ UNCHANGED unpushed
        /\ GoTo(s, "answer")
        /\ UNCHANGED <<store, uip, mgr, link, up, phase, cache, synced>>

\* The one who approves cannot be read (GetBaseInfo) for the notice of the
\* approval: it goes out with an error, and the client drops it with the
\* welcome messages in it.
NoticeFails(s) ==
    LET j == job[s]
    IN  /\ At(s, "push") /\ j.op = "auth" /\ mgr[j.dst][j.req.to] # 0 /\ Try(FALSE)
        /\ unpushed' = unpushed \cup Ids(s) /\ GoTo(s, "answer")
        /\ UNCHANGED <<store, uip, mgr, clients>>

\* The answer of a handler that has done its work.  The answer to an approval
\* carries the welcome messages: it is the approver's only push of the other's.
Answer(s) ==
    LET j == job[s]
        theirs == {j.saved[i].id : i \in {k \in DOMAIN j.saved : j.saved[k].from # j.by}}
    IN  /\ At(s, "answer")
        /\ Finish(s, [op |-> j.op, ok |-> j.op = "create" => j.thread # 0, peer |-> j.req.to,
                      thread |-> j.thread, msgs |-> Shown(s, j.by)])
        /\ unpushed' = IF j.op = "auth" /\ ~Open(j.by, s, j.n)
                         THEN unpushed \cup theirs ELSE unpushed
        /\ UNCHANGED <<store, scenario, texts, clicks, faults>>

\* LoadChatThreads and LoadChatMessages: one read and its answer; a failed
\* read and a thread of others are answered with an error.
LoadThreads(s) ==
    /\ At(s, "read") /\ job[s].op = "threads"
    /\ \E ok \in BOOLEAN :
         LET got == ChatThreads(job[s].by, job[s].req.after)
         IN  /\ Works(ok)
             /\ IF ok THEN Finish(s, [op |-> "threads", ok |-> TRUE, threads |-> got.page, more |-> got.more])
                ELSE Refuse(s)
    /\ UNCHANGED store

LoadMessages(s) ==
    LET j == job[s]
        got == ChatMessages(j.req.thread, j.req.after)
        row(r) == [cid |-> r.cid, id |-> r.id, from |-> r.from,
                   status |-> IF r.from = j.by THEN "sent" ELSE "unread"]
        mine == \E v \in Users : IsMember(j.req.thread, j.by, v)
    IN  /\ At(s, "read") /\ j.op = "load"
        /\ \E ok \in BOOLEAN :
             /\ Works(ok)
             /\ IF ok /\ mine
                  THEN Finish(s, [op |-> "load", ok |-> TRUE, thread |-> j.req.thread, more |-> got.more,
                            msgs |-> [i \in DOMAIN got.page |-> row(got.page[i])]])
                  ELSE Refuse(s)
        /\ UNCHANGED store

\* The handlers, each with the steps it is made of.
LoginHandler(s) ==
    \/ LoginThreads(s) \/ LoginApplies(s) \/ LoginFriends(s)
    \/ LoginLocate(s) \/ LoginUnlocked(s) \/ LoginBind(s) \/ LoginGreet(s)

GetOrCreatePrivateChat(s) == FindThread(s) \/ InsertThread(s)
SaveChatMessages(s) == SaveMessage(s) \/ CommitSave(s) \/ SaveFails(s)
PushAndAnswer(s) == Route(s) \/ Push(s) \/ PushFails(s) \/ NoticeFails(s) \/ Answer(s)

AddFriendApply(s) == job[s].op = "apply" /\ (SaveApply(s) \/ PushAndAnswer(s))
AuthFriendApply(s) ==
    /\ job[s].op = "auth"
    /\ Confirm(s) \/ GetOrCreatePrivateChat(s) \/ SaveChatMessages(s) \/ PushAndAnswer(s)
DealChatTextMsg(s) ==
    /\ job[s].op = "text"
    /\ GetOrCreatePrivateChat(s) \/ SaveChatMessages(s) \/ RefuseText(s) \/ PushAndAnswer(s)
CreateChat(s) == job[s].op = "create" /\ (GetOrCreatePrivateChat(s) \/ Answer(s))

ServerStep(s) ==
    \/ LoginHandler(s) \/ AddFriendApply(s) \/ AuthFriendApply(s) \/ DealChatTextMsg(s)
    \/ CreateChat(s) \/ LoadThreads(s) \/ LoadMessages(s)

-----------------------------------------------------------------------------
(* The clients. *)

\* requestMessages and loadMoreThreads: frames appended to what is written.
Request(u, frames) == up' = [up EXCEPT ![u] = @ \o frames]
Loads(threads) == [i \in DOMAIN threads |->
                     [op |-> "load", thread |-> threads[i].thread, after |-> 0]]
MoreThreads(frame) ==
    IF frame.more /\ frame.threads # <<>>
      THEN <<[op |-> "threads", after |-> Last(frame.threads).thread]>> ELSE <<>>

\* connectToChat: end the old session, forget its data, connect, and send the
\* login as soon as the connection stands.
ConnectToChat(u, s) ==
    /\ phase[u] = "off" /\ link[u].n < scenario.logins[u]
    /\ link' = [link EXCEPT ![u] = [srv |-> s, n |-> @.n + 1]]
    /\ up' = [up EXCEPT ![u] = <<[op |-> "login"]>>]
    /\ down' = [down EXCEPT ![u] = <<>>]
    /\ phase' = [phase EXCEPT ![u] = "connecting"]
    /\ cache' = [cache EXCEPT ![u] = ClearSession]
    /\ synced' = [synced EXCEPT ![u] = {}]
    /\ UNCHANGED <<store, servers, counts>>

\* CloseConnection: the frames on the way are gone in both directions.
CloseConnection(u) ==
    /\ link' = [link EXCEPT ![u].srv = NoServer]
    /\ up' = [up EXCEPT ![u] = <<>>] /\ down' = [down EXCEPT ![u] = <<>>]
    /\ phase' = [phase EXCEPT ![u] = "off"]

\* The connection breaks, the user ends the session, or the twelve seconds
\* for a login are over: whatever was being sent is shown as failed.
Disconnected(u) ==
    /\ phase[u] # "off"
    /\ CloseConnection(u)
    /\ cache' = [cache EXCEPT ![u] = FailPendingMessages(@)]
    /\ UNCHANGED <<store, servers, synced, counts>>

\* The next frame is of this kind; c is the cache it leaves, frames what the
\* client asks next.
Receive(u, op, c, frames) ==
    /\ down[u] # <<>> /\ Head(down[u]).op = op
    /\ down' = [down EXCEPT ![u] = Tail(@)]
    /\ cache' = [cache EXCEPT ![u] = c]
    /\ Request(u, frames)
    /\ UNCHANGED <<store, servers, link, counts>>

\* onChatLoggedIn: the lists of the answer, then the history of each of its
\* conversations and the next page of conversations; onChatLoginFailed.
OnLogin(u) ==
    /\ down[u] # <<>> /\ phase[u] = "connecting"
    /\ LET f == Head(down[u])
       IN  \/ /\ f.op = "login" /\ f.ok
              /\ Receive(u, "login",
                   SetChatThreads(AppendFriendList(AppendApplyList(cache[u], f.applies),
                                                   f.friends), f.threads),
                   Loads(f.threads) \o MoreThreads(f))
              /\ phase' = [phase EXCEPT ![u] = "ready"] /\ UNCHANGED synced
           \/ /\ f.op = "login" /\ ~f.ok
              /\ CloseConnection(u)
              /\ UNCHANGED <<store, servers, cache, synced, counts>>

\* sig_chat_threads: a later page of conversations.
OnThreads(u) ==
    /\ down[u] # <<>> /\ LET f == Head(down[u]) IN
       /\ f.op = "threads"
       /\ IF f.ok THEN Receive(u, "threads", AppendChatThreads(cache[u], f.threads),
                               Loads(f.threads) \o MoreThreads(f))
          ELSE Receive(u, "threads", cache[u], <<>>)
    /\ UNCHANGED <<phase, synced>>

\* sig_chat_messages: a page of a conversation's history; the next one is
\* asked from its last message.  An error ends the loading silently.
OnMessages(u) ==
    /\ down[u] # <<>> /\ LET f == Head(down[u]) IN
       /\ f.op = "load"
       /\ IF ~f.ok \/ FriendIdByThread(cache[u], f.thread) = "none"
            THEN Receive(u, "load", cache[u], <<>>) /\ UNCHANGED synced
            ELSE /\ Receive(u, "load",
                      AppendFriendChatMsg(cache[u], FriendIdByThread(cache[u], f.thread), f.msgs),
                      IF f.more THEN <<[op |-> "load", thread |-> f.thread,
                                        after |-> Last(f.msgs).id]>> ELSE <<>>)
                 /\ synced' = IF f.more THEN synced
                              ELSE [synced EXCEPT ![u] = @ \cup {f.thread}]
    /\ UNCHANGED phase

\* sig_text_chat_msg: the answer to a text of one's own, or another's text.
OnText(u, op) ==
    /\ down[u] # <<>> /\ LET f == Head(down[u]) IN
       /\ f.op = op /\ (op = "text" => f.ok)
       /\ Receive(u, op, AppendFriendChatMsg(SetThreadId(cache[u], f.peer, f.thread),
                                             f.peer, f.msgs), <<>>)
    /\ UNCHANGED <<phase, synced>>
OnTextRsp(u) == OnText(u, "text")
OnTextNotify(u) == OnText(u, "notifyText")

\* sig_chat_msg_failed: the text is shown as failed.
OnTextFailed(u) ==
    /\ down[u] # <<>> /\ LET f == Head(down[u]) IN
       /\ f.op = "text" /\ ~f.ok
       /\ Receive(u, "text", UpdateChatMessage(cache[u], f.peer, f.cid, 0, "failed"), <<>>)
    /\ UNCHANGED <<phase, synced>>

\* (As it would be if emitJson handled this answer too, which drops errors.)
OnCreatedIfOk(u) ==
    /\ down[u] # <<>> /\ LET f == Head(down[u]) IN
       /\ f.op = "create"
       /\ Receive(u, "create", IF f.ok THEN SetThreadId(cache[u], f.peer, f.thread)
                               ELSE cache[u], <<>>)
    /\ UNCHANGED <<phase, synced>>

\* sig_private_chat_created.
OnCreated(u) ==
    /\ down[u] # <<>> /\ LET f == Head(down[u]) IN
       /\ f.op = "create"
       /\ Receive(u, "create", IF f.ok THEN SetThreadId(cache[u], f.peer, f.thread)
                               ELSE MarkPrivateChatPending(cache[u], f.peer, FALSE), <<>>)
    /\ UNCHANGED <<phase, synced>>

\* sig_friend_apply: one entry per applicant.
FriendApply(c, uid) == IF AlreadyApply(c, uid) THEN c ELSE AddApplyList(c, uid)

OnApply(u) ==
    /\ down[u] # <<>> /\ LET f == Head(down[u]) IN
       /\ f.op = "notifyApply"
       /\ Receive(u, "notifyApply", FriendApply(cache[u], f.peer), <<>>)
    /\ UNCHANGED <<phase, synced>>

\* sig_auth_rsp (I approved) and sig_add_auth_friend (the other one did): the
\* friend, the conversation and the welcome messages.
Befriend(c, f) ==
    AppendFriendChatMsg(SetThreadId(AddFriend(c, f.peer, f.thread, f.msgs), f.peer, f.thread),
                        f.peer, f.msgs)

OnAuth(u, op) ==
    /\ down[u] # <<>> /\ LET f == Head(down[u]) IN
       /\ f.op = op
       /\ Receive(u, op, IF op = "notifyAuth" THEN Befriend(cache[u], f)
                         ELSE IF f.ok THEN Befriend(SetApplyStatus(cache[u], f.peer, 1), f)
                         ELSE cache[u], <<>>)
    /\ UNCHANGED <<phase, synced>>
OnAuthRsp(u) == OnAuth(u, "auth")
OnAuthNotify(u) == OnAuth(u, "notifyAuth")

\* ensurePrivateChat: ask for the conversation once.
Ensure(u, v) ==
    IF ThreadId(cache[u], v) > 0 \/ v \in cache[u].pending THEN <<>>
    ELSE <<[op |-> "create", to |-> v]>>

\* sendText, one frame of it: with the thread known now, 0 when none is.
SendText(u, v) ==
    LET cid == <<u, v, texts + 1>>
        t   == ThreadId(cache[u], v)
    IN  /\ phase[u] = "ready" /\ CheckFriendById(cache[u], v) /\ texts < scenario.texts
        /\ texts' = texts + 1
        /\ Request(u, Ensure(u, v) \o <<[op |-> "text", to |-> v, cid |-> cid, thread |-> t]>>)
        /\ cache' = [cache EXCEPT ![u] = AppendFriendChatMsg(
              IF Ensure(u, v) = <<>> THEN @ ELSE MarkPrivateChatPending(@, v, TRUE), v,
              <<[cid |-> cid, id |-> 0, from |-> u, status |-> "sending"]>>)]
        /\ UNCHANGED <<store, servers, link, down, phase, synced, scenario, clicks, faults, unpushed>>

Click(u, c, frames) ==
    /\ phase[u] = "ready" /\ clicks < scenario.clicks /\ clicks' = clicks + 1
    /\ Request(u, frames) /\ cache' = [cache EXCEPT ![u] = c]
    /\ UNCHANGED <<store, servers, link, down, phase, synced, scenario, texts, faults, unpushed>>

\* openChat, for a friend without a conversation.
OpenChat(u, v) ==
    /\ CheckFriendById(cache[u], v) /\ Ensure(u, v) # <<>>
    /\ Click(u, MarkPrivateChatPending(cache[u], v, TRUE), Ensure(u, v))

\* applyFriend, from the result of a search: not for a friend.
ApplyFriend(u, v) ==
    /\ u # v /\ ~CheckFriendById(cache[u], v)
    /\ Click(u, cache[u], <<[op |-> "apply", to |-> v]>>)

\* authFriend: the button is there until the status changes.
AuthFriend(u, v) ==
    /\ \E i \in DOMAIN cache[u].applies : cache[u].applies[i] = [uid |-> v, status |-> 0]
    /\ Click(u, cache[u], <<[op |-> "auth", to |-> v]>>)

ClientStep(u) ==
    \/ OnLogin(u) \/ OnThreads(u) \/ OnMessages(u) \/ OnTextFailed(u)
    \/ OnTextRsp(u) \/ OnTextNotify(u) \/ OnCreated(u) \/ OnApply(u)
    \/ OnAuthRsp(u) \/ OnAuthNotify(u)

UserStep(u) ==
    \/ \E s \in Servers : ConnectToChat(u, s)
    \/ Disconnected(u)
    \/ \E v \in Users : SendText(u, v) \/ OpenChat(u, v) \/ ApplyFriend(u, v) \/ AuthFriend(u, v)

Next ==
    \/ \E s \in Servers : ServerStep(s)
    \/ \E s \in Servers, u \in Users : DealMsg(s, u) \/ Cleanup(s, u)
    \/ \E u \in Users : ClientStep(u) \/ UserStep(u)

Spec == Init /\ [][Next]_vars
=============================================================================
