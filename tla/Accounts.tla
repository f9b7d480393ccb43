------------------------------ MODULE Accounts ------------------------------
(***************************************************************************)
(* From the login page to the chat page: the four POST handlers of         *)
(* GateServer with the calls they make to VerifyServer and StatusServer,   *)
(* the chat servers' checks of a login and of a search, and the client:    *)
(* HttpMgr and AuthService, the bridges of the login, register and reset   *)
(* pages, SessionService, ShellBridge, and the search of ChatBridge and    *)
(* FriendService.                                                          *)
(*                                                                         *)
(* Each request is a job of its own: GateServer handles them on several IO *)
(* threads, so they interleave at every Redis command, statement and mail. *)
(* A client that gave a request up is no longer listening; the job goes on.*)
(* The chat servers are one here: which session a login replaces and where *)
(* is the subject of Presence.  A scenario bounds clicks and faults.       *)
(***************************************************************************)
EXTENDS AccountStore, Sequences

CONSTANTS Clients,
          Scenarios   \* the rows a behaviour starts from, what users may do and how
                      \* often, the values they type, and how many faults there are

\* The rows a behaviour starts from keep the unique keys of the table.
ASSUME AccountsAssumption ==
    \A s \in Scenarios :
        /\ s.rows \subseteq UserRow /\ IsFiniteSet(s.rows) /\ UniqueKeys(s.rows)
        /\ s.emails \subseteq Emails /\ s.names \subseteq Names /\ s.passwords \subseteq Passwords

VARIABLES job,       \* the requests made so far, each a record
          replies,   \* [Clients -> the requests whose QNetworkReply is alive]
          mailbox,   \* [Emails -> codes that have arrived there]
          page,      \* ShellBridge: "login", "register", "reset", "chat"
          notice,    \* ShellBridge: the offline notice is shown
          form,      \* the bridge of the page: _busy, _codeBusy, _countdown > 0, _done
          phase,     \* SessionService: "off", "connecting" (_connecting), "ready" (_ready)
          timer,     \* SessionService: _timeout is running
          pending,   \* SessionService: _pending, then _current: [uid, token]
          conn,      \* the socket: "closed", "linking", "open"
          bound,     \* the user the server has bound to the connection, 0 none
          up, down,  \* frames on it
          search,    \* ChatBridge: state, the text searched, result; FriendService: asking
          wanted,    \* ghost: the address of the client's last login
          disturbed, \* ghost: addresses whose code expired, could not be read, or was
                     \* being stored when another request looked for it
          scenario, clicks, faults

shell   == <<page, notice, form>>
session == <<phase, timer, pending, conn, bound, up, down>>
client  == <<replies, shell, session, search, wanted>>
counts  == <<scenario, clicks, faults>>
vars    == <<account, job, mailbox, client, disturbed, counts>>

Blank == [busy |-> FALSE, codeBusy |-> FALSE, countdown |-> FALSE, done |-> FALSE]
NoSearch == [state |-> "none", text |-> 0, result |-> 0, asking |-> FALSE]
Forget(s) == [NoSearch EXCEPT !.asking = s.asking]

Init ==
    /\ scenario \in Scenarios /\ clicks = 0 /\ faults = 0
    /\ StoreInit(scenario.rows)
    /\ job = <<>> /\ disturbed = {}
    /\ mailbox = [e \in Emails |-> {}]
    /\ replies = [c \in Clients |-> {}]
    /\ page = [c \in Clients |-> "login"] /\ notice = [c \in Clients |-> FALSE]
    /\ form = [c \in Clients |-> Blank]
    /\ phase = [c \in Clients |-> "off"] /\ timer = [c \in Clients |-> FALSE]
    /\ pending = [c \in Clients |-> [uid |-> 0, token |-> 0]]
    /\ conn = [c \in Clients |-> "closed"] /\ bound = [c \in Clients |-> 0]
    /\ up = [c \in Clients |-> <<>>] /\ down = [c \in Clients |-> <<>>]
    /\ search = [c \in Clients |-> NoSearch]
    /\ wanted = [c \in Clients |-> "none"]

-----------------------------------------------------------------------------
(* The servers.                                                            *)

At(r, pc) == job[r].pc = pc
GoTo(r, pc) == job' = [job EXCEPT ![r].pc = pc]
\* The handler writes its answer; uid and token are set where it succeeds.
Answer(r, ok) == job' = [job EXCEPT ![r].pc = "done", ![r].ok = ok]

\* A command, statement or call that does what it should, or fails.
Works(ok) == /\ ok \/ faults < scenario.faults
             /\ faults' = IF ok THEN faults ELSE faults + 1
             /\ UNCHANGED <<mailbox, client, scenario, clicks>>

\* (As it would be if a code that is still valid were not used again.)
ReadVerifyCodeNever(r) ==
    /\ At(r, "get") /\ Works(TRUE)
    /\ job' = [job EXCEPT ![r].pc = "store", ![r].code = lastCode + 1]
    /\ lastCode' = lastCode + 1
    /\ UNCHANGED <<tables, redis, lastToken, disturbed>>

\* GetVerifyCode: the code of the address is used again while Redis has it; a
\* GET that fails counts as none, and a new code is drawn.
ReadVerifyCode(r) ==
    \E ok \in BOOLEAN :
        LET e == job[r].email
            new == ~ok \/ code[e] = 0
            other == \E q \in DOMAIN job : At(q, "store") /\ job[q].email = e
        IN  /\ At(r, "get") /\ Works(ok)
            /\ job' = [job EXCEPT ![r].pc = IF new THEN "store" ELSE "mail",
                                  ![r].code = IF new THEN lastCode + 1 ELSE code[e]]
            /\ lastCode' = IF new THEN lastCode + 1 ELSE lastCode
            /\ disturbed' = IF ~ok \/ (new /\ other) THEN disturbed \cup {e} ELSE disturbed
            /\ UNCHANGED <<tables, redis, lastToken>>

StoreVerifyCode(r) ==
    \E ok \in BOOLEAN :
        /\ At(r, "store") /\ Works(ok)
        /\ \/ code' = [code EXCEPT ![job[r].email] = job[r].code]
           \/ ~ok /\ UNCHANGED code
        /\ IF ok THEN GoTo(r, "mail") ELSE Answer(r, FALSE)
        /\ UNCHANGED <<tables, token, cached, lastCode, lastToken, disturbed>>

\* EmailSender::Send: an exception can come after the server has taken the mail.
MailVerifyCode(r) ==
    \E ok, sent \in BOOLEAN :
        /\ At(r, "mail") /\ (ok => sent)
        /\ mailbox' = IF sent THEN [mailbox EXCEPT ![job[r].email] = @ \cup {job[r].code}]
                              ELSE mailbox
        /\ Answer(r, ok)
        /\ ok \/ faults < scenario.faults
        /\ faults' = IF ok THEN faults ELSE faults + 1
        /\ UNCHANGED <<account, client, disturbed, scenario, clicks>>

\* SETEX ... 600.
Expire(e) ==
    /\ scenario.expiry /\ code[e] # 0
    /\ code' = [code EXCEPT ![e] = 0]
    /\ disturbed' = disturbed \cup {e}
    /\ UNCHANGED <<tables, token, cached, lastCode, lastToken, job, mailbox, client, counts>>

\* user_register and reset_pwd: the code typed must be the one in Redis.  It
\* is not deleted when it has served.
CheckCode(r) ==
    \E ok \in BOOLEAN :
        /\ At(r, "code") /\ Works(ok)
        /\ IF ok /\ code[job[r].email] # 0 /\ code[job[r].email] = job[r].code
             THEN GoTo(r, IF job[r].op = "register" THEN "names" ELSE "check")
             ELSE Answer(r, FALSE)
        /\ UNCHANGED <<account, disturbed>>

\* reg_user, a statement at a time; what fails is rolled back and answered as
\* UserExist, and so is an insert whose success never reached GateServer.
SelectTaken(r) ==
    \E ok \in BOOLEAN :
        /\ At(r, "names") /\ Works(ok)
        /\ IF ok /\ ~Taken(job[r].name, job[r].email) THEN GoTo(r, "id") ELSE Answer(r, FALSE)
        /\ UNCHANGED <<account, disturbed>>
TakeId(r) ==
    /\ At(r, "id") /\ Works(TRUE) /\ NextId(r)
    /\ job' = [job EXCEPT ![r].pc = "insert", ![r].uid = lastUid']
    /\ UNCHANGED <<redis, lastCode, lastToken, disturbed>>
Row(r) == [uid |-> job[r].uid, name |-> job[r].name, email |-> job[r].email, pwd |-> job[r].pwd]
RegUser(r) ==
    \E ok \in BOOLEAN :
        /\ At(r, "insert") /\ Works(ok)
        /\ \/ InsertUser(Row(r)) /\ Answer(r, ok)
           \/ (~ok \/ Duplicate(Row(r))) /\ RollbackUser /\ Answer(r, FALSE)
        /\ UNCHANGED <<redis, lastCode, lastToken, disturbed>>

\* reset_pwd.
CheckMail(r) ==
    \E ok \in BOOLEAN :
        /\ At(r, "check") /\ Works(ok)
        /\ IF ok /\ CheckEmail(job[r].name, job[r].email) THEN GoTo(r, "update")
                                                          ELSE Answer(r, FALSE)
        /\ UNCHANGED <<account, disturbed>>
ResetPwd(r) ==
    \E ok \in BOOLEAN :
        /\ At(r, "update") /\ Works(ok)
        /\ UpdatePwd(job[r].name, job[r].pwd) \/ (~ok /\ UNCHANGED tables)
        /\ Answer(r, ok)
        /\ UNCHANGED <<redis, lastCode, lastToken, disturbed>>

\* user_login: the password, then the token of StatusServer's GetChatServer,
\* which is in Redis before it is given out.
CheckLogin(r) ==
    \E ok \in BOOLEAN :
        LET uid == CheckPwd(job[r].email, job[r].pwd) IN
        /\ At(r, "pwd") /\ Works(ok)
        /\ IF ok /\ uid # 0 THEN job' = [job EXCEPT ![r].pc = "server", ![r].uid = uid]
                            ELSE Answer(r, FALSE)
        /\ UNCHANGED <<account, disturbed>>
GetChatServer(r) ==
    \E ok \in BOOLEAN :
        /\ At(r, "server") /\ Works(ok)
        /\ lastToken' = lastToken + 1
        /\ \/ token' = [u \in DOMAIN token \cup {job[r].uid} |->
                          IF u = job[r].uid THEN lastToken' ELSE token[u]]
           \/ ~ok /\ UNCHANGED token
        /\ job' = [job EXCEPT ![r].pc = "done", ![r].ok = ok, ![r].code = lastToken']
        /\ UNCHANGED <<tables, code, cached, lastCode, disturbed>>

\* The four handlers, each from its first call to its answer.
GetVerifyCode(r) == ReadVerifyCode(r) \/ StoreVerifyCode(r) \/ MailVerifyCode(r)
get_verifycode(r) == GetVerifyCode(r)
user_register(r) == /\ job[r].op = "register"
                    /\ CheckCode(r) \/ SelectTaken(r) \/ TakeId(r) \/ RegUser(r)
reset_pwd(r) == job[r].op = "reset" /\ (CheckCode(r) \/ CheckMail(r) \/ ResetPwd(r))
user_login(r) == CheckLogin(r) \/ GetChatServer(r)

JobStep == \E r \in DOMAIN job :
    get_verifycode(r) \/ user_register(r) \/ reset_pwd(r) \/ user_login(r)

\* The chat server takes the next frame of the connection.
Frame(c, op) == conn[c] = "open" /\ up[c] # <<>> /\ Head(up[c]).op = op
Serves(ok) == /\ ok \/ faults < scenario.faults
              /\ faults' = IF ok THEN faults ELSE faults + 1
              /\ UNCHANGED <<tables, code, token, lastCode, lastToken, job, mailbox, replies,
                    shell, phase, timer, pending, conn, search, wanted, disturbed, scenario, clicks>>

\* LoginHandler: the token in Redis and the user's data; then a session the
\* user had is told to go offline.
ChatLogin(c) ==
    \E ok \in BOOLEAN :
        LET req == Head(up[c])
            known == ok /\ req.uid \in DOMAIN token /\ token[req.uid] = req.token
            good == known /\ GetBaseInfo(req.uid)
            old(d) == good /\ d # c /\ bound[d] = req.uid
        IN  /\ Frame(c, "login") /\ Serves(ok)
            /\ cached' = IF good THEN CacheUser(req.uid, GetUser(req.uid)) ELSE cached
            /\ bound' = [d \in Clients |-> IF old(d) THEN 0
                                           ELSE IF d = c /\ good THEN req.uid ELSE bound[d]]
            /\ up' = [up EXCEPT ![c] = Tail(@)]
            /\ down' = [d \in Clients |->
                  IF d = c THEN Append(down[c], [op |-> "login", ok |-> good, uid |-> req.uid])
                  ELSE IF old(d) THEN Append(down[d], [op |-> "offline"]) ELSE down[d]]

\* SearchInfo, which a session without a user is refused.
SearchInfo(c) ==
    \E ok \in BOOLEAN :
        LET key == Head(up[c]).key
            uid == IF ok THEN GetUser(key) ELSE 0
        IN  /\ Frame(c, "search") /\ Serves(ok)
            /\ cached' = CacheUser(key, uid)
            /\ up' = [up EXCEPT ![c] = Tail(@)]
            /\ down' = IF bound[c] = 0 THEN down
                       ELSE [down EXCEPT ![c] = Append(@, [op |-> "search", uid |-> uid])]
            /\ UNCHANGED bound

-----------------------------------------------------------------------------
(* The client: the session.                                                *)

\* On the chat page the user is told that the connection is gone, once.
ShowOfflineNotice(c) == notice[c] \/ (page[c] = "chat" /\ conn[c] = "open")

\* closeSession, and what the disconnected signal of an open socket does: the
\* search that is under way will not be answered.
HangUp(c) ==
    /\ bound' = [bound EXCEPT ![c] = 0]
    /\ up' = [up EXCEPT ![c] = <<>>] /\ down' = [down EXCEPT ![c] = <<>>]
    /\ search' = [search EXCEPT ![c].asking = @ /\ conn[c] # "open"]
    /\ notice' = [notice EXCEPT ![c] = ShowOfflineNotice(c)]
    /\ UNCHANGED page
\* (As it would be if the timer of the session went on running.)
CloseSessionTimed(c) ==
    /\ HangUp(c)
    /\ conn' = [conn EXCEPT ![c] = "closed"]
    /\ phase' = [phase EXCEPT ![c] = "off"] /\ UNCHANGED <<timer, pending>>

CloseSession(c) ==
    /\ HangUp(c)
    /\ conn' = [conn EXCEPT ![c] = "closed"]
    /\ phase' = [phase EXCEPT ![c] = "off"] /\ timer' = [timer EXCEPT ![c] = FALSE]
    /\ UNCHANGED pending

\* failAndReset: LoginBridge, if its page is there, is busy no more.
NotBusy(c) == [form EXCEPT ![c].busy = @ /\ page[c] # "login"]
FailAndReset(c) == CloseSession(c) /\ form' = NotBusy(c)
ClientOnly == UNCHANGED <<account, job, mailbox, wanted, disturbed, counts>>

\* connectToChat: a new session, with a timer over connecting and logging in.
ConnectToChat(c, info) ==
    /\ HangUp(c)
    /\ conn' = [conn EXCEPT ![c] = "linking"]
    /\ phase' = [phase EXCEPT ![c] = "connecting"] /\ timer' = [timer EXCEPT ![c] = TRUE]
    /\ pending' = [pending EXCEPT ![c] = info]

\* onTcpConnected sends the login frame.  A server that is gone refuses the
\* connection or does not answer at all: its entry in logincount stays.
TcpConnected(c) ==
    /\ conn[c] = "linking"
    /\ conn' = [conn EXCEPT ![c] = "open"]
    /\ up' = [up EXCEPT ![c] = <<[op |-> "login", uid |-> pending[c].uid, token |-> pending[c].token]>>]
    /\ UNCHANGED <<phase, timer, pending, bound, down, replies, shell, search>> /\ ClientOnly
ConnectFails(c) ==
    /\ conn[c] = "linking" /\ FailAndReset(c) /\ UNCHANGED replies /\ ClientOnly
SessionTimeout(c) ==
    /\ timer[c] /\ FailAndReset(c) /\ UNCHANGED replies /\ ClientOnly

\* (As it would be if a connection lost while logging in failed no login.)
DisconnectedQuietly(c) ==
    /\ conn[c] = "open" /\ CloseSession(c) /\ UNCHANGED <<form, replies>> /\ ClientOnly

\* The connection breaks: while logging in that is a failed login.
Disconnected(c) ==
    /\ conn[c] = "open"
    /\ CloseSession(c)
    /\ form' = IF phase[c] = "connecting" THEN NotBusy(c) ELSE form
    /\ UNCHANGED replies /\ ClientOnly

\* The next frame from the server.
Got(c, op) == /\ conn[c] = "open" /\ down[c] # <<>> /\ Head(down[c]).op = op
              /\ UNCHANGED replies /\ ClientOnly
Drop(c) == down' = [down EXCEPT ![c] = Tail(@)] /\ UNCHANGED <<conn, bound, up>>

\* onChatLoggedIn, onChatLoginFailed: to the chat page, whose bridges are new
\* while FriendService still remembers a search; or back to the form.
OnChatLogin(c) ==
    LET rsp == Head(down[c]) IN
    /\ Got(c, "login")
    /\ CASE phase[c] # "connecting" -> Drop(c) /\ UNCHANGED <<phase, timer, pending, shell, search>>
         [] phase[c] = "connecting" /\ rsp.ok /\ rsp.uid = pending[c].uid ->
              /\ Drop(c)
              /\ phase' = [phase EXCEPT ![c] = "ready"] /\ timer' = [timer EXCEPT ![c] = FALSE]
              /\ page' = [page EXCEPT ![c] = "chat"] /\ form' = [form EXCEPT ![c] = Blank]
              /\ search' = [search EXCEPT ![c] = Forget(@)]
              /\ UNCHANGED <<pending, notice>>
         [] OTHER -> FailAndReset(c)

\* sig_notify_offline: another session of the user has been logged in.
OnOffline(c) == Got(c, "offline") /\ FailAndReset(c)

\* The page takes an answer for that to the text searched last, and only while
\* it is searching; the user's own account is no result.
UserFound(s, self, uid) ==
    CASE s.state # "searching" -> s
      [] s.state = "searching" /\ uid = 0 -> [s EXCEPT !.state = "failed", !.result = 0]
      [] s.state = "searching" /\ uid = self -> Forget(s)
      [] OTHER -> [s EXCEPT !.state = "found", !.result = uid]
OnSearchRsp(c) ==
    LET s == search[c]
        shown == IF s.asking THEN UserFound(s, pending[c].uid, Head(down[c]).uid) ELSE s
    IN  /\ Got(c, "search") /\ Drop(c)
        /\ search' = [search EXCEPT ![c] = [shown EXCEPT !.asking = FALSE]]
        /\ UNCHANGED <<phase, timer, pending, shell>>

-----------------------------------------------------------------------------
(* The client: answers to the requests to GateServer (AuthService and the  *)
(* bridge of the page).                                                    *)

OnVerifyCode(c, ok) ==
    /\ form' = IF form[c].codeBusy
                 THEN [form EXCEPT ![c].codeBusy = FALSE, ![c].countdown = ok] ELSE form
    /\ UNCHANGED <<page, notice, session, search>>
OnSubmitted(c, ok) ==
    /\ form' = [form EXCEPT ![c].busy = FALSE, ![c].done = @ \/ ok]
    /\ UNCHANGED <<page, notice, session, search>>
OnRegResponse(c, r, ok) == job[r].op = "register" /\ OnSubmitted(c, ok)
OnResetResponse(c, r, ok) == job[r].op = "reset" /\ OnSubmitted(c, ok)
OnLoginResponse(c, r, ok) ==
    IF page[c] # "login" THEN UNCHANGED <<shell, session, search>>
    ELSE IF ok THEN /\ ConnectToChat(c, [uid |-> job[r].uid, token |-> job[r].code])
                    /\ UNCHANGED form
    ELSE form' = NotBusy(c) /\ UNCHANGED <<page, notice, session, search>>

\* An answer goes to the page of the module that asked for it, if it is there.
Response(c, r, ok) ==
    CASE job[r].op = "login" -> OnLoginResponse(c, r, ok)
      [] job[r].op # "login" /\ job[r].page # page[c] -> UNCHANGED <<shell, session, search>>
      [] job[r].op = "verifycode" /\ job[r].page = page[c] -> OnVerifyCode(c, ok)
      [] OTHER -> OnRegResponse(c, r, ok) \/ OnResetResponse(c, r, ok)

\* HttpMgr: the reply is finished by the answer, or by the transfer timer or a
\* broken connection, after which the answer is dropped.  GateServer's own
\* answer RPCFailed, when a call's deadline passes, is a failure like these.
HttpFinished(c, r) ==
    /\ r \in replies[c] /\ At(r, "done")
    /\ replies' = [replies EXCEPT ![c] = @ \ {r}]
    /\ Response(c, r, job[r].ok) /\ ClientOnly
\* (As it would be if a reply that was aborted could still be answered.)
HttpErrorKeeps(c, r) == r \in replies[c] /\ Response(c, r, FALSE) /\ UNCHANGED replies /\ ClientOnly

HttpError(c, r) ==
    /\ r \in replies[c]
    /\ replies' = [replies EXCEPT ![c] = @ \ {r}]
    /\ Response(c, r, FALSE) /\ ClientOnly

-----------------------------------------------------------------------------
(* The user.                                                               *)

Click(op) == /\ op \in scenario.ops /\ clicks < scenario.clicks /\ clicks' = clicks + 1
             /\ UNCHANGED <<account, mailbox, session, disturbed, scenario, faults>>
Request(op, c) == [op |-> op, page |-> page[c], pc |-> "none", ok |-> FALSE, uid |-> 0, code |-> 0,
                   name |-> "none", email |-> "none", pwd |-> "none"]
Post(c, req) == /\ job' = Append(job, req)
                /\ replies' = [replies EXCEPT ![c] = @ \cup {Len(job) + 1}]
                /\ UNCHANGED <<page, notice, search>>
Free(c) == ~form[c].busy /\ ~form[c].codeBusy /\ ~form[c].done

\* sendCode of both bridges: not while the countdown of the last code runs.
SendCode(c, op, e) ==
    /\ page[c] = op /\ Free(c) /\ ~form[c].countdown
    /\ Click("verifycode")
    /\ form' = [form EXCEPT ![c].codeBusy = TRUE]
    /\ Post(c, [Request("verifycode", c) EXCEPT !.pc = "get", !.email = e])
    /\ UNCHANGED wanted
SendRegisterCode(c, e) == SendCode(c, "register", e)
SendResetCode(c, e) == SendCode(c, "reset", e)

\* submit of both: the user types a code that has come by mail.
Submit(c, op, e, n, p) ==
    \E k \in mailbox[e] :
        /\ page[c] = op /\ Free(c) /\ Click(op)
        /\ form' = [form EXCEPT ![c].busy = TRUE]
        /\ Post(c, [Request(op, c) EXCEPT !.pc = "code", !.email = e, !.name = n, !.pwd = p, !.code = k])
        /\ UNCHANGED wanted
SubmitRegister(c, e, n, p) == Submit(c, "register", e, n, p)
SubmitReset(c, e, n, p) == Submit(c, "reset", e, n, p)

\* LoginBridge::login.
Login(c, e, p) ==
    /\ page[c] = "login" /\ ~form[c].busy /\ Click("login")
    /\ form' = [form EXCEPT ![c].busy = TRUE]
    /\ wanted' = [wanted EXCEPT ![c] = e]
    /\ Post(c, [Request("login", c) EXCEPT !.pc = "pwd", !.email = e, !.pwd = p])

\* PageBridge::go, by a link or 1.6 s after a success; not while a request is
\* under way (navigationBlocked).
Go(c, target) ==
    /\ page[c] # "chat" /\ (page[c] = "login") # (target = "login")
    /\ target \in scenario.ops \cup {"login"}
    /\ ~form[c].busy /\ ~form[c].codeBusy
    /\ page' = [page EXCEPT ![c] = target] /\ form' = [form EXCEPT ![c] = Blank]
    /\ UNCHANGED <<notice, replies, session, search>> /\ ClientOnly

\* The 60 s after a code was sent.
CountdownEnds(c) ==
    /\ form[c].countdown /\ form' = [form EXCEPT ![c].countdown = FALSE]
    /\ UNCHANGED <<page, notice, replies, session, search>> /\ ClientOnly

\* dismissNotice: the session is closed already.
DismissNotice(c) ==
    /\ notice[c]
    /\ notice' = [notice EXCEPT ![c] = FALSE]
    /\ page' = [page EXCEPT ![c] = "login"] /\ form' = [form EXCEPT ![c] = Blank]
    /\ UNCHANGED <<replies, session, search>> /\ ClientOnly

\* ChatBridge::search and FriendService::searchUser: one search at a time on
\* the wire, whatever the page shows.
Ask(c, key) ==
    /\ page[c] = "chat" /\ ~notice[c] /\ phase[c] = "ready" /\ search[c].state # "searching"
    /\ "search" \in scenario.ops /\ clicks < scenario.clicks /\ clicks' = clicks + 1
    /\ UNCHANGED <<account, mailbox, job, replies, shell, phase, timer, pending, conn, bound, down,
                   wanted, disturbed, scenario, faults>>
Searching(c, key) ==
    /\ search' = [search EXCEPT ![c].state = "searching", ![c].text = key, ![c].asking = TRUE]
    /\ up' = [up EXCEPT ![c] = Append(@, [op |-> "search", key |-> key])]
\* (As it would be if a search could be sent before the last was answered.)
SearchAgain(c, key) == Ask(c, key) /\ Searching(c, key)

Search(c, key) ==
    /\ Ask(c, key)
    /\ IF search[c].asking
         THEN search' = [search EXCEPT ![c].state = "failed", ![c].text = key] /\ UNCHANGED up
         ELSE Searching(c, key)
ClearSearch(c) ==
    /\ page[c] = "chat" /\ search[c].state # "none"
    /\ search' = [search EXCEPT ![c] = Forget(@)]
    /\ UNCHANGED <<replies, shell, session>> /\ ClientOnly

-----------------------------------------------------------------------------
ChatStep == \E c \in Clients : ChatLogin(c) \/ SearchInfo(c)

Events(c) == \/ TcpConnected(c) \/ ConnectFails(c) \/ SessionTimeout(c) \/ Disconnected(c)
             \/ OnChatLogin(c) \/ OnOffline(c) \/ OnSearchRsp(c) \/ CountdownEnds(c)
             \/ \E r \in DOMAIN job : HttpFinished(c, r) \/ HttpError(c, r)

UserStep(c) ==
    \/ \E e \in scenario.emails : \/ SendRegisterCode(c, e) \/ SendResetCode(c, e)
                                  \/ \E p \in scenario.passwords : Login(c, e, p)
    \/ \E e \in scenario.emails, n \in scenario.names, p \in scenario.passwords :
          SubmitRegister(c, e, n, p) \/ SubmitReset(c, e, n, p)
    \/ \E target \in {"login", "register", "reset"} : Go(c, target)
    \/ DismissNotice(c)
    \/ \E key \in scenario.keys : Search(c, key)
    \/ ClearSearch(c)

Next == \/ JobStep \/ (\E e \in Emails : Expire(e)) \/ ChatStep
        \/ \E c \in Clients : Events(c) \/ UserStep(c)

\* The timers of the client run out: HttpMgr's transfer timer and the session's.
Fairness == \A c \in Clients : /\ WF_vars(\E r \in DOMAIN job : HttpError(c, r))
                               /\ WF_vars(SessionTimeout(c))

Spec == Init /\ [][Next]_vars /\ Fairness
=============================================================================
