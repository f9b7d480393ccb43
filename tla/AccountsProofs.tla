--------------------------- MODULE AccountsProofs ---------------------------
(***************************************************************************)
(* For any clients, addresses, names, passwords and scenarios: every       *)
(* invariant of AccountsProps.  The invariant has a part per concern, the  *)
(* rows, the codes, the session and the search, each proved from the types *)
(* and the parts before it.                                                *)
(***************************************************************************)
EXTENDS AccountsProps, TLAPS, FiniteSetTheorems, WellFoundedInduction,
        SequenceTheorems

-----------------------------------------------------------------------------
(* The types.                                                              *)

Ops == {"verifycode", "register", "reset", "login"}
Pcs == {"get", "store", "mail", "code", "names", "id", "insert", "check", "update",
        "pwd", "server", "done"}
Pages == {"login", "register", "reset", "chat"}
Keys == UNION {s.keys : s \in Scenarios}

JobRecord == [op : Ops, page : Pages, pc : Pcs, ok : BOOLEAN, uid : Nat, code : Nat,
              name : Names \cup {"none"}, email : Emails, pwd : Passwords \cup {"none"}]
Form == [busy : BOOLEAN, codeBusy : BOOLEAN, countdown : BOOLEAN, done : BOOLEAN]
UpFrame == [op : {"login"}, uid : Nat \ {0}, token : Nat] \cup [op : {"search"}, key : Keys]
DownFrame == [op : {"login"}, ok : BOOLEAN, uid : Nat] \cup [op : {"offline"}]
               \cup [op : {"search"}, uid : Nat]
SearchRecord == [state : {"none", "searching", "found", "failed"}, text : Keys \cup {0},
                 result : Nat, asking : BOOLEAN]

StoreTyped ==
    /\ scenario \in Scenarios
    /\ users \subseteq UserRow /\ lastUid \in Nat /\ lastCode \in Nat /\ lastToken \in Nat
    /\ code \in [Emails -> Nat] /\ mailbox \in [Emails -> SUBSET Nat]
    /\ job \in Seq(JobRecord)

ClientTyped ==
    /\ replies \in [Clients -> SUBSET Nat]
    /\ page \in [Clients -> Pages] /\ notice \in [Clients -> BOOLEAN]
    /\ form \in [Clients -> Form]
    /\ phase \in [Clients -> {"off", "connecting", "ready"}] /\ timer \in [Clients -> BOOLEAN]
    /\ pending \in [Clients -> [uid : Nat, token : Nat]]
    /\ conn \in [Clients -> {"closed", "linking", "open"}] /\ bound \in [Clients -> Nat]
    /\ wanted \in [Clients -> Emails \cup {"none"}]

WireTyped ==
    /\ up \in [Clients -> Seq(UpFrame)] /\ down \in [Clients -> Seq(DownFrame)]
    /\ search \in [Clients -> SearchRecord]

-----------------------------------------------------------------------------
(* The rows.                                                               *)

\* Each handler is at a step of its own, has what its page sent, and is done
\* when it has succeeded.
Shape(j) ==
    /\ j.op = "verifycode" => j.pc \in {"get", "store", "mail", "done"}
    /\ j.op = "register" => j.pc \in {"code", "names", "id", "insert", "done"}
    /\ j.op = "reset" => j.pc \in {"code", "check", "update", "done"}
    /\ j.op = "login" => j.pc \in {"pwd", "server", "done"}
    /\ j.op \in {"register", "reset"} => j.name \in Names /\ j.pwd \in Passwords
    /\ j.op # "login" => j.page \in {"register", "reset"}
    /\ j.ok => j.pc = "done"

\* A registration that is answered has its row, and a login that has got past
\* the password has the uid of the row of its address.
Answered(j) ==
    /\ j.op = "register" /\ j.ok =>
          \E q \in users : q.uid = j.uid /\ q.email = j.email /\ q.name = j.name
    /\ j.op = "login" /\ (j.pc = "server" \/ j.ok) =>
          \E q \in users : q.uid = j.uid /\ q.email = j.email

\* The transaction that inserts has the row of user_id locked, so its uid is
\* the last one drawn.
LockHeld ==
    /\ rowLock # 0 => rowLock \in DOMAIN job /\ At(rowLock, "insert")
    /\ \A r \in DOMAIN job : At(r, "insert") => /\ rowLock = r
                                                /\ job[r].uid = lastUid /\ lastUid # 0

RowsInv == /\ UniqueKeys(users) /\ LockHeld
           /\ \A r \in DOMAIN job : Shape(job[r]) /\ Answered(job[r])

-----------------------------------------------------------------------------
(* The codes.                                                              *)

CodeDrawn ==
    /\ \A e \in Emails : code[e] <= lastCode /\ \A k \in mailbox[e] : k <= lastCode
    /\ \A r \in DOMAIN job : At(r, "store") \/ At(r, "mail") => job[r].code \in 1..lastCode

\* While nothing disturbed an address, its code is stored by one request and
\* mailed, by that one and by others, only when it is stored.
OneCode(e) ==
    /\ mailbox[e] \subseteq {code[e]} /\ (code[e] = 0 => mailbox[e] = {})
    /\ \A r \in DOMAIN job : job[r].email = e =>
         /\ At(r, "mail") => job[r].code = code[e]
         /\ At(r, "store") => /\ code[e] = 0
                              /\ \A q \in DOMAIN job : job[q].email = e /\ At(q, "store") => q = r

CodesInv == CodeDrawn /\ \A e \in Emails \ disturbed : OneCode(e)

-----------------------------------------------------------------------------
(* The session.                                                            *)

SessionOf(c) ==
    /\ timer[c] <=> phase[c] = "connecting"
    /\ (conn[c] = "closed") <=> (phase[c] = "off")
    /\ notice[c] => page[c] = "chat" /\ phase[c] = "off"
    /\ (page[c] = "chat") <=> (notice[c] \/ phase[c] = "ready")
    /\ phase[c] = "ready" => conn[c] = "open"
    /\ phase[c] = "connecting" => page[c] = "login" /\ form[c].busy

\* A login that is awaited keeps its page busy, so there is one, it is the
\* last that was asked for, and no session is under way.
AwaitedLogin(c, r) == r \in replies[c] /\ job[r].op = "login"
Awaiting(c) ==
    /\ replies[c] \subseteq DOMAIN job
    /\ \A r \in DOMAIN job : AwaitedLogin(c, r) =>
         /\ page[c] = "login" /\ form[c].busy /\ phase[c] = "off"
         /\ job[r].email = wanted[c]
         /\ \A q \in DOMAIN job : AwaitedLogin(c, q) => q = r

\* From the answer on, the session is one of the address asked for.
OfWanted(c) ==
    phase[c] # "off" => \E r \in users : r.uid = pending[c].uid /\ r.email = wanted[c]

SessionInv == \A c \in Clients : SessionOf(c) /\ Awaiting(c) /\ OfWanted(c)

-----------------------------------------------------------------------------
(* The search.                                                             *)

Matches(key, uid) == \E r \in users : r.uid = uid /\ key \in {r.uid, r.name}
CacheIsTrue == \A entry \in cached : Matches(entry.key, entry.uid)

IsSearch(frames, i) == i \in DOMAIN frames /\ frames[i].op = "search"

\* A connection carries one search or its answer at most, and while the page
\* is searching that is the one for the text it shows.
OneSearch(c) ==
    /\ conn[c] # "open" => up[c] = <<>> /\ down[c] = <<>> /\ bound[c] = 0
    /\ \A i, j \in Nat : IsSearch(up[c], i) /\ IsSearch(up[c], j) => i = j
    /\ \A i, j \in Nat : IsSearch(down[c], i) /\ IsSearch(down[c], j) => i = j
    /\ \A i, j \in Nat : ~(IsSearch(up[c], i) /\ IsSearch(down[c], j))
    /\ \A i \in Nat : IsSearch(up[c], i) \/ IsSearch(down[c], i) => search[c].asking

AnswersText(c) ==
    /\ search[c].state = "found" => Matches(search[c].text, search[c].result)
    /\ search[c].state = "searching" =>
         \A i \in Nat :
            /\ IsSearch(up[c], i) => up[c][i].key = search[c].text
            /\ IsSearch(down[c], i) => \/ down[c][i].uid = 0
                                       \/ Matches(search[c].text, down[c][i].uid)

SearchInv == CacheIsTrue /\ \A c \in Clients : OneSearch(c) /\ AnswersText(c)

-----------------------------------------------------------------------------
IInv == /\ StoreTyped /\ ClientTyped /\ WireTyped
        /\ RowsInv /\ CodesInv /\ SessionInv /\ SearchInv

-----------------------------------------------------------------------------
(* What a step of a handler does to the requests.                          *)

SameRequest(new, old) ==
    /\ new.op = old.op /\ new.page = old.page /\ new.name = old.name
    /\ new.email = old.email /\ new.pwd = old.pwd

\* Only request r changes, in its step, its result, its uid and its code.
JobEdits(r) ==
    /\ job' \in Seq(JobRecord) /\ DOMAIN job' = DOMAIN job
    /\ \A q \in DOMAIN job : q # r => job'[q] = job[q]
    /\ SameRequest(job'[r], job[r])

\* A request is replaced by one of the same page.
LEMMA EditsOne ==
  ASSUME job \in Seq(JobRecord), NEW r \in DOMAIN job, NEW new \in JobRecord,
         SameRequest(new, job[r]), job' = [job EXCEPT ![r] = new]
  PROVE  JobEdits(r) /\ job'[r] = new
<1>1. job' \in Seq(JobRecord)
  BY ExceptSeq, LenProperties
<1> QED
  BY <1>1 DEF JobEdits, SameRequest

\* A handler that goes on keeps its uid and code.
LEMMA GoToEdits ==
  ASSUME job \in Seq(JobRecord), NEW r \in DOMAIN job, NEW pc \in Pcs, GoTo(r, pc)
  PROVE  /\ JobEdits(r)
         /\ job'[r].pc = pc /\ job'[r].ok = job[r].ok
         /\ job'[r].uid = job[r].uid /\ job'[r].code = job[r].code
<1> DEFINE new == [job[r] EXCEPT !.pc = pc]
<1>1. job[r] \in JobRecord
  BY ElementOfSeq, LenProperties
<1>2. /\ new \in JobRecord /\ SameRequest(new, job[r])
      /\ new.pc = pc /\ new.ok = job[r].ok /\ new.uid = job[r].uid /\ new.code = job[r].code
  BY <1>1 DEF JobRecord, SameRequest, Pcs
<1>3. job' = [job EXCEPT ![r] = new]
  BY DEF GoTo
<1> HIDE DEF new
<1> QED
  BY <1>2, <1>3, EditsOne

\* One that answers is done, with its result.
LEMMA AnswerEdits ==
  ASSUME job \in Seq(JobRecord), NEW r \in DOMAIN job, NEW ok \in BOOLEAN, Answer(r, ok)
  PROVE  /\ JobEdits(r)
         /\ job'[r].pc = "done" /\ job'[r].ok = ok
         /\ job'[r].uid = job[r].uid /\ job'[r].code = job[r].code
<1> DEFINE new == [job[r] EXCEPT !.pc = "done", !.ok = ok]
<1>1. job[r] \in JobRecord
  BY ElementOfSeq, LenProperties
<1>2. /\ new \in JobRecord /\ SameRequest(new, job[r])
      /\ new.pc = "done" /\ new.ok = ok /\ new.uid = job[r].uid /\ new.code = job[r].code
  BY <1>1 DEF JobRecord, SameRequest, Pcs
<1>3. job' = [job EXCEPT ![r] = new]
  BY DEF Answer
<1> HIDE DEF new
<1> QED
  BY <1>2, <1>3, EditsOne

\* One that gets a code goes on with it.
LEMMA CodeEdits ==
  ASSUME job \in Seq(JobRecord), NEW r \in DOMAIN job, NEW pc \in Pcs, NEW k \in Nat,
         job' = [job EXCEPT ![r].pc = pc, ![r].code = k]
  PROVE  /\ JobEdits(r)
         /\ job'[r].pc = pc /\ job'[r].ok = job[r].ok
         /\ job'[r].uid = job[r].uid /\ job'[r].code = k
<1> DEFINE new == [job[r] EXCEPT !.pc = pc, !.code = k]
<1>1. job[r] \in JobRecord
  BY ElementOfSeq, LenProperties
<1>2. /\ new \in JobRecord /\ SameRequest(new, job[r])
      /\ new.pc = pc /\ new.ok = job[r].ok /\ new.uid = job[r].uid /\ new.code = k
  BY <1>1 DEF JobRecord, SameRequest, Pcs
<1>3. job' = [job EXCEPT ![r] = new]
  BY <1>1
<1> HIDE DEF new
<1> QED
  BY <1>2, <1>3, EditsOne

\* One that gets a uid goes on with it.
LEMMA UidEdits ==
  ASSUME job \in Seq(JobRecord), NEW r \in DOMAIN job, NEW pc \in Pcs, NEW u \in Nat,
         job' = [job EXCEPT ![r].pc = pc, ![r].uid = u]
  PROVE  /\ JobEdits(r)
         /\ job'[r].pc = pc /\ job'[r].ok = job[r].ok
         /\ job'[r].uid = u /\ job'[r].code = job[r].code
<1> DEFINE new == [job[r] EXCEPT !.pc = pc, !.uid = u]
<1>1. job[r] \in JobRecord
  BY ElementOfSeq, LenProperties
<1>2. /\ new \in JobRecord /\ SameRequest(new, job[r])
      /\ new.pc = pc /\ new.ok = job[r].ok /\ new.uid = u /\ new.code = job[r].code
  BY <1>1 DEF JobRecord, SameRequest, Pcs
<1>3. job' = [job EXCEPT ![r] = new]
  BY <1>1
<1> HIDE DEF new
<1> QED
  BY <1>2, <1>3, EditsOne

\* The last step of a login answers with the token.
LEMMA TokenEdits ==
  ASSUME job \in Seq(JobRecord), NEW r \in DOMAIN job, NEW ok \in BOOLEAN, NEW k \in Nat,
         job' = [job EXCEPT ![r].pc = "done", ![r].ok = ok, ![r].code = k]
  PROVE  /\ JobEdits(r)
         /\ job'[r].pc = "done" /\ job'[r].ok = ok
         /\ job'[r].uid = job[r].uid /\ job'[r].code = k
<1> DEFINE new == [job[r] EXCEPT !.pc = "done", !.ok = ok, !.code = k]
<1>1. job[r] \in JobRecord
  BY ElementOfSeq, LenProperties
<1>2. /\ new \in JobRecord /\ SameRequest(new, job[r])
      /\ new.pc = "done" /\ new.ok = ok /\ new.uid = job[r].uid /\ new.code = k
  BY <1>1 DEF JobRecord, SameRequest, Pcs
<1>3. job' = [job EXCEPT ![r] = new]
  BY <1>1
<1> HIDE DEF new
<1> QED
  BY <1>2, <1>3, EditsOne

-----------------------------------------------------------------------------
(* The rows.                                                               *)

\* No statement removes a row, its uid, its address or its name.
RowsKept == \A r \in users : \E q \in users' :
    q.uid = r.uid /\ q.email = r.email /\ q.name = r.name

\* UpdatePwd changes passwords only.
LEMMA UpdateKeepsRows ==
  ASSUME users \subseteq UserRow, UniqueKeys(users), NEW n, NEW p \in Passwords, UpdatePwd(n, p)
  PROVE  users' \subseteq UserRow /\ UniqueKeys(users') /\ RowsKept
<1> DEFINE new(r) == IF r.name = n THEN [r EXCEPT !.pwd = p] ELSE r
<1>1. \A r \in users : /\ new(r) \in UserRow /\ new(r).uid = r.uid
                       /\ new(r).email = r.email /\ new(r).name = r.name
  BY DEF UserRow
<1>2. users' = {new(r) : r \in users}
  BY DEF UpdatePwd
<1> HIDE DEF new
<1> QED
  BY <1>1, <1>2 DEF UniqueKeys, RowsKept

\* InsertUser keeps the unique keys.
LEMMA InsertKeepsRows ==
  ASSUME users \subseteq UserRow, UniqueKeys(users), NEW row \in UserRow, InsertUser(row)
  PROVE  users' \subseteq UserRow /\ UniqueKeys(users') /\ RowsKept /\ row \in users'
BY DEF InsertUser, InsertAlways, Duplicate, UniqueKeys, RowsKept

\* A step of a request that is not at its insert keeps the rows as they must
\* be, if the request itself does.
LEMMA RowsByOthers ==
  ASSUME RowsInv, NEW r \in DOMAIN job, JobEdits(r), RowsKept, UniqueKeys(users'),
         UNCHANGED <<lastUid, rowLock>>, ~At(r, "insert"), job'[r].pc # "insert",
         Shape(job'[r]), Answered(job[r])'
  PROVE  RowsInv'
<1>1. LockHeld'
  BY DEF RowsInv, LockHeld, At, JobEdits
<1>2. ASSUME NEW q \in DOMAIN job
      PROVE  Shape(job[q])' /\ Answered(job[q])'
  <2>1. CASE q = r
    BY <2>1 DEF Shape
  <2>2. CASE q # r
    <3>1. job'[q] = job[q] /\ Shape(job[q]) /\ Answered(job[q])
      BY <2>2 DEF JobEdits, RowsInv
    <3>2. Answered(job[q])'
      BY <3>1 DEF Answered, RowsKept
    <3> QED
      BY <3>1, <3>2 DEF Shape
  <2> QED
    BY <2>1, <2>2
<1> QED
  BY <1>1, <1>2 DEF RowsInv, UniqueKeys, JobEdits

\* A request has the types of its fields, the shape of its handler and its rows.
LEMMA RequestFacts ==
  ASSUME StoreTyped, RowsInv, NEW r \in DOMAIN job
  PROVE  /\ job \in Seq(JobRecord) /\ r \in Nat \ {0}
         /\ job[r].op \in Ops /\ job[r].pc \in Pcs /\ job[r].ok \in BOOLEAN /\ job[r].page \in Pages
         /\ job[r].uid \in Nat /\ job[r].code \in Nat /\ job[r].email \in Emails
         /\ job[r].op \in {"register", "reset"} => job[r].name \in Names /\ job[r].pwd \in Passwords
         /\ Shape(job[r]) /\ Answered(job[r])
<1>1. job \in Seq(JobRecord)
  BY DEF StoreTyped
<1>2. job[r] \in JobRecord /\ r \in Nat \ {0}
  BY <1>1, ElementOfSeq, LenProperties
<1>3. Shape(job[r]) /\ Answered(job[r])
  BY DEF RowsInv
<1> QED
  BY <1>1, <1>2, <1>3 DEF JobRecord, Shape

\* What all handlers do to what they share.
Handled(r) == /\ StoreTyped' /\ RowsInv' /\ JobEdits(r) /\ RowsKept
              /\ UNCHANGED <<client, cached, scenario>>

\* The steps of GetVerifyCode.
LEMMA VerifyHandled ==
  ASSUME StoreTyped, RowsInv, NEW r \in DOMAIN job, get_verifycode(r)
  PROVE  Handled(r)
<1>1. /\ job \in Seq(JobRecord) /\ Shape(job[r]) /\ job[r].op \in Ops /\ job[r].ok \in BOOLEAN
      /\ job[r].email \in Emails /\ job[r].code \in Nat
      /\ lastCode + 1 \in Nat /\ code[job[r].email] \in Nat
  BY RequestFacts DEF StoreTyped
<1>2. /\ UNCHANGED <<client, tables, cached, lastToken, scenario>>
      /\ JobEdits(r) /\ (At(r, "get") \/ At(r, "store") \/ At(r, "mail"))
      /\ job'[r].pc \in {"store", "mail", "done"} /\ (job'[r].ok => job'[r].pc = "done")
      /\ lastCode' \in Nat /\ code' \in [Emails -> Nat] /\ mailbox' \in [Emails -> SUBSET Nat]
  <2>1. CASE ReadVerifyCode(r)
    <3>1. PICK pc \in {"store", "mail"}, k \in Nat :
             /\ job' = [job EXCEPT ![r].pc = pc, ![r].code = k]
             /\ At(r, "get") /\ lastCode' \in Nat
             /\ UNCHANGED <<client, tables, cached, lastToken, scenario, code, mailbox>>
      <4>1. PICK new \in BOOLEAN :
               /\ At(r, "get") /\ UNCHANGED <<client, tables, cached, lastToken, scenario, code, mailbox>>
               /\ job' = [job EXCEPT ![r].pc = IF new THEN "store" ELSE "mail",
                                     ![r].code = IF new THEN lastCode + 1 ELSE code[job[r].email]]
               /\ lastCode' = IF new THEN lastCode + 1 ELSE lastCode
        BY <2>1 DEF ReadVerifyCode, Works, redis
      <4>2. CASE new
        BY <1>1, <4>1, <4>2
      <4>3. CASE ~new
        <5>1. lastCode \in Nat
          BY DEF StoreTyped
        <5> QED
          BY <1>1, <4>1, <4>3, <5>1
      <4> QED
        BY <4>2, <4>3
    <3>2. /\ JobEdits(r) /\ job'[r].pc = pc /\ job'[r].ok = job[r].ok
      BY <1>1, <3>1, CodeEdits DEF Pcs
    <3> QED
      BY <1>1, <3>1, <3>2 DEF StoreTyped, Shape, At
  <2>2. CASE StoreVerifyCode(r)
    <3>1. PICK ok \in BOOLEAN :
             /\ IF ok THEN GoTo(r, "mail") ELSE Answer(r, FALSE)
             /\ At(r, "store") /\ code' \in [Emails -> Nat]
             /\ UNCHANGED <<client, tables, cached, lastCode, lastToken, scenario, mailbox>>
      BY <1>1, <2>2 DEF StoreVerifyCode, Works, StoreTyped
    <3>2. /\ JobEdits(r) /\ job'[r].pc \in {"mail", "done"} /\ ~job'[r].ok
      BY <1>1, <3>1, GoToEdits, AnswerEdits DEF Pcs, At, Shape, JobRecord
    <3> QED
      BY <1>1, <3>1, <3>2 DEF StoreTyped
  <2>3. CASE MailVerifyCode(r)
    <3>1. PICK ok \in BOOLEAN :
             /\ Answer(r, ok) /\ At(r, "mail") /\ mailbox' \in [Emails -> SUBSET Nat]
             /\ UNCHANGED <<client, account, scenario>>
      BY <1>1, <2>3 DEF MailVerifyCode, StoreTyped
    <3>2. JobEdits(r) /\ job'[r].pc = "done"
      BY <1>1, <3>1, AnswerEdits
    <3> QED
      BY <1>1, <3>1, <3>2 DEF StoreTyped, account, redis
  <2> QED
    BY <2>1, <2>2, <2>3 DEF get_verifycode, GetVerifyCode
<1>3. RowsInv'
  <2>1. job[r].op = "verifycode" /\ ~At(r, "insert") /\ job'[r].op = "verifycode"
    BY <1>1, <1>2 DEF Shape, At, JobEdits, SameRequest, JobRecord, Ops
  <2>2. Shape(job'[r]) /\ Answered(job[r])'
    BY <1>1, <1>2, <2>1 DEF Shape, Answered, JobEdits, SameRequest
  <2> QED
    BY <1>2, <2>1, <2>2, RowsByOthers DEF tables, RowsKept, RowsInv
<1> QED
  BY <1>2, <1>3 DEF Handled, tables, StoreTyped, RowsKept, JobEdits

\* A step that writes no table keeps the rows as they must be.
LEMMA RowsUntouched ==
  ASSUME StoreTyped, RowsInv, NEW r \in DOMAIN job, JobEdits(r), UNCHANGED <<tables, client, cached,
         scenario, code, mailbox, lastCode>>, lastToken' \in Nat,
         ~At(r, "insert"), job'[r].pc # "insert", Shape(job'[r]), Answered(job[r])'
  PROVE  Handled(r)
<1>1. RowsKept /\ UniqueKeys(users') /\ UNCHANGED <<lastUid, rowLock>>
  BY DEF RowsKept, tables, RowsInv
<1>2. RowsInv'
  BY <1>1, RowsByOthers
<1> QED
  BY <1>1, <1>2 DEF Handled, StoreTyped, JobEdits, tables

\* The steps of user_register.
LEMMA RegisterHandled ==
  ASSUME StoreTyped, RowsInv, NEW r \in DOMAIN job, user_register(r)
  PROVE  Handled(r)
<1>1. /\ job \in Seq(JobRecord) /\ r \in Nat \ {0} /\ Shape(job[r]) /\ job[r].ok \in BOOLEAN
      /\ job[r].op = "register" /\ job[r].email \in Emails /\ job[r].uid \in Nat
      /\ job[r].name \in Names /\ job[r].pwd \in Passwords
  BY RequestFacts DEF user_register
<1>2. CASE CheckCode(r) \/ SelectTaken(r)
  <2>1. PICK pc \in {"names", "id"} :
           /\ GoTo(r, pc) \/ Answer(r, FALSE)
           /\ At(r, "code") \/ At(r, "names")
           /\ UNCHANGED <<account, mailbox, client, scenario>>
    BY <1>1, <1>2 DEF CheckCode, SelectTaken, Works
  <2>2. /\ JobEdits(r) /\ job'[r].pc \in {"names", "id", "done"} /\ ~job'[r].ok
    BY <1>1, <2>1, GoToEdits, AnswerEdits DEF Pcs, At, Shape
  <2>3. Shape(job'[r]) /\ Answered(job[r])' /\ ~At(r, "insert")
    BY <1>1, <2>1, <2>2 DEF Shape, Answered, JobEdits, SameRequest, At
  <2> QED
    BY <2>1, <2>2, <2>3, RowsUntouched DEF account, redis, StoreTyped
<1>3. CASE TakeId(r)
  <2>1. /\ At(r, "id") /\ rowLock = 0 /\ rowLock' = r /\ lastUid' = lastUid + 1 /\ lastUid \in Nat
        /\ job' = [job EXCEPT ![r].pc = "insert", ![r].uid = lastUid']
        /\ UNCHANGED <<users, redis, lastCode, lastToken, mailbox, client, scenario>>
    BY <1>3 DEF TakeId, NextId, Works, StoreTyped
  <2>2. /\ JobEdits(r) /\ job'[r].pc = "insert" /\ ~job'[r].ok /\ job'[r].uid = lastUid'
    <3> DEFINE u == lastUid + 1
    <3>1. u \in Nat /\ u = lastUid' /\ job' = [job EXCEPT ![r].pc = "insert", ![r].uid = u]
      BY <2>1
    <3> HIDE DEF u
    <3>2. /\ JobEdits(r) /\ job'[r].pc = "insert" /\ job'[r].ok = job[r].ok /\ job'[r].uid = u
      BY <1>1, <3>1, UidEdits DEF Pcs
    <3> QED
      BY <1>1, <2>1, <3>1, <3>2 DEF Shape, At
  <2>3. Shape(job'[r]) /\ Answered(job[r])'
    BY <1>1, <2>2 DEF Shape, Answered, JobEdits, SameRequest
  <2>4. \A q \in DOMAIN job : ~At(q, "insert")
    BY <2>1, RequestFacts DEF RowsInv, LockHeld
  <2>5. LockHeld'
    BY <1>1, <2>1, <2>2, <2>4 DEF LockHeld, At, JobEdits
  <2>6. ASSUME NEW q \in DOMAIN job
        PROVE  Shape(job[q])' /\ Answered(job[q])'
    <3>1. CASE q = r
      BY <2>3, <3>1 DEF Shape
    <3>2. CASE q # r
      BY <2>1, <2>2, <3>2 DEF Shape, Answered, JobEdits, RowsInv
    <3> QED
      BY <3>1, <3>2
  <2>7. RowsInv'
    BY <2>1, <2>2, <2>5, <2>6 DEF RowsInv, JobEdits
  <2> QED
    BY <2>1, <2>2, <2>7 DEF Handled, redis, StoreTyped, JobEdits, RowsKept
<1>4. CASE RegUser(r)
  <2>1. PICK ok \in BOOLEAN :
           /\ At(r, "insert") /\ Answer(r, ok) /\ (ok => InsertUser(Row(r)))
           /\ InsertUser(Row(r)) \/ RollbackUser
           /\ UNCHANGED <<redis, lastCode, lastToken, mailbox, client, scenario>>
    <3>1. CASE InsertUser(Row(r)) /\ \E ok \in BOOLEAN : Answer(r, ok)
      BY <1>4, <3>1 DEF RegUser, Works
    <3>2. CASE RollbackUser /\ Answer(r, FALSE)
      BY <1>4, <3>2 DEF RegUser, Works
    <3> QED
      BY <1>4, <3>1, <3>2 DEF RegUser
  <2>2. /\ JobEdits(r) /\ job'[r].pc = "done" /\ job'[r].ok = ok /\ job'[r].uid = job[r].uid
    BY <1>1, <2>1, AnswerEdits
  <2>3. rowLock = r /\ lastUid \in Nat \ {0} /\ job[r].uid = lastUid
    BY <2>1 DEF RowsInv, LockHeld, StoreTyped
  <2>4. users \subseteq UserRow /\ UniqueKeys(users) /\ Row(r) \in UserRow
    <3>1. job[r].uid \in Nat \ {0}
      BY <2>3
    <3> QED
      BY <1>1, <3>1 DEF StoreTyped, RowsInv, Row, UserRow
  <2>5. users' \subseteq UserRow /\ UniqueKeys(users') /\ RowsKept /\ (ok => Row(r) \in users')
    BY <2>1, <2>4, InsertKeepsRows DEF RollbackUser, RowsKept
  <2>6. rowLock' = 0 /\ lastUid' \in Nat
    BY <2>1, <2>3 DEF InsertUser, InsertAlways, RollbackUser
  <2>7. LockHeld'
    BY <1>1, <2>2, <2>3, <2>6 DEF LockHeld, JobEdits, At, RowsInv
  <2>8. Shape(job'[r]) /\ Answered(job[r])'
    BY <1>1, <2>2, <2>5 DEF Shape, Answered, JobEdits, SameRequest, Row
  <2>9. ASSUME NEW q \in DOMAIN job, q # r
        PROVE  Shape(job[q])' /\ Answered(job[q])'
    BY <2>2, <2>5, <2>9 DEF Shape, Answered, JobEdits, RowsInv, RowsKept
  <2>10. RowsInv'
    BY <2>2, <2>5, <2>7, <2>8, <2>9 DEF RowsInv, JobEdits, Shape
  <2> QED
    BY <2>1, <2>2, <2>5, <2>6, <2>10 DEF Handled, redis, StoreTyped, JobEdits
<1> QED
  BY <1>2, <1>3, <1>4 DEF user_register

\* The steps of reset_pwd.
LEMMA ResetHandled ==
  ASSUME StoreTyped, RowsInv, NEW r \in DOMAIN job, reset_pwd(r)
  PROVE  Handled(r)
<1>1. /\ job \in Seq(JobRecord) /\ Shape(job[r]) /\ job[r].ok \in BOOLEAN
      /\ job[r].op = "reset" /\ job[r].pwd \in Passwords
  BY RequestFacts DEF reset_pwd
<1>2. CASE CheckCode(r) \/ CheckMail(r)
  <2>1. PICK pc \in {"check", "update"} :
           /\ GoTo(r, pc) \/ Answer(r, FALSE)
           /\ At(r, "code") \/ At(r, "check")
           /\ UNCHANGED <<account, mailbox, client, scenario>>
    BY <1>1, <1>2 DEF CheckCode, CheckMail, Works
  <2>2. /\ JobEdits(r) /\ job'[r].pc \in {"check", "update", "done"} /\ ~job'[r].ok
    BY <1>1, <2>1, GoToEdits, AnswerEdits DEF Pcs, At, Shape
  <2>3. Shape(job'[r]) /\ Answered(job[r])' /\ ~At(r, "insert")
    BY <1>1, <2>1, <2>2 DEF Shape, Answered, JobEdits, SameRequest, At
  <2> QED
    BY <2>1, <2>2, <2>3, RowsUntouched DEF account, redis, StoreTyped
<1>3. CASE ResetPwd(r)
  <2>1. PICK ok \in BOOLEAN :
           /\ At(r, "update") /\ Answer(r, ok)
           /\ UpdatePwd(job[r].name, job[r].pwd) \/ UNCHANGED tables
           /\ UNCHANGED <<redis, lastCode, lastToken, mailbox, client, scenario>>
    BY <1>3 DEF ResetPwd, Works
  <2>2. /\ JobEdits(r) /\ job'[r].pc = "done" /\ job'[r].ok = ok
    BY <1>1, <2>1, AnswerEdits
  <2>3. users \subseteq UserRow /\ UniqueKeys(users)
    BY DEF StoreTyped, RowsInv
  <2>4. /\ users' \subseteq UserRow /\ UniqueKeys(users') /\ RowsKept
        /\ UNCHANGED <<lastUid, rowLock>>
    <3>1. CASE UpdatePwd(job[r].name, job[r].pwd)
      <4>1. users' \subseteq UserRow /\ UniqueKeys(users') /\ RowsKept
        BY <1>1, <2>3, <3>1, UpdateKeepsRows
      <4> QED
        BY <3>1, <4>1 DEF UpdatePwd
    <3>2. CASE UNCHANGED tables
      BY <2>3, <3>2 DEF tables, RowsKept
    <3> QED
      BY <2>1, <3>1, <3>2
  <2>5. Shape(job'[r]) /\ Answered(job[r])' /\ ~At(r, "insert") /\ job'[r].pc # "insert"
    BY <1>1, <2>1, <2>2 DEF Shape, Answered, JobEdits, SameRequest, At
  <2>6. RowsInv'
    BY <2>2, <2>4, <2>5, RowsByOthers
  <2> QED
    BY <2>1, <2>2, <2>4, <2>6 DEF Handled, redis, StoreTyped, JobEdits
<1> QED
  BY <1>2, <1>3 DEF reset_pwd

\* The steps of user_login.
LEMMA LoginHandled ==
  ASSUME StoreTyped, RowsInv, NEW r \in DOMAIN job, user_login(r)
  PROVE  Handled(r)
<1>1. /\ job \in Seq(JobRecord) /\ Shape(job[r]) /\ job[r].op \in Ops /\ job[r].ok \in BOOLEAN
      /\ job[r].uid \in Nat /\ Answered(job[r]) /\ users \subseteq UserRow
  BY RequestFacts DEF StoreTyped
<1>2. CASE CheckLogin(r)
  <2> DEFINE uid == CheckPwd(job[r].email, job[r].pwd)
             rows == {q \in users : q.email = job[r].email /\ q.pwd = job[r].pwd}
  <2>1. /\ At(r, "pwd") /\ UNCHANGED <<account, mailbox, client, scenario>>
        /\ \/ uid # 0 /\ job' = [job EXCEPT ![r].pc = "server", ![r].uid = uid]
           \/ Answer(r, FALSE)
    BY <1>2 DEF CheckLogin, Works
  <2>2. uid # 0 => uid \in Nat /\ \E q \in users : q.uid = uid /\ q.email = job[r].email
    <3>1. CASE rows = {}
      BY <3>1 DEF CheckPwd
    <3>2. CASE rows # {}
      <4>1. uid = (CHOOSE q \in rows : TRUE).uid /\ (CHOOSE q \in rows : TRUE) \in rows
        BY <3>2 DEF CheckPwd
      <4> QED
        BY <1>1, <4>1 DEF UserRow
    <3> QED
      BY <3>1, <3>2
  <2> HIDE DEF uid
  <2>3. /\ JobEdits(r) /\ ~job'[r].ok
        /\ \/ job'[r].pc = "server" /\ job'[r].uid = uid /\ uid # 0
           \/ job'[r].pc = "done"
    <3>1. ~job[r].ok /\ "server" \in Pcs
      BY <1>1, <2>1 DEF Pcs, At, Shape
    <3>2. CASE uid # 0 /\ job' = [job EXCEPT ![r].pc = "server", ![r].uid = uid]
      <4>1. uid \in Nat
        BY <2>2, <3>2
      <4>2. JobEdits(r) /\ job'[r].pc = "server" /\ job'[r].ok = job[r].ok /\ job'[r].uid = uid
        <5> DEFINE u == uid
        <5>1. u \in Nat /\ u = uid /\ job' = [job EXCEPT ![r].pc = "server", ![r].uid = u]
          BY <3>2, <4>1
        <5> HIDE DEF u
        <5>2. JobEdits(r) /\ job'[r].pc = "server" /\ job'[r].ok = job[r].ok /\ job'[r].uid = u
          BY <1>1, <5>1, UidEdits DEF Pcs
        <5> QED
          BY <5>1, <5>2
      <4> QED
        BY <3>1, <3>2, <4>2
    <3>3. CASE Answer(r, FALSE)
      BY <1>1, <3>3, AnswerEdits
    <3> QED
      BY <2>1, <3>2, <3>3
  <2>4. job[r].op = "login"
    BY <1>1, <2>1 DEF Shape, At, Ops
  <2>5. Shape(job'[r]) /\ Answered(job[r])' /\ ~At(r, "insert")
    BY <1>1, <2>1, <2>2, <2>3, <2>4 DEF Shape, Answered, JobEdits, SameRequest, At,
       account, tables
  <2> QED
    BY <2>1, <2>3, <2>5, RowsUntouched DEF account, redis, StoreTyped
<1>3. CASE GetChatServer(r)
  <2> DEFINE drawn == lastToken + 1
  <2>1. PICK ok \in BOOLEAN :
           /\ At(r, "server") /\ Works(ok) /\ lastToken' = lastToken + 1
           /\ job' = [job EXCEPT ![r].pc = "done", ![r].ok = ok, ![r].code = lastToken']
           /\ UNCHANGED <<tables, code, cached, lastCode, disturbed>>
    BY <1>3, Zenon DEF GetChatServer
  <2>2. /\ drawn \in Nat /\ lastToken' = drawn
        /\ job' = [job EXCEPT ![r].pc = "done", ![r].ok = ok, ![r].code = drawn]
        /\ UNCHANGED <<tables, code, cached, lastCode, mailbox, client, scenario>>
    BY <2>1 DEF StoreTyped, Works
  <2> HIDE DEF drawn
  <2>3. /\ JobEdits(r) /\ job'[r].pc = "done" /\ job'[r].uid = job[r].uid
    BY <1>1, <2>2, TokenEdits
  <2>4. job[r].op = "login"
    BY <1>1, <2>1 DEF Shape, At, Ops
  <2>5. Shape(job'[r]) /\ Answered(job[r])' /\ ~At(r, "insert")
    BY <1>1, <2>1, <2>3, <2>4 DEF Shape, Answered, JobEdits, SameRequest, At, tables
  <2> QED
    BY <2>2, <2>3, <2>5, RowsUntouched
<1> QED
  BY <1>2, <1>3 DEF user_login

\* Every step of a handler keeps the types and the rows.
LEMMA HandlersKeepRows ==
  ASSUME StoreTyped, RowsInv, NEW r \in DOMAIN job,
         get_verifycode(r) \/ user_register(r) \/ reset_pwd(r) \/ user_login(r)
  PROVE  Handled(r)
BY VerifyHandled, RegisterHandled, ResetHandled, LoginHandled

-----------------------------------------------------------------------------
(* The codes.                                                              *)

\* A step of a request leaves the codes of other addresses alone.
LEMMA OneCodeElsewhere ==
  ASSUME NEW r \in DOMAIN job, JobEdits(r), NEW e \in Emails, e # job[r].email, OneCode(e),
         code'[e] = code[e], mailbox'[e] = mailbox[e]
  PROVE  OneCode(e)'
<1>1. \A q \in DOMAIN job' : job'[q].email = e => q \in DOMAIN job /\ job'[q] = job[q]
  BY DEF JobEdits, SameRequest
<1> QED
  BY <1>1 DEF OneCode, At, JobEdits

\* A request that does not go to store or to mail a code leaves all alone.
LEMMA CodesByOthers ==
  ASSUME CodesInv, NEW r \in DOMAIN job, JobEdits(r),
         UNCHANGED <<code, mailbox, lastCode, disturbed>>, job'[r].pc \notin {"store", "mail"}
  PROVE  CodesInv'
<1>1. \A q \in DOMAIN job' : At(q, "store")' \/ At(q, "mail")' => job'[q] = job[q]
  BY DEF At, JobEdits
<1>2. CodeDrawn'
  BY <1>1 DEF CodesInv, CodeDrawn, JobEdits, At
<1>3. ASSUME NEW e \in Emails \ disturbed
      PROVE  OneCode(e)'
  BY <1>1, <1>3 DEF CodesInv, OneCode, JobEdits, At
<1> QED
  BY <1>2, <1>3 DEF CodesInv

\* GetVerifyCode reads or draws a code.
LEMMA ReadKeepsCodes ==
  ASSUME StoreTyped, RowsInv, CodesInv, NEW r \in DOMAIN job, ReadVerifyCode(r)
  PROVE  CodesInv'
<1> DEFINE e == job[r].email
           drawn == lastCode + 1
           other == \E q \in DOMAIN job : At(q, "store") /\ job[q].email = e
<1>1. /\ job \in Seq(JobRecord) /\ e \in Emails /\ lastCode \in Nat /\ drawn \in Nat
      /\ code \in [Emails -> Nat] /\ mailbox \in [Emails -> SUBSET Nat]
  BY RequestFacts DEF StoreTyped
<1>2. /\ At(r, "get") /\ UNCHANGED <<code, mailbox>>
      /\ \/ /\ job' = [job EXCEPT ![r].pc = "store", ![r].code = drawn] /\ lastCode' = drawn
            /\ \/ disturbed' = disturbed \cup {e}
               \/ disturbed' = disturbed /\ code[e] = 0 /\ ~other
         \/ /\ job' = [job EXCEPT ![r].pc = "mail", ![r].code = code[e]]
            /\ lastCode' = lastCode /\ code[e] # 0 /\ disturbed' = disturbed
  BY DEF ReadVerifyCode, Works, redis
<1> HIDE DEF other, drawn
<1>3. /\ JobEdits(r)
      /\ \/ job'[r].pc = "store" /\ job'[r].code = drawn /\ lastCode' = drawn
         \/ job'[r].pc = "mail" /\ job'[r].code = code[e] /\ code[e] # 0 /\ lastCode' = lastCode
  BY <1>1, <1>2, CodeEdits DEF Pcs
<1>4. CodeDrawn'
  <2>1. \A x \in Emails : code'[x] <= lastCode' /\ \A k \in mailbox'[x] : k <= lastCode'
    BY <1>1, <1>2, <1>3 DEF CodesInv, CodeDrawn, drawn
  <2>2. ASSUME NEW q \in DOMAIN job', At(q, "store")' \/ At(q, "mail")'
        PROVE  job'[q].code \in 1..lastCode'
    <3>1. CASE q = r
      BY <1>1, <1>3, <3>1 DEF CodesInv, CodeDrawn, drawn
    <3>2. CASE q # r
      <4>1. job[q].code \in 1..lastCode /\ job'[q] = job[q]
        BY <1>3, <2>2, <3>2 DEF CodesInv, CodeDrawn, At, JobEdits
      <4> QED
        BY <1>1, <1>3, <4>1 DEF drawn
    <3> QED
      BY <3>1, <3>2
  <2> QED
    BY <2>1, <2>2 DEF CodeDrawn
<1>5. ASSUME NEW x \in Emails \ disturbed'
      PROVE  OneCode(x)'
  <2>1. x \in Emails \ disturbed /\ OneCode(x)
    BY <1>2, <1>5 DEF CodesInv
  <2>2. CASE x # e
    BY <1>2, <1>3, <2>1, <2>2, OneCodeElsewhere
  <2>3. CASE x = e
    <3>1. \/ job'[r].pc = "store" /\ code[e] = 0 /\ ~other
          \/ job'[r].pc = "mail" /\ job'[r].code = code[e] /\ code[e] # 0
      BY <1>1, <1>2, <1>3, <1>5, <2>3, CodeEdits DEF Pcs
    <3>2. \A q \in DOMAIN job : q # r => job'[q] = job[q]
      BY <1>3 DEF JobEdits
    <3> QED
      BY <1>2, <1>3, <2>1, <2>3, <3>1, <3>2 DEF OneCode, At, JobEdits, other
  <2> QED
    BY <2>2, <2>3
<1> QED
  BY <1>4, <1>5 DEF CodesInv

\* GetVerifyCode stores the code it drew.
LEMMA StoreKeepsCodes ==
  ASSUME StoreTyped, RowsInv, CodesInv, NEW r \in DOMAIN job, StoreVerifyCode(r)
  PROVE  CodesInv'
<1> DEFINE e == job[r].email
<1>1. /\ job \in Seq(JobRecord) /\ e \in Emails /\ lastCode \in Nat
      /\ code \in [Emails -> Nat] /\ mailbox \in [Emails -> SUBSET Nat]
  BY RequestFacts DEF StoreTyped
<1>2. /\ At(r, "store") /\ UNCHANGED <<mailbox, lastCode, disturbed>>
      /\ \/ code' = [code EXCEPT ![e] = job[r].code] /\ (GoTo(r, "mail") \/ Answer(r, FALSE))
         \/ code' = code /\ Answer(r, FALSE)
  BY DEF StoreVerifyCode, Works
<1>3. /\ JobEdits(r) /\ job'[r].code = job[r].code /\ job[r].code \in 1..lastCode
      /\ \/ code'[e] = job[r].code /\ job'[r].pc \in {"mail", "done"}
         \/ code'[e] = code[e] /\ job'[r].pc = "done"
      /\ \A x \in Emails \ {e} : code'[x] = code[x]
  BY <1>1, <1>2, GoToEdits, AnswerEdits DEF Pcs, CodesInv, CodeDrawn
<1>4. CodeDrawn'
  <2>1. \A x \in Emails : code'[x] <= lastCode' /\ \A k \in mailbox'[x] : k <= lastCode'
    BY <1>1, <1>2, <1>3 DEF CodesInv, CodeDrawn
  <2>2. ASSUME NEW q \in DOMAIN job', At(q, "store")' \/ At(q, "mail")'
        PROVE  job'[q].code \in 1..lastCode'
    BY <1>2, <1>3, <2>2 DEF CodesInv, CodeDrawn, At, JobEdits
  <2> QED
    BY <2>1, <2>2 DEF CodeDrawn
<1>5. ASSUME NEW x \in Emails \ disturbed'
      PROVE  OneCode(x)'
  <2>1. x \in Emails \ disturbed /\ OneCode(x)
    BY <1>2, <1>5 DEF CodesInv
  <2>2. CASE x # e
    BY <1>2, <1>3, <2>1, <2>2, OneCodeElsewhere
  <2>3. CASE x = e
    <3>1. /\ code[e] = 0 /\ mailbox'[e] = {}
          /\ \A q \in DOMAIN job : job[q].email = e /\ At(q, "store") => q = r
          /\ \A q \in DOMAIN job : job[q].email = e => ~At(q, "mail")
      BY <1>1, <1>2, <2>1, <2>3 DEF OneCode, CodesInv, CodeDrawn
    <3>2. \A q \in DOMAIN job : q # r => job'[q] = job[q]
      BY <1>3 DEF JobEdits
    <3> QED
      BY <1>1, <1>2, <1>3, <2>1, <2>3, <3>1, <3>2 DEF OneCode, At, JobEdits
  <2> QED
    BY <2>2, <2>3
<1> QED
  BY <1>4, <1>5 DEF CodesInv

\* GetVerifyCode mails the code.
LEMMA MailKeepsCodes ==
  ASSUME StoreTyped, RowsInv, CodesInv, NEW r \in DOMAIN job, MailVerifyCode(r)
  PROVE  CodesInv'
<1> DEFINE e == job[r].email
<1>1. /\ job \in Seq(JobRecord) /\ e \in Emails /\ lastCode \in Nat
      /\ code \in [Emails -> Nat] /\ mailbox \in [Emails -> SUBSET Nat]
  BY RequestFacts DEF StoreTyped
<1>2. /\ At(r, "mail") /\ UNCHANGED <<code, lastCode, disturbed>>
      /\ \E ok \in BOOLEAN : Answer(r, ok)
      /\ \/ mailbox' = [mailbox EXCEPT ![e] = @ \cup {job[r].code}]
         \/ mailbox' = mailbox
  BY DEF MailVerifyCode, account, redis
<1>3. /\ JobEdits(r) /\ job'[r].pc = "done" /\ job[r].code \in 1..lastCode
      /\ mailbox'[e] \subseteq mailbox[e] \cup {job[r].code}
      /\ \A x \in Emails \ {e} : mailbox'[x] = mailbox[x]
  BY <1>1, <1>2, AnswerEdits DEF CodesInv, CodeDrawn
<1>4. CodeDrawn'
  <2>1. \A x \in Emails : code'[x] <= lastCode' /\ \A k \in mailbox'[x] : k <= lastCode'
    <3> SUFFICES ASSUME NEW x \in Emails
                 PROVE  code[x] <= lastCode /\ \A k \in mailbox'[x] : k <= lastCode
      BY <1>2
    <3>1. code[x] <= lastCode /\ \A k \in mailbox[x] : k <= lastCode
      BY DEF CodesInv, CodeDrawn
    <3>2. mailbox'[x] \subseteq mailbox[x] \cup {job[r].code}
      BY <1>3
    <3>3. job[r].code <= lastCode
      BY <1>1, <1>3
    <3> QED
      BY <3>1, <3>2, <3>3
  <2>2. ASSUME NEW q \in DOMAIN job', At(q, "store")' \/ At(q, "mail")'
        PROVE  job'[q].code \in 1..lastCode'
    BY <1>2, <1>3, <2>2 DEF CodesInv, CodeDrawn, At, JobEdits
  <2> QED
    BY <2>1, <2>2 DEF CodeDrawn
<1>5. ASSUME NEW x \in Emails \ disturbed'
      PROVE  OneCode(x)'
  <2>1. x \in Emails \ disturbed /\ OneCode(x)
    BY <1>2, <1>5 DEF CodesInv
  <2>2. CASE x # e
    BY <1>2, <1>3, <2>1, <2>2, OneCodeElsewhere
  <2>3. CASE x = e
    <3>1. job[r].code = code[e] /\ code[e] # 0
      BY <1>2, <1>3, <2>1, <2>3 DEF OneCode
    <3>2. \A q \in DOMAIN job' : At(q, "store")' \/ At(q, "mail")' => job'[q] = job[q]
      BY <1>3 DEF JobEdits, At
    <3> QED
      BY <1>2, <1>3, <2>1, <2>3, <3>1, <3>2 DEF OneCode, At, JobEdits
  <2> QED
    BY <2>2, <2>3
<1> QED
  BY <1>4, <1>5 DEF CodesInv

\* Every step of a handler keeps the codes as they must be.
LEMMA HandlersKeepCodes ==
  ASSUME StoreTyped, RowsInv, CodesInv, NEW r \in DOMAIN job,
         get_verifycode(r) \/ user_register(r) \/ reset_pwd(r) \/ user_login(r)
  PROVE  CodesInv'
<1>1. CASE get_verifycode(r)
  BY <1>1, ReadKeepsCodes, StoreKeepsCodes, MailKeepsCodes DEF get_verifycode, GetVerifyCode
<1>2. CASE user_register(r) \/ reset_pwd(r) \/ user_login(r)
  <2>1. JobEdits(r) /\ Shape(job'[r])
    BY <1>2, HandlersKeepRows DEF Handled, JobEdits, RowsInv
  <2>2. UNCHANGED <<code, mailbox, lastCode, disturbed>>
    BY <1>2 DEF user_register, reset_pwd, user_login, CheckCode, SelectTaken, TakeId, RegUser,
       CheckMail, ResetPwd, CheckLogin, GetChatServer, Works, account, redis
  <2>3. job'[r].op \in {"register", "reset", "login"}
    BY <1>2, <2>1, RequestFacts DEF user_register, reset_pwd, user_login, CheckLogin,
       GetChatServer, At, Shape, Ops, JobEdits, SameRequest
  <2> QED
    BY <2>1, <2>2, <2>3, CodesByOthers DEF Shape
<1> QED
  BY <1>1, <1>2

\* A code that expires is no longer the one that was mailed: the address is
\* disturbed.
LEMMA ExpireKeepsCodes ==
  ASSUME StoreTyped, CodesInv, NEW e \in Emails, Expire(e)
  PROVE  CodesInv' /\ StoreTyped'
<1>1. /\ code \in [Emails -> Nat] /\ code' = [code EXCEPT ![e] = 0]
      /\ disturbed' = disturbed \cup {e} /\ UNCHANGED <<job, mailbox, lastCode>>
      /\ lastCode \in Nat
  BY DEF Expire, StoreTyped
<1>2. CodeDrawn'
  BY <1>1 DEF CodesInv, CodeDrawn, At
<1>3. ASSUME NEW x \in Emails \ disturbed'
      PROVE  OneCode(x)'
  BY <1>1, <1>3 DEF CodesInv, OneCode, At
<1>4. StoreTyped'
  BY <1>1 DEF StoreTyped, Expire, tables, counts
<1> QED
  BY <1>2, <1>3, <1>4 DEF CodesInv

-----------------------------------------------------------------------------
(* What leaves a client alone.                                             *)

\* No request changes hands: those there are keep what their page sent.
JobsKept ==
    /\ DOMAIN job \subseteq DOMAIN job'
    /\ \A q \in DOMAIN job : job'[q].op = job[q].op /\ job'[q].email = job[q].email

SessionKept(c) ==
    /\ replies'[c] = replies[c] /\ wanted'[c] = wanted[c] /\ pending'[c] = pending[c]
    /\ page'[c] = page[c] /\ notice'[c] = notice[c] /\ form'[c].busy = form[c].busy
    /\ phase'[c] = phase[c] /\ timer'[c] = timer[c] /\ conn'[c] = conn[c]

SearchKept(c) ==
    /\ up'[c] = up[c] /\ down'[c] = down[c] /\ bound'[c] = bound[c]
    /\ conn'[c] = conn[c] /\ search'[c] = search[c]

\* The session of a client that a step leaves alone stays as it must be.
LEMMA SessionFrame ==
  ASSUME NEW c \in Clients, SessionOf(c), Awaiting(c), OfWanted(c),
         SessionKept(c), JobsKept, RowsKept
  PROVE  SessionOf(c)' /\ Awaiting(c)' /\ OfWanted(c)'
<1>1. SessionOf(c)'
  BY DEF SessionOf, SessionKept
<1>2. OfWanted(c)'
  BY DEF OfWanted, SessionKept, RowsKept
<1>3. replies'[c] \subseteq DOMAIN job'
  BY DEF Awaiting, SessionKept, JobsKept
<1>4. \A r \in DOMAIN job' : AwaitedLogin(c, r)' => r \in DOMAIN job /\ AwaitedLogin(c, r)
  BY DEF Awaiting, AwaitedLogin, SessionKept, JobsKept
<1>5. Awaiting(c)'
  BY <1>3, <1>4 DEF Awaiting, SessionKept, JobsKept
<1> QED
  BY <1>1, <1>2, <1>5

\* The same for its search.
LEMMA SearchFrame ==
  ASSUME NEW c \in Clients, OneSearch(c), AnswersText(c), SearchKept(c), RowsKept
  PROVE  OneSearch(c)' /\ AnswersText(c)'
<1>1. OneSearch(c)'
  BY DEF OneSearch, SearchKept, IsSearch
<1>2. \A key, uid : Matches(key, uid) => Matches(key, uid)'
  BY DEF Matches, RowsKept
<1>3. AnswersText(c)'
  BY <1>2 DEF AnswersText, SearchKept, IsSearch
<1> QED
  BY <1>1, <1>3

\* What is cached stays true while the rows are kept.
LEMMA CacheFrame ==
  ASSUME CacheIsTrue, RowsKept, cached' = cached
  PROVE  CacheIsTrue'
<1>1. \A key, uid : Matches(key, uid) => Matches(key, uid)'
  BY DEF Matches, RowsKept
<1> QED
  BY <1>1 DEF CacheIsTrue

\* A step of one client, or of a server for one, is about that client only.
LEMMA OneClient ==
  ASSUME SessionInv, SearchInv, NEW c \in Clients, JobsKept, RowsKept, cached' = cached,
         \A d \in Clients \ {c} : SessionKept(d) /\ SearchKept(d),
         SessionOf(c)', Awaiting(c)', OfWanted(c)', OneSearch(c)', AnswersText(c)'
  PROVE  SessionInv' /\ SearchInv'
<1>1. ASSUME NEW d \in Clients, d # c
      PROVE  SessionOf(d)' /\ Awaiting(d)' /\ OfWanted(d)' /\ OneSearch(d)' /\ AnswersText(d)'
  BY <1>1, SessionFrame, SearchFrame DEF SessionInv, SearchInv
<1>2. CacheIsTrue'
  BY CacheFrame DEF SearchInv
<1> QED
  BY <1>1, <1>2 DEF SessionInv, SearchInv

\* A step of a handler leaves all clients alone.
LEMMA HandlersKeepClients ==
  ASSUME ClientTyped, WireTyped, SessionInv, SearchInv, NEW r \in DOMAIN job, Handled(r)
  PROVE  ClientTyped' /\ WireTyped' /\ SessionInv' /\ SearchInv'
<1>1. UNCHANGED <<client, cached>> /\ RowsKept
  BY DEF Handled
<1>2. JobsKept
  BY DEF Handled, JobEdits, JobsKept, SameRequest
<1>3. \A c \in Clients : SessionKept(c) /\ SearchKept(c)
  BY <1>1 DEF SessionKept, SearchKept, client, shell, session
<1>4. CacheIsTrue'
  BY <1>1, CacheFrame DEF SearchInv
<1>5. ClientTyped' /\ WireTyped'
  BY <1>1 DEF ClientTyped, WireTyped, client, shell, session
<1> QED
  BY <1>1, <1>2, <1>3, <1>4, <1>5, SessionFrame, SearchFrame DEF SessionInv, SearchInv

-----------------------------------------------------------------------------
(* The store of the chat servers.                                          *)

\* A set of numbers that is not empty has a least element.
LEMMA LeastElement ==
  ASSUME NEW T \in SUBSET Nat, T # {}
  PROVE  Min(T) \in T
<1> DEFINE R == OpToRel(<, Nat)
<1>1. IsWellFoundedOn(R, Nat)
  BY NatLessThanWellFounded
<1>2. \A x, y \in Nat : y < x => <<y, x>> \in R
  BY DEF OpToRel
<1> HIDE DEF R
<1>3. PICK x \in T : \A y \in T : <<y, x>> \notin R
  BY <1>1, WFMin
<1>4. ASSUME NEW y \in T
      PROVE  x <= y
  <2>1. x \in Nat /\ y \in Nat /\ <<y, x>> \notin R
    BY <1>3
  <2>2. ~(y < x)
    BY <1>2, <2>1
  <2> QED
    BY <2>1, <2>2
<1> QED
  BY <1>4 DEF Min

\* What GetUser finds, in the cache or in the table, is a user with that key.
LEMMA GetUserMatches ==
  ASSUME users \subseteq UserRow, CacheIsTrue, NEW key
  PROVE  GetUser(key) = 0 \/ (GetUser(key) \in Nat /\ Matches(key, GetUser(key)))
<1> DEFINE hits == {entry.uid : entry \in {x \in cached : x.key = key}}
                     \cup (IF \E x \in cached : x.key = key THEN {} ELSE {r.uid : r \in Rows(key)})
<1>1. \A uid \in hits : uid \in Nat /\ Matches(key, uid)
  <2>1. \A x \in cached : x.key = key => x.uid \in Nat /\ Matches(key, x.uid)
    BY DEF CacheIsTrue, Matches, UserRow
  <2>2. \A r \in Rows(key) : r.uid \in Nat /\ Matches(key, r.uid)
    BY DEF Rows, Matches, UserRow
  <2> QED
    BY <2>1, <2>2
<1>2. GetUser(key) = IF hits = {} THEN 0 ELSE Min(hits)
  BY DEF GetUser
<1> HIDE DEF hits
<1>3. CASE hits # {}
  <2>1. Min(hits) \in hits
    BY <1>1, <1>3, LeastElement
  <2> QED
    BY <1>1, <1>2, <1>3, <2>1
<1> QED
  BY <1>2, <1>3

\* CacheUser caches what GetUser found.
LEMMA CacheUserIsTrue ==
  ASSUME CacheIsTrue, NEW key, NEW uid, uid = 0 \/ Matches(key, uid),
         cached' = CacheUser(key, uid), users' = users
  PROVE  CacheIsTrue'
<1>1. \A k, u : Matches(k, u)' <=> Matches(k, u)
  BY DEF Matches
<1>2. CASE uid = 0
  BY <1>1, <1>2 DEF CacheIsTrue, CacheUser
<1>3. CASE uid # 0
  BY <1>1, <1>3 DEF CacheIsTrue, CacheUser
<1> QED
  BY <1>2, <1>3

-----------------------------------------------------------------------------
(* Frames that are sent and taken.                                         *)

\* The searches of new are those of old, n places further on.
MovedUp(new, old, n) == \A i \in Nat :
    IsSearch(new, i) => IsSearch(old, i + n) /\ new[i] = old[i + n]

\* A frame that is taken lets the others move up.
LEMMA TailFrames ==
  ASSUME NEW S, NEW s \in Seq(S), s # <<>>
  PROVE  /\ Head(s) \in S /\ Tail(s) \in Seq(S) /\ Head(s) = s[1] /\ 1 \in DOMAIN s
         /\ MovedUp(Tail(s), s, 1) /\ \A i \in Nat : IsSearch(Tail(s), i) => i # 0
<1>1. /\ Head(s) \in S /\ Tail(s) \in Seq(S) /\ Len(s) \in Nat /\ Len(s) # 0
      /\ Len(Tail(s)) = Len(s) - 1 /\ \A i \in 1..Len(Tail(s)) : Tail(s)[i] = s[i + 1]
      /\ DOMAIN s = 1..Len(s) /\ DOMAIN Tail(s) = 1..Len(Tail(s))
  BY HeadTailProperties, LenProperties, EmptySeq
<1>2. Head(s) = s[1]
  BY <1>1
<1> QED
  BY <1>1, <1>2 DEF IsSearch, MovedUp

\* A frame that is sent is the last, and the others stay in their places.
LEMMA AppendFrames ==
  ASSUME NEW S, NEW s \in Seq(S), NEW e \in S
  PROVE  /\ Append(s, e) \in Seq(S)
         /\ e.op # "search" => MovedUp(Append(s, e), s, 0)
         /\ \A i \in Nat : IsSearch(Append(s, e), i) =>
              \/ IsSearch(s, i) /\ Append(s, e)[i] = s[i]
              \/ i = Len(s) + 1 /\ Append(s, e)[i] = e /\ e.op = "search"
<1>1. /\ Append(s, e) \in Seq(S) /\ Len(s) \in Nat /\ Len(Append(s, e)) = Len(s) + 1
      /\ \A i \in 1..Len(s) : Append(s, e)[i] = s[i]
      /\ Append(s, e)[Len(s) + 1] = e
      /\ DOMAIN s = 1..Len(s) /\ DOMAIN Append(s, e) = 1..Len(Append(s, e))
  BY AppendProperties, LenProperties
<1> QED
  BY <1>1 DEF IsSearch, MovedUp

\* No frame is a search of any sequence.
LEMMA NoFrames == \A s : MovedUp(s, s, 0) /\ MovedUp(<<>>, s, 0) /\ \A i : ~IsSearch(<<>>, i)
BY DEF MovedUp, IsSearch

\* A search that is on the wire, or its answer, may be taken away or move up.
LEMMA FewerSearches ==
  ASSUME NEW c \in Clients, OneSearch(c), AnswersText(c), users' = users, conn'[c] = conn[c],
         search'[c].asking = search[c].asking,
         search'[c] = search[c] \/ search'[c].state \in {"none", "failed"},
         conn[c] # "open" => up'[c] = <<>> /\ down'[c] = <<>> /\ bound'[c] = 0,
         NEW m \in {0, 1}, NEW n \in {0, 1}, MovedUp(up'[c], up[c], m), MovedUp(down'[c], down[c], n)
  PROVE  OneSearch(c)' /\ AnswersText(c)'
<1> USE DEF MovedUp
<1>1. \A i \in Nat : i + m \in Nat /\ i + n \in Nat
  OBVIOUS
<1>2. \A i, j \in Nat : (i + m = j + m => i = j) /\ (i + n = j + n => i = j)
  OBVIOUS
<1>3. OneSearch(c)'
  <2>1. \A i, j \in Nat : IsSearch(up'[c], i) /\ IsSearch(up'[c], j) => i = j
    BY <1>1, <1>2 DEF OneSearch
  <2>2. \A i, j \in Nat : IsSearch(down'[c], i) /\ IsSearch(down'[c], j) => i = j
    BY <1>1, <1>2 DEF OneSearch
  <2>3. \A i, j \in Nat : ~(IsSearch(up'[c], i) /\ IsSearch(down'[c], j))
    BY <1>1 DEF OneSearch
  <2>4. \A i \in Nat : IsSearch(up'[c], i) \/ IsSearch(down'[c], i) => search'[c].asking
    BY <1>1 DEF OneSearch
  <2> QED
    BY <2>1, <2>2, <2>3, <2>4 DEF OneSearch, IsSearch
<1>4. AnswersText(c)'
  <2>1. \A key, uid : Matches(key, uid)' <=> Matches(key, uid)
    BY DEF Matches
  <2> QED
    BY <1>1, <2>1 DEF AnswersText, IsSearch
<1> QED
  BY <1>3, <1>4

-----------------------------------------------------------------------------
(* The chat servers.                                                       *)

\* The sessions of the clients, the requests and the codes are not theirs.
ServerFrame == UNCHANGED <<tables, code, lastCode, lastToken, job, mailbox, replies, shell, phase,
                           timer, pending, conn, search, wanted, disturbed, scenario>>

\* A chat server's step keeps what the requests and the sessions have.
LEMMA ServersKeepTheRest ==
  ASSUME StoreTyped, ClientTyped, RowsInv, CodesInv, SessionInv, ServerFrame,
         bound' \in [Clients -> Nat]
  PROVE  /\ StoreTyped' /\ ClientTyped' /\ RowsInv' /\ CodesInv' /\ SessionInv'
         /\ users' = users /\ conn' = conn /\ search' = search
<1>1. StoreTyped' /\ ClientTyped' /\ users' = users
  BY DEF StoreTyped, ClientTyped, ServerFrame, tables, shell
<1>2. RowsInv'
  BY DEF RowsInv, LockHeld, At, Answered, Shape, ServerFrame, tables
<1>3. CodesInv'
  BY DEF CodesInv, CodeDrawn, OneCode, At, ServerFrame
<1>4. SessionInv'
  BY DEF SessionInv, SessionOf, Awaiting, AwaitedLogin, OfWanted, ServerFrame, tables, shell
<1> QED
  BY <1>1, <1>2, <1>3, <1>4 DEF ServerFrame

\* LoginHandler takes a frame of one connection, answers on it, and may tell
\* another one to go: none of that is a search.
LEMMA ChatLoginKeeps ==
  ASSUME IInv, NEW c \in Clients, ChatLogin(c)
  PROVE  IInv'
<1> DEFINE req == Head(up[c])
           user == GetUser(req.uid)
           good(ok) == ok /\ req.uid \in DOMAIN token /\ token[req.uid] = req.token /\ user # 0
           old(ok, d) == good(ok) /\ d # c /\ bound[d] = req.uid
           answer(ok) == [op |-> "login", ok |-> good(ok), uid |-> req.uid]
           offline == [op |-> "offline"]
<1>1. PICK ok \in BOOLEAN :
         /\ Frame(c, "login") /\ ServerFrame
         /\ cached' = IF good(ok) THEN CacheUser(req.uid, user) ELSE cached
         /\ bound' = [d \in Clients |-> IF old(ok, d) THEN 0
                                        ELSE IF d = c /\ good(ok) THEN req.uid ELSE bound[d]]
         /\ up' = [up EXCEPT ![c] = Tail(@)]
         /\ down' = [d \in Clients |->
               IF d = c THEN Append(down[c], answer(ok))
               ELSE IF old(ok, d) THEN Append(down[d], offline) ELSE down[d]]
  BY DEF ChatLogin, Serves, ServerFrame, GetBaseInfo
<1>2. /\ up \in [Clients -> Seq(UpFrame)] /\ down \in [Clients -> Seq(DownFrame)]
      /\ bound \in [Clients -> Nat] /\ users \subseteq UserRow /\ CacheIsTrue
      /\ up[c] \in Seq(UpFrame) /\ up[c] # <<>> /\ req.op = "login" /\ conn[c] = "open"
  BY <1>1 DEF IInv, WireTyped, ClientTyped, StoreTyped, SearchInv, Frame
<1>3. /\ req \in UpFrame /\ req.uid \in Nat \ {0} /\ Tail(up[c]) \in Seq(UpFrame)
      /\ MovedUp(Tail(up[c]), up[c], 1)
  <2>1. req \in UpFrame
    BY <1>2, TailFrames
  <2> HIDE DEF req
  <2>2. req.uid \in Nat \ {0}
    BY <1>2, <2>1 DEF UpFrame
  <2> QED
    BY <1>2, <2>1, <2>2, TailFrames
<1> HIDE DEF req
<1>4. /\ answer(ok) \in DownFrame /\ offline \in DownFrame
      /\ answer(ok).op = "login" /\ offline.op = "offline"
  BY <1>3 DEF DownFrame
<1> HIDE DEF answer, offline, good
<1>5. bound' \in [Clients -> Nat]
  BY <1>1, <1>2, <1>3
<1>6. /\ StoreTyped' /\ ClientTyped' /\ RowsInv' /\ CodesInv' /\ SessionInv'
      /\ users' = users /\ conn' = conn /\ search' = search
  BY <1>1, <1>5, ServersKeepTheRest DEF IInv
<1>7. WireTyped'
  <2>1. \A d \in Clients : /\ Append(down[d], answer(ok)) \in Seq(DownFrame)
                           /\ Append(down[d], offline) \in Seq(DownFrame)
    BY <1>2, <1>4, AppendProperties
  <2> QED
    BY <1>1, <1>2, <1>3, <1>6, <2>1 DEF WireTyped, IInv
<1>8. CacheIsTrue'
  <2>1. user = 0 \/ Matches(req.uid, user)
    BY <1>2, GetUserMatches
  <2> HIDE DEF user
  <2>2. CASE good(ok)
    BY <1>1, <1>2, <1>6, <2>1, <2>2, CacheUserIsTrue
  <2>3. CASE ~good(ok)
    BY <1>1, <1>2, <1>6, <2>3, CacheFrame DEF RowsKept
  <2> QED
    BY <2>2, <2>3
<1>9. ASSUME NEW d \in Clients
      PROVE  OneSearch(d)' /\ AnswersText(d)'
  <2>1. OneSearch(d) /\ AnswersText(d)
    BY DEF IInv, SearchInv
  <2>2. conn[d] # "open" => up'[d] = <<>> /\ down'[d] = <<>> /\ bound'[d] = 0
    BY <1>1, <1>2, <1>3, <2>1 DEF OneSearch
  <2>3. MovedUp(down'[d], down[d], 0)
    <3>1. down[d] \in Seq(DownFrame)
      BY <1>2
    <3>2. \A e \in DownFrame : e.op # "search" => MovedUp(Append(down[d], e), down[d], 0)
      BY <3>1, AppendFrames
    <3>3. down'[d] \in {Append(down[d], answer(ok)), Append(down[d], offline), down[d]}
      BY <1>1
    <3> QED
      BY <1>4, <3>2, <3>3, NoFrames
  <2>4. \E m \in {0, 1} : MovedUp(up'[d], up[d], m)
    <3>1. CASE d = c
      BY <1>1, <1>2, <1>3, <3>1
    <3>2. CASE d # c
      BY <1>1, <1>2, <3>2, NoFrames
    <3> QED
      BY <3>1, <3>2
  <2> QED
    BY <1>6, <2>1, <2>2, <2>3, <2>4, FewerSearches
<1> QED
  BY <1>6, <1>7, <1>8, <1>9 DEF IInv, SearchInv

\* SearchInfo takes the one search of a connection and puts its answer in its
\* place.
LEMMA SearchInfoKeeps ==
  ASSUME IInv, NEW c \in Clients, SearchInfo(c)
  PROVE  IInv'
<1> DEFINE key == Head(up[c]).key
           answer(uid) == [op |-> "search", uid |-> uid]
<1>1. PICK uid : /\ Frame(c, "search") /\ ServerFrame /\ bound' = bound
                 /\ uid = 0 \/ uid = GetUser(key)
                 /\ cached' = CacheUser(key, uid)
                 /\ up' = [up EXCEPT ![c] = Tail(@)]
                 /\ down' = IF bound[c] = 0 THEN down
                            ELSE [down EXCEPT ![c] = Append(@, answer(uid))]
  BY DEF SearchInfo, Serves, ServerFrame
<1>2. /\ up \in [Clients -> Seq(UpFrame)] /\ down \in [Clients -> Seq(DownFrame)]
      /\ bound \in [Clients -> Nat] /\ users \subseteq UserRow /\ CacheIsTrue
      /\ up[c] \in Seq(UpFrame) /\ down[c] \in Seq(DownFrame) /\ up[c] # <<>> /\ conn[c] = "open"
      /\ IsSearch(up[c], 1) /\ Head(up[c]) = up[c][1]
  <2>1. up[c] \in Seq(UpFrame) /\ up[c] # <<>> /\ Head(up[c]).op = "search"
    BY <1>1 DEF IInv, WireTyped, Frame
  <2>2. IsSearch(up[c], 1) /\ Head(up[c]) = up[c][1]
    BY <2>1, TailFrames DEF IsSearch
  <2> QED
    BY <1>1, <2>1, <2>2 DEF IInv, WireTyped, ClientTyped, StoreTyped, SearchInv, Frame
<1>3. uid \in Nat /\ (uid = 0 \/ Matches(key, uid))
  BY <1>1, <1>2, GetUserMatches
<1>4. /\ answer(uid) \in DownFrame /\ answer(uid).uid = uid
      /\ Append(down[c], answer(uid)) \in Seq(DownFrame) /\ Tail(up[c]) \in Seq(UpFrame)
  <2>1. answer(uid) \in DownFrame /\ answer(uid).uid = uid
    BY <1>3 DEF DownFrame
  <2> HIDE DEF answer
  <2> QED
    BY <1>2, <2>1, AppendProperties, TailFrames
<1> HIDE DEF answer
<1>5. /\ StoreTyped' /\ ClientTyped' /\ RowsInv' /\ CodesInv' /\ SessionInv'
      /\ users' = users /\ conn' = conn /\ search' = search
  BY <1>1, <1>2, ServersKeepTheRest DEF IInv
<1>6. WireTyped'
  BY <1>1, <1>2, <1>4, <1>5 DEF WireTyped, IInv
<1>7. CacheIsTrue'
  BY <1>1, <1>2, <1>3, <1>5, CacheUserIsTrue
<1>8. ASSUME NEW d \in Clients \ {c}
      PROVE  OneSearch(d)' /\ AnswersText(d)'
  <2>1. SearchKept(d)
    BY <1>1, <1>2, <1>5 DEF SearchKept
  <2> QED
    BY <1>5, <2>1, SearchFrame DEF IInv, SearchInv, RowsKept
<1>9. OneSearch(c)' /\ AnswersText(c)'
  <2>1. OneSearch(c) /\ AnswersText(c) /\ search[c].asking
    BY <1>2 DEF IInv, SearchInv, OneSearch
  <2>2. \A i \in Nat : ~IsSearch(up'[c], i)
    <3>1. up'[c] = Tail(up[c])
      BY <1>1, <1>2
    <3>2. MovedUp(up'[c], up[c], 1) /\ \A i \in Nat : IsSearch(up'[c], i) => i # 0
      BY <1>2, <3>1, TailFrames
    <3>3. \A i \in Nat : IsSearch(up[c], i) => i = 1
      BY <1>2, <2>1 DEF OneSearch
    <3> QED
      BY <3>2, <3>3 DEF MovedUp
  <2>3. \A i \in Nat : IsSearch(down'[c], i) => i = Len(down[c]) + 1 /\ down'[c][i] = answer(uid)
    <3>1. \A i \in Nat : ~IsSearch(down[c], i)
      BY <1>2, <2>1 DEF OneSearch
    <3>2. down'[c] \in {down[c], Append(down[c], answer(uid))}
      BY <1>1, <1>2
    <3>3. \A i \in Nat : IsSearch(Append(down[c], answer(uid)), i) =>
            i = Len(down[c]) + 1 /\ Append(down[c], answer(uid))[i] = answer(uid)
      BY <1>2, <1>4, <3>1, AppendFrames
    <3> QED
      BY <3>1, <3>2, <3>3
  <2>4. OneSearch(c)'
    BY <1>2, <1>5, <2>1, <2>2, <2>3 DEF OneSearch
  <2>5. search[c].state = "searching" => key = search[c].text
    BY <1>2, <2>1 DEF AnswersText
  <2>6. \A k, u : Matches(k, u)' <=> Matches(k, u)
    BY <1>5 DEF Matches
  <2>7. AnswersText(c)'
    BY <1>3, <1>4, <1>5, <2>1, <2>2, <2>3, <2>5, <2>6 DEF AnswersText
  <2> QED
    BY <2>4, <2>7
<1> QED
  BY <1>5, <1>6, <1>7, <1>8, <1>9 DEF IInv, SearchInv

-----------------------------------------------------------------------------
(* The client: the session.                                                *)

\* What a client does by itself is judged by its own part of the state.
LEMMA ClientActs ==
  ASSUME IInv, NEW c \in Clients, ClientOnly, ClientTyped', WireTyped',
         \A d \in Clients \ {c} : SessionKept(d) /\ SearchKept(d),
         SessionOf(c)', Awaiting(c)', OfWanted(c)', OneSearch(c)', AnswersText(c)'
  PROVE  IInv'
<1>1. /\ JobsKept /\ RowsKept /\ cached' = cached
      /\ UNCHANGED <<users, lastUid, rowLock, code, lastCode, lastToken, job, mailbox, disturbed, scenario>>
  BY DEF ClientOnly, account, tables, redis, counts, JobsKept, RowsKept
<1>2. StoreTyped'
  BY <1>1 DEF IInv, StoreTyped
<1>3. RowsInv'
  BY <1>1 DEF IInv, RowsInv, LockHeld, At, Answered, Shape
<1>4. CodesInv'
  BY <1>1 DEF IInv, CodesInv, CodeDrawn, OneCode, At
<1>5. SessionInv' /\ SearchInv'
  BY <1>1, OneClient DEF IInv
<1> QED
  BY <1>2, <1>3, <1>4, <1>5 DEF IInv

\* NotBusy is about one page.
LEMMA NotBusyForm ==
  ASSUME form \in [Clients -> Form], NEW c \in Clients
  PROVE  /\ NotBusy(c) \in [Clients -> Form]
         /\ page[c] = "login" => ~NotBusy(c)[c].busy
         /\ \A d \in Clients \ {c} : NotBusy(c)[d] = form[d]
<1>1. [form[c] EXCEPT !.busy = @ /\ page[c] # "login"] \in Form
  BY DEF Form
<1> QED
  BY <1>1 DEF NotBusy, Form

\* HangUp forgets the connection: nothing on it is answered any more.
LEMMA HangUpFacts ==
  ASSUME ClientTyped, WireTyped, NEW c \in Clients, HangUp(c)
  PROVE  /\ up'[c] = <<>> /\ down'[c] = <<>> /\ bound'[c] = 0 /\ page' = page
         /\ notice'[c] = ShowOfflineNotice(c)
         /\ search'[c].state = search[c].state /\ search'[c].text = search[c].text
         /\ search'[c].result = search[c].result
         /\ WireTyped' /\ bound' \in [Clients -> Nat] /\ notice' \in [Clients -> BOOLEAN]
         /\ \A d \in Clients \ {c} : /\ up'[d] = up[d] /\ down'[d] = down[d] /\ bound'[d] = bound[d]
                                      /\ notice'[d] = notice[d] /\ search'[d] = search[d]
<1> DEFINE new == [search[c] EXCEPT !.asking = @ /\ conn[c] # "open"]
<1>1. search[c] \in SearchRecord
  BY DEF WireTyped
<1>2. /\ new \in SearchRecord /\ new.state = search[c].state /\ new.text = search[c].text
      /\ new.result = search[c].result
  BY <1>1 DEF SearchRecord
<1>3. search' = [search EXCEPT ![c] = new]
  BY <1>1 DEF HangUp
<1> HIDE DEF new
<1>4. <<>> \in Seq(UpFrame) /\ <<>> \in Seq(DownFrame)
  BY EmptySeq
<1>5. ShowOfflineNotice(c) \in BOOLEAN
  BY DEF ShowOfflineNotice, ClientTyped
<1>6. /\ bound' = [bound EXCEPT ![c] = 0] /\ notice' = [notice EXCEPT ![c] = ShowOfflineNotice(c)]
      /\ up' = [up EXCEPT ![c] = <<>>] /\ down' = [down EXCEPT ![c] = <<>>] /\ page' = page
  BY DEF HangUp
<1> HIDE DEF ShowOfflineNotice
<1>7. WireTyped'
  BY <1>2, <1>3, <1>4, <1>6 DEF WireTyped
<1>8. bound' \in [Clients -> Nat] /\ notice' \in [Clients -> BOOLEAN]
  BY <1>5, <1>6 DEF ClientTyped
<1>9. /\ up'[c] = <<>> /\ down'[c] = <<>> /\ bound'[c] = 0 /\ search'[c] = new
      /\ notice'[c] = ShowOfflineNotice(c)
  BY <1>3, <1>6 DEF ClientTyped, WireTyped
<1>10. \A d \in Clients \ {c} : /\ up'[d] = up[d] /\ down'[d] = down[d] /\ bound'[d] = bound[d]
                               /\ notice'[d] = notice[d] /\ search'[d] = search[d]
  BY <1>3, <1>6 DEF ClientTyped, WireTyped
<1> QED
  BY <1>2, <1>6, <1>7, <1>8, <1>9, <1>10

\* After HangUp no search is on the wire, and what the page shows is as true as before.
LEMMA HangUpKeepsSearch ==
  ASSUME ClientTyped, WireTyped, NEW c \in Clients, OneSearch(c), AnswersText(c), HangUp(c), users' = users
  PROVE  OneSearch(c)' /\ AnswersText(c)'
<1>1. /\ up'[c] = <<>> /\ down'[c] = <<>> /\ bound'[c] = 0
      /\ search'[c].state = search[c].state /\ search'[c].text = search[c].text
      /\ search'[c].result = search[c].result
  BY HangUpFacts
<1>2. \A i : ~IsSearch(up'[c], i) /\ ~IsSearch(down'[c], i)
  BY <1>1, NoFrames
<1>3. OneSearch(c)'
  BY <1>1, <1>2 DEF OneSearch
<1>4. \A key, uid : Matches(key, uid)' <=> Matches(key, uid)
  BY DEF Matches
<1>5. AnswersText(c)'
  BY <1>1, <1>2, <1>4 DEF AnswersText
<1> QED
  BY <1>3, <1>5

\* A session that is closed, by whatever, is off; its page is told or freed.
LEMMA CloseSessionKeeps ==
  ASSUME IInv, NEW c \in Clients, conn[c] # "closed", CloseSession(c), ClientOnly, replies' = replies,
         form' = NotBusy(c) \/ (form' = form /\ phase[c] # "connecting")
  PROVE  IInv'
<1>1. ClientTyped /\ WireTyped /\ SessionOf(c) /\ Awaiting(c) /\ OfWanted(c) /\ OneSearch(c) /\ AnswersText(c)
  BY DEF IInv, SessionInv, SearchInv
<1>2. /\ HangUp(c) /\ pending' = pending /\ users' = users /\ job' = job /\ wanted' = wanted
      /\ conn' = [conn EXCEPT ![c] = "closed"] /\ phase' = [phase EXCEPT ![c] = "off"]
      /\ timer' = [timer EXCEPT ![c] = FALSE] /\ page' = page
  BY DEF CloseSession, ClientOnly, account, tables, HangUp
<1>3. /\ form' \in [Clients -> Form] /\ (page[c] = "login" /\ phase[c] = "connecting" => ~form'[c].busy)
      /\ \A d \in Clients \ {c} : form'[d] = form[d]
  BY <1>1, NotBusyForm DEF ClientTyped
<1>4. ClientTyped' /\ WireTyped'
  <2>1. WireTyped' /\ bound' \in [Clients -> Nat] /\ notice' \in [Clients -> BOOLEAN]
    BY <1>1, <1>2, HangUpFacts
  <2> QED
    BY <1>1, <1>2, <1>3, <2>1 DEF ClientTyped
<1>5. ASSUME NEW d \in Clients \ {c}
      PROVE  SessionKept(d) /\ SearchKept(d)
  BY <1>1, <1>2, <1>3, HangUpFacts DEF SessionKept, SearchKept, ClientTyped
<1>6. phase[c] # "off" /\ phase'[c] = "off" /\ conn'[c] = "closed" /\ ~timer'[c]
  BY <1>1, <1>2 DEF ClientTyped, SessionOf
<1>7. SessionOf(c)'
  BY <1>1, <1>2, <1>6, HangUpFacts DEF SessionOf, ClientTyped, ShowOfflineNotice
<1>8. Awaiting(c)'
  BY <1>1, <1>2, <1>6 DEF Awaiting, AwaitedLogin
<1>9. OfWanted(c)'
  BY <1>6 DEF OfWanted
<1>10. OneSearch(c)' /\ AnswersText(c)'
  BY <1>1, <1>2, HangUpKeepsSearch
<1> QED
  BY <1>4, <1>5, <1>7, <1>8, <1>9, <1>10, ClientActs

\* onTcpConnected sends the login frame on a connection that carries nothing.
LEMMA TcpConnectedKeeps ==
  ASSUME IInv, NEW c \in Clients, TcpConnected(c)
  PROVE  IInv'
<1> DEFINE first == [op |-> "login", uid |-> pending[c].uid, token |-> pending[c].token]
<1>1. ClientTyped /\ WireTyped /\ SessionOf(c) /\ Awaiting(c) /\ OfWanted(c) /\ OneSearch(c) /\ AnswersText(c)
  BY DEF IInv, SessionInv, SearchInv
<1>2. /\ ClientOnly /\ conn[c] = "linking" /\ conn' = [conn EXCEPT ![c] = "open"]
      /\ up' = [up EXCEPT ![c] = <<first>>]
      /\ UNCHANGED <<phase, timer, pending, bound, down, replies, page, notice, form, search>>
      /\ users' = users /\ job' = job /\ wanted' = wanted
  BY DEF TcpConnected, shell, ClientOnly, account, tables
<1>3. first \in UpFrame /\ first.op = "login"
  <2>1. PICK r \in users : r.uid = pending[c].uid
    BY <1>1, <1>2 DEF SessionOf, OfWanted, ClientTyped
  <2>2. r.uid \in Nat \ {0}
    BY DEF IInv, StoreTyped, UserRow
  <2>3. pending[c].uid \in Nat \ {0} /\ pending[c].token \in Nat
    BY <1>1, <2>1, <2>2 DEF ClientTyped
  <2> QED
    BY <2>3 DEF UpFrame
<1> HIDE DEF first
<1>4. <<first>> \in Seq(UpFrame) /\ \A i \in Nat : ~IsSearch(<<first>>, i)
  BY <1>3 DEF IsSearch
<1>5. ClientTyped' /\ WireTyped'
  BY <1>1, <1>2, <1>4 DEF ClientTyped, WireTyped
<1>6. ASSUME NEW d \in Clients \ {c}
      PROVE  SessionKept(d) /\ SearchKept(d)
  BY <1>1, <1>2 DEF SessionKept, SearchKept, ClientTyped, WireTyped
<1>7. conn'[c] = "open" /\ up'[c] = <<first>> /\ phase[c] = "connecting"
  BY <1>1, <1>2 DEF ClientTyped, WireTyped, SessionOf
<1>8. SessionOf(c)' /\ Awaiting(c)' /\ OfWanted(c)'
  BY <1>1, <1>2, <1>7 DEF SessionOf, Awaiting, AwaitedLogin, OfWanted
<1>9. down[c] = <<>> /\ \A i \in Nat : ~IsSearch(down[c], i)
  BY <1>1, <1>2, NoFrames DEF OneSearch
<1>10. OneSearch(c)'
  BY <1>2, <1>4, <1>7, <1>9 DEF OneSearch
<1>11. AnswersText(c)'
  BY <1>1, <1>2, <1>4, <1>7, <1>9 DEF AnswersText, Matches
<1> QED
  BY <1>2, <1>5, <1>6, <1>8, <1>10, <1>11, ClientActs

\* A frame that is taken off the connection leaves the rest of it.
LEMMA DropFacts ==
  ASSUME WireTyped, NEW c \in Clients, down[c] # <<>>, Drop(c)
  PROVE  /\ down' \in [Clients -> Seq(DownFrame)] /\ up' = up /\ conn' = conn /\ bound' = bound
         /\ MovedUp(down'[c], down[c], 1) /\ \A i \in Nat : IsSearch(down'[c], i) => i # 0
         /\ \A d \in Clients \ {c} : down'[d] = down[d]
         /\ Head(down[c]) = down[c][1] /\ 1 \in DOMAIN down[c] /\ Head(down[c]) \in DownFrame
<1>1. down[c] \in Seq(DownFrame) /\ down' = [down EXCEPT ![c] = Tail(down[c])]
  BY DEF WireTyped, Drop
<1>2. /\ Tail(down[c]) \in Seq(DownFrame) /\ MovedUp(Tail(down[c]), down[c], 1)
      /\ \A i \in Nat : IsSearch(Tail(down[c]), i) => i # 0
      /\ Head(down[c]) = down[c][1] /\ 1 \in DOMAIN down[c] /\ Head(down[c]) \in DownFrame
  BY <1>1, TailFrames
<1>3. down'[c] = Tail(down[c]) /\ \A d \in Clients \ {c} : down'[d] = down[d]
  BY <1>1 DEF WireTyped
<1> QED
  BY <1>1, <1>2, <1>3 DEF WireTyped, Drop

\* onChatLoggedIn: the session that was being set up is ready.
LEMMA OnChatLoginKeeps ==
  ASSUME IInv, NEW c \in Clients, OnChatLogin(c)
  PROVE  IInv'
<1>1. ClientTyped /\ WireTyped /\ SessionOf(c) /\ Awaiting(c) /\ OfWanted(c) /\ OneSearch(c) /\ AnswersText(c)
  BY DEF IInv, SessionInv, SearchInv
<1>2. /\ ClientOnly /\ replies' = replies /\ conn[c] = "open" /\ down[c] # <<>>
      /\ users' = users /\ job' = job /\ wanted' = wanted
  BY DEF OnChatLogin, Got, ClientOnly, account, tables
<1>3. CASE FailAndReset(c)
  BY <1>2, <1>3, CloseSessionKeeps DEF FailAndReset
<1>4. CASE Drop(c) /\ UNCHANGED <<phase, timer, pending, shell, search>>
  <2>1. UNCHANGED <<phase, timer, pending, page, notice, form, search, up, conn, bound>>
    BY <1>4 DEF shell, Drop
  <2>2. ClientTyped' /\ WireTyped'
    BY <1>1, <1>2, <1>4, <2>1, DropFacts DEF ClientTyped, WireTyped
  <2>3. \A d \in Clients : SessionKept(d)
    BY <1>2, <2>1 DEF SessionKept
  <2>4. \A d \in Clients \ {c} : SearchKept(d)
    BY <1>1, <1>2, <1>4, <2>1, DropFacts DEF SearchKept
  <2>5. SessionOf(c)' /\ Awaiting(c)' /\ OfWanted(c)'
    BY <1>1, <1>2, <2>3, SessionFrame DEF JobsKept, RowsKept
  <2>6. MovedUp(up'[c], up[c], 0) /\ MovedUp(down'[c], down[c], 1)
    BY <1>1, <1>2, <1>4, <2>1, DropFacts, NoFrames
  <2>7. OneSearch(c)' /\ AnswersText(c)'
    BY <1>1, <1>2, <2>1, <2>6, FewerSearches
  <2> QED
    BY <1>2, <2>2, <2>3, <2>4, <2>5, <2>7, ClientActs
<1>5. CASE /\ phase[c] = "connecting" /\ Drop(c)
           /\ phase' = [phase EXCEPT ![c] = "ready"] /\ timer' = [timer EXCEPT ![c] = FALSE]
           /\ page' = [page EXCEPT ![c] = "chat"] /\ form' = [form EXCEPT ![c] = Blank]
           /\ search' = [search EXCEPT ![c] = Forget(@)]
           /\ UNCHANGED <<pending, notice>>
  <2>1. search[c] \in SearchRecord
    BY <1>1 DEF WireTyped
  <2>2. /\ Forget(search[c]) \in SearchRecord /\ Forget(search[c]).state = "none"
        /\ Forget(search[c]).asking = search[c].asking
    BY <2>1 DEF Forget, NoSearch, SearchRecord
  <2>3. Blank \in Form
    BY DEF Blank, Form
  <2>4. ClientTyped' /\ WireTyped'
    BY <1>1, <1>2, <1>5, <2>2, <2>3, DropFacts DEF ClientTyped, WireTyped, Pages
  <2>5. ASSUME NEW d \in Clients \ {c}
        PROVE  SessionKept(d) /\ SearchKept(d)
    BY <1>1, <1>2, <1>5, DropFacts DEF SessionKept, SearchKept, ClientTyped, WireTyped
  <2>6. /\ phase'[c] = "ready" /\ ~timer'[c] /\ page'[c] = "chat" /\ conn'[c] = "open"
        /\ search'[c] = Forget(search[c])
    BY <1>1, <1>2, <1>5, DropFacts DEF ClientTyped, WireTyped
  <2>7. SessionOf(c)'
    BY <1>1, <1>2, <1>5, <2>6 DEF SessionOf
  <2>8. Awaiting(c)' /\ OfWanted(c)'
    BY <1>1, <1>2, <1>5 DEF Awaiting, AwaitedLogin, OfWanted
  <2>9. MovedUp(up'[c], up[c], 0) /\ MovedUp(down'[c], down[c], 1) /\ conn' = conn
    BY <1>1, <1>2, <1>5, DropFacts, NoFrames
  <2>10. OneSearch(c)' /\ AnswersText(c)'
    BY <1>1, <1>2, <2>2, <2>6, <2>9, FewerSearches
  <2> QED
    BY <1>2, <2>4, <2>5, <2>7, <2>8, <2>10, ClientActs
<1> QED
  BY <1>3, <1>4, <1>5 DEF OnChatLogin

\* The page takes an answer for the text it shows, and the answer is for that.
LEMMA OnSearchRspKeeps ==
  ASSUME IInv, NEW c \in Clients, OnSearchRsp(c)
  PROVE  IInv'
<1> DEFINE s == search[c]
           uid == Head(down[c]).uid
           shown == IF s.asking THEN UserFound(s, pending[c].uid, uid) ELSE s
           new == [shown EXCEPT !.asking = FALSE]
<1>1. ClientTyped /\ WireTyped /\ SessionOf(c) /\ Awaiting(c) /\ OfWanted(c) /\ OneSearch(c) /\ AnswersText(c)
  BY DEF IInv, SessionInv, SearchInv
<1>2. /\ ClientOnly /\ conn[c] = "open" /\ down[c] # <<>> /\ Head(down[c]).op = "search" /\ Drop(c)
      /\ UNCHANGED <<phase, timer, pending, page, notice, form, replies, wanted, job, users>>
      /\ search' = [search EXCEPT ![c] = new]
  BY DEF OnSearchRsp, Got, shell, ClientOnly, account, tables
<1>3. /\ IsSearch(down[c], 1) /\ uid = down[c][1].uid /\ uid \in Nat
  <2>1. Head(down[c]) = down[c][1] /\ 1 \in DOMAIN down[c] /\ Head(down[c]) \in DownFrame
    BY <1>1, <1>2, DropFacts
  <2> QED
    BY <1>2, <2>1 DEF IsSearch, DownFrame
<1>4. s \in SearchRecord
  BY <1>1 DEF WireTyped
<1> HIDE DEF uid, s
<1>5. /\ shown \in SearchRecord
      /\ \/ shown = s /\ s.state # "searching"
         \/ shown.state \in {"failed", "none"}
         \/ /\ shown.state = "found" /\ shown.result = uid /\ shown.text = s.text
            /\ s.state = "searching" /\ uid # 0
  <2>1. s.asking
    BY <1>1, <1>3 DEF OneSearch, s
  <2> QED
    BY <1>3, <1>4, <2>1 DEF UserFound, Forget, NoSearch, SearchRecord
<1> HIDE DEF shown
<1>6. /\ new \in SearchRecord /\ ~new.asking /\ new.state = shown.state
      /\ new.result = shown.result /\ new.text = shown.text
  BY <1>5 DEF SearchRecord
<1> HIDE DEF new
<1>7. ClientTyped' /\ WireTyped'
  BY <1>1, <1>2, <1>6, DropFacts DEF ClientTyped, WireTyped
<1>8. ASSUME NEW d \in Clients \ {c}
      PROVE  SessionKept(d) /\ SearchKept(d)
  BY <1>1, <1>2, DropFacts DEF SessionKept, SearchKept, WireTyped
<1>9. SessionOf(c)' /\ Awaiting(c)' /\ OfWanted(c)'
  BY <1>1, <1>2, DropFacts DEF SessionOf, Awaiting, AwaitedLogin, OfWanted
<1>10. /\ search'[c] = new /\ up' = up /\ conn' = conn
       /\ \A i \in Nat : ~IsSearch(up'[c], i) /\ ~IsSearch(down'[c], i)
  <2>1. search'[c] = new
    BY <1>1, <1>2 DEF WireTyped
  <2>2. /\ up' = up /\ conn' = conn /\ MovedUp(down'[c], down[c], 1)
        /\ \A i \in Nat : IsSearch(down'[c], i) => i # 0
    BY <1>1, <1>2, DropFacts
  <2>3. \A i \in Nat : ~IsSearch(up[c], i) /\ (IsSearch(down[c], i) => i = 1)
    BY <1>1, <1>3 DEF OneSearch
  <2> QED
    BY <2>1, <2>2, <2>3 DEF MovedUp
<1>11. OneSearch(c)'
  BY <1>2, <1>10 DEF OneSearch
<1>12. AnswersText(c)'
  <2>1. \A k, u : Matches(k, u)' <=> Matches(k, u)
    BY <1>2 DEF Matches
  <2>2. new.state = "found" => Matches(new.text, new.result)
    BY <1>1, <1>3, <1>5, <1>6 DEF AnswersText, s
  <2> QED
    BY <1>5, <1>6, <1>10, <2>1, <2>2 DEF AnswersText
<1> QED
  BY <1>2, <1>7, <1>8, <1>9, <1>11, <1>12, ClientActs

\* The countdown is shown, and nothing else.
LEMMA CountdownKeeps ==
  ASSUME IInv, NEW c \in Clients, CountdownEnds(c)
  PROVE  IInv'
<1> DEFINE new == [form[c] EXCEPT !.countdown = FALSE]
<1>1. ClientTyped /\ WireTyped /\ SessionOf(c) /\ Awaiting(c) /\ OfWanted(c) /\ OneSearch(c) /\ AnswersText(c)
  BY DEF IInv, SessionInv, SearchInv
<1>2. /\ ClientOnly /\ UNCHANGED <<replies, wanted, page, notice, session, search, users, job>>
      /\ form' = [form EXCEPT ![c] = new]
  BY DEF CountdownEnds, ClientOnly, account, tables
<1>3. form[c] \in Form
  BY <1>1 DEF ClientTyped
<1>4. new \in Form /\ new.busy = form[c].busy
  BY <1>3 DEF Form
<1> HIDE DEF new
<1>5. ClientTyped' /\ WireTyped'
  BY <1>1, <1>2, <1>4 DEF ClientTyped, WireTyped, session
<1>6. \A d \in Clients : SessionKept(d) /\ SearchKept(d)
  BY <1>1, <1>2, <1>4 DEF SessionKept, SearchKept, session, ClientTyped
<1>7. JobsKept /\ RowsKept
  BY <1>2 DEF JobsKept, RowsKept
<1> QED
  BY <1>1, <1>2, <1>5, <1>6, <1>7, SessionFrame, SearchFrame, ClientActs

\* The other events of a session close it.
LEMMA ClosingEvents ==
  ASSUME IInv, NEW c \in Clients,
         ConnectFails(c) \/ SessionTimeout(c) \/ Disconnected(c) \/ OnOffline(c)
  PROVE  IInv'
<1>1. SessionOf(c) /\ phase[c] \in {"off", "connecting", "ready"}
  BY DEF IInv, SessionInv, ClientTyped
<1>2. /\ conn[c] # "closed" /\ CloseSession(c) /\ ClientOnly /\ replies' = replies
      /\ form' = NotBusy(c) \/ (form' = form /\ phase[c] # "connecting")
  BY <1>1 DEF SessionOf, ConnectFails, SessionTimeout, Disconnected, OnOffline, Got, FailAndReset
<1> QED
  BY <1>2, CloseSessionKeeps

-----------------------------------------------------------------------------
(* The client: answers to its requests.                                    *)

HttpReply(c, r) == /\ r \in DOMAIN job /\ r \in replies[c]
                   /\ replies' = [replies EXCEPT ![c] = @ \ {r}] /\ ClientOnly

\* An answer that frees the form of its page, or leaves it.
LEMMA FormReplyKeeps ==
  ASSUME IInv, NEW c \in Clients, NEW r, HttpReply(c, r), UNCHANGED <<page, notice, session, search>>,
         form' \in [Clients -> Form], \A d \in Clients \ {c} : form'[d] = form[d],
         form'[c].busy = form[c].busy \/ page[c] # "login" \/ job[r].op = "login"
  PROVE  IInv'
<1>1. ClientTyped /\ WireTyped /\ SessionOf(c) /\ Awaiting(c) /\ OfWanted(c) /\ OneSearch(c) /\ AnswersText(c)
  BY DEF IInv, SessionInv, SearchInv
<1>2. /\ UNCHANGED <<users, job, wanted, page, notice, phase, timer, pending, conn, bound, up, down, search>>
      /\ replies' = [replies EXCEPT ![c] = @ \ {r}] /\ replies \in [Clients -> SUBSET Nat]
  BY <1>1 DEF HttpReply, ClientOnly, account, tables, session, ClientTyped
<1>3. replies' \in [Clients -> SUBSET Nat] /\ replies'[c] = replies[c] \ {r}
  BY <1>2
<1>4. ClientTyped' /\ WireTyped'
  BY <1>1, <1>2, <1>3 DEF ClientTyped, WireTyped
<1>5. ASSUME NEW d \in Clients \ {c}
      PROVE  SessionKept(d) /\ SearchKept(d)
  BY <1>2 DEF SessionKept, SearchKept
<1>6. job[r].op = "login" => /\ AwaitedLogin(c, r) /\ phase[c] = "off"
                             /\ \A q \in DOMAIN job : AwaitedLogin(c, q) => q = r
  BY <1>1 DEF Awaiting, AwaitedLogin, HttpReply
<1>7. SessionOf(c)'
  BY <1>1, <1>2, <1>6 DEF SessionOf
<1>8. Awaiting(c)'
  <2>1. replies'[c] \subseteq DOMAIN job'
    BY <1>1, <1>2, <1>3 DEF Awaiting
  <2>2. ASSUME NEW q \in DOMAIN job', AwaitedLogin(c, q)'
        PROVE  AwaitedLogin(c, q) /\ form'[c].busy
    <3>1. AwaitedLogin(c, q) /\ q # r
      BY <1>2, <1>3, <2>2 DEF AwaitedLogin
    <3> QED
      BY <1>1, <1>2, <1>6, <3>1 DEF Awaiting
  <2> QED
    BY <1>1, <1>2, <2>1, <2>2 DEF Awaiting
<1>9. OfWanted(c)'
  BY <1>1, <1>2 DEF OfWanted
<1>10. OneSearch(c)' /\ AnswersText(c)'
  BY <1>1, <1>2, SearchFrame DEF SearchKept, RowsKept
<1> QED
  BY <1>4, <1>5, <1>7, <1>8, <1>9, <1>10, ClientActs DEF HttpReply

\* A login that succeeds begins the session of the account asked for.
LEMMA ConnectToChatKeeps ==
  ASSUME IInv, NEW c \in Clients, NEW r, HttpReply(c, r), job[r].op = "login", job[r].ok,
         ConnectToChat(c, [uid |-> job[r].uid, token |-> job[r].code]), form' = form
  PROVE  IInv'
<1> DEFINE info == [uid |-> job[r].uid, token |-> job[r].code]
<1>1. ClientTyped /\ WireTyped /\ SessionOf(c) /\ Awaiting(c) /\ OfWanted(c) /\ OneSearch(c) /\ AnswersText(c)
  BY DEF IInv, SessionInv, SearchInv
<1>2. /\ ClientOnly /\ HangUp(c) /\ UNCHANGED <<users, job, wanted>>
      /\ conn' = [conn EXCEPT ![c] = "linking"] /\ phase' = [phase EXCEPT ![c] = "connecting"]
      /\ timer' = [timer EXCEPT ![c] = TRUE] /\ pending' = [pending EXCEPT ![c] = info]
      /\ replies' = [replies EXCEPT ![c] = @ \ {r}] /\ replies \in [Clients -> SUBSET Nat]
  BY <1>1 DEF HttpReply, ClientOnly, account, tables, ConnectToChat, ClientTyped
<1>3. /\ job[r].uid \in Nat /\ job[r].code \in Nat
      /\ \E q \in users : q.uid = job[r].uid /\ q.email = job[r].email
  BY RequestFacts DEF IInv, HttpReply, Answered
<1>4. info \in [uid : Nat, token : Nat] /\ info.uid = job[r].uid
  BY <1>3
<1> HIDE DEF info
<1>5. /\ page[c] = "login" /\ form[c].busy /\ phase[c] = "off" /\ job[r].email = wanted[c]
      /\ \A q \in DOMAIN job : AwaitedLogin(c, q) => q = r
  BY <1>1 DEF Awaiting, AwaitedLogin, HttpReply
<1>6. /\ replies' \in [Clients -> SUBSET Nat] /\ replies'[c] = replies[c] \ {r}
      /\ \A d \in Clients \ {c} : replies'[d] = replies[d]
  BY <1>2
<1>7. /\ WireTyped' /\ bound' \in [Clients -> Nat] /\ notice' \in [Clients -> BOOLEAN]
      /\ page' = page /\ notice'[c] = ShowOfflineNotice(c)
  BY <1>1, <1>2, HangUpFacts
<1>8. ClientTyped'
  BY <1>1, <1>2, <1>4, <1>6, <1>7 DEF ClientTyped
<1>9. ASSUME NEW d \in Clients \ {c}
      PROVE  SessionKept(d) /\ SearchKept(d)
  BY <1>1, <1>2, <1>6, HangUpFacts DEF SessionKept, SearchKept, ClientTyped
<1>10. conn'[c] = "linking" /\ phase'[c] = "connecting" /\ timer'[c] /\ pending'[c] = info
  BY <1>1, <1>2 DEF ClientTyped
<1>11. SessionOf(c)'
  BY <1>1, <1>5, <1>7, <1>10 DEF SessionOf, ShowOfflineNotice
<1>12. Awaiting(c)'
  BY <1>1, <1>2, <1>5, <1>6 DEF Awaiting, AwaitedLogin
<1>13. OfWanted(c)'
  BY <1>2, <1>3, <1>4, <1>5, <1>10 DEF OfWanted
<1>14. OneSearch(c)' /\ AnswersText(c)'
  BY <1>1, <1>2, HangUpKeepsSearch
<1> QED
  BY <1>2, <1>7, <1>8, <1>9, <1>11, <1>12, <1>13, <1>14, ClientActs

\* An answer, or its failure, goes to the page that waits for it.
LEMMA ResponseKeeps ==
  ASSUME IInv, NEW c \in Clients, NEW r, HttpReply(c, r), NEW ok \in BOOLEAN, ok => job[r].ok,
         Response(c, r, ok)
  PROVE  IInv'
<1>1. /\ form \in [Clients -> Form] /\ form[c] \in Form
      /\ job[r].op \in Ops /\ (job[r].op # "login" => job[r].page \in {"register", "reset"})
  BY RequestFacts DEF IInv, ClientTyped, HttpReply, Shape
<1>2. CASE UNCHANGED <<shell, session, search>>
  BY <1>1, <1>2, FormReplyKeeps DEF shell
<1>3. CASE job[r].op # "login" /\ OnVerifyCode(c, ok)
  <2>1. /\ [form[c] EXCEPT !.codeBusy = FALSE, !.countdown = ok] \in Form
        /\ [form[c] EXCEPT !.codeBusy = FALSE, !.countdown = ok].busy = form[c].busy
    BY <1>1 DEF Form
  <2>2. /\ form' \in [Clients -> Form] /\ \A d \in Clients \ {c} : form'[d] = form[d]
        /\ form'[c].busy = form[c].busy /\ UNCHANGED <<page, notice, session, search>>
    BY <1>1, <1>3, <2>1 DEF OnVerifyCode
  <2> QED
    BY <2>2, FormReplyKeeps
<1>4. CASE job[r].op # "login" /\ job[r].page = page[c] /\ OnSubmitted(c, ok)
  <2>1. [form[c] EXCEPT !.busy = FALSE, !.done = @ \/ ok] \in Form
    BY <1>1 DEF Form
  <2>2. /\ form' \in [Clients -> Form] /\ \A d \in Clients \ {c} : form'[d] = form[d]
        /\ page[c] # "login" /\ UNCHANGED <<page, notice, session, search>>
    BY <1>1, <1>4, <2>1 DEF OnSubmitted
  <2> QED
    BY <2>2, FormReplyKeeps
<1>5. CASE job[r].op = "login" /\ OnLoginResponse(c, r, ok)
  <2>1. CASE form' = NotBusy(c) /\ UNCHANGED <<page, notice, session, search>>
    BY <1>1, <1>5, <2>1, NotBusyForm, FormReplyKeeps
  <2>2. CASE ok /\ ConnectToChat(c, [uid |-> job[r].uid, token |-> job[r].code]) /\ form' = form
    BY <1>5, <2>2, ConnectToChatKeeps
  <2> QED
    BY <1>2, <1>5, <2>1, <2>2 DEF OnLoginResponse
<1> QED
  BY <1>1, <1>2, <1>3, <1>4, <1>5 DEF Response, OnRegResponse, OnResetResponse, Ops

\* A request that is finished, in time or not, is awaited no more.
LEMMA HttpKeeps ==
  ASSUME IInv, NEW c \in Clients, NEW r \in DOMAIN job, HttpFinished(c, r) \/ HttpError(c, r)
  PROVE  IInv'
<1>1. HttpReply(c, r)
  BY DEF HttpFinished, HttpError, HttpReply
<1>2. job[r].ok \in BOOLEAN
  BY RequestFacts DEF IInv
<1> QED
  BY <1>1, <1>2, ResponseKeeps DEF HttpFinished, HttpError

-----------------------------------------------------------------------------
(* The user.                                                               *)

\* A new request comes after the others.
LEMMA AppendJob ==
  ASSUME job \in Seq(JobRecord), NEW req \in JobRecord, job' = Append(job, req)
  PROVE  /\ job' \in Seq(JobRecord) /\ Len(job) + 1 \in Nat /\ Len(job) + 1 \notin DOMAIN job
         /\ DOMAIN job' = DOMAIN job \cup {Len(job) + 1} /\ job'[Len(job) + 1] = req
         /\ \A q \in DOMAIN job : job'[q] = job[q]
<1>1. /\ job' \in Seq(JobRecord) /\ Len(job') = Len(job) + 1 /\ job'[Len(job) + 1] = req
      /\ \A q \in 1..Len(job) : job'[q] = job[q]
  BY AppendProperties
<1>2. Len(job) \in Nat /\ DOMAIN job = 1..Len(job) /\ DOMAIN job' = 1..Len(job')
  BY <1>1, LenProperties
<1> QED
  BY <1>1, <1>2

\* A request that was just made holds and promises nothing yet.
LEMMA PostKeepsServers ==
  ASSUME IInv, NEW req \in JobRecord, Shape(req), ~req.ok,
         req.pc \notin {"insert", "store", "mail", "server"}, job' = Append(job, req),
         UNCHANGED <<account, mailbox, disturbed, scenario>>
  PROVE  /\ StoreTyped' /\ RowsInv' /\ CodesInv' /\ JobsKept /\ RowsKept
         /\ users' = users /\ cached' = cached
<1>1. PICK last :
         /\ job' \in Seq(JobRecord) /\ DOMAIN job' = DOMAIN job \cup {last} /\ job'[last] = req
         /\ last \notin DOMAIN job /\ \A q \in DOMAIN job : job'[q] = job[q]
  BY AppendJob DEF IInv, StoreTyped
<1>2. UNCHANGED <<users, lastUid, rowLock, code, cached, lastCode, lastToken, mailbox, disturbed, scenario>>
  BY DEF account, tables, redis
<1>3. StoreTyped' /\ JobsKept /\ RowsKept
  BY <1>1, <1>2 DEF IInv, StoreTyped, JobsKept, RowsKept
<1>4. RowsInv'
  <2>1. LockHeld'
    BY <1>1, <1>2 DEF IInv, RowsInv, LockHeld, At
  <2>2. ASSUME NEW q \in DOMAIN job
        PROVE  Shape(job[q])' /\ Answered(job[q])'
    BY <1>1, <1>2 DEF IInv, RowsInv, Shape, Answered
  <2>3. Shape(job[last])' /\ Answered(job[last])'
    BY <1>1 DEF Shape, Answered
  <2> QED
    BY <1>1, <1>2, <2>1, <2>2, <2>3 DEF IInv, RowsInv
<1>5. CodesInv'
  BY <1>1, <1>2 DEF IInv, CodesInv, CodeDrawn, OneCode, At
<1> QED
  BY <1>2, <1>3, <1>4, <1>5

\* Where a request is awaited: a code or a form by its own page, a login by
\* the login page, which was free and is busy from here on.
LEMMA PostKeeps ==
  ASSUME IInv, NEW c \in Clients, NEW req \in JobRecord, Shape(req), ~req.ok,
         req.pc \notin {"insert", "store", "mail", "server"}, Post(c, req),
         UNCHANGED <<account, mailbox, session, disturbed, scenario>>,
         form' \in [Clients -> Form], wanted' \in [Clients -> Emails \cup {"none"}],
         \A d \in Clients \ {c} : form'[d] = form[d] /\ wanted'[d] = wanted[d],
         \/ req.op # "login" /\ page[c] # "login" /\ wanted'[c] = wanted[c]
         \/ /\ req.op = "login" /\ page[c] = "login" /\ ~form[c].busy /\ form'[c].busy
            /\ wanted'[c] = req.email
  PROVE  IInv'
<1>1. ClientTyped /\ WireTyped /\ SessionOf(c) /\ Awaiting(c) /\ OfWanted(c) /\ OneSearch(c) /\ AnswersText(c)
  BY DEF IInv, SessionInv, SearchInv
<1>2. /\ job' = Append(job, req) /\ UNCHANGED <<page, notice, search, phase, timer, pending, conn, bound, up, down>>
      /\ replies' = [replies EXCEPT ![c] = @ \cup {Len(job) + 1}]
  BY DEF Post, session
<1>3. /\ StoreTyped' /\ RowsInv' /\ CodesInv' /\ JobsKept /\ RowsKept
      /\ users' = users /\ cached' = cached
  BY <1>2, PostKeepsServers
<1>4. PICK last \in Nat :
         /\ last \notin DOMAIN job /\ DOMAIN job' = DOMAIN job \cup {last} /\ job'[last] = req
         /\ \A q \in DOMAIN job : job'[q] = job[q]
         /\ replies' = [replies EXCEPT ![c] = @ \cup {last}]
  BY <1>2, AppendJob DEF IInv, StoreTyped
<1>5. /\ replies' \in [Clients -> SUBSET Nat] /\ replies'[c] = replies[c] \cup {last}
      /\ \A d \in Clients \ {c} : replies'[d] = replies[d]
  BY <1>1, <1>4 DEF ClientTyped
<1>6. ClientTyped' /\ WireTyped'
  BY <1>1, <1>2, <1>5 DEF ClientTyped, WireTyped
<1>7. ASSUME NEW d \in Clients \ {c}
      PROVE  SessionKept(d) /\ SearchKept(d)
  BY <1>2, <1>5 DEF SessionKept, SearchKept
<1>8. phase[c] # "connecting"
  BY <1>1 DEF SessionOf
<1>9. SessionOf(c)'
  BY <1>1, <1>2, <1>8 DEF SessionOf
<1>10. Awaiting(c)'
  <2>1. replies'[c] \subseteq DOMAIN job'
    BY <1>1, <1>4, <1>5 DEF Awaiting
  <2>2. \A q \in DOMAIN job : ~AwaitedLogin(c, q)
    BY <1>1 DEF Awaiting
  <2>3. ASSUME NEW q \in DOMAIN job', AwaitedLogin(c, q)'
        PROVE  q = last /\ req.op = "login"
    BY <1>4, <1>5, <2>2, <2>3 DEF AwaitedLogin
  <2>4. req.op = "login" => phase[c] = "off"
    BY <1>1, <1>8 DEF SessionOf, ClientTyped
  <2> QED
    BY <1>2, <1>4, <2>1, <2>3, <2>4 DEF Awaiting
<1>11. OfWanted(c)'
  BY <1>1, <1>2, <1>3, <1>8 DEF OfWanted, SessionOf, ClientTyped
<1>12. OneSearch(c)' /\ AnswersText(c)'
  BY <1>1, <1>2, <1>3, SearchFrame DEF SearchKept
<1>13. SessionInv' /\ SearchInv'
  BY <1>3, <1>7, <1>9, <1>10, <1>11, <1>12, OneClient DEF IInv
<1> QED
  BY <1>3, <1>6, <1>13 DEF IInv

\* The scenario's values are of their sets.
LEMMA TypedValues ==
  ASSUME StoreTyped
  PROVE  /\ scenario.emails \subseteq Emails /\ scenario.names \subseteq Names
         /\ scenario.passwords \subseteq Passwords /\ scenario.keys \subseteq Keys
BY AccountsAssumption DEF StoreTyped, Keys

\* The pages of registration and reset ask for codes and submit forms.
LEMMA SendCodeKeeps ==
  ASSUME IInv, NEW c \in Clients, NEW op \in {"register", "reset"}, NEW e \in scenario.emails,
         SendCode(c, op, e)
  PROVE  IInv'
<1> DEFINE req == [Request("verifycode", c) EXCEPT !.pc = "get", !.email = e]
           new == [form[c] EXCEPT !.codeBusy = TRUE]
<1>1. /\ page[c] = op /\ form' = [form EXCEPT ![c] = new] /\ Post(c, req) /\ wanted' = wanted
      /\ UNCHANGED <<account, mailbox, session, disturbed, scenario>>
  BY DEF SendCode, Click
<1>2. /\ e \in Emails /\ form \in [Clients -> Form] /\ form[c] \in Form
      /\ wanted \in [Clients -> Emails \cup {"none"}]
  BY TypedValues DEF IInv, ClientTyped
<1>3. /\ req \in JobRecord /\ Shape(req) /\ ~req.ok /\ req.pc = "get" /\ req.op = "verifycode"
  BY <1>1, <1>2 DEF Request, JobRecord, Ops, Pages, Pcs, Shape
<1>4. new \in Form
  BY <1>2 DEF Form
<1> HIDE DEF req, new
<1>5. form' \in [Clients -> Form] /\ \A d \in Clients \ {c} : form'[d] = form[d]
  BY <1>1, <1>2, <1>4
<1> QED
  BY <1>1, <1>2, <1>3, <1>5, PostKeeps

\* submitRegister and submitReset post the form with what was typed.
LEMMA SubmitKeeps ==
  ASSUME IInv, NEW c \in Clients, NEW op \in {"register", "reset"}, NEW e \in scenario.emails,
         NEW n \in scenario.names, NEW p \in scenario.passwords, Submit(c, op, e, n, p)
  PROVE  IInv'
<1>1. e \in Emails /\ n \in Names /\ p \in Passwords /\ mailbox[e] \subseteq Nat
  BY TypedValues DEF IInv, StoreTyped
<1>2. PICK k \in mailbox[e] : Submit(c, op, e, n, p)!(k)
  BY DEF Submit
<1> DEFINE req == [Request(op, c) EXCEPT !.pc = "code", !.email = e, !.name = n, !.pwd = p, !.code = k]
           new == [form[c] EXCEPT !.busy = TRUE]
<1>3. /\ page[c] = op /\ form' = [form EXCEPT ![c] = new] /\ Post(c, req) /\ wanted' = wanted
      /\ UNCHANGED <<account, mailbox, session, disturbed, scenario>>
  BY <1>2 DEF Click
<1>4. /\ form \in [Clients -> Form] /\ form[c] \in Form /\ k \in Nat
      /\ wanted \in [Clients -> Emails \cup {"none"}]
  BY <1>1 DEF IInv, ClientTyped
<1>5. /\ req \in JobRecord /\ Shape(req) /\ ~req.ok /\ req.pc = "code" /\ req.op = op
  BY <1>1, <1>3, <1>4 DEF Request, JobRecord, Ops, Pages, Pcs, Shape
<1>6. new \in Form
  BY <1>4 DEF Form
<1> HIDE DEF req, new
<1>7. form' \in [Clients -> Form] /\ \A d \in Clients \ {c} : form'[d] = form[d]
  BY <1>3, <1>4, <1>6
<1> QED
  BY <1>3, <1>4, <1>5, <1>7, PostKeeps

\* LoginBridge::login.
LEMMA LoginKeeps ==
  ASSUME IInv, NEW c \in Clients, NEW e \in scenario.emails, NEW p \in scenario.passwords,
         Login(c, e, p)
  PROVE  IInv'
<1> DEFINE req == [Request("login", c) EXCEPT !.pc = "pwd", !.email = e, !.pwd = p]
           new == [form[c] EXCEPT !.busy = TRUE]
<1>1. /\ page[c] = "login" /\ ~form[c].busy /\ form' = [form EXCEPT ![c] = new] /\ Post(c, req)
      /\ wanted' = [wanted EXCEPT ![c] = e]
      /\ UNCHANGED <<account, mailbox, session, disturbed, scenario>>
  BY DEF Login, Click
<1>2. /\ e \in Emails /\ p \in Passwords /\ form \in [Clients -> Form] /\ form[c] \in Form
      /\ wanted \in [Clients -> Emails \cup {"none"}]
  BY TypedValues DEF IInv, ClientTyped
<1>3. /\ req \in JobRecord /\ Shape(req) /\ ~req.ok /\ req.pc = "pwd" /\ req.op = "login" /\ req.email = e
  BY <1>1, <1>2 DEF Request, JobRecord, Ops, Pages, Pcs, Shape
<1>4. new \in Form /\ new.busy
  BY <1>2 DEF Form
<1> HIDE DEF req, new
<1>5. /\ form' \in [Clients -> Form] /\ form'[c].busy
      /\ wanted' \in [Clients -> Emails \cup {"none"}] /\ wanted'[c] = e
      /\ \A d \in Clients \ {c} : form'[d] = form[d] /\ wanted'[d] = wanted[d]
  BY <1>1, <1>2, <1>4
<1> QED
  BY <1>1, <1>3, <1>5, PostKeeps

\* Links and the notice lead to another page, with a form of its own, while
\* nothing is awaited and no session is under way.
LEMMA PageChanges ==
  ASSUME IInv, NEW c \in Clients, NEW target \in {"login", "register", "reset"},
         Go(c, target) \/ (DismissNotice(c) /\ target = "login")
  PROVE  IInv'
<1>1. ClientTyped /\ WireTyped /\ SessionOf(c) /\ Awaiting(c) /\ OfWanted(c) /\ OneSearch(c) /\ AnswersText(c)
  BY DEF IInv, SessionInv, SearchInv
<1>2. /\ ClientOnly /\ UNCHANGED <<replies, session, search, wanted, users, job>>
      /\ page' = [page EXCEPT ![c] = target] /\ form' = [form EXCEPT ![c] = Blank]
      /\ \/ notice' = notice /\ page[c] # "chat" /\ ~form[c].busy
         \/ notice' = [notice EXCEPT ![c] = FALSE] /\ notice[c]
  BY DEF Go, DismissNotice, ClientOnly, account, tables
<1>3. Blank \in Form
  BY DEF Blank, Form
<1>4. ClientTyped' /\ WireTyped'
  BY <1>1, <1>2, <1>3 DEF ClientTyped, WireTyped, session, Pages
<1>5. ASSUME NEW d \in Clients \ {c}
      PROVE  SessionKept(d) /\ SearchKept(d)
  BY <1>1, <1>2 DEF SessionKept, SearchKept, session, ClientTyped
<1>6. /\ phase[c] = "off" /\ page'[c] = target /\ ~notice'[c]
      /\ \A r \in DOMAIN job : ~AwaitedLogin(c, r)
  BY <1>1, <1>2 DEF SessionOf, Awaiting, ClientTyped
<1>7. SessionOf(c)'
  BY <1>1, <1>2, <1>6 DEF SessionOf, session
<1>8. Awaiting(c)' /\ OfWanted(c)'
  BY <1>1, <1>2, <1>6 DEF Awaiting, AwaitedLogin, OfWanted, session
<1>9. OneSearch(c)' /\ AnswersText(c)'
  BY <1>1, <1>2, SearchFrame DEF SearchKept, RowsKept, session
<1> QED
  BY <1>2, <1>4, <1>5, <1>7, <1>8, <1>9, ClientActs

\* A search that is cleared, or not sent, is awaited on the wire all the same.
LEMMA SearchStateChanges ==
  ASSUME IInv, NEW c \in Clients, NEW new \in SearchRecord, search' = [search EXCEPT ![c] = new],
         new.asking = search[c].asking, new.state \in {"none", "failed"},
         UNCHANGED <<replies, shell, session, wanted, account, job, mailbox, disturbed, scenario>>
  PROVE  IInv'
<1>1. ClientTyped /\ WireTyped /\ SessionInv /\ SearchInv /\ OneSearch(c) /\ AnswersText(c)
  BY DEF IInv, SearchInv
<1>2. UNCHANGED <<replies, page, notice, form, phase, timer, pending, conn, bound, up, down, wanted, users,
                  lastUid, rowLock, code, cached, lastCode, lastToken, job, mailbox, disturbed, scenario>>
  BY DEF shell, session, account, tables, redis
<1>3. ClientTyped' /\ WireTyped'
  BY <1>1, <1>2 DEF ClientTyped, WireTyped
<1>4. StoreTyped' /\ RowsInv' /\ CodesInv' /\ JobsKept /\ RowsKept
  BY <1>2 DEF IInv, StoreTyped, RowsInv, LockHeld, At, Answered, Shape, CodesInv, CodeDrawn, OneCode,
     JobsKept, RowsKept
<1>5. \A d \in Clients : SessionKept(d) /\ (d # c => SearchKept(d))
  BY <1>1, <1>2 DEF SessionKept, SearchKept, WireTyped
<1>6. SessionOf(c)' /\ Awaiting(c)' /\ OfWanted(c)'
  BY <1>1, <1>4, <1>5, SessionFrame DEF SessionInv
<1>7. search'[c] = new
  BY <1>1 DEF WireTyped
<1>8. MovedUp(up'[c], up[c], 0) /\ MovedUp(down'[c], down[c], 0)
  BY <1>2, NoFrames
<1>9. OneSearch(c)' /\ AnswersText(c)'
  <2>1. conn[c] # "open" => up'[c] = <<>> /\ down'[c] = <<>> /\ bound'[c] = 0
    BY <1>1, <1>2 DEF OneSearch
  <2> QED
    BY <1>1, <1>2, <1>7, <1>8, <2>1, FewerSearches
<1>10. SessionInv' /\ SearchInv'
  BY <1>1, <1>2, <1>4, <1>5, <1>6, <1>9, OneClient
<1> QED
  BY <1>3, <1>4, <1>10 DEF IInv

\* ChatBridge::clearSearch.
LEMMA ClearSearchKeeps ==
  ASSUME IInv, NEW c \in Clients, ClearSearch(c)
  PROVE  IInv'
<1>1. search[c] \in SearchRecord /\ search' = [search EXCEPT ![c] = Forget(search[c])]
  BY DEF IInv, WireTyped, ClearSearch
<1>2. /\ Forget(search[c]) \in SearchRecord /\ Forget(search[c]).state = "none"
      /\ Forget(search[c]).asking = search[c].asking
  BY <1>1 DEF Forget, NoSearch, SearchRecord
<1>3. UNCHANGED <<replies, shell, session, wanted, account, job, mailbox, disturbed, scenario>>
  BY DEF ClearSearch, ClientOnly, counts
<1> QED
  BY <1>1, <1>2, <1>3, SearchStateChanges

\* A search that is sent is the only one on the wire, and for the text shown.
LEMMA SearchingKeeps ==
  ASSUME IInv, NEW c \in Clients, NEW key \in Keys, Ask(c, key), Searching(c, key), ~search[c].asking
  PROVE  IInv'
<1> DEFINE new == [search[c] EXCEPT !.state = "searching", !.text = key, !.asking = TRUE]
           frame == [op |-> "search", key |-> key]
<1>1. /\ ClientTyped /\ WireTyped /\ SessionInv /\ SearchInv /\ SessionOf(c) /\ OneSearch(c)
      /\ search[c] \in SearchRecord /\ up[c] \in Seq(UpFrame)
  BY DEF IInv, SearchInv, SessionInv, WireTyped
<1>2. /\ UNCHANGED <<replies, page, notice, form, phase, timer, pending, conn, bound, down, wanted, users,
                      lastUid, rowLock, code, cached, lastCode, lastToken, job, mailbox, disturbed, scenario>>
      /\ search' = [search EXCEPT ![c] = new] /\ up' = [up EXCEPT ![c] = Append(up[c], frame)]
      /\ phase[c] = "ready"
  BY <1>1 DEF Ask, Searching, shell, account, tables, redis
<1>3. /\ new \in SearchRecord /\ new.asking /\ new.state = "searching" /\ new.text = key
      /\ frame \in UpFrame /\ frame.key = key
  BY <1>1 DEF SearchRecord, UpFrame
<1> HIDE DEF new, frame
<1>4. /\ Append(up[c], frame) \in Seq(UpFrame)
      /\ \A i \in Nat : IsSearch(Append(up[c], frame), i) =>
           \/ IsSearch(up[c], i)
           \/ i = Len(up[c]) + 1 /\ Append(up[c], frame)[i] = frame
  BY <1>1, <1>3, AppendFrames
<1>5. ClientTyped' /\ WireTyped'
  BY <1>1, <1>2, <1>3, <1>4 DEF ClientTyped, WireTyped
<1>6. StoreTyped' /\ RowsInv' /\ CodesInv' /\ JobsKept /\ RowsKept
  BY <1>2 DEF IInv, StoreTyped, RowsInv, LockHeld, At, Answered, Shape, CodesInv, CodeDrawn, OneCode,
     JobsKept, RowsKept
<1>7. \A d \in Clients : SessionKept(d) /\ (d # c => SearchKept(d))
  BY <1>1, <1>2 DEF SessionKept, SearchKept, WireTyped
<1>8. SessionOf(c)' /\ Awaiting(c)' /\ OfWanted(c)'
  BY <1>1, <1>6, <1>7, SessionFrame DEF SessionInv
<1>9. /\ search'[c] = new /\ up'[c] = Append(up[c], frame) /\ conn[c] = "open"
      /\ \A i \in Nat : ~IsSearch(up[c], i) /\ ~IsSearch(down[c], i)
  BY <1>1, <1>2 DEF WireTyped, OneSearch, SessionOf
<1>10. \A i \in Nat : IsSearch(up'[c], i) => i = Len(up[c]) + 1 /\ up'[c][i] = frame
  BY <1>4, <1>9
<1>11. OneSearch(c)' /\ AnswersText(c)'
  BY <1>2, <1>3, <1>9, <1>10 DEF OneSearch, AnswersText
<1>12. SessionInv' /\ SearchInv'
  BY <1>1, <1>2, <1>6, <1>7, <1>8, <1>11, OneClient
<1> QED
  BY <1>5, <1>6, <1>12 DEF IInv

\* ChatBridge::search.
LEMMA SearchKeeps ==
  ASSUME IInv, NEW c \in Clients, NEW key \in scenario.keys, Search(c, key)
  PROVE  IInv'
<1>1. key \in Keys /\ search[c] \in SearchRecord
  BY TypedValues DEF IInv, WireTyped
<1>2. CASE search[c].asking
  <2> DEFINE new == [search[c] EXCEPT !.state = "failed", !.text = key]
  <2>1. search' = [search EXCEPT ![c] = new] /\ up' = up
    BY <1>2 DEF Search
  <2>2. new \in SearchRecord /\ new.asking = search[c].asking /\ new.state = "failed"
    BY <1>1 DEF SearchRecord
  <2> HIDE DEF new
  <2>3. UNCHANGED <<replies, shell, session, wanted, account, job, mailbox, disturbed, scenario>>
    BY <2>1 DEF Search, Ask, session
  <2> QED
    BY <2>1, <2>2, <2>3, SearchStateChanges
<1>3. CASE ~search[c].asking
  BY <1>1, <1>3, SearchingKeeps DEF Search
<1> QED
  BY <1>2, <1>3

-----------------------------------------------------------------------------
(* The invariant.                                                          *)

\* It holds at the start.
LEMMA InitInv == Init => IInv
<1> SUFFICES ASSUME Init PROVE IInv
  OBVIOUS
<1> USE DEF Init, StoreInit
<1>1. scenario.rows \subseteq UserRow /\ UniqueKeys(scenario.rows) /\ Cardinality(scenario.rows) \in Nat
  BY AccountsAssumption, FS_CardinalityType
<1>2. job \in Seq(JobRecord) /\ DOMAIN job = {}
  BY EmptySeq
<1>3. StoreTyped
  BY <1>1, <1>2 DEF StoreTyped
<1>4. Blank \in Form /\ NoSearch \in SearchRecord
  BY DEF Blank, Form, NoSearch, SearchRecord
<1>5. ClientTyped
  BY <1>4 DEF ClientTyped, Pages
<1>6. WireTyped
  BY <1>4, EmptySeq DEF WireTyped
<1>7. RowsInv /\ CodesInv
  BY <1>1, <1>2 DEF RowsInv, LockHeld, CodesInv, CodeDrawn, OneCode
<1>8. SessionInv
  BY <1>2 DEF SessionInv, SessionOf, Awaiting, AwaitedLogin, OfWanted
<1>9. SearchInv
  BY NoFrames DEF SearchInv, CacheIsTrue, OneSearch, AnswersText, NoSearch
<1> QED
  BY <1>3, <1>5, <1>6, <1>7, <1>8, <1>9 DEF IInv

\* The servers: a step of a handler, a code that expires, a chat server.
LEMMA ServersKeepInv ==
  ASSUME IInv, JobStep \/ (\E e \in Emails : Expire(e)) \/ ChatStep
  PROVE  IInv'
<1>1. CASE JobStep
  <2>1. PICK r \in DOMAIN job :
           get_verifycode(r) \/ user_register(r) \/ reset_pwd(r) \/ user_login(r)
    BY <1>1 DEF JobStep
  <2>2. Handled(r) /\ CodesInv'
    BY <2>1, HandlersKeepRows, HandlersKeepCodes DEF IInv
  <2>3. ClientTyped' /\ WireTyped' /\ SessionInv' /\ SearchInv'
    BY <2>2, HandlersKeepClients DEF IInv
  <2> QED
    BY <2>2, <2>3 DEF IInv, Handled
<1>2. ASSUME NEW e \in Emails, Expire(e)
      PROVE  IInv'
  <2>1. StoreTyped' /\ CodesInv'
    BY <1>2, ExpireKeepsCodes DEF IInv
  <2>2. /\ UNCHANGED <<users, lastUid, rowLock, cached, job, replies, page, notice, form, phase, timer,
                      pending, conn, bound, up, down, search, wanted>>
    BY <1>2 DEF Expire, tables, client, shell, session
  <2>3. ClientTyped' /\ WireTyped' /\ RowsInv'
    BY <2>2 DEF IInv, ClientTyped, WireTyped, RowsInv, LockHeld, At, Answered, Shape
  <2>4. JobsKept /\ RowsKept /\ \A c \in Clients : SessionKept(c) /\ SearchKept(c)
    BY <2>2 DEF JobsKept, RowsKept, SessionKept, SearchKept
  <2>5. SessionInv' /\ SearchInv'
    BY <2>2, <2>4, SessionFrame, SearchFrame, CacheFrame DEF IInv, SessionInv, SearchInv
  <2> QED
    BY <2>1, <2>3, <2>5 DEF IInv
<1>3. CASE ChatStep
  BY <1>3, ChatLoginKeeps, SearchInfoKeeps DEF ChatStep
<1> QED
  BY <1>1, <1>2, <1>3

\* The clients: what happens to them, and what their users do.
LEMMA ClientsKeepInv ==
  ASSUME IInv, NEW c \in Clients, Events(c) \/ UserStep(c)
  PROVE  IInv'
<1>1. CASE Events(c)
  BY <1>1, TcpConnectedKeeps, ClosingEvents, OnChatLoginKeeps, OnSearchRspKeeps, CountdownKeeps,
     HttpKeeps DEF Events
<1>2. CASE UserStep(c)
  BY <1>2, SendCodeKeeps, SubmitKeeps, LoginKeeps, PageChanges, SearchKeeps, ClearSearchKeeps
     DEF UserStep, SendRegisterCode, SendResetCode, SubmitRegister, SubmitReset
<1> QED
  BY <1>1, <1>2

\* Every step keeps it.
LEMMA NextInv == IInv /\ [Next]_vars => IInv'
<1> SUFFICES ASSUME IInv, [Next]_vars PROVE IInv'
  OBVIOUS
<1>1. CASE UNCHANGED vars
  BY <1>1 DEF vars, account, tables, redis, client, shell, session, counts, IInv, StoreTyped,
     ClientTyped, WireTyped, RowsInv, LockHeld, Answered, Shape, At, CodesInv, CodeDrawn, OneCode,
     SessionInv, SessionOf, Awaiting, AwaitedLogin, OfWanted, SearchInv, CacheIsTrue, OneSearch,
     AnswersText, Matches, IsSearch
<1> QED
  BY <1>1, ServersKeepInv, ClientsKeepInv DEF Next

\* The invariant is inductive.
THEOREM InductiveInvariant == Spec => []IInv
BY InitInv, NextInv, PTL DEF Spec

-----------------------------------------------------------------------------
(* What follows from it.                                                   *)

\* The state is what the code takes it for.
THEOREM TypeCorrect == Spec => []TypeOK
<1>1. IInv => TypeOK
  <2> SUFFICES ASSUME IInv PROVE TypeOK
    OBVIOUS
  <2>1. \A r \in users : r.email \in Emails /\ r.name \in Names /\ r.pwd \in Passwords
    BY DEF IInv, StoreTyped, UserRow
  <2> QED
    BY <2>1 DEF TypeOK, IInv, RowsInv, LockHeld, CodesInv, CodeDrawn, SessionInv, SessionOf, Awaiting
<1> QED
  BY <1>1, InductiveInvariant, PTL

\* However many registrations for one address run at once, one account has
\* it, and a registration that was answered with success has its row.
THEOREM AddressesHaveOneAccount == Spec => []OneAccountPerEmail
<1>1. IInv => OneAccountPerEmail
  BY DEF IInv, RowsInv, OneAccountPerEmail, Answered
<1> QED
  BY <1>1, InductiveInvariant, PTL

\* No step removes an account or changes its uid, its address or its name: an
\* UPDATE writes passwords, a rollback takes back the insert it follows only.
THEOREM AccountsAreKept == Spec => [][RowsKept]_vars
<1>1. IInv /\ [Next]_vars => [RowsKept]_vars
  <2> SUFFICES ASSUME IInv, Next PROVE RowsKept
    BY Zenon DEF vars
  <2>1. CASE JobStep
    BY <2>1, HandlersKeepRows DEF JobStep, IInv, Handled
  <2>2. ASSUME NEW c \in Clients, Events(c)
        PROVE  users' = users
    <3>1. CASE \E r \in DOMAIN job : HttpFinished(c, r) \/ HttpError(c, r)
      BY <3>1 DEF HttpFinished, HttpError, ClientOnly, account, tables
    <3>2. ClientOnly \/ \E r \in DOMAIN job : HttpFinished(c, r) \/ HttpError(c, r)
      BY <2>2, Zenon DEF Events, TcpConnected, ConnectFails, SessionTimeout, Disconnected, OnChatLogin,
         OnOffline, OnSearchRsp, CountdownEnds, Got
    <3> QED
      BY <3>1, <3>2 DEF ClientOnly, account, tables
  <2>3. ASSUME NEW c \in Clients, UserStep(c)
        PROVE  users' = users
    <3>1. ASSUME NEW op, Click(op)
          PROVE  users' = users
      BY <3>1 DEF Click, account, tables
    <3>2. ASSUME NEW e, SendRegisterCode(c, e) \/ SendResetCode(c, e)
          PROVE  users' = users
      BY <3>1, <3>2 DEF SendRegisterCode, SendResetCode, SendCode
    <3>3. ASSUME NEW e, NEW n, NEW p, SubmitRegister(c, e, n, p) \/ SubmitReset(c, e, n, p)
          PROVE  users' = users
      BY <3>1, <3>3 DEF SubmitRegister, SubmitReset, Submit
    <3>4. ASSUME NEW e, NEW p, Login(c, e, p)
          PROVE  users' = users
      BY <3>1, <3>4 DEF Login
    <3>5. ASSUME NEW key, Search(c, key)
          PROVE  users' = users
      BY <3>5 DEF Search, Ask, account, tables
    <3>6. ASSUME (\E target \in {"login", "register", "reset"} : Go(c, target))
                   \/ DismissNotice(c) \/ ClearSearch(c)
          PROVE  users' = users
      BY <3>6 DEF Go, DismissNotice, ClearSearch, ClientOnly, account, tables
    <3> QED
      BY <2>3, <3>2, <3>3, <3>4, <3>5, <3>6 DEF UserStep
  <2>4. ASSUME (\E e \in Emails : Expire(e)) \/ ChatStep
        PROVE  users' = users
    <3>1. ASSUME NEW ok, Serves(ok)
          PROVE  users' = users
      BY <3>1 DEF Serves, tables
    <3>2. ASSUME NEW c, ChatLogin(c) \/ SearchInfo(c)
          PROVE  users' = users
      BY <3>1, <3>2 DEF ChatLogin, SearchInfo
    <3> QED
      BY <2>4, <3>2 DEF Expire, ChatStep, account, tables
  <2> QED
    BY <2>1, <2>2, <2>3, <2>4 DEF Next, RowsKept
<1> QED
  BY <1>1, InductiveInvariant, PTL DEF Spec

\* The code that arrives by mail is the one in Redis, until it expires or two
\* requests for the address meet.
THEOREM CodesAreStable == Spec => []CodeIsStable
<1>1. IInv => CodeIsStable
  BY DEF IInv, CodesInv, OneCode, CodeIsStable
<1> QED
  BY <1>1, InductiveInvariant, PTL

\* The session a client ends up in is the one of the address typed last.
THEOREM SessionsAreAsSubmitted == Spec => []ReadyAsSubmitted
<1>1. IInv => ReadyAsSubmitted
  BY DEF IInv, SessionInv, OfWanted, ReadyAsSubmitted
<1> QED
  BY <1>1, InductiveInvariant, PTL

\* A result on the search page answers the text that was searched last.
THEOREM ResultsAnswerTheText == Spec => []SearchAnswersText
<1>1. IInv => SearchAnswersText
  BY DEF IInv, SearchInv, AnswersText, Matches, SearchAnswersText
<1> QED
  BY <1>1, InductiveInvariant, PTL
=============================================================================
