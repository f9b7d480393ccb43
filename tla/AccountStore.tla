---------------------------- MODULE AccountStore ----------------------------
(***************************************************************************)
(* What GateServer, StatusServer and VerifyServer share: the MySQL table   *)
(* user with the procedure reg_user (backup/xigu.sql), and the Redis keys  *)
(* code_<email>, utoken_<uid>, ubaseinfo_<uid> and nameinfo_<name>.        *)
(*                                                                         *)
(* Codes and tokens are numbers, each new one larger than all before it    *)
(* (the code is four hexadecimal digits of a UUID, the token a UUID: no    *)
(* two are alike here); 0 is none.                                         *)
(***************************************************************************)
EXTENDS Naturals, FiniteSets, FiniteSetsExt

CONSTANTS Emails, Names, Passwords

VARIABLES users,     \* the rows of table user: [uid, name, email, pwd]
          lastUid,   \* the row of table user_id
          rowLock,   \* the transaction that has that row locked, 0 none
          code,      \* Redis code_<email>
          token,     \* Redis utoken_<uid>
          cached,    \* Redis ubaseinfo_ and nameinfo_: [key, uid]
          lastCode, lastToken

UserRow == [uid : Nat \ {0}, name : Names, email : Emails, pwd : Passwords]
UniqueKeys(rows) == \A r, q \in rows : r.uid = q.uid \/ r.email = q.email => r = q

tables  == <<users, lastUid, rowLock>>
redis   == <<code, token, cached>>
account == <<tables, redis, lastCode, lastToken>>

StoreInit(rows) ==
    /\ users = rows
    /\ lastUid = Cardinality(rows) /\ rowLock = 0
    /\ code = [e \in Emails |-> 0]
    /\ token = [u \in {} |-> 0]
    /\ cached = {}
    /\ lastCode = 0 /\ lastToken = 0

-----------------------------------------------------------------------------
(* reg_user: one transaction.  Its two SELECTs read one snapshot and lock  *)
(* nothing; the UPDATE of user_id locks its only row until the end.        *)

Taken(name, email) == \E r \in users : r.name = name \/ r.email = email

NextId(t) == /\ rowLock = 0
             /\ rowLock' = t /\ lastUid' = lastUid + 1
             /\ UNCHANGED users

\* The keys uid and email are unique, name is not.
Duplicate(row) == \E r \in users : r.uid = row.uid \/ r.email = row.email
\* (As it would be without the unique keys.)
InsertAlways(row) == /\ users' = users \cup {row}
                     /\ rowLock' = 0 /\ UNCHANGED lastUid

InsertUser(row) == ~Duplicate(row) /\ InsertAlways(row)
RollbackUser == rowLock' = 0 /\ lastUid' = lastUid - 1 /\ UNCHANGED users

\* CheckEmail: the oldest row of that name has the address, or there is none.
CheckEmail(name, email) ==
    LET rows == {r \in users : r.name = name}
    IN  rows = {} \/ (CHOOSE r \in rows : \A q \in rows : r.uid <= q.uid).email = email

\* UpdatePwd writes every row of that name.
UpdatePwd(name, pwd) ==
    /\ users' = {IF r.name = name THEN [r EXCEPT !.pwd = pwd] ELSE r : r \in users}
    /\ UNCHANGED <<lastUid, rowLock>>

\* CheckPwd: the uid of the account, 0 when there is none or the password differs.
CheckPwd(email, pwd) ==
    LET rows == {r \in users : r.email = email /\ r.pwd = pwd}
    IN  IF rows = {} THEN 0 ELSE (CHOOSE r \in rows : TRUE).uid

-----------------------------------------------------------------------------
\* GetUserByUid, GetUserByName: the cached entry of the key, or the oldest row
\* that has it, which is then cached; no row is no result, and is not cached.
\* A key is a uid or a name (isPureDigit).
Rows(key) == {r \in users : r.uid = key \/ r.name = key}
GetUser(key) ==
    LET hits == {c.uid : c \in {c \in cached : c.key = key}}
                  \cup (IF \E c \in cached : c.key = key THEN {} ELSE {r.uid : r \in Rows(key)})
    IN  IF hits = {} THEN 0 ELSE Min(hits)
CacheUser(key, uid) == IF uid = 0 THEN cached ELSE cached \cup {[key |-> key, uid |-> uid]}

\* GetBaseInfo: false only for a uid that is neither cached nor a row.
GetBaseInfo(uid) == GetUser(uid) # 0
=============================================================================
