----------------------------- MODULE ChatStore -----------------------------
(***************************************************************************)
(* The tables the chat servers share, and what MysqlDao does to them: the  *)
(* friend applications, the friendships, one conversation per pair of      *)
(* friends, and its messages.  Every statement is atomic; a transaction    *)
(* whose statements other servers' can come between is a sequence of the   *)
(* operations below (Messaging says in which order).                       *)
(*                                                                         *)
(* A row of chat_message is [id, thread, from, to, cid, live]: cid the id  *)
(* the client gave it, live FALSE until its transaction commits.  Other    *)
(* servers do not see a row that is not live, but its unique key (thread,  *)
(* sender, client id) is taken: a second insert waits for the first.       *)
(***************************************************************************)
EXTENDS Integers, Sequences, FiniteSets, SequencesExt

CONSTANTS Users,       \* every account
          PageSize     \* rows in a page (100 in the code)

ASSUME StoreAssumption == IsFiniteSet(Users) /\ PageSize \in Nat \ {0}

VARIABLES applied,     \* friend_apply: [<<from, to>> -> its status 0 or 1, or NoApply]
          friends,     \* friend: the set of <<self_id, friend_id>>
          threadOf,    \* private_chat: [<<u, v>> -> thread id, 0 none], the pair unordered
          chat,        \* chat_message: the set of rows
          lastId       \* its AUTO_INCREMENT counter

store == <<applied, friends, threadOf, chat, lastId>>

NoApply == -1
Pairs == Users \X Users

\* INSERT ... ON DUPLICATE KEY UPDATE: the status of an earlier one stays.
StoreApply(from, to) ==
    /\ applied' = [applied EXCEPT ![<<from, to>>] = IF @ = NoApply THEN 0 ELSE @]
    /\ UNCHANGED <<friends, threadOf, chat, lastId>>

\* There is an application to approve; from is the one who approves.
HasApply(from, to) == applied[<<to, from>>] # NoApply

\* The status and both directions of the friendship in one transaction.
ConfirmApply(from, to) ==
    /\ HasApply(from, to)
    /\ applied' = [applied EXCEPT ![<<to, from>>] = 1]
    /\ friends' = friends \cup {<<from, to>>, <<to, from>>}
    /\ UNCHANGED <<threadOf, chat, lastId>>

AreFriends(u, v) == <<u, v>> \in friends

NewThread == 1 + Max({threadOf[p] : p \in Pairs})

\* The insert into chat_thread and private_chat and their commit; the unique
\* key on the pair lets only the first through.
CreatePrivateChat(u, v) ==
    /\ threadOf[<<u, v>>] = 0
    /\ threadOf' = [threadOf EXCEPT ![<<u, v>>] = NewThread, ![<<v, u>>] = NewThread]
    /\ UNCHANGED <<applied, friends, chat, lastId>>

\* The sender and the receiver are the two of the conversation.
IsMember(thread, u, v) == thread # 0 /\ threadOf[<<u, v>>] = thread

SameKey(row, thread, from, cid) ==
    row.thread = thread /\ row.from = from /\ row.cid = cid

\* (As it would be if the id were one more than the largest that is visible.)
InsertMessageAfterLast(thread, from, to, cid) ==
    LET same == {r \in chat : SameKey(r, thread, from, cid)}
        next == 1 + Max({r.id : r \in {x \in chat : x.live}} \cup {0})
    IN  /\ same = {}
        /\ lastId' = next
        /\ chat' = chat \cup {[id |-> next, thread |-> thread, from |-> from,
                               to |-> to, cid |-> cid, live |-> FALSE]}
        /\ UNCHANGED <<applied, friends, threadOf>>

\* INSERT ... ON DUPLICATE KEY UPDATE message_id = LAST_INSERT_ID(message_id).
InsertMessage(thread, from, to, cid) ==
    LET same == {r \in chat : SameKey(r, thread, from, cid)}
    IN  /\ \A r \in same : r.live
        /\ IF same # {} THEN UNCHANGED <<chat, lastId>>
           ELSE /\ lastId' = lastId + 1
                /\ chat' = chat \cup {[id |-> lastId + 1, thread |-> thread, from |-> from,
                                       to |-> to, cid |-> cid, live |-> FALSE]}
        /\ UNCHANGED <<applied, friends, threadOf>>

\* commit: the rows of this transaction become visible.
CommitMessage(thread, from, cid) ==
    /\ chat' = {IF SameKey(r, thread, from, cid) THEN [r EXCEPT !.live = TRUE] ELSE r
                  : r \in chat}
    /\ UNCHANGED <<applied, friends, threadOf, lastId>>

\* The transaction is rolled back with the connection: its row goes, its id
\* is not given again; a row that was there before stays.
RollbackMessage(thread, from, cid) ==
    /\ chat' = {r \in chat : r.live \/ ~SameKey(r, thread, from, cid)}
    /\ UNCHANGED <<applied, friends, threadOf, lastId>>

\* The id a committed or inserted message has.
IdOf(thread, from, cid) == (CHOOSE r \in chat : SameKey(r, thread, from, cid)).id

\* The first PageSize of the ids, in order: ORDER BY and LIMIT.
Page(ids) ==
    [i \in 1..(IF Cardinality(ids) < PageSize THEN Cardinality(ids) ELSE PageSize) |->
        CHOOSE x \in ids : Cardinality({y \in ids : y < x}) = i - 1]

\* The conversations of u with an id above after, in order, one page of them.
ChatThreads(u, after) ==
    LET mine == {v \in Users : threadOf[<<u, v>>] > after}
        ids  == Page({threadOf[<<u, v>>] : v \in mine})
        peer(t) == CHOOSE v \in mine : threadOf[<<u, v>>] = t
    IN  [page |-> [i \in DOMAIN ids |-> [thread |-> ids[i], peer |-> peer(ids[i])]],
         more |-> Cardinality(mine) > PageSize]

\* (As it would be if the cursor were taken for the first id to skip to.)
ChatMessagesSkipping(thread, after) ==
    LET later == {r \in chat : r.live /\ r.thread = thread /\ r.id > after + 1}
        ids   == Page({r.id : r \in later})
        row(id) == CHOOSE r \in later : r.id = id
    IN  [page |-> [i \in DOMAIN ids |-> row(ids[i])],
         more |-> Cardinality(later) > PageSize]

\* The committed messages of a conversation above an id, one page of them.
ChatMessages(thread, after) ==
    LET later == {r \in chat : r.live /\ r.thread = thread /\ r.id > after}
        ids   == Page({r.id : r \in later})
        row(id) == CHOOSE r \in later : r.id = id
    IN  [page |-> [i \in DOMAIN ids |-> row(ids[i])],
         more |-> Cardinality(later) > PageSize]

\* Whom u has applications from, with their status, and whom u is friends with,
\* but for those whose row in user could not be read.
ApplyList(u) ==
    LET from == SetToSeq({v \in Users : applied[<<v, u>>] # NoApply})
    IN  [i \in DOMAIN from |-> [uid |-> from[i], status |-> applied[<<from[i], u>>]]]

FriendList(u, skipped) == SetToSeq({v \in Users : AreFriends(u, v)} \ skipped)
=============================================================================
