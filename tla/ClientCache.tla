---------------------------- MODULE ClientCache ----------------------------
(***************************************************************************)
(* What the client keeps of its account in memory: the friend list with    *)
(* one chat per friend, the applications received, and which friends have  *)
(* a request for a conversation under way (src/client/core/usermgr.cpp and *)
(* userdata.cpp).  The operators take a cache and give the next one.       *)
(*                                                                         *)
(* _friend_map always points at the last entry of _friend_list with that   *)
(* uid: AddFriend adds to both, AppendFriendList overwrites the map entry. *)
(* So the list is kept and the map is the operator Entry.                  *)
(*                                                                         *)
(* A chat message is a record [cid, id, from, status]: cid the client's    *)
(* own id, id the server's (0 until confirmed).  Contents, names, icons    *)
(* and the signals to the views are left out.                              *)
(***************************************************************************)
EXTENDS Integers, Sequences, FiniteSets, SequencesExt

\* A cache after ClearSession: nothing of an earlier account is left.
ClearSession == [list |-> <<>>, applies |-> <<>>, pending |-> {}]

\* _friend_map.find(uid): the position in the list, 0 when there is none.
Entry(c, uid) ==
    LET at == {i \in DOMAIN c.list : c.list[i].uid = uid}
    IN  IF at = {} THEN 0 ELSE Max(at)

CheckFriendById(c, uid) == Entry(c, uid) # 0

ThreadId(c, uid) == IF Entry(c, uid) = 0 THEN 0 ELSE c.list[Entry(c, uid)].thread

\* The first entry of the list with that thread id; "none" for the code's 0.
FriendIdByThread(c, thread) ==
    LET at == {i \in DOMAIN c.list : c.list[i].thread = thread}
    IN  IF at = {} THEN "none" ELSE c.list[Min(at)].uid

\* The comparison of the sort: messages with a server id come first, in its
\* order.
Less(m, n) == IF m.id = 0 \/ n.id = 0 THEN m.id # 0 /\ n.id = 0 ELSE m.id < n.id

\* stable_sort: message i comes before j when it is less, or when neither is
\* and it stood before it; place i is taken by the one with i - 1 before it.
Before(msgs, i, j) == Less(msgs[i], msgs[j]) \/ (~Less(msgs[j], msgs[i]) /\ i < j)
InOrder(msgs) ==
    [k \in DOMAIN msgs |-> msgs[CHOOSE i \in DOMAIN msgs :
        Cardinality({j \in DOMAIN msgs : Before(msgs, j, i)}) = k - 1]]

\* One message per client id: a copy that brings a server id replaces what
\* is shown, a copy without one changes only an unconfirmed message.
Merge(msgs, new) ==
    LET at == {i \in DOMAIN msgs : msgs[i].cid = new.cid}
    IN  IF at = {} THEN Append(msgs, new)
        ELSE [i \in DOMAIN msgs |->
                IF i = Min(at) /\ (msgs[i].id = 0 \/ new.id > 0)
                  THEN [msgs[i] EXCEPT !.id = new.id, !.status = new.status]
                  ELSE msgs[i]]

\* The messages of a batch, one after the other.
MergeAll(msgs, batch) ==
    LET merged[n \in 0..Len(batch)] ==
          IF n = 0 THEN msgs ELSE Merge(merged[n - 1], batch[n])
    IN  merged[Len(batch)]

\* (As it would be if new messages were only appended.)
AppendChatMsgsAsTheyCome(msgs, batch) == MergeAll(msgs, batch)

AppendChatMsgs(msgs, batch) == InOrder(MergeAll(msgs, batch))

\* Messages of someone who is not in the friend map are dropped.
AppendFriendChatMsg(c, uid, batch) ==
    IF Entry(c, uid) = 0 THEN c
    ELSE [c EXCEPT !.list[Entry(c, uid)].msgs = AppendChatMsgs(@, batch)]

\* The list of the login answer is added with no look at what is there.
AppendFriendList(c, uids) ==
    [c EXCEPT !.list = @ \o [i \in DOMAIN uids |->
                               [uid |-> uids[i], thread |-> 0, msgs |-> <<>>]]]

AddFriend(c, uid, thread, msgs) ==
    IF Entry(c, uid) # 0 THEN c
    ELSE [c EXCEPT !.list = Append(@, [uid |-> uid, thread |-> thread, msgs |-> msgs])]

\* Each thread goes to the entry the map has for its peer, the last of a peer
\* stays; threads of someone who is not in the friend map are skipped.
AppendChatThreads(c, threads) ==
    LET of(uid) == {k \in DOMAIN threads : threads[k].peer = uid}
        put(i, e) == IF i = Entry(c, e.uid) /\ of(e.uid) # {}
                       THEN [e EXCEPT !.thread = threads[Max(of(e.uid))].thread] ELSE e
    IN  [c EXCEPT !.list = [i \in DOMAIN @ |-> put(i, @[i])]]

\* The login answer's page replaces every thread id known before.
SetChatThreads(c, threads) ==
    AppendChatThreads([c EXCEPT !.list = [i \in DOMAIN @ |-> [@[i] EXCEPT !.thread = 0]]],
                      threads)

\* The request under way is over, whatever came of it.
SetThreadId(c, uid, thread) ==
    LET d == [c EXCEPT !.pending = @ \ {uid}]
    IN  IF thread = 0 \/ Entry(c, uid) = 0 THEN d
        ELSE [d EXCEPT !.list[Entry(c, uid)].thread = thread]

MarkPrivateChatPending(c, uid, on) ==
    [c EXCEPT !.pending = IF on THEN @ \cup {uid} ELSE @ \ {uid}]

\* The answer to a sent message: its id, when there is one, and its status.
UpdateChatMessage(c, uid, cid, id, status) ==
    LET msgs == c.list[Entry(c, uid)].msgs
        answered(m) == IF m.cid # cid THEN m
                       ELSE [m EXCEPT !.id = IF id > 0 THEN id ELSE m.id, !.status = status]
    IN  IF Entry(c, uid) = 0 THEN c
        ELSE [c EXCEPT !.list[Entry(c, uid)].msgs =
                InOrder([i \in DOMAIN msgs |-> answered(msgs[i])])]

\* The connection is gone: what was being sent is shown as failed.
FailPendingMessages(c) ==
    LET fail(m) == IF m.status = "sending" THEN [m EXCEPT !.status = "failed"] ELSE m
        failed(msgs) == [j \in DOMAIN msgs |-> fail(msgs[j])]
    IN  [c EXCEPT !.list = [i \in DOMAIN c.list |->
            [c.list[i] EXCEPT !.msgs = failed(c.list[i].msgs)]]]

AlreadyApply(c, uid) == \E i \in DOMAIN c.applies : c.applies[i].uid = uid

AddApplyList(c, uid) == [c EXCEPT !.applies = Append(@, [uid |-> uid, status |-> 0])]

AppendApplyList(c, rows) == [c EXCEPT !.applies = @ \o rows]

\* Only the first entry whose status differs is changed.
SetApplyStatus(c, uid, status) ==
    LET at == {i \in DOMAIN c.applies : c.applies[i].uid = uid /\ c.applies[i].status # status}
    IN  IF at = {} THEN c ELSE [c EXCEPT !.applies[Min(at)].status = status]
=============================================================================
