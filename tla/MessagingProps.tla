--------------------------- MODULE MessagingProps ---------------------------
(***************************************************************************)
(* What the servers, the store and the clients of Messaging must get right *)
(* together.                                                               *)
(***************************************************************************)
EXTENDS Messaging

Ready(u) == phase[u] = "ready"

\* Everything of u's has come to rest: no server works, nothing is on a wire.
Quiet == /\ \A s \in Servers : job[s] = Idle
         /\ \A u \in Users : up[u] = <<>> /\ down[u] = <<>>

\* The state is what the code takes it for: the rows have distinct ids below
\* the counter, both ends of a pair have one conversation, a session in UserMgr
\* is one the user has had, and a client without a connection is off.
TypeOK ==
    /\ \A r, q \in chat : r.id \in 1..lastId /\ (r.id = q.id => r = q)
    /\ \A p \in Pairs : threadOf[p] = threadOf[<<p[2], p[1]>>]
    /\ \A s \in Servers, u \in Users : mgr[s][u] \in 0..link[u].n
    /\ \A u \in Users : phase[u] = "off" <=> link[u].srv = NoServer

Has(u, row) ==
    LET at == Entry(cache[u], row.from)
    IN  at # 0 /\ \E j \in DOMAIN cache[u].list[at].msgs : cache[u].list[at].msgs[j].id = row.id

Complete(u, rows) ==
    \A r \in rows : r.live /\ r.to = u /\ r.id \notin unpushed => Has(u, r)

\* Redis leads to the server the user is at.  A login whose SET of uip_ fails is
\* answered all the same (LoginHandler ignores the result), and one whose SET of
\* usession_ fails may lose uip_ to the cleanup of an older session.
Located(u) == uip[u].srv = link[u].srv

\* Nothing falls between history and push: once a user has loaded the history
\* of a conversation to its end (sig_chat_messages without load_more) and all
\* is at rest, every committed message to the user is in the client's cache,
\* those stored while the pages were read included, if nothing has failed or
\* Redis leads to him, and unless its push was given up: the route could not
\* be read, a call or the read for a notice failed, the sender of a text is
\* gone (DealChatTextMsg), or the approver is gone before the answer that
\* carries the other's welcome message (AuthFriendApply: a new login meanwhile
\* may have read the history before).
SyncedThreadsAreComplete ==
    \A u \in Users :
        Quiet /\ Ready(u) /\ (faults = 0 \/ Located(u)) =>
            Complete(u, {r \in chat : r.thread \in synced[u]})

Text(p) == {<<p[1], p[2], n>> : n \in 1..texts}

\* The comment in DealChatTextMsg: a text to a user without a location is in
\* the database and "the synchronisation at login will deliver it".  So when
\* all is at rest a user who is logged in has every text sent to him.
OfflineIsSynced ==
    \A u \in Users : Quiet /\ Ready(u) =>
        Complete(u, {r \in chat : r.cid \in Text(<<r.from, r.to>>)})

\* The messages of a chat are in the order of the server's ids, the
\* unconfirmed ones last, and each is there once and is of one of the two of
\* the chat, whatever pages, pushes and answers it came by, in whatever order
\* (AppendChatMsgs, UpdateChatMessage).
CacheInOrder ==
    \A u \in Users : \A i \in DOMAIN cache[u].list :
        LET e == cache[u].list[i]
            m == e.msgs
        IN  /\ \A j \in DOMAIN m : m[j].from \in {u, e.uid}
            /\ \A j, k \in DOMAIN m :
                 j < k => /\ m[j].cid # m[k].cid
                          /\ m[k].id > 0 => 0 < m[j].id /\ m[j].id < m[k].id

\* GetOrCreatePrivateChat has answered with no conversation.
NoThread(s) ==
    /\ job[s].op \in {"create", "text", "auth"} /\ job[s].thread = 0
    /\ job[s].pc \in {"answer", "refuse", "route", "push"}

\* Two servers that open the same conversation at once both get it: friends
\* are refused one only when a statement has failed, never for the race on
\* the pair's unique key (the second attempt in GetOrCreatePrivateChat).
FriendsGetAThread ==
    \A s \in Servers : NoThread(s) /\ faults = 0 => ~AreFriends(job[s].by, job[s].req.to)

\* However often and by whomever of the two an application is approved (both
\* may have applied, both may click twice, on two servers), each of the two
\* is welcomed once: the fixed client ids meet the unique key of the table.
WelcomedOnce ==
    \A p \in Pairs :
        Cardinality({r \in chat : <<r.from, r.to>> = p /\ r.cid \notin Text(p)}) <= 1

CreateOf(u, v, req) == req.op = "create" /\ req.to = v

\* A chat that waits for its conversation (MarkPrivateChatPending) is waiting
\* for something: the request, the server's work on it or its answer is still
\* under way on this connection.  Otherwise the chat could never be opened.
PendingIsUnderWay ==
    \A u \in Users : \A v \in cache[u].pending :
        Ready(u) =>
          \/ \E i \in DOMAIN up[u] : CreateOf(u, v, up[u][i])
          \/ \E s \in Servers : /\ job[s].by = u /\ job[s].n = link[u].n
                                /\ CreateOf(u, v, job[s].req)
          \/ \E i \in DOMAIN down[u] : down[u][i].op = "create" /\ down[u][i].peer = v

Confirmed(u) ==
    UNION {{<<m.cid, m.id>> : m \in {x \in Range(e.msgs) : x.id > 0}} : e \in Range(cache[u].list)}

\* The detailed system keeps the promises of Mailbox.
MB == INSTANCE Mailbox WITH
        stored <- {[thread |-> r.thread, from |-> r.from, cid |-> r.cid, id |-> r.id]
                     : r \in {x \in chat : x.live}},
        shown <- [u \in Users |-> Confirmed(u)],
        befriended <- friends,
        contacts <- [u \in Users |-> {e.uid : e \in Range(cache[u].list)}]
ImplementsMailbox == MB!Spec
=============================================================================
