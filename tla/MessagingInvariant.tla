------------------------- MODULE MessagingInvariant -------------------------
(***************************************************************************)
(* The inductive invariant of Messaging, which MessagingProofs proves.     *)
(*                                                                         *)
(* The kinds of frames, jobs and caches are sets that depend on the tables *)
(* through four values for each user: F the friends, T the thread with     *)
(* each user, R the committed messages with each user, and n the number of *)
(* texts typed so far.  All four only grow, so what was fit to be on a     *)
(* wire, at a server or on a screen stays fit whatever the others do.      *)
(***************************************************************************)
EXTENDS MessagingProps, ChatDataProofs

-----------------------------------------------------------------------------
(* What the tables say about a user.                                       *)

FriendsOf(u) == {v \in Users : AreFriends(u, v)}
ThreadsOf(u) == [v \in Users |-> threadOf[<<u, v>>]]

Between(r, u, v) == (r.from = u /\ r.to = v) \/ (r.from = v /\ r.to = u)
IsCopy(m, r) == r.live /\ m.id = r.id /\ m.cid = r.cid /\ m.from = r.from
StoredOf(u) == [v \in Users |-> {m \in Message : \E r \in chat : Between(r, u, v) /\ IsCopy(m, r)}]

\* What may be in the chat of u with v: what is stored, and what u has typed.
Typed(u, v, n) == {m \in Message : m.id = 0 /\ m.from = u /\ \E k \in 1..n : m.cid = <<u, v, k>>}
Msgs(u, R, n) == [v \in Users |-> R[v] \cup Typed(u, v, n)]

-----------------------------------------------------------------------------
(* Frames.                                                                 *)

Cids == Users \X Users \X Nat

Requests(u, F, T, n) ==
    [op : {"login"}] \cup [op : {"create"}, to : F]
    \cup [op : {"apply"}, to : Users \ {u}] \cup [op : {"auth"}, to : Users]
    \cup [op : {"threads"}, after : Nat]
    \cup {q \in [op : {"load"}, thread : Nat \ {0}, after : Nat] : \E v \in Users : q.thread = T[v]}
    \cup {q \in [op : {"text"}, to : F, cid : Cids, thread : Nat] :
            q.thread \in {0, T[q.to]} /\ \E k \in 1..n : q.cid = <<u, q.to, k>>}

Logins(F, T) ==
    [op : {"login"}, ok : {TRUE}, threads : Seq(ThreadRow(T)), more : BOOLEAN,
     applies : Seq(ApplyRow), friends : Seq(F)]

\* A frame that belongs to the chat with its peer.
About(f, T, G) == /\ f.thread \in {0, T[f.peer]} /\ f.msgs \in Seq(G[f.peer]) /\ Distinct(f.msgs)

Refusals(F) == [op : {"login", "auth", "threads", "load"}, ok : {FALSE}]
               \cup [op : {"text"}, ok : {FALSE}, peer : F, cid : Cids]
Pages(T) == [op : {"threads"}, ok : {TRUE}, threads : Seq(ThreadRow(T)), more : BOOLEAN]
Histories(T, G) ==
    {f \in [op : {"load"}, ok : {TRUE}, thread : Nat \ {0}, more : BOOLEAN, msgs : Seq(Message)] :
        /\ f.more => f.msgs # <<>>
        /\ \E v \in Users : f.thread = T[v] /\ f.msgs \in Seq(G[v])}
Results(F, T, G) ==
    {f \in [op : {"text", "auth", "create"}, ok : BOOLEAN, peer : F, thread : Nat, msgs : Seq(Message)] :
        About(f, T, G) /\ (f.op # "create" => f.ok)}
Notices(F, T, G) ==
    [op : {"notifyApply"}, peer : Users]
    \cup {f \in [op : {"notifyAuth", "notifyText"}, peer : F, thread : Nat, msgs : Seq(Message)] :
            About(f, T, G)}

Answers(F, T, G) ==
    Logins(F, T) \cup Refusals(F) \cup Pages(T) \cup Histories(T, G) \cup Results(F, T, G)
    \cup Notices(F, T, G)

-----------------------------------------------------------------------------
(* Jobs.                                                                   *)

Stages(op) ==
    CASE op = "login"  -> {"threads", "applies", "friends", "locate", "bind", "greet"}
      [] op = "text"   -> {"find", "insert", "save", "commit", "refuse", "route", "push", "answer"}
      [] op = "auth"   -> {"confirm", "find", "insert", "save", "commit", "route", "push", "answer"}
      [] op = "apply"  -> {"save", "route", "push", "answer"}
      [] op = "create" -> {"find", "insert", "answer"}
      [] op = "threads" -> {"read"}
      [] op = "load"   -> {"read"}

Ops == {"login", "text", "auth", "apply", "create", "threads", "load"}
Places == UNION {Stages(op) : op \in Ops}

Unsaved == [from : Users, cid : Cids]
Saved == [from : Users, cid : Cids, id : Nat]

Peer(u, v, from) == IF from = u THEN v ELSE u
\* What is still to be saved, named after its sender and receiver; ...
ToSave(todo, u, v, n) == \A i \in DOMAIN todo :
    /\ todo[i].from \in {u, v}
    /\ \E k \in 0..n : todo[i].cid = <<todo[i].from, Peer(u, v, todo[i].from), k>>
\* ... what has been saved, as it is stored; ...
AsStored(saved, Rv) == \A i \in DOMAIN saved : \A st \in Statuses :
    [cid |-> saved[i].cid, id |-> saved[i].id, from |-> saved[i].from, status |-> st] \in Rv
\* ... and nothing twice.
Apart(saved, todo) ==
    Distinct(saved) /\ Distinct(todo)
    /\ \A i \in DOMAIN saved, k \in DOMAIN todo : saved[i].cid # todo[k].cid

Conversing == {"text", "auth", "create"}
Saving == {"find", "insert", "save", "commit"}

Work(u, F, T, R, n) ==
    {j \in [op : Ops, by : {u}, n : Nat, pc : Places, req : Requests(u, F, T, n), thread : Nat,
            retry : BOOLEAN, todo : Seq(Unsaved), saved : Seq(Saved),
            dst : Servers \cup {NoServer}, out : Logins(F, T)] :
        /\ j.op = j.req.op /\ j.pc \in Stages(j.op)
        /\ j.pc = "confirm" => j.saved = <<>> /\ j.thread = 0 /\ ~j.retry
        /\ j.op \in Conversing /\ j.pc # "confirm" =>
             /\ j.req.to \in F /\ j.thread \in {0, T[j.req.to]}
             /\ ToSave(j.todo, u, j.req.to, n) /\ AsStored(j.saved, R[j.req.to])
             /\ Apart(j.saved, j.todo)
             /\ j.pc \in {"save", "commit"} => j.thread # 0
             /\ j.op # "create" /\ j.pc \in Saving => j.todo # <<>>}

-----------------------------------------------------------------------------
(* The invariant.                                                          *)

Row(r) ==
    /\ r \in [id : Nat, thread : Nat, from : Users, to : Users, cid : Cids, live : BOOLEAN]
    /\ r.id \in 1..lastId /\ r.from # r.to
    /\ r.thread # 0 /\ r.thread = threadOf[<<r.from, r.to>>]
    /\ \E k \in 0..texts : r.cid = <<r.from, r.to, k>>

\* The tables.
FriendsInv ==
    /\ applied \in [Pairs -> {NoApply, 0, 1}] /\ friends \subseteq Pairs
    /\ \A u, v \in Users : applied[<<u, v>>] # NoApply => u # v
    /\ \A u, v \in Users : AreFriends(u, v) => AreFriends(v, u) /\ u # v
ThreadsInv ==
    /\ threadOf \in [Pairs -> Nat]
    /\ \A u, v \in Users : threadOf[<<u, v>>] = threadOf[<<v, u>>]
    /\ \A u, v, w, x \in Users :
         threadOf[<<u, v>>] # 0 /\ threadOf[<<u, v>>] = threadOf[<<w, x>>] =>
            (u = w /\ v = x) \/ (u = x /\ v = w)
ChatInv ==
    /\ lastId \in Nat /\ texts \in Nat /\ IsFiniteSet(chat)
    /\ \A r \in chat : Row(r)
    /\ \A r, q \in chat : r.id = q.id \/ SameKey(r, q.thread, q.from, q.cid) => r = q
StoreInv == FriendsInv /\ ThreadsInv /\ ChatInv

\* The sessions: what a server remembers is not newer than the connection.
Links == [srv : Servers \cup {NoServer}, n : Nat]
SessionInv ==
    /\ link \in [Users -> Links] /\ uip \in [Users -> Links] /\ mgr \in [Servers -> [Users -> Nat]]
    /\ phase \in [Users -> {"off", "connecting", "ready"}]
    /\ \A s \in Servers, u \in Users : mgr[s][u] <= link[u].n
    /\ \A u \in Users : phase[u] = "off" <=> link[u].srv = NoServer
Current(s, j) == /\ j.n <= link[j.by].n
                 /\ j.n = link[j.by].n => link[j.by].srv \in {s, NoServer}

\* The work: every job is idle or fits the tables.
WorkOf(u) == Work(u, FriendsOf(u), ThreadsOf(u), StoredOf(u), texts)
Fits(j) == \E u \in Users : j \in WorkOf(u)
JobInv ==
    /\ job = [s \in Servers |-> job[s]]
    /\ \A s \in Servers : job[s] # Idle => Fits(job[s]) /\ Current(s, job[s])

\* A message between its insert and its commit is in the table; when two jobs
\* are about the same one, the first of them has committed it.
HasKey(r, j) == SameKey(r, j.thread, Head(j.todo).from, Head(j.todo).cid)
CommitInv ==
    /\ \A s \in Servers : At(s, "commit") => \E r \in chat : HasKey(r, job[s])
    /\ \A s, t \in Servers : \A r \in chat :
         s # t /\ At(s, "commit") /\ At(t, "commit") /\ HasKey(r, job[s]) /\ HasKey(r, job[t]) => r.live

\* While no statement has failed a second attempt finds what the first lost to,
\* and nobody is left without a conversation.
Unfailing(j) ==
    j.op \in Conversing =>
        /\ j.pc = "find" /\ j.retry => threadOf[<<j.by, j.req.to>>] # 0
        /\ j.pc = "insert" => ~j.retry
        /\ j.pc \in {"answer", "refuse", "route", "push"} => j.thread # 0
FaultInv == faults \in Nat /\ (faults = 0 => \A s \in Servers : job[s] # Idle => Unfailing(job[s]))

\* The wires and the screens.
MsgsOf(u) == Msgs(u, StoredOf(u), texts)
RequestsOf(u) == Requests(u, FriendsOf(u), ThreadsOf(u), texts)
AnswersOf(u) == Answers(FriendsOf(u), ThreadsOf(u), MsgsOf(u))
CachesOf(u) == Caches(FriendsOf(u), ThreadsOf(u), MsgsOf(u))
WireInv ==
    /\ up = [u \in Users |-> up[u]] /\ down = [u \in Users |-> down[u]]
    /\ cache = [u \in Users |-> cache[u]]
    /\ \A u \in Users : /\ up[u] \in Seq(RequestsOf(u)) /\ down[u] \in Seq(AnswersOf(u))
                        /\ cache[u] \in CachesOf(u)

\* What a chat waits for.
UnderWay(u, v) ==
    \/ \E i \in DOMAIN up[u] : CreateOf(u, v, up[u][i])
    \/ \E s \in Servers : /\ job[s].op = "create" /\ job[s].by = u /\ job[s].n = link[u].n
                          /\ job[s].req.to = v
    \/ \E i \in DOMAIN down[u] : down[u][i].op = "create" /\ down[u][i].peer = v
PendingInv == \A u \in Users : \A v \in cache[u].pending : phase[u] # "off" => UnderWay(u, v)

IInv == /\ StoreInv /\ SessionInv /\ JobInv /\ CommitInv /\ FaultInv /\ WireInv /\ PendingInv
=============================================================================
