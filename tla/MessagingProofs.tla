--------------------------- MODULE MessagingProofs ---------------------------
(***************************************************************************)
(* The safety properties of Messaging, for any users, servers, page size   *)
(* and scenarios: every step keeps the invariant of MessagingInvariant.    *)
(***************************************************************************)
EXTENDS MessagingInvariant

-----------------------------------------------------------------------------
(* Growing.                                                                *)

Wider(F, T, R, n, F2, T2, R2, n2) ==
    /\ F \subseteq F2 /\ F2 \subseteq Users
    /\ T \in [Users -> Nat] /\ T2 \in [Users -> Nat]
    /\ \A v \in Users : T[v] # 0 => T2[v] = T[v]
    /\ \A v \in Users : R[v] \subseteq R2[v]
    /\ n \in Nat /\ n2 \in Nat /\ n <= n2

\* What may be asked may be asked later.
LEMMA RequestsGrow ==
  ASSUME NEW F, NEW T, NEW R, NEW n, NEW F2, NEW T2, NEW R2, NEW n2,
         Wider(F, T, R, n, F2, T2, R2, n2), NEW u \in Users
  PROVE  Requests(u, F, T, n) \subseteq Requests(u, F2, T2, n2)
<1>1. \A k : k \in 1..n => k \in 1..n2
  BY DEF Wider
<1>2. \A v \in Users : T[v] # 0 => T2[v] = T[v]
  BY DEF Wider
<1>3. F \subseteq F2 /\ F \subseteq Users
  BY DEF Wider
<1> SUFFICES ASSUME NEW q \in Requests(u, F, T, n)
             PROVE  q \in Requests(u, F2, T2, n2)
  OBVIOUS
<1>4. CASE q \in [op : {"load"}, thread : Nat \ {0}, after : Nat] /\ \E v \in Users : q.thread = T[v]
  <2>1. PICK v \in Users : q.thread = T[v]
    BY <1>4
  <2>2. q.thread = T2[v]
    BY <1>2, <1>4, <2>1
  <2> QED
    BY <1>4, <2>2 DEF Requests
<1>5. CASE /\ q \in [op : {"text"}, to : F, cid : Cids, thread : Nat]
           /\ q.thread \in {0, T[q.to]} /\ \E k \in 1..n : q.cid = <<u, q.to, k>>
  <2>1. q.to \in F /\ q.to \in Users
    BY <1>3, <1>5
  <2>2. q.thread \in {0, T2[q.to]}
    BY <1>2, <1>5, <2>1
  <2>3. \E k \in 1..n2 : q.cid = <<u, q.to, k>>
    BY <1>1, <1>5
  <2>4. q \in [op : {"text"}, to : F2, cid : Cids, thread : Nat]
    BY <1>3, <1>5
  <2> QED
    BY <2>2, <2>3, <2>4 DEF Requests
<1>6. CASE q \in [op : {"create"}, to : F]
  BY <1>3, <1>6 DEF Requests
<1>7. CASE q \in [op : {"login"}] \/ q \in [op : {"apply"}, to : Users \ {u}]
           \/ q \in [op : {"auth"}, to : Users] \/ q \in [op : {"threads"}, after : Nat]
  BY <1>7 DEF Requests
<1> QED
  BY <1>4, <1>5, <1>6, <1>7 DEF Requests

\* Pages of conversations and login answers.
LEMMA LoginsGrow ==
  ASSUME NEW F, NEW T, NEW R, NEW n, NEW F2, NEW T2, NEW R2, NEW n2,
         Wider(F, T, R, n, F2, T2, R2, n2)
  PROVE  /\ Seq(ThreadRow(T)) \subseteq Seq(ThreadRow(T2)) /\ Seq(F) \subseteq Seq(F2)
         /\ Logins(F, T) \subseteq Logins(F2, T2) /\ Pages(T) \subseteq Pages(T2)
<1>1. ThreadRow(T) \subseteq ThreadRow(T2)
  BY DEF Wider, ThreadRow
<1>2. Seq(ThreadRow(T)) \subseteq Seq(ThreadRow(T2))
  BY <1>1, SeqMonotonic
<1>3. F \subseteq F2
  BY DEF Wider
<1>4. Seq(F) \subseteq Seq(F2)
  BY <1>3, SeqMonotonic
<1> QED
  BY <1>2, <1>4 DEF Logins, Pages

\* What may be in a chat.
LEMMA MsgsGrow ==
  ASSUME NEW F, NEW T, NEW R, NEW n, NEW F2, NEW T2, NEW R2, NEW n2,
         Wider(F, T, R, n, F2, T2, R2, n2), NEW u, NEW v \in Users
  PROVE  /\ Msgs(u, R, n)[v] \subseteq Msgs(u, R2, n2)[v]
         /\ Seq(Msgs(u, R, n)[v]) \subseteq Seq(Msgs(u, R2, n2)[v])
<1>1. \A k : k \in 1..n => k \in 1..n2
  BY DEF Wider
<1>2. Typed(u, v, n) \subseteq Typed(u, v, n2)
  BY <1>1 DEF Typed
<1>3. R[v] \subseteq R2[v]
  BY DEF Wider
<1>4. Msgs(u, R, n)[v] \subseteq Msgs(u, R2, n2)[v]
  BY <1>2, <1>3 DEF Msgs
<1> QED
  BY <1>4, SeqMonotonic

\* Answers and notices.
LEMMA AnswersGrow ==
  ASSUME NEW F, NEW T, NEW R, NEW n, NEW F2, NEW T2, NEW R2, NEW n2,
         Wider(F, T, R, n, F2, T2, R2, n2), NEW u
  PROVE  Answers(F, T, Msgs(u, R, n)) \subseteq Answers(F2, T2, Msgs(u, R2, n2))
<1> DEFINE G == Msgs(u, R, n)
           G2 == Msgs(u, R2, n2)
<1>1. \A v \in Users : Seq(G[v]) \subseteq Seq(G2[v])
  BY MsgsGrow
<1>2. F \subseteq F2 /\ F \subseteq Users /\ \A v \in Users : T[v] # 0 => T2[v] = T[v]
  BY DEF Wider
<1> HIDE DEF G, G2
<1>3. \A f : f.peer \in F /\ About(f, T, G) => About(f, T2, G2)
  BY <1>1, <1>2 DEF About
<1>4. Logins(F, T) \subseteq Logins(F2, T2) /\ Pages(T) \subseteq Pages(T2)
  BY LoginsGrow
<1>5. Refusals(F) \subseteq Refusals(F2)
  BY <1>2 DEF Refusals
<1>6. Histories(T, G) \subseteq Histories(T2, G2)
  <2> SUFFICES ASSUME NEW f \in Histories(T, G) PROVE f \in Histories(T2, G2)
    OBVIOUS
  <2>1. /\ f \in [op : {"load"}, ok : {TRUE}, thread : Nat \ {0}, more : BOOLEAN, msgs : Seq(Message)]
        /\ f.more => f.msgs # <<>>
    BY DEF Histories
  <2>2. PICK v \in Users : f.thread = T[v] /\ f.msgs \in Seq(G[v])
    BY DEF Histories
  <2>3. f.thread = T2[v] /\ f.msgs \in Seq(G2[v])
    BY <1>1, <1>2, <2>1, <2>2
  <2> QED
    BY <2>1, <2>3 DEF Histories
<1>7. Results(F, T, G) \subseteq Results(F2, T2, G2)
  BY <1>2, <1>3 DEF Results
<1>8. Notices(F, T, G) \subseteq Notices(F2, T2, G2)
  BY <1>2, <1>3 DEF Notices
<1> QED
  BY <1>4, <1>5, <1>6, <1>7, <1>8 DEF Answers, G, G2

\* Jobs.
LEMMA WorkGrows ==
  ASSUME NEW F, NEW T, NEW R, NEW n, NEW F2, NEW T2, NEW R2, NEW n2,
         Wider(F, T, R, n, F2, T2, R2, n2), NEW u \in Users
  PROVE  Work(u, F, T, R, n) \subseteq Work(u, F2, T2, R2, n2)
<1> SUFFICES ASSUME NEW j \in Work(u, F, T, R, n) PROVE j \in Work(u, F2, T2, R2, n2)
  OBVIOUS
<1>1. /\ Requests(u, F, T, n) \subseteq Requests(u, F2, T2, n2)
      /\ Logins(F, T) \subseteq Logins(F2, T2)
  BY RequestsGrow, LoginsGrow
<1>2. j \in [op : Ops, by : {u}, n : Nat, pc : Places, req : Requests(u, F2, T2, n2), thread : Nat,
             retry : BOOLEAN, todo : Seq(Unsaved), saved : Seq(Saved),
             dst : Servers \cup {NoServer}, out : Logins(F2, T2)]
  BY <1>1 DEF Work
<1>3. /\ j.op = j.req.op /\ j.pc \in Stages(j.op) /\ (j.pc = "confirm" => j.saved = <<>> /\ j.thread = 0 /\ ~j.retry)
  BY DEF Work
<1>4. ASSUME j.op \in Conversing, j.pc # "confirm"
      PROVE  /\ j.req.to \in F2 /\ j.thread \in {0, T2[j.req.to]}
             /\ ToSave(j.todo, u, j.req.to, n2) /\ AsStored(j.saved, R2[j.req.to])
             /\ Apart(j.saved, j.todo)
             /\ j.pc \in {"save", "commit"} => j.thread # 0
             /\ j.op # "create" /\ j.pc \in Saving => j.todo # <<>>
  <2>1. /\ j.req.to \in F /\ j.thread \in {0, T[j.req.to]}
        /\ ToSave(j.todo, u, j.req.to, n) /\ AsStored(j.saved, R[j.req.to])
        /\ Apart(j.saved, j.todo)
        /\ j.pc \in {"save", "commit"} => j.thread # 0
        /\ j.op # "create" /\ j.pc \in Saving => j.todo # <<>>
    BY <1>4 DEF Work
  <2>2. j.req.to \in F2 /\ j.req.to \in Users /\ R[j.req.to] \subseteq R2[j.req.to]
    BY <2>1 DEF Wider
  <2>3. j.thread \in {0, T2[j.req.to]}
    BY <2>1, <2>2 DEF Wider
  <2>4. \A k : k \in 0..n => k \in 0..n2
    BY DEF Wider
  <2>5. ToSave(j.todo, u, j.req.to, n2)
    BY <2>1, <2>4 DEF ToSave
  <2>6. AsStored(j.saved, R2[j.req.to])
    BY <2>1, <2>2 DEF AsStored
  <2> QED
    BY <2>1, <2>2, <2>3, <2>5, <2>6
<1> QED
  BY <1>2, <1>3, <1>4 DEF Work

\* Caches.
LEMMA CachesGrow ==
  ASSUME NEW F, NEW T, NEW R, NEW n, NEW F2, NEW T2, NEW R2, NEW n2,
         Wider(F, T, R, n, F2, T2, R2, n2), NEW u
  PROVE  Caches(F, T, Msgs(u, R, n)) \subseteq Caches(F2, T2, Msgs(u, R2, n2))
<1> DEFINE G == Msgs(u, R, n)
           G2 == Msgs(u, R2, n2)
<1>1. \A v \in Users : Seq(G[v]) \subseteq Seq(G2[v])
  BY MsgsGrow
<1>2. F \subseteq F2 /\ F \subseteq Users /\ \A v \in Users : T[v] # 0 => T2[v] = T[v]
  BY DEF Wider
<1> HIDE DEF G, G2
<1>3. Chat(F, T, G) \subseteq Chat(F2, T2, G2)
  <2> SUFFICES ASSUME NEW e \in Chat(F, T, G) PROVE e \in Chat(F2, T2, G2)
    OBVIOUS
  <2>1. /\ e \in [uid : F, thread : Nat, msgs : Seq(Message)]
        /\ e.thread \in {0, T[e.uid]} /\ e.msgs \in Seq(G[e.uid]) /\ Distinct(e.msgs)
    BY DEF Chat
  <2>2. e.uid \in F2 /\ e.thread \in {0, T2[e.uid]} /\ e.msgs \in Seq(G2[e.uid])
    BY <1>1, <1>2, <2>1
  <2> QED
    BY <2>1, <2>2 DEF Chat
<1>4. Seq(Chat(F, T, G)) \subseteq Seq(Chat(F2, T2, G2))
  BY <1>3, SeqMonotonic
<1>5. Loose(F, T, G) \subseteq Loose(F2, T2, G2)
  BY <1>4 DEF Loose
<1> QED
  BY <1>5 DEF Caches, G, G2

-----------------------------------------------------------------------------
(* What the tables say fits together.                                      *)

\* The values of a user for these tables, however many texts have been typed.
LEMMA TablesFitAny ==
  ASSUME StoreInv, NEW u \in Users, NEW n
  PROVE  /\ Scope(FriendsOf(u), ThreadsOf(u), Msgs(u, StoredOf(u), n))
         /\ \A v \in Users : StoredOf(u)[v] \subseteq Message
<1> DEFINE F == FriendsOf(u)
           T == ThreadsOf(u)
           R == StoredOf(u)
           G == Msgs(u, R, n)
<1>1. F \subseteq Users
  BY DEF FriendsOf
<1>2. T \in [Users -> Nat]
  BY DEF ThreadsOf, StoreInv, ThreadsInv, Pairs
<1>3. \A v \in Users : R[v] = {m \in Message : \E r \in chat : Between(r, u, v) /\ IsCopy(m, r)}
  BY DEF StoredOf
<1>4. \A v \in Users : G[v] = R[v] \cup Typed(u, v, n)
  BY DEF Msgs
<1>5. ASSUME NEW v \in Users
      PROVE  Mergeable(G[v])
  <2>1. G[v] \subseteq Message
    BY <1>3, <1>4 DEF Typed
  <2>2. \A m \in Message, st \in Statuses :
           /\ [m EXCEPT !.status = st] \in Message
           /\ [m EXCEPT !.status = st].id = m.id /\ [m EXCEPT !.status = st].cid = m.cid
           /\ [m EXCEPT !.status = st].from = m.from
    BY DEF Message
  <2>3. \A m, x \in Message :
           /\ [m EXCEPT !.id = x.id, !.status = x.status] \in Message
           /\ [m EXCEPT !.id = x.id, !.status = x.status].id = x.id
           /\ [m EXCEPT !.id = x.id, !.status = x.status].cid = m.cid
           /\ [m EXCEPT !.id = x.id, !.status = x.status].from = m.from
    BY DEF Message
  <2>4. ASSUME NEW m \in G[v], NEW st \in Statuses
        PROVE  [m EXCEPT !.status = st] \in G[v]
    <3> DEFINE y == [m EXCEPT !.status = st]
    <3>1. m \in Message /\ y \in Message /\ y.id = m.id /\ y.cid = m.cid /\ y.from = m.from
      BY <2>1, <2>2
    <3> HIDE DEF y
    <3>2. m \in R[v] => y \in R[v]
      BY <1>3, <3>1 DEF IsCopy
    <3>3. m \in Typed(u, v, n) => y \in Typed(u, v, n)
      BY <3>1 DEF Typed
    <3> QED
      BY <1>4, <3>2, <3>3 DEF y
  <2>5. \A r \in chat : r.cid[1] = r.from
    <3> SUFFICES ASSUME NEW r \in chat PROVE r.cid[1] = r.from
      OBVIOUS
    <3>1. PICK k \in 0..texts : r.cid = <<r.from, r.to, k>>
      BY DEF StoreInv, ChatInv, Row
    <3> QED
      BY <3>1
  <2>6. \A m \in G[v] : m.cid[1] = m.from
    <3>1. \A m \in R[v] : m.cid[1] = m.from
      BY <1>3, <2>5 DEF IsCopy
    <3>2. \A m \in Typed(u, v, n) : m.cid[1] = m.from
      BY DEF Typed
    <3> QED
      BY <1>4, <3>1, <3>2
  <2>7. \A m \in G[v] : m.id > 0 => \E r \in chat : Between(r, u, v) /\ IsCopy(m, r)
    BY <1>3, <1>4 DEF Typed
  <2>8. ASSUME NEW m \in G[v], NEW x \in G[v], m.cid = x.cid
        PROVE  [m EXCEPT !.id = x.id, !.status = x.status] \in G[v]
    <3>1. m.from = x.from
      BY <2>6, <2>8
    <3> DEFINE y == [m EXCEPT !.id = x.id, !.status = x.status]
    <3>2. y \in Message /\ y.id = x.id /\ y.cid = x.cid /\ y.from = x.from
      BY <2>1, <2>3, <2>8, <3>1
    <3> HIDE DEF y
    <3>3. CASE x \in R[v]
      <4>1. y \in R[v]
        BY <1>3, <3>2, <3>3 DEF IsCopy
      <4> QED
        BY <1>4, <4>1 DEF y
    <3>4. CASE x \in Typed(u, v, n)
      <4>1. y \in Typed(u, v, n)
        BY <3>2, <3>4 DEF Typed
      <4> QED
        BY <1>4, <4>1 DEF y
    <3> QED
      BY <1>4, <3>3, <3>4
  <2>9. ASSUME NEW m \in G[v], NEW x \in G[v], m.id > 0, x.id > 0
        PROVE  m.cid = x.cid <=> m.id = x.id
    <3>1. PICK r \in chat : Between(r, u, v) /\ IsCopy(m, r)
      BY <2>7, <2>9
    <3>2. PICK q \in chat : Between(q, u, v) /\ IsCopy(x, q)
      BY <2>7, <2>9
    <3>3. m.id = x.id => m.cid = x.cid
      <4>1. r.id = q.id => r = q
        BY DEF StoreInv, ChatInv
      <4> QED
        BY <3>1, <3>2, <4>1 DEF IsCopy
    <3>4. m.cid = x.cid => m.id = x.id
      <4>1. r.thread = threadOf[<<u, v>>] /\ q.thread = threadOf[<<u, v>>]
        <5>1. \A w, x1 \in Users : threadOf[<<w, x1>>] = threadOf[<<x1, w>>]
          BY DEF StoreInv, ThreadsInv
        <5>2. \A row \in chat : row.thread = threadOf[<<row.from, row.to>>]
          BY DEF StoreInv, ChatInv, Row
        <5> QED
          BY <3>1, <3>2, <5>1, <5>2 DEF Between
      <4>2. r.cid = q.cid => r.from = q.from
        BY <2>5
      <4>3. SameKey(r, q.thread, q.from, q.cid) => r = q
        BY DEF StoreInv, ChatInv
      <4> QED
        BY <3>1, <3>2, <4>1, <4>2, <4>3 DEF IsCopy, SameKey
    <3> QED
      BY <3>3, <3>4
  <2> QED
    BY <2>1, <2>4, <2>8, <2>9 DEF Mergeable
<1> QED
  BY <1>1, <1>2, <1>3, <1>5 DEF Scope

\* In particular for these.
LEMMA TablesFit ==
  ASSUME StoreInv, NEW u \in Users
  PROVE  /\ Scope(FriendsOf(u), ThreadsOf(u), MsgsOf(u))
         /\ \A v \in Users : StoredOf(u)[v] \subseteq Message
<1>1. PICK n : n = texts
  OBVIOUS
<1> QED
  BY <1>1, TablesFitAny DEF MsgsOf

\* What the tables said stays true.
Grows == \A u \in Users :
    Wider(FriendsOf(u), ThreadsOf(u), StoredOf(u), texts,
          FriendsOf(u)', ThreadsOf(u)', StoredOf(u)', texts')

\* It does when nothing in them changes, ...
LEMMA NothingChanges ==
  ASSUME StoreInv, UNCHANGED <<store, texts>>
  PROVE  StoreInv' /\ Grows
<1>1. UNCHANGED <<applied, friends, threadOf, chat, lastId, texts>>
  BY DEF store
<1>2. StoreInv'
  BY <1>1 DEF StoreInv, FriendsInv, ThreadsInv, ChatInv, Row, AreFriends, SameKey
<1>3. ASSUME NEW u \in Users
      PROVE  /\ FriendsOf(u)' = FriendsOf(u) /\ ThreadsOf(u)' = ThreadsOf(u)
             /\ StoredOf(u)' = StoredOf(u) /\ texts' = texts
  BY <1>1 DEF FriendsOf, ThreadsOf, StoredOf, AreFriends
<1>4. ASSUME NEW u \in Users
      PROVE  /\ FriendsOf(u) \subseteq Users /\ ThreadsOf(u) \in [Users -> Nat] /\ texts \in Nat
  BY DEF FriendsOf, ThreadsOf, StoreInv, ThreadsInv, ChatInv, Pairs
<1> QED
  BY <1>2, <1>3, <1>4 DEF Grows, Wider

\* ... and when friendships, threads and committed messages are added.
LEMMA TablesGrow ==
  ASSUME StoreInv, StoreInv', friends \subseteq friends', texts <= texts',
         \A p \in Pairs : threadOf[p] # 0 => threadOf'[p] = threadOf[p],
         \A r \in chat : r.live => r \in chat'
  PROVE  Grows
<1>1. texts \in Nat /\ texts' \in Nat
  BY DEF StoreInv, ChatInv
<1>2. ASSUME NEW u \in Users
      PROVE  /\ FriendsOf(u) \subseteq FriendsOf(u)' /\ FriendsOf(u)' \subseteq Users
             /\ ThreadsOf(u) \in [Users -> Nat] /\ ThreadsOf(u)' \in [Users -> Nat]
             /\ \A v \in Users : ThreadsOf(u)[v] # 0 => ThreadsOf(u)'[v] = ThreadsOf(u)[v]
  BY DEF FriendsOf, ThreadsOf, StoreInv, ThreadsInv, Pairs, AreFriends
<1>3. ASSUME NEW u \in Users, NEW v \in Users
      PROVE  StoredOf(u)[v] \subseteq StoredOf(u)'[v]
  <2>1. /\ StoredOf(u)[v] = {m \in Message : \E r \in chat : Between(r, u, v) /\ IsCopy(m, r)}
        /\ StoredOf(u)'[v] = {m \in Message : \E r \in chat' : Between(r, u, v) /\ IsCopy(m, r)}
    BY DEF StoredOf
  <2>2. ASSUME NEW m \in Message, NEW r \in chat, Between(r, u, v), IsCopy(m, r)
        PROVE  r \in chat'
    BY <2>2 DEF IsCopy
  <2> QED
    BY <2>1, <2>2
<1> QED
  BY <1>1, <1>2, <1>3 DEF Grows, Wider

\* Then what was fit for a wire, a server or a screen is so still.
LEMMA AllGrow ==
  ASSUME Grows, NEW u \in Users
  PROVE  /\ RequestsOf(u) \subseteq RequestsOf(u)' /\ Seq(RequestsOf(u)) \subseteq Seq(RequestsOf(u)')
         /\ AnswersOf(u) \subseteq AnswersOf(u)' /\ Seq(AnswersOf(u)) \subseteq Seq(AnswersOf(u)')
         /\ CachesOf(u) \subseteq CachesOf(u)' /\ WorkOf(u) \subseteq WorkOf(u)'
<1>1. Wider(FriendsOf(u), ThreadsOf(u), StoredOf(u), texts,
            FriendsOf(u)', ThreadsOf(u)', StoredOf(u)', texts')
  BY DEF Grows
<1>2. RequestsOf(u) \subseteq RequestsOf(u)'
  BY <1>1, RequestsGrow DEF RequestsOf
<1>3. AnswersOf(u) \subseteq AnswersOf(u)'
  BY <1>1, AnswersGrow DEF AnswersOf, MsgsOf
<1>4. CachesOf(u) \subseteq CachesOf(u)'
  BY <1>1, CachesGrow DEF CachesOf, MsgsOf
<1>5. WorkOf(u) \subseteq WorkOf(u)'
  BY <1>1, WorkGrows DEF WorkOf
<1>6. Seq(RequestsOf(u)) \subseteq Seq(RequestsOf(u)')
  BY <1>2, SeqMonotonic
<1>7. Seq(AnswersOf(u)) \subseteq Seq(AnswersOf(u)')
  BY <1>3, SeqMonotonic
<1> QED
  BY <1>2, <1>3, <1>4, <1>5, <1>6, <1>7

-----------------------------------------------------------------------------
(* What the steps of the servers have in common.                           *)

\* A job that is not idle is somebody's, and fits.
LEMMA JobFits ==
  ASSUME JobInv, NEW s \in Servers, job[s] # Idle
  PROVE  /\ job[s].by \in Users /\ job[s] \in WorkOf(job[s].by) /\ Current(s, job[s])
         /\ job[s].n \in Nat
<1>1. PICK u \in Users : job[s] \in WorkOf(u)
  BY DEF JobInv, Fits
<1>2. job[s].by = u /\ job[s].n \in Nat
  BY <1>1 DEF WorkOf, Work
<1> QED
  BY <1>1, <1>2 DEF JobInv

\* At a place of a handler a server is not idle.
LEMMA AtWork ==
  ASSUME NEW s, NEW pc, At(s, pc), pc # "idle"
  PROVE  job[s] # Idle
BY DEF At, Idle

\* One server goes on or is done.
LEMMA JobStep ==
  ASSUME JobInv, Grows, NEW s \in Servers, NEW k, job' = [job EXCEPT ![s] = k], link' = link,
         k = Idle \/ (Fits(k)' /\ Current(s, k))
  PROVE  JobInv'
<1>1. job = [t \in Servers |-> job[t]]
  BY DEF JobInv
<1>2. \A t \in Servers : job'[t] = IF t = s THEN k ELSE job[t]
  BY <1>1
<1>3. job' = [t \in Servers |-> job'[t]]
  BY <1>1
<1>4. ASSUME NEW t \in Servers, t # s, job[t] # Idle
      PROVE  Fits(job[t])' /\ Current(t, job[t])'
  <2>1. job'[t] = job[t]
    BY <1>2, <1>4
  <2>2. PICK u \in Users : job[t] \in WorkOf(u)
    BY <1>4 DEF JobInv, Fits
  <2>3. job[t] \in WorkOf(u)'
    BY <2>2, AllGrow
  <2>4. Current(t, job[t])
    BY <1>4 DEF JobInv
  <2> QED
    BY <2>1, <2>3, <2>4 DEF Fits, Current
<1>5. k # Idle => Fits(k)' /\ Current(s, k)'
  BY DEF Current
<1>6. ASSUME NEW t \in Servers, job'[t] # Idle
      PROVE  Fits(job[t])' /\ Current(t, job[t])'
  <2>1. CASE t = s
    <3>1. job'[t] = k
      BY <1>2, <2>1
    <3> QED
      BY <1>5, <1>6, <2>1, <3>1 DEF Fits, Current
  <2>2. CASE t # s
    BY <1>2, <1>4, <1>6, <2>2
  <2> QED
    BY <2>1, <2>2
<1> QED
  BY <1>3, <1>6 DEF JobInv

\* Nothing is sent, or a frame that fits.
Sends(v, f) == down' = [down EXCEPT ![v] = Append(@, f)]
\* What is on the wires fits then.
LEMMA WireStep ==
  ASSUME WireInv, Grows, up' = up, cache' = cache,
         down' = down \/ \E v \in Users : \E f \in AnswersOf(v)' : Sends(v, f)
  PROVE  WireInv'
<1>1. \A u \in Users : up[u] \in Seq(RequestsOf(u)') /\ cache[u] \in CachesOf(u)'
                       /\ down[u] \in Seq(AnswersOf(u)')
  BY AllGrow DEF WireInv
<1>2. down = [u \in Users |-> down[u]]
  BY DEF WireInv
<1>3. ASSUME NEW v \in Users, NEW f \in AnswersOf(v)', Sends(v, f)
      PROVE  down' = [u \in Users |-> down'[u]]
             /\ \A u \in Users : down'[u] \in Seq(AnswersOf(u)')
  <2>1. \A u \in Users : down'[u] = IF u = v THEN Append(down[u], f) ELSE down[u]
    BY <1>2, <1>3 DEF Sends
  <2>2. down' = [u \in Users |-> down'[u]]
    BY <1>2, <1>3 DEF Sends
  <2>3. Append(down[v], f) \in Seq(AnswersOf(v)')
    BY <1>1, AppendProperties
  <2> QED
    BY <1>1, <2>1, <2>2, <2>3
<1>4. down' = [u \in Users |-> down'[u]] /\ \A u \in Users : down'[u] \in Seq(AnswersOf(u)')
  BY <1>1, <1>2, <1>3
<1>5. up' = [u \in Users |-> up'[u]] /\ cache' = [u \in Users |-> cache'[u]]
  BY DEF WireInv
<1> QED
  BY <1>1, <1>4, <1>5 DEF WireInv

\* While nothing has failed.
LEMMA FaultStep ==
  ASSUME FaultInv, StoreInv, JobInv, Grows, NEW s \in Servers, NEW k, job' = [job EXCEPT ![s] = k],
         faults' \in Nat, faults <= faults',
         k = Idle \/ (faults' = 0 => Unfailing(k)')
  PROVE  FaultInv'
<1> SUFFICES ASSUME faults' = 0, NEW t \in Servers, job'[t] # Idle PROVE Unfailing(job[t])'
  BY DEF FaultInv
<1>1. faults = 0
  BY DEF FaultInv
<1>2. job'[t] = IF t = s THEN k ELSE job[t]
  BY DEF JobInv
<1>3. CASE t = s
  BY <1>2, <1>3 DEF Unfailing
<1>4. CASE t # s
  <2>1. job'[t] = job[t] /\ job[t] # Idle
    BY <1>2, <1>4
  <2>2. Unfailing(job[t])
    BY <1>1, <2>1 DEF FaultInv
  <2>3. job[t].by \in Users /\ job[t] \in WorkOf(job[t].by)
    BY <2>1, JobFits
  <2>4. ASSUME job[t].op \in Conversing
        PROVE  job[t].req.to \in Users
    BY <2>3, <2>4 DEF WorkOf, Work, Conversing, Requests, FriendsOf
  <2>5. \A u, v \in Users : threadOf[<<u, v>>] # 0 => threadOf'[<<u, v>>] # 0
    BY DEF Grows, Wider, ThreadsOf
  <2> QED
    BY <2>1, <2>2, <2>3, <2>4, <2>5 DEF Unfailing
<1> QED
  BY <1>3, <1>4

\* What a chat waits for stays under way, or has been answered.
SendsOne == down' = down \/ \E v \in Users : \E f : Sends(v, f)
Stays(s, k) ==
    job[s].op = "create" =>
        \/ k.op = "create" /\ k.by = job[s].by /\ k.n = job[s].n /\ k.req = job[s].req
        \/ phase[job[s].by] = "off" \/ job[s].n # link[job[s].by].n
        \/ \E f : Sends(job[s].by, f) /\ f.op = "create" /\ f.peer = job[s].req.to
\* So a step of a server that keeps to this keeps PendingInv.
LEMMA PendingStep ==
  ASSUME PendingInv, JobInv, WireInv, NEW s \in Servers, NEW k, job' = [job EXCEPT ![s] = k],
         up' = up, cache' = cache, link' = link, phase' = phase,
         SendsOne, Stays(s, k)
  PROVE  PendingInv'
<1> SUFFICES ASSUME NEW u \in Users, NEW v \in cache[u].pending, phase[u] # "off"
             PROVE  UnderWay(u, v)'
  BY DEF PendingInv
<1>1. \A t \in Servers : job'[t] = IF t = s THEN k ELSE job[t]
  BY DEF JobInv
<1>2. \A w \in Users : Len(down[w]) \in Nat /\ DOMAIN down[w] = 1..Len(down[w])
  BY LenProperties DEF WireInv
<1>3. down = [w \in Users |-> down[w]]
  BY DEF WireInv
<1>4. ASSUME NEW w \in Users, NEW f, Sends(w, f)
      PROVE  /\ \A x \in Users : \A i \in DOMAIN down[x] : i \in DOMAIN down'[x] /\ down'[x][i] = down[x][i]
             /\ \E i \in DOMAIN down'[w] : down'[w][i] = f
  <2>1. \A x \in Users : down'[x] = IF x = w THEN Append(down[x], f) ELSE down[x]
    BY <1>3, <1>4 DEF Sends
  <2>2. /\ DOMAIN Append(down[w], f) = 1..(Len(down[w]) + 1)
        /\ Append(down[w], f)[Len(down[w]) + 1] = f
        /\ \A i \in DOMAIN down[w] : Append(down[w], f)[i] = down[w][i]
    <3> DEFINE S == AnswersOf(w) \cup {f}
               new == Append(down[w], f)
    <3>1. down[w] \in Seq(S) /\ f \in S
      <4>1. down[w] \in Seq(AnswersOf(w)) /\ AnswersOf(w) \subseteq S
        BY DEF WireInv
      <4> HIDE DEF S
      <4>2. down[w] \in Seq(S)
        BY <4>1, SeqMonotonic
      <4> QED
        BY <4>2 DEF S
    <3> HIDE DEF S
    <3>2. /\ new \in Seq(S) /\ Len(new) = Len(down[w]) + 1 /\ new[Len(down[w]) + 1] = f
          /\ \A i \in 1..Len(down[w]) : new[i] = down[w][i]
      BY <3>1, AppendProperties
    <3> HIDE DEF new
    <3>3. DOMAIN new = 1..Len(new)
      BY <3>2, LenProperties
    <3> QED
      BY <1>2, <3>2, <3>3 DEF new
  <2>3. Len(down[w]) + 1 \in DOMAIN down'[w] /\ \A i \in DOMAIN down[w] : i \in DOMAIN down'[w]
    <3> DEFINE new == Append(down[w], f)
    <3>1. down'[w] = new /\ DOMAIN new = 1..(Len(down[w]) + 1)
      BY <2>1, <2>2
    <3> HIDE DEF new
    <3>2. DOMAIN down'[w] = 1..(Len(down[w]) + 1)
      BY <3>1
    <3>3. Len(down[w]) \in Nat /\ DOMAIN down[w] = 1..Len(down[w])
      BY <1>2
    <3> QED
      BY <3>2, <3>3
  <2>4. ASSUME NEW x \in Users, NEW i \in DOMAIN down[x]
        PROVE  i \in DOMAIN down'[x] /\ down'[x][i] = down[x][i]
    <3>1. CASE x = w
      BY <2>1, <2>2, <2>3, <3>1
    <3>2. CASE x # w
      BY <2>1, <3>2
    <3> QED
      BY <3>1, <3>2
  <2>5. down'[w][Len(down[w]) + 1] = f
    BY <2>1, <2>2
  <2> QED
    BY <2>3, <2>4, <2>5
<1>5. \A i \in DOMAIN down[u] : i \in DOMAIN down'[u] /\ down'[u][i] = down[u][i]
  BY <1>4 DEF SendsOne
<1>6. UnderWay(u, v)
  BY DEF PendingInv
<1>7. CASE \E i \in DOMAIN up[u] : CreateOf(u, v, up[u][i])
  BY <1>7 DEF UnderWay
<1>8. CASE \E i \in DOMAIN down[u] : down[u][i].op = "create" /\ down[u][i].peer = v
  BY <1>5, <1>8 DEF UnderWay
<1>9. ASSUME NEW t \in Servers, job[t].op = "create", job[t].by = u, job[t].n = link[u].n,
             job[t].req.to = v
      PROVE  UnderWay(u, v)'
  <2>1. CASE t # s
    BY <1>1, <1>9, <2>1 DEF UnderWay
  <2>2. CASE t = s /\ k.op = "create" /\ k.by = job[s].by /\ k.n = job[s].n /\ k.req = job[s].req
    BY <1>1, <1>9, <2>2 DEF UnderWay
  <2>3. CASE t = s /\ \E f : Sends(job[s].by, f) /\ f.op = "create" /\ f.peer = job[s].req.to
    <3>1. PICK f : Sends(u, f) /\ f.op = "create" /\ f.peer = v
      BY <1>9, <2>3
    <3>2. \E i \in DOMAIN down'[u] : down'[u][i] = f
      BY <1>4, <3>1
    <3> QED
      BY <3>1, <3>2 DEF UnderWay
  <2> QED
    BY <1>9, <2>1, <2>2, <2>3 DEF Stays
<1> QED
  BY <1>6, <1>7, <1>8, <1>9 DEF UnderWay

\* No message is between its insert and its commit that was not before.
LEMMA CommitStep ==
  ASSUME CommitInv, JobInv, NEW s \in Servers, NEW k, job' = [job EXCEPT ![s] = k],
         k.pc # "commit", chat' = chat
  PROVE  CommitInv'
<1>1. \A t \in Servers : job'[t] = IF t = s THEN k ELSE job[t]
  BY DEF JobInv
<1>2. \A t \in Servers : At(t, "commit")' => t # s /\ At(t, "commit") /\ job'[t] = job[t]
  BY <1>1 DEF At
<1>3. ASSUME NEW t \in Servers, At(t, "commit")'
      PROVE  \E r \in chat' : HasKey(r, job'[t])
  BY <1>2, <1>3 DEF CommitInv
<1>4. ASSUME NEW t \in Servers, NEW t2 \in Servers, NEW r \in chat', t # t2,
             At(t, "commit")', At(t2, "commit")', HasKey(r, job'[t]), HasKey(r, job'[t2])
      PROVE  r.live
  BY <1>2, <1>4 DEF CommitInv
<1>5. \A r : \A t : HasKey(r, job[t])' <=> HasKey(r, job'[t])
  BY DEF HasKey, SameKey
<1> QED
  BY <1>3, <1>4, <1>5 DEF CommitInv

\* The sessions are left alone.
LEMMA SessionStep ==
  ASSUME SessionInv, UNCHANGED <<link, uip, mgr, phase>>
  PROVE  SessionInv'
BY DEF SessionInv

\* A handler goes on.
LEMMA GoesOn ==
  ASSUME IInv, NEW s \in Servers, job[s] # Idle, StoreInv', Grows, SessionInv', CommitInv',
         NEW u, u = job[s].by, NEW k, job' = [job EXCEPT ![s] = k], k \in WorkOf(u)',
         k.n = job[s].n, k.req = job[s].req,
         up' = up, cache' = cache, link' = link, phase' = phase,
         down' = down \/ \E v \in Users : \E f \in AnswersOf(v)' : Sends(v, f),
         faults' \in Nat, faults <= faults', faults' = 0 => Unfailing(k)'
  PROVE  IInv'
<1>1. StoreInv /\ SessionInv /\ JobInv /\ CommitInv /\ FaultInv /\ WireInv /\ PendingInv
  BY DEF IInv
<1>2. u \in Users /\ job[s] \in WorkOf(u) /\ Current(s, job[s])
  BY <1>1, JobFits
<1>3. k.by = u /\ k.op = k.req.op /\ job[s].op = job[s].req.op
  <2>1. job[s].op = job[s].req.op
    BY <1>2 DEF WorkOf, Work
  <2>2. k.by = u /\ k.op = k.req.op
    BY DEF WorkOf, Work
  <2> QED
    BY <2>1, <2>2
<1>4. Fits(k)' /\ Current(s, k)
  BY <1>2, <1>3 DEF Fits, Current
<1>5. JobInv'
  BY <1>1, <1>4, JobStep
<1>6. WireInv'
  BY <1>1, WireStep
<1>7. FaultInv'
  BY <1>1, FaultStep
<1>8. SendsOne
  BY DEF SendsOne
<1>9. Stays(s, k)
  BY <1>3 DEF Stays
<1>10. PendingInv'
  BY <1>1, <1>8, <1>9, PendingStep
<1> QED
  BY <1>5, <1>6, <1>7, <1>10 DEF IInv

\* A handler sends its answer, when the session is still open, and is done.
LEMMA Ends ==
  ASSUME IInv, NEW s \in Servers, job[s] # Idle, StoreInv', Grows, CommitInv', NEW f, Finish(s, f),
         NEW u, u = job[s].by, job[s].op # "apply" => f \in AnswersOf(u)',
         job[s].op = "create" => f.op = "create" /\ f.peer = job[s].req.to,
         faults' \in Nat, faults <= faults'
  PROVE  IInv'
<1>1. StoreInv /\ SessionInv /\ JobInv /\ CommitInv /\ FaultInv /\ WireInv /\ PendingInv
  BY DEF IInv
<1>2. /\ u \in Users /\ Current(s, job[s]) /\ job[s].n \in Nat
  BY <1>1, JobFits
<1>3. /\ job' = [job EXCEPT ![s] = Idle] /\ up' = up /\ cache' = cache /\ link' = link
      /\ phase' = phase /\ uip' = uip /\ mgr' = mgr
  BY DEF Finish
<1>4. down' = IF job[s].op # "apply" /\ Open(u, s, job[s].n)
                THEN [down EXCEPT ![u] = Append(@, f)] ELSE down
  BY DEF Finish, Sent
<1>5. SessionInv'
  BY <1>1, <1>3, SessionStep
<1>6. JobInv'
  BY <1>1, <1>3, JobStep
<1>7. down' = down \/ \E v \in Users : \E g \in AnswersOf(v)' : Sends(v, g)
  BY <1>2, <1>4 DEF Sends
<1>8. WireInv'
  BY <1>1, <1>3, <1>7, WireStep
<1>9. FaultInv'
  BY <1>1, <1>3, FaultStep
<1>10. SendsOne
  BY <1>7 DEF SendsOne
<1>11. ASSUME job[s].op = "create"
       PROVE  \/ phase[u] = "off" \/ job[s].n # link[u].n
              \/ \E g : Sends(u, g) /\ g.op = "create" /\ g.peer = job[s].req.to
  <2>1. SUFFICES ASSUME phase[u] # "off", job[s].n = link[u].n
                 PROVE  Open(u, s, job[s].n)
    BY <1>4, <1>11 DEF Sends
  <2>2. link[u].srv # NoServer /\ link[u] \in Links
    BY <1>1, <1>2, <2>1 DEF SessionInv
  <2>3. link[u].srv = s
    BY <1>2, <2>1, <2>2 DEF Current
  <2>4. link[u] = [srv |-> link[u].srv, n |-> link[u].n]
    BY <2>2 DEF Links
  <2> QED
    BY <2>1, <2>3, <2>4 DEF Open
<1>12. Stays(s, Idle)
  BY <1>11 DEF Stays
<1>13. PendingInv'
  BY <1>1, <1>3, <1>10, <1>12, PendingStep
<1> QED
  BY <1>5, <1>6, <1>8, <1>9, <1>13 DEF IInv

-----------------------------------------------------------------------------
(* Handlers that leave the tables alone.                                   *)

\* What a job in a conversation has to fit.
Talk(u, to, F, T, R, n, op, pc, thread, todo, saved) ==
    /\ to \in F /\ thread \in {0, T[to]}
    /\ ToSave(todo, u, to, n) /\ AsStored(saved, R[to]) /\ Apart(saved, todo)
    /\ pc \in {"save", "commit"} => thread # 0
    /\ op # "create" /\ pc \in Saving => todo # <<>>

\* A job with these variables; one that has all of them.
Moved(j, pc, thread, retry, todo, saved, dst, out) ==
    [op |-> j.op, by |-> j.by, n |-> j.n, pc |-> pc, req |-> j.req, thread |-> thread,
     retry |-> retry, todo |-> todo, saved |-> saved, dst |-> dst, out |-> out]
Full(j) == j = Moved(j, j.pc, j.thread, j.retry, j.todo, j.saved, j.dst, j.out)

\* What a job is made of.
LEMMA WorkParts ==
  ASSUME NEW u, NEW F, NEW T, NEW R, NEW n, NEW j \in Work(u, F, T, R, n)
  PROVE  /\ Full(j)
         /\ j.op \in Ops /\ j.by = u /\ j.n \in Nat /\ j.pc \in Stages(j.op)
         /\ j.req \in Requests(u, F, T, n) /\ j.op = j.req.op /\ j.thread \in Nat
         /\ j.retry \in BOOLEAN /\ j.todo \in Seq(Unsaved) /\ j.saved \in Seq(Saved)
         /\ j.dst \in Servers \cup {NoServer} /\ j.out \in Logins(F, T)
         /\ j.pc = "confirm" => j.saved = <<>> /\ j.thread = 0 /\ ~j.retry
         /\ j.op \in Conversing /\ j.pc # "confirm" =>
              Talk(u, j.req.to, F, T, R, n, j.op, j.pc, j.thread, j.todo, j.saved)
<1>1. j \in [op : Ops, by : {u}, n : Nat, pc : Places, req : Requests(u, F, T, n), thread : Nat,
             retry : BOOLEAN, todo : Seq(Unsaved), saved : Seq(Saved),
             dst : Servers \cup {NoServer}, out : Logins(F, T)]
  BY DEF Work
<1>2. Full(j)
  BY <1>1 DEF Full, Moved
<1>3. /\ j.op = j.req.op /\ j.pc \in Stages(j.op) /\ (j.pc = "confirm" => j.saved = <<>> /\ j.thread = 0 /\ ~j.retry)
  BY DEF Work
<1>4. j.op \in Conversing /\ j.pc # "confirm" =>
        Talk(u, j.req.to, F, T, R, n, j.op, j.pc, j.thread, j.todo, j.saved)
  BY DEF Work, Talk
<1> QED
  BY <1>1, <1>2, <1>3, <1>4

\* A place of a handler is a place.
LEMMA PlacesOfAHandler ==
  ASSUME NEW op \in Ops, NEW pc \in Stages(op)
  PROVE  pc \in Places
BY DEF Places

\* And how one is made.
LEMMA WorkMoves ==
  ASSUME NEW u, NEW F, NEW T, NEW R, NEW n, NEW j \in Work(u, F, T, R, n),
         NEW pc, NEW thread \in Nat, NEW retry \in BOOLEAN, NEW todo \in Seq(Unsaved),
         NEW saved \in Seq(Saved), NEW dst \in Servers \cup {NoServer}, NEW out \in Logins(F, T),
         pc \in Stages(j.op), pc # "confirm",
         j.op \in Conversing => Talk(u, j.req.to, F, T, R, n, j.op, pc, thread, todo, saved)
  PROVE  LET k == Moved(j, pc, thread, retry, todo, saved, dst, out)
         IN  k \in Work(u, F, T, R, n) /\ k.n = j.n /\ k.req = j.req /\ k.op = j.op /\ k.pc = pc
             /\ k.by = j.by /\ k.thread = thread /\ k.retry = retry /\ k.todo = todo
<1> DEFINE k == Moved(j, pc, thread, retry, todo, saved, dst, out)
<1>1. /\ j.op \in Ops /\ j.by = u /\ j.n \in Nat /\ j.req \in Requests(u, F, T, n) /\ j.op = j.req.op
  BY WorkParts
<1>2. pc \in Places
  BY <1>1, PlacesOfAHandler
<1>3. k \in [op : Ops, by : {u}, n : Nat, pc : Places, req : Requests(u, F, T, n), thread : Nat,
             retry : BOOLEAN, todo : Seq(Unsaved), saved : Seq(Saved),
             dst : Servers \cup {NoServer}, out : Logins(F, T)]
  BY <1>2, <1>1 DEF Moved
<1>4. /\ k.n = j.n /\ k.req = j.req /\ k.op = j.op /\ k.pc = pc /\ k.thread = thread
      /\ k.todo = todo /\ k.saved = saved /\ k.by = j.by /\ k.retry = retry
  BY DEF Moved
<1> HIDE DEF k
<1>5. k \in Work(u, F, T, R, n)
  BY <1>1, <1>3, <1>4 DEF Work, Talk
<1> QED
  BY <1>4, <1>5 DEF k

\* One assignment to a job.
LEMMA Assigned ==
  ASSUME NEW j, Full(j), NEW x
  PROVE  /\ [j EXCEPT !.pc = x] = Moved(j, x, j.thread, j.retry, j.todo, j.saved, j.dst, j.out)
         /\ [j EXCEPT !.thread = x] = Moved(j, j.pc, x, j.retry, j.todo, j.saved, j.dst, j.out)
         /\ [j EXCEPT !.retry = x] = Moved(j, j.pc, j.thread, x, j.todo, j.saved, j.dst, j.out)
         /\ [j EXCEPT !.todo = x] = Moved(j, j.pc, j.thread, j.retry, x, j.saved, j.dst, j.out)
         /\ [j EXCEPT !.saved = x] = Moved(j, j.pc, j.thread, j.retry, j.todo, x, j.dst, j.out)
         /\ [j EXCEPT !.dst = x] = Moved(j, j.pc, j.thread, j.retry, j.todo, j.saved, x, j.out)
         /\ [j EXCEPT !.out = x] = Moved(j, j.pc, j.thread, j.retry, j.todo, j.saved, j.dst, x)
<1> DEFINE Lit(op, by, n, pc, req, thread, retry, todo, saved, dst, out) ==
             [op |-> op, by |-> by, n |-> n, pc |-> pc, req |-> req, thread |-> thread,
              retry |-> retry, todo |-> todo, saved |-> saved, dst |-> dst, out |-> out]
<1>1. PICK op, by, n, pc, req, thread, retry, todo, saved, dst, out :
        j = Lit(op, by, n, pc, req, thread, retry, todo, saved, dst, out)
  BY DEF Full, Moved
<1>2. /\ j.op = op /\ j.by = by /\ j.n = n /\ j.pc = pc /\ j.req = req /\ j.thread = thread
      /\ j.retry = retry /\ j.todo = todo /\ j.saved = saved /\ j.dst = dst /\ j.out = out
  BY <1>1
<1>3. [j EXCEPT !.pc = x] = Lit(op, by, n, x, req, thread, retry, todo, saved, dst, out)
  BY <1>1
<1>4. [j EXCEPT !.thread = x] = Lit(op, by, n, pc, req, x, retry, todo, saved, dst, out)
  BY <1>1
<1>5. [j EXCEPT !.retry = x] = Lit(op, by, n, pc, req, thread, x, todo, saved, dst, out)
  BY <1>1
<1>6. [j EXCEPT !.todo = x] = Lit(op, by, n, pc, req, thread, retry, x, saved, dst, out)
  BY <1>1
<1>7. [j EXCEPT !.saved = x] = Lit(op, by, n, pc, req, thread, retry, todo, x, dst, out)
  BY <1>1
<1>8. [j EXCEPT !.dst = x] = Lit(op, by, n, pc, req, thread, retry, todo, saved, x, out)
  BY <1>1
<1>9. [j EXCEPT !.out = x] = Lit(op, by, n, pc, req, thread, retry, todo, saved, dst, x)
  BY <1>1
<1> QED
  BY <1>2, <1>3, <1>4, <1>5, <1>6, <1>7, <1>8, <1>9 DEF Moved

\* One more assignment to a job made so.
Made(a, j, pc, thread, retry, todo, saved, dst, out) ==
    a = Moved(j, pc, thread, retry, todo, saved, dst, out)
\* It is made so still, with the one field changed.
LEMMA AssignedNext ==
  ASSUME NEW j, NEW pc, NEW thread, NEW retry, NEW todo, NEW saved, NEW dst, NEW out,
         NEW a, Made(a, j, pc, thread, retry, todo, saved, dst, out), NEW x
  PROVE  /\ Made([a EXCEPT !.pc = x], j, x, thread, retry, todo, saved, dst, out)
         /\ Made([a EXCEPT !.retry = x], j, pc, thread, x, todo, saved, dst, out)
         /\ Made([a EXCEPT !.todo = x], j, pc, thread, retry, x, saved, dst, out)
         /\ Made([a EXCEPT !.saved = x], j, pc, thread, retry, todo, x, dst, out)
         /\ Made([a EXCEPT !.out = x], j, pc, thread, retry, todo, saved, dst, x)
<1>1. /\ Full(a) /\ a.pc = pc /\ a.thread = thread /\ a.retry = retry /\ a.todo = todo
      /\ a.saved = saved /\ a.dst = dst /\ a.out = out
  BY DEF Full, Moved, Made
<1>2. \A p, t, r, d, v, w, o : Moved(a, p, t, r, d, v, w, o) = Moved(j, p, t, r, d, v, w, o)
  BY DEF Moved, Made
<1>3. /\ [a EXCEPT !.pc = x] = Moved(a, x, a.thread, a.retry, a.todo, a.saved, a.dst, a.out)
      /\ [a EXCEPT !.retry = x] = Moved(a, a.pc, a.thread, x, a.todo, a.saved, a.dst, a.out)
      /\ [a EXCEPT !.todo = x] = Moved(a, a.pc, a.thread, a.retry, x, a.saved, a.dst, a.out)
      /\ [a EXCEPT !.saved = x] = Moved(a, a.pc, a.thread, a.retry, a.todo, x, a.dst, a.out)
      /\ [a EXCEPT !.out = x] = Moved(a, a.pc, a.thread, a.retry, a.todo, a.saved, a.dst, x)
  BY <1>1, Assigned
<1>4. Made([a EXCEPT !.pc = x], j, x, thread, retry, todo, saved, dst, out)
  BY <1>1, <1>2, <1>3 DEF Made
<1>5. Made([a EXCEPT !.retry = x], j, pc, thread, x, todo, saved, dst, out)
  BY <1>1, <1>2, <1>3 DEF Made
<1>6. Made([a EXCEPT !.todo = x], j, pc, thread, retry, x, saved, dst, out)
  BY <1>1, <1>2, <1>3 DEF Made
<1>7. Made([a EXCEPT !.saved = x], j, pc, thread, retry, todo, x, dst, out)
  BY <1>1, <1>2, <1>3 DEF Made
<1>8. Made([a EXCEPT !.out = x], j, pc, thread, retry, todo, saved, dst, x)
  BY <1>1, <1>2, <1>3 DEF Made
<1> QED
  BY <1>4, <1>5, <1>6, <1>7, <1>8

\* The assignments of the handlers, as such jobs.
ToPc(j, pc) == [j EXCEPT !.pc = pc]
ToOut(j, pc, out) == [j EXCEPT !.pc = pc, !.out = out]
ToThread(j, thread, pc) == [j EXCEPT !.thread = thread, !.pc = pc]
ToRetry(j, pc, retry) == [j EXCEPT !.pc = pc, !.retry = retry]
ToTodo(j, pc, todo) == [j EXCEPT !.pc = pc, !.todo = todo]
ToNext(j, todo, saved, pc) == [j EXCEPT !.todo = todo, !.saved = saved, !.pc = pc]
ToDst(j, dst, pc) == [j EXCEPT !.dst = dst, !.pc = pc]
\* Each of them is the job with those fields and the others as they were.
LEMMA Assignments ==
  ASSUME NEW j, Full(j)
  PROVE  /\ \A pc : ToPc(j, pc) = Moved(j, pc, j.thread, j.retry, j.todo, j.saved, j.dst, j.out)
         /\ \A pc, out :
              ToOut(j, pc, out) = Moved(j, pc, j.thread, j.retry, j.todo, j.saved, j.dst, out)
         /\ \A thread, pc :
              ToThread(j, thread, pc) = Moved(j, pc, thread, j.retry, j.todo, j.saved, j.dst, j.out)
         /\ \A pc, retry :
              ToRetry(j, pc, retry) = Moved(j, pc, j.thread, retry, j.todo, j.saved, j.dst, j.out)
         /\ \A pc, todo :
              ToTodo(j, pc, todo) = Moved(j, pc, j.thread, j.retry, todo, j.saved, j.dst, j.out)
         /\ \A todo, saved, pc :
              ToNext(j, todo, saved, pc) = Moved(j, pc, j.thread, j.retry, todo, saved, j.dst, j.out)
         /\ \A dst, pc :
              ToDst(j, dst, pc) = Moved(j, pc, j.thread, j.retry, j.todo, j.saved, dst, j.out)
<1> SUFFICES ASSUME NEW pc, NEW thread, NEW retry, NEW todo, NEW saved, NEW dst, NEW out
    PROVE  /\ ToPc(j, pc) = Moved(j, pc, j.thread, j.retry, j.todo, j.saved, j.dst, j.out)
           /\ ToOut(j, pc, out) = Moved(j, pc, j.thread, j.retry, j.todo, j.saved, j.dst, out)
           /\ ToThread(j, thread, pc) = Moved(j, pc, thread, j.retry, j.todo, j.saved, j.dst, j.out)
           /\ ToRetry(j, pc, retry) = Moved(j, pc, j.thread, retry, j.todo, j.saved, j.dst, j.out)
           /\ ToTodo(j, pc, todo) = Moved(j, pc, j.thread, j.retry, todo, j.saved, j.dst, j.out)
           /\ ToNext(j, todo, saved, pc) = Moved(j, pc, j.thread, j.retry, todo, saved, j.dst, j.out)
           /\ ToDst(j, dst, pc) = Moved(j, pc, j.thread, j.retry, j.todo, j.saved, dst, j.out)
  OBVIOUS
<1> SUFFICES
           /\ [j EXCEPT !.pc = pc] = Moved(j, pc, j.thread, j.retry, j.todo, j.saved, j.dst, j.out)
           /\ [j EXCEPT !.pc = pc, !.out = out] =
                Moved(j, pc, j.thread, j.retry, j.todo, j.saved, j.dst, out)
           /\ [j EXCEPT !.thread = thread, !.pc = pc] =
                Moved(j, pc, thread, j.retry, j.todo, j.saved, j.dst, j.out)
           /\ [j EXCEPT !.pc = pc, !.retry = retry] =
                Moved(j, pc, j.thread, retry, j.todo, j.saved, j.dst, j.out)
           /\ [j EXCEPT !.pc = pc, !.todo = todo] =
                Moved(j, pc, j.thread, j.retry, todo, j.saved, j.dst, j.out)
           /\ [j EXCEPT !.todo = todo, !.saved = saved, !.pc = pc] =
                Moved(j, pc, j.thread, j.retry, todo, saved, j.dst, j.out)
           /\ [j EXCEPT !.dst = dst, !.pc = pc] =
                Moved(j, pc, j.thread, j.retry, j.todo, j.saved, dst, j.out)
  BY DEF ToPc, ToOut, ToThread, ToRetry, ToTodo, ToNext, ToDst
<1> DEFINE a == [j EXCEPT !.pc = pc]
           b == [j EXCEPT !.thread = thread]
           c == [j EXCEPT !.todo = todo]
           d == [c EXCEPT !.saved = saved]
           e == [j EXCEPT !.dst = dst]
<1>1. Made(a, j, pc, j.thread, j.retry, j.todo, j.saved, j.dst, j.out)
  BY Assigned DEF Made
<1>2. Made(b, j, j.pc, thread, j.retry, j.todo, j.saved, j.dst, j.out)
  BY Assigned DEF Made
<1>3. Made(c, j, j.pc, j.thread, j.retry, todo, j.saved, j.dst, j.out)
  BY Assigned DEF Made
<1>4. Made(e, j, j.pc, j.thread, j.retry, j.todo, j.saved, dst, j.out)
  BY Assigned DEF Made
<1> HIDE DEF a, b, c, e
<1>5. Made([a EXCEPT !.out = out], j, pc, j.thread, j.retry, j.todo, j.saved, j.dst, out)
  BY <1>1, AssignedNext
<1>6. Made([b EXCEPT !.pc = pc], j, pc, thread, j.retry, j.todo, j.saved, j.dst, j.out)
  BY <1>2, AssignedNext
<1>7. Made([a EXCEPT !.retry = retry], j, pc, j.thread, retry, j.todo, j.saved, j.dst, j.out)
  BY <1>1, AssignedNext
<1>8. Made([a EXCEPT !.todo = todo], j, pc, j.thread, j.retry, todo, j.saved, j.dst, j.out)
  BY <1>1, AssignedNext
<1>9. Made(d, j, j.pc, j.thread, j.retry, todo, saved, j.dst, j.out)
  BY <1>3, AssignedNext
<1> HIDE DEF d
<1>10. Made([d EXCEPT !.pc = pc], j, pc, j.thread, j.retry, todo, saved, j.dst, j.out)
  BY <1>9, AssignedNext
<1>11. Made([e EXCEPT !.pc = pc], j, pc, j.thread, j.retry, j.todo, j.saved, dst, j.out)
  BY <1>4, AssignedNext
<1> QED
  BY <1>1, <1>5, <1>6, <1>7, <1>8, <1>10, <1>11 DEF a, b, c, d, e, Made

\* A handler goes on without having written a message.
LEMMA MovesOn ==
  ASSUME IInv, NEW s \in Servers, job[s] # Idle, StoreInv', Grows, chat' = chat, SessionInv',
         NEW u, u = job[s].by, NEW k, job' = [job EXCEPT ![s] = k], k \in WorkOf(u),
         k.n = job[s].n, k.req = job[s].req, k.pc # "commit",
         UNCHANGED <<up, down, cache, link, phase>>,
         faults' \in Nat, faults <= faults', faults' = 0 => Unfailing(k)'
  PROVE  IInv'
<1>1. JobInv /\ CommitInv
  BY DEF IInv
<1>2. CommitInv'
  BY <1>1, CommitStep
<1>3. u \in Users
  BY <1>1, JobFits
<1>4. k \in WorkOf(u)'
  BY <1>3, AllGrow
<1> QED
  BY <1>2, <1>4, GoesOn

\* A handler goes on without having written anything.
LEMMA Moves ==
  ASSUME IInv, NEW s \in Servers, job[s] # Idle, UNCHANGED <<store, texts>>, SessionInv',
         NEW u, u = job[s].by, NEW k, job' = [job EXCEPT ![s] = k], k \in WorkOf(u),
         k.n = job[s].n, k.req = job[s].req, k.pc # "commit",
         UNCHANGED <<up, down, cache, link, phase>>,
         faults' \in Nat, faults <= faults', faults' = 0 => Unfailing(k)
  PROVE  IInv'
<1>1. StoreInv /\ SessionInv /\ JobInv /\ CommitInv /\ FaultInv /\ WireInv /\ PendingInv
  BY DEF IInv
<1>2. StoreInv' /\ Grows
  BY <1>1, NothingChanges
<1>3. Unfailing(k)' = Unfailing(k) /\ chat' = chat
  BY DEF Unfailing, store
<1> QED
  BY <1>2, <1>3, MovesOn

\* A handler answers without having written a message.
LEMMA AnswersOn ==
  ASSUME IInv, NEW s \in Servers, job[s] # Idle, StoreInv', Grows, chat' = chat, NEW f, Finish(s, f),
         NEW u, u = job[s].by, job[s].op # "apply" => f \in AnswersOf(u),
         job[s].op = "create" => f.op = "create" /\ f.peer = job[s].req.to,
         faults' \in Nat, faults <= faults'
  PROVE  IInv'
<1>1. CommitInv /\ JobInv
  BY DEF IInv
<1>2. job' = [job EXCEPT ![s] = Idle] /\ Idle.pc # "commit"
  BY DEF Finish, Idle
<1>3. CommitInv'
  BY <1>1, <1>2, CommitStep
<1>4. u \in Users
  BY <1>1, JobFits
<1>5. job[s].op # "apply" => f \in AnswersOf(u)'
  BY <1>4, AllGrow
<1> QED
  BY <1>3, <1>5, Ends

\* A handler answers without having written anything.
LEMMA AnswersOnly ==
  ASSUME IInv, NEW s \in Servers, job[s] # Idle, UNCHANGED <<store, texts>>, NEW f, Finish(s, f),
         NEW u, u = job[s].by, job[s].op # "apply" => f \in AnswersOf(u),
         job[s].op = "create" => f.op = "create" /\ f.peer = job[s].req.to,
         faults' \in Nat, faults <= faults'
  PROVE  IInv'
<1>1. StoreInv' /\ Grows /\ chat' = chat
  BY NothingChanges DEF IInv, store
<1> QED
  BY <1>1, AnswersOn

\* What may go wrong leaves these alone.
LEMMA TryCounts ==
  ASSUME FaultInv, NEW ok \in BOOLEAN, Try(ok)
  PROVE  /\ faults' \in Nat /\ faults <= faults' /\ texts' = texts
         /\ ~ok => faults' # 0
BY DEF Try, FaultInv

\* The request of a handler that talks to somebody.
Asks(u, F, T, n, q) ==
    /\ q.op \in {"text", "create"} => q.to \in F
    /\ q.op \in {"text", "create", "apply", "auth"} => q.to \in Users
    /\ q.op = "text" => q.cid \in Cids /\ q.thread \in {0, T[q.to]} /\ q.thread \in Nat
                        /\ \E k \in 1..n : q.cid = <<u, q.to, k>>
    /\ q.op = "apply" => q.to # u
    /\ q.op = "threads" => q.after \in Nat
    /\ q.op = "load" => q.after \in Nat /\ q.thread \in Nat \ {0} /\ \E v \in Users : q.thread = T[v]
\* A request asks that.
LEMMA RequestParts ==
  ASSUME NEW u, NEW F, F \in SUBSET Users, NEW T, NEW n, NEW q, q \in Requests(u, F, T, n)
  PROVE  Asks(u, F, T, n, q)
<1>1. CASE q \in [op : {"login"}] \/ q \in [op : {"create"}, to : F]
  BY <1>1 DEF Asks
<1>2. CASE q \in [op : {"apply"}, to : Users \ {u}] \/ q \in [op : {"auth"}, to : Users]
  BY <1>2 DEF Asks
<1>3. CASE q \in [op : {"threads"}, after : Nat]
  BY <1>3 DEF Asks
<1>4. CASE q \in [op : {"load"}, thread : Nat \ {0}, after : Nat] /\ \E v \in Users : q.thread = T[v]
  BY <1>4 DEF Asks
<1>5. CASE /\ q \in [op : {"text"}, to : F, cid : Cids, thread : Nat]
           /\ q.thread \in {0, T[q.to]} /\ \E k \in 1..n : q.cid = <<u, q.to, k>>
  BY <1>5 DEF Asks
<1> QED
  BY <1>1, <1>2, <1>3, <1>4, <1>5 DEF Requests

\* What is known of a handler at work.
LEMMA Working ==
  ASSUME IInv, NEW s \in Servers, job[s] # Idle, NEW u, u = job[s].by
  PROVE  LET j == job[s] IN
         /\ u \in Users /\ j \in WorkOf(u) /\ j \in Work(u, FriendsOf(u), ThreadsOf(u), StoredOf(u), texts)
         /\ Full(j)
         /\ j.op \in Ops /\ j.n \in Nat /\ j.pc \in Stages(j.op)
         /\ j.req \in RequestsOf(u) /\ j.op = j.req.op /\ j.thread \in Nat
         /\ j.retry \in BOOLEAN /\ j.todo \in Seq(Unsaved) /\ j.saved \in Seq(Saved)
         /\ j.dst \in Servers \cup {NoServer} /\ j.out \in Logins(FriendsOf(u), ThreadsOf(u))
         /\ j.pc = "confirm" => j.saved = <<>> /\ j.thread = 0 /\ ~j.retry
         /\ j.op \in Conversing /\ j.pc # "confirm" =>
              Talk(u, j.req.to, FriendsOf(u), ThreadsOf(u), StoredOf(u), texts,
                   j.op, j.pc, j.thread, j.todo, j.saved)
         /\ Asks(u, FriendsOf(u), ThreadsOf(u), texts, j.req)
         /\ Scope(FriendsOf(u), ThreadsOf(u), MsgsOf(u))
         /\ faults \in Nat /\ texts \in Nat
<1>1. StoreInv /\ JobInv
  BY DEF IInv
<1>2. u \in Users /\ job[s] \in WorkOf(u)
  BY <1>1, JobFits
<1>3. job[s] \in Work(u, FriendsOf(u), ThreadsOf(u), StoredOf(u), texts)
  BY <1>2 DEF WorkOf
<1>4. Scope(FriendsOf(u), ThreadsOf(u), MsgsOf(u))
  BY <1>1, <1>2, TablesFit
<1>5. faults \in Nat /\ texts \in Nat
  BY DEF IInv, FaultInv, StoreInv, ChatInv
<1> DEFINE j == job[s]
           F == FriendsOf(u)
           T == ThreadsOf(u)
           R == StoredOf(u)
<1>6. F \in SUBSET Users
  BY DEF FriendsOf
<1> HIDE DEF j, F, T, R
<1>7. /\ Full(j)
      /\ j.op \in Ops /\ j.by = u /\ j.n \in Nat /\ j.pc \in Stages(j.op)
      /\ j.req \in Requests(u, F, T, texts) /\ j.op = j.req.op /\ j.thread \in Nat
      /\ j.retry \in BOOLEAN /\ j.todo \in Seq(Unsaved) /\ j.saved \in Seq(Saved)
      /\ j.dst \in Servers \cup {NoServer} /\ j.out \in Logins(F, T)
      /\ j.pc = "confirm" => j.saved = <<>> /\ j.thread = 0 /\ ~j.retry
      /\ j.op \in Conversing /\ j.pc # "confirm" =>
           Talk(u, j.req.to, F, T, R, texts, j.op, j.pc, j.thread, j.todo, j.saved)
  <2>1. j \in Work(u, F, T, R, texts)
    BY <1>3 DEF j, F, T, R
  <2> QED
    BY <2>1, WorkParts
<1>8. Asks(u, F, T, texts, j.req)
  <2>1. j.req \in Requests(u, F, T, texts)
    BY <1>7
  <2> DEFINE q == j.req
  <2> HIDE DEF q
  <2>2. q \in Requests(u, F, T, texts)
    BY <2>1 DEF q
  <2>3. Asks(u, F, T, texts, q)
    BY <1>6, <2>2, RequestParts
  <2> QED
    BY <2>3 DEF q
<1> QED
  BY <1>2, <1>3, <1>4, <1>5, <1>7, <1>8 DEF RequestsOf, j, F, T, R

\* A handler refuses.
LEMMA RefusesOn ==
  ASSUME IInv, NEW s \in Servers, job[s] # Idle, StoreInv', Grows, chat' = chat, Refuse(s),
         job[s].op # "create", faults' \in Nat, faults <= faults'
  PROVE  IInv'
<1> DEFINE u == job[s].by
           f == IF job[s].op = "text"
                  THEN [op |-> "text", ok |-> FALSE, peer |-> job[s].req.to, cid |-> job[s].req.cid]
                  ELSE [op |-> job[s].op, ok |-> FALSE]
<1>1. Finish(s, f)
  BY DEF Refuse
<1>2. /\ u \in Users /\ job[s].op \in Ops /\ job[s].op = job[s].req.op
      /\ Asks(u, FriendsOf(u), ThreadsOf(u), texts, job[s].req)
  BY Working
<1>3. job[s].op \notin {"apply", "text"} => f \in Refusals(FriendsOf(u))
  BY <1>2 DEF Ops, Refusals
<1>4. job[s].op = "text" => job[s].req.to \in FriendsOf(u) /\ job[s].req.cid \in Cids
  BY <1>2 DEF Asks
<1>5. job[s].op = "text" => f \in Refusals(FriendsOf(u))
  BY <1>4 DEF Refusals
<1> HIDE DEF f
<1>6. job[s].op # "apply" => f \in AnswersOf(u)
  BY <1>3, <1>5 DEF AnswersOf, Answers
<1> QED
  BY <1>1, <1>6, AnswersOn
\* It is refused with nothing written.
LEMMA Refuses ==
  ASSUME IInv, NEW s \in Servers, job[s] # Idle, UNCHANGED <<store, texts>>, Refuse(s),
         job[s].op # "create", faults' \in Nat, faults <= faults'
  PROVE  IInv'
<1>1. StoreInv' /\ Grows /\ chat' = chat
  BY NothingChanges DEF IInv, store
<1> QED
  BY <1>1, RefusesOn

-----------------------------------------------------------------------------
(* What is read from the tables.                                           *)

\* A page of conversations is of the user's own, each with its peer.
LEMMA ThreadsRead ==
  ASSUME StoreInv, StoreAssumption, NEW u \in Users, NEW after \in Nat
  PROVE  LET got == ChatThreads(u, after)
         IN  got.page \in Seq(ThreadRow(ThreadsOf(u))) /\ got.more \in BOOLEAN
<1> DEFINE mine == {v \in Users : threadOf[<<u, v>>] > after}
           all == {threadOf[<<u, v>>] : v \in mine}
           ids == Page(all)
           peer(t) == CHOOSE v \in mine : threadOf[<<u, v>>] = t
           row(t) == [thread |-> t, peer |-> peer(t)]
           page == [i \in DOMAIN ids |-> row(ids[i])]
<1>1. \A v \in Users : threadOf[<<u, v>>] \in Nat
  BY DEF StoreInv, ThreadsInv, Pairs
<1>2. IsFiniteSet(mine)
  BY FS_Subset DEF StoreAssumption
<1>3. all \in SUBSET Nat /\ IsFiniteSet(all)
  <2>1. IsFiniteSet(all)
    <3> DEFINE f == [v \in Users |-> threadOf[<<u, v>>]]
    <3>1. all = {f[v] : v \in mine}
      OBVIOUS
    <3> HIDE DEF f, mine, all
    <3>2. IsFiniteSet({f[v] : v \in mine})
      BY <1>2, ValuesAreFinite
    <3> QED
      BY <3>1, <3>2
  <2> QED
    BY <1>1, <2>1
<1>4. ASSUME NEW t \in all
      PROVE  row(t) \in ThreadRow(ThreadsOf(u))
  <2>1. \E v \in mine : threadOf[<<u, v>>] = t
    OBVIOUS
  <2>2. peer(t) \in mine /\ threadOf[<<u, peer(t)>>] = t
    BY <2>1
  <2> DEFINE v == peer(t)
  <2>3. v \in Users /\ threadOf[<<u, v>>] > after /\ threadOf[<<u, v>>] = t
    BY <2>2
  <2> HIDE DEF v
  <2>4. t \in Nat \ {0} /\ t = ThreadsOf(u)[v]
    BY <1>1, <2>3 DEF ThreadsOf
  <2> QED
    BY <2>3, <2>4 DEF ThreadRow, v
<1> HIDE DEF row
<1>5. ids \in Seq(all)
  <2> HIDE DEF all
  <2> QED
    BY <1>3, PageLists
<1> HIDE DEF ids
<1>6. \A i \in DOMAIN ids : ids[i] \in all
  BY <1>5, ElementOfSeq, LenProperties
<1>7. page = [i \in DOMAIN ids |-> page[i]] /\ \A i \in DOMAIN ids : page[i] \in ThreadRow(ThreadsOf(u))
  BY <1>4, <1>6
<1> HIDE DEF page
<1>8. page \in Seq(ThreadRow(ThreadsOf(u)))
  BY <1>5, <1>7, Replaced
<1>9. ChatThreads(u, after) = [page |-> page, more |-> Cardinality(mine) > PageSize]
  BY DEF ChatThreads, page, ids, row
<1> QED
  BY <1>8, <1>9

\* The applications to a user.
LEMMA AppliesRead ==
  ASSUME StoreInv, StoreAssumption, NEW u \in Users
  PROVE  ApplyList(u) \in Seq(ApplyRow)
<1> DEFINE S == {v \in Users : applied[<<v, u>>] # NoApply}
           from == SetToSeq(S)
           list == [i \in DOMAIN from |-> [uid |-> from[i], status |-> applied[<<from[i], u>>]]]
<1>1. IsFiniteSet(S)
  BY FS_Subset DEF StoreAssumption
<1>2. \A v \in S : [uid |-> v, status |-> applied[<<v, u>>]] \in ApplyRow
  BY DEF StoreInv, FriendsInv, Pairs, ApplyRow
<1> HIDE DEF S
<1>3. from \in Seq(S)
  BY <1>1, SetToSeqLists
<1> HIDE DEF from
<1>4. \A i \in DOMAIN from : from[i] \in S
  BY <1>3, ElementOfSeq, LenProperties
<1>5. list = [i \in DOMAIN from |-> list[i]] /\ \A i \in DOMAIN from : list[i] \in ApplyRow
  BY <1>2, <1>4
<1> HIDE DEF list
<1>6. list \in Seq(ApplyRow)
  BY <1>3, <1>5, Replaced
<1> QED
  BY <1>6 DEF ApplyList, list, from, S

\* The friends of a user, as many as could be read.
LEMMA FriendsRead ==
  ASSUME StoreAssumption, NEW u \in Users, NEW skipped
  PROVE  FriendList(u, skipped) \in Seq(FriendsOf(u))
<1>1. PICK S : S = FriendsOf(u) \ skipped
  OBVIOUS
<1>2. S \subseteq FriendsOf(u) /\ IsFiniteSet(S)
  BY <1>1, FS_Subset DEF StoreAssumption, FriendsOf
<1>3. SetToSeq(S) \in Seq(FriendsOf(u))
  BY <1>2, SetToSeqLists, SeqMonotonic
<1> QED
  BY <1>1, <1>3 DEF FriendList, FriendsOf

-----------------------------------------------------------------------------
(* The login.                                                              *)

\* Only a login is at these places.
LEMMA LoginPlaces ==
  ASSUME NEW op \in Ops, NEW pc \in Stages(op),
         pc \in {"threads", "applies", "friends", "locate", "bind", "greet"}
  PROVE  op = "login"
BY DEF Stages, Ops

\* The answer with what has been read of a list.
LEMMA ListRead ==
  ASSUME IInv, NEW s \in Servers, NEW pc \in {"threads", "applies", "friends"}, At(s, pc),
         NEW next \in {"applies", "friends", "locate"}, NEW ok \in BOOLEAN, Works(ok),
         NEW got \in Logins(FriendsOf(job[s].by), ThreadsOf(job[s].by)),
         job' = [job EXCEPT ![s].pc = next, ![s].out = got],
         UNCHANGED <<store, uip, mgr, clients>>
  PROVE  IInv'
<1> DEFINE u == job[s].by
           j == job[s]
<1>1. job' = [job EXCEPT ![s].pc = next, ![s].out = got]
  OBVIOUS
<1>2. job[s] # Idle /\ j.pc = pc
  BY AtWork DEF At
<1> DEFINE k == Moved(j, next, j.thread, j.retry, j.todo, j.saved, j.dst, got)
<1>3. /\ Full(j)
      /\ j.op \in Ops /\ j.pc \in Stages(j.op) /\ j.op = j.req.op /\ j.thread \in Nat
      /\ j.retry \in BOOLEAN /\ j.todo \in Seq(Unsaved) /\ j.saved \in Seq(Saved)
      /\ j.dst \in Servers \cup {NoServer} /\ j.out \in Logins(FriendsOf(u), ThreadsOf(u))
      /\ j \in Work(u, FriendsOf(u), ThreadsOf(u), StoredOf(u), texts)
  BY <1>2, Working
<1>4. j.op = "login"
  BY <1>2, <1>3, LoginPlaces
<1>5. next \in Stages(j.op) /\ next # "confirm" /\ j.op \notin Conversing
  BY <1>4 DEF Stages, Conversing
<1>6. got \in Logins(FriendsOf(u), ThreadsOf(u))
  OBVIOUS
<1>7. job = [t \in Servers |-> job[t]]
  BY DEF IInv, JobInv
<1>8. job' = [job EXCEPT ![s] = k]
  <2>1. k = ToOut(j, next, got)
    BY <1>3, Assignments
  <2> HIDE DEF k
  <2>2. job' = [job EXCEPT ![s] = ToOut(j, next, got)]
    BY <1>1, <1>7 DEF ToOut
  <2> QED
    BY <2>1, <2>2
<1>9. k \in WorkOf(u) /\ k.n = j.n /\ k.req = j.req /\ k.op = j.op /\ k.pc = next
  BY <1>3, <1>5, <1>6, WorkMoves DEF WorkOf
<1> HIDE DEF k
<1>10. /\ UNCHANGED <<store, texts>> /\ UNCHANGED <<up, down, cache, link, phase>>
       /\ faults' \in Nat /\ faults <= faults'
  <2>1. FaultInv /\ Try(ok)
    BY DEF IInv, Works
  <2> QED
    BY <2>1, TryCounts DEF clients
<1>11. SessionInv'
  BY SessionStep DEF IInv, clients
<1>12. Unfailing(k) /\ k.pc # "commit"
  BY <1>4, <1>9 DEF Unfailing, Conversing
<1> QED
  BY <1>2, <1>8, <1>9, <1>10, <1>11, <1>12, Moves

\* A list is read into the answer, or not.
LEMMA ReadListKeeps ==
  ASSUME IInv, NEW s \in Servers, NEW pc \in {"threads", "applies", "friends"},
         NEW next \in {"applies", "friends", "locate"}, NEW out, ReadList(s, pc, next, out),
         out \in Logins(FriendsOf(job[s].by), ThreadsOf(job[s].by))
  PROVE  IInv'
<1>1. PICK ok \in BOOLEAN : /\ Works(ok)
                            /\ job' = [job EXCEPT ![s].pc = next, ![s].out = IF ok THEN out ELSE @]
  BY DEF ReadList
<1>2. At(s, pc) /\ UNCHANGED <<store, uip, mgr, clients>>
  BY DEF ReadList
<1>3. job[s].out \in Logins(FriendsOf(job[s].by), ThreadsOf(job[s].by))
  BY <1>2, AtWork, Working DEF At
<1>4. PICK got \in Logins(FriendsOf(job[s].by), ThreadsOf(job[s].by)) :
          got = IF ok THEN out ELSE job[s].out
  BY <1>3
<1>5. job' = [job EXCEPT ![s].pc = next, ![s].out = got]
  BY <1>1, <1>4
<1> QED
  BY <1>1, <1>2, <1>5, ListRead

\* The answer with one list more.
LEMMA ThreadsFill ==
  ASSUME NEW F, NEW T, NEW out \in Logins(F, T), NEW threads \in Seq(ThreadRow(T)), NEW more \in BOOLEAN
  PROVE  [out EXCEPT !.threads = threads, !.more = more] \in Logins(F, T)
BY DEF Logins

\* So does a list of applications ...
LEMMA AppliesFill ==
  ASSUME NEW F, NEW T, NEW out \in Logins(F, T), NEW applies \in Seq(ApplyRow)
  PROVE  [out EXCEPT !.applies = applies] \in Logins(F, T)
BY DEF Logins

\* ... and a list of friends.
LEMMA FriendsFill ==
  ASSUME NEW F, NEW T, NEW out \in Logins(F, T), NEW fs \in Seq(F)
  PROVE  [out EXCEPT !.friends = fs] \in Logins(F, T)
BY DEF Logins

\* The three lists of the login answer.
LEMMA LoginReads ==
  ASSUME IInv, StoreAssumption, NEW s \in Servers,
         LoginThreads(s) \/ LoginApplies(s) \/ LoginFriends(s)
  PROVE  IInv'
<1> DEFINE u == job[s].by
           F == FriendsOf(u)
           T == ThreadsOf(u)
<1>1. StoreInv
  BY DEF IInv
<1>2. job[s] # Idle
  BY AtWork DEF LoginThreads, LoginApplies, LoginFriends, ReadList, At
<1>3. u \in Users /\ job[s].out \in Logins(F, T)
  BY <1>2, Working
<1>4. ApplyList(u) \in Seq(ApplyRow)
  BY <1>1, <1>3, AppliesRead
<1>5. CASE LoginThreads(s)
  <2> DEFINE got == ChatThreads(u, 0)
  <2>1. got.page \in Seq(ThreadRow(T)) /\ got.more \in BOOLEAN
    BY <1>1, <1>3, ThreadsRead
  <2> HIDE DEF got
  <2>2. [job[s].out EXCEPT !.threads = got.page, !.more = got.more] \in Logins(F, T)
    BY <1>3, <2>1, ThreadsFill
  <2>3. ReadList(s, "threads", "applies",
                 [job[s].out EXCEPT !.threads = got.page, !.more = got.more])
    BY <1>5 DEF LoginThreads, got
  <2> QED
    BY <2>2, <2>3, ReadListKeeps
<1>6. CASE LoginApplies(s)
  <2>1. [job[s].out EXCEPT !.applies = ApplyList(u)] \in Logins(F, T)
    BY <1>3, <1>4, AppliesFill
  <2> QED
    BY <1>6, <2>1, ReadListKeeps DEF LoginApplies
<1>7. CASE LoginFriends(s)
  <2>1. PICK skipped : /\ Works(skipped = {})
                       /\ job' = [job EXCEPT ![s].pc = "locate",
                                             ![s].out.friends = FriendList(u, skipped)]
    BY <1>7 DEF LoginFriends
  <2>2. PICK got : got = [job[s].out EXCEPT !.friends = FriendList(u, skipped)]
    OBVIOUS
  <2>3. got \in Logins(F, T)
    <3>1. FriendList(u, skipped) \in Seq(F)
      BY <1>3, FriendsRead
    <3> QED
      BY <1>3, <2>2, <3>1, FriendsFill
  <2>4. job' = [job EXCEPT ![s].pc = "locate", ![s].out = got]
    BY <2>1, <2>2
  <2>5. PICK ok \in BOOLEAN : Works(ok)
    BY <2>1
  <2> QED
    BY <1>7, <2>3, <2>4, <2>5, ListRead DEF LoginFriends
<1> QED
  BY <1>5, <1>6, <1>7

\* A login goes on to another place.
LEMMA LoginGoesOn ==
  ASSUME IInv, NEW s \in Servers, job[s] # Idle, job[s].op = "login",
         NEW pc \in {"bind", "greet"}, GoTo(s, pc), SessionInv',
         UNCHANGED <<store, texts>>, UNCHANGED <<up, down, cache, link, phase>>,
         faults' \in Nat, faults <= faults'
  PROVE  IInv'
<1> DEFINE j == job[s]
           u == job[s].by
           k == Moved(j, pc, j.thread, j.retry, j.todo, j.saved, j.dst, j.out)
<1>1. /\ Full(j) /\ j.thread \in Nat /\ j.retry \in BOOLEAN /\ j.todo \in Seq(Unsaved)
      /\ j.saved \in Seq(Saved) /\ j.dst \in Servers \cup {NoServer}
      /\ j.out \in Logins(FriendsOf(u), ThreadsOf(u))
      /\ j \in Work(u, FriendsOf(u), ThreadsOf(u), StoredOf(u), texts)
  BY Working
<1>2. job = [t \in Servers |-> job[t]]
  BY DEF IInv, JobInv
<1>3. job' = [job EXCEPT ![s] = k]
  <2>1. k = ToPc(j, pc)
    BY <1>1, Assignments
  <2> HIDE DEF k
  <2>2. job' = [job EXCEPT ![s] = ToPc(j, pc)]
    BY <1>2 DEF ToPc, GoTo
  <2> QED
    BY <2>1, <2>2
<1>4. pc \in Stages(j.op) /\ pc # "confirm" /\ j.op \notin Conversing
  BY DEF Stages, Conversing
<1>5. k \in WorkOf(u) /\ k.n = j.n /\ k.req = j.req /\ k.op = j.op /\ k.pc = pc
  BY <1>1, <1>4, WorkMoves DEF WorkOf
<1> HIDE DEF k
<1>6. Unfailing(k) /\ k.pc # "commit"
  BY <1>5 DEF Unfailing, Conversing
<1> QED
  BY <1>3, <1>5, <1>6, Moves

\* What a server at a place of a login is at.
LEMMA LoginAt ==
  ASSUME IInv, NEW s \in Servers, NEW pc \in {"threads", "applies", "friends", "locate", "bind", "greet"},
         At(s, pc)
  PROVE  job[s] # Idle /\ job[s].op = "login" /\ job[s].by \in Users
<1>1. job[s] # Idle /\ job[s].pc = pc
  BY AtWork DEF At
<1>2. job[s].op \in Ops /\ job[s].pc \in Stages(job[s].op) /\ job[s].by \in Users
  BY <1>1, Working
<1> QED
  BY <1>1, <1>2, LoginPlaces

\* The place of a user is written, and an older session put off.
LEMMA LoginLocateKeeps ==
  ASSUME IInv, NEW s \in Servers, LoginLocate(s)
  PROVE  IInv'
<1> DEFINE u == job[s].by
           old == uip[u].srv
<1>1. job[s] # Idle /\ job[s].op = "login" /\ u \in Users
  BY LoginAt DEF LoginLocate
<1>2. SessionInv /\ FaultInv
  BY DEF IInv
<1>3. CASE ~Open(u, s, job[s].n)
  <2>1. Refuse(s) /\ UNCHANGED <<store, texts>> /\ faults' \in Nat /\ faults <= faults'
    BY <1>2, <1>3 DEF LoginLocate, counts, FaultInv
  <2> QED
    BY <1>1, <2>1, Refuses
<1>4. CASE Open(u, s, job[s].n)
  <2>1. PICK kicked, set \in BOOLEAN :
          /\ Works(kicked /\ set) /\ (~kicked => old # NoServer)
          /\ mgr' = IF old = NoServer \/ ~kicked THEN mgr ELSE [mgr EXCEPT ![old][u] = 0]
          /\ uip' = IF set THEN [uip EXCEPT ![u].srv = s] ELSE uip
    BY <1>4 DEF LoginLocate
  <2>2. GoTo(s, "bind") /\ UNCHANGED <<store, clients>>
    BY <1>4 DEF LoginLocate
  <2>3. /\ faults' \in Nat /\ faults <= faults' /\ texts' = texts
    BY <1>2, <2>1, TryCounts DEF Works
  <2>4. /\ link \in [Users -> Links] /\ uip \in [Users -> Links] /\ mgr \in [Servers -> [Users -> Nat]]
        /\ \A t \in Servers, v \in Users : mgr[t][v] <= link[v].n
    BY <1>2 DEF SessionInv
  <2>5. uip' \in [Users -> Links]
    BY <1>1, <2>1, <2>4 DEF Links
  <2>6. mgr' \in [Servers -> [Users -> Nat]]
        /\ \A t \in Servers, v \in Users : mgr'[t][v] = mgr[t][v] \/ mgr'[t][v] = 0
    BY <1>1, <2>1, <2>4
  <2>7. \A v \in Users : link[v].n \in Nat
    BY <2>4 DEF Links
  <2>8. \A t \in Servers, v \in Users : mgr'[t][v] <= link[v].n
    BY <2>4, <2>6, <2>7
  <2>9. SessionInv'
    BY <1>2, <2>2, <2>4, <2>5, <2>6, <2>8 DEF SessionInv, clients
  <2> QED
    BY <1>1, <2>2, <2>3, <2>9, LoginGoesOn DEF clients
<1> QED
  BY <1>3, <1>4

\* The lock was not to be had.
LEMMA LoginUnlockedKeeps ==
  ASSUME IInv, NEW s \in Servers, LoginUnlocked(s)
  PROVE  IInv'
<1>1. job[s] # Idle /\ job[s].op = "login"
  BY LoginAt DEF LoginUnlocked
<1>2. FaultInv /\ Try(FALSE) /\ Refuse(s) /\ UNCHANGED store
  BY DEF LoginUnlocked, Works, IInv
<1>3. faults' \in Nat /\ faults <= faults' /\ texts' = texts
  BY <1>2, TryCounts
<1> QED
  BY <1>1, <1>2, <1>3, Refuses

\* The session can be found.
LEMMA LoginBindKeeps ==
  ASSUME IInv, NEW s \in Servers, LoginBind(s)
  PROVE  IInv'
<1> DEFINE u == job[s].by
<1>1. job[s] # Idle /\ job[s].op = "login" /\ u \in Users
  BY LoginAt DEF LoginBind
<1>2. SessionInv /\ FaultInv /\ JobInv
  BY DEF IInv
<1>3. job[s].n \in Nat /\ job[s].n <= link[u].n
  BY <1>1, <1>2, JobFits DEF Current
<1>4. /\ mgr' = [mgr EXCEPT ![s][u] = job[s].n] /\ GoTo(s, "greet")
      /\ UNCHANGED <<store, clients>>
  BY DEF LoginBind
<1>5. PICK set \in BOOLEAN :
        Works(set) /\ uip' = IF set THEN [uip EXCEPT ![u].n = job[s].n] ELSE uip
  BY DEF LoginBind
<1>6. SessionInv'
  <2>1. /\ mgr \in [Servers -> [Users -> Nat]]
        /\ \A t \in Servers, v \in Users : mgr[t][v] <= link[v].n
    BY <1>2 DEF SessionInv
  <2>2. \A t \in Servers, v \in Users :
          mgr'[t][v] = IF t = s /\ v = u THEN job[s].n ELSE mgr[t][v]
    BY <1>1, <1>4, <2>1
  <2>3. mgr' \in [Servers -> [Users -> Nat]]
    BY <1>1, <1>3, <1>4, <2>1
  <2>4. \A t \in Servers, v \in Users : mgr'[t][v] <= link[v].n
    BY <1>3, <2>1, <2>2
  <2>5. uip' \in [Users -> Links]
    <3>1. uip \in [Users -> Links] /\ [uip[u] EXCEPT !.n = job[s].n] \in Links
      BY <1>1, <1>2, <1>3 DEF SessionInv, Links
    <3>2. uip' = uip \/ uip' = [uip EXCEPT ![u] = [uip[u] EXCEPT !.n = job[s].n]]
      BY <1>5, <3>1
    <3> QED
      BY <3>1, <3>2
  <2> QED
    BY <1>2, <1>4, <2>3, <2>4, <2>5 DEF SessionInv, clients
<1>7. faults' \in Nat /\ faults <= faults' /\ texts' = texts
  BY <1>2, <1>5, TryCounts DEF Works
<1> QED
  BY <1>1, <1>4, <1>6, <1>7, LoginGoesOn DEF clients

\* The answer.
LEMMA LoginGreetKeeps ==
  ASSUME IInv, NEW s \in Servers, LoginGreet(s)
  PROVE  IInv'
<1> DEFINE u == job[s].by
<1>1. job[s] # Idle /\ job[s].op = "login" /\ u \in Users
  BY LoginAt DEF LoginGreet
<1>2. FaultInv
  BY DEF IInv
<1>3. job[s].out \in Logins(FriendsOf(u), ThreadsOf(u))
  BY <1>1, Working
<1>4. job[s].out \in AnswersOf(u)
  BY <1>3 DEF AnswersOf, Answers
<1>5. faults' \in Nat /\ faults <= faults' /\ UNCHANGED <<store, texts>> /\ Finish(s, job[s].out)
  BY <1>2 DEF counts, FaultInv, LoginGreet
<1> QED
  BY <1>1, <1>4, <1>5, AnswersOnly

\* A closed session is removed.
LEMMA CleanupKeeps ==
  ASSUME IInv, NEW s \in Servers, NEW u \in Users, Cleanup(s, u)
  PROVE  IInv'
<1>1. StoreInv /\ SessionInv /\ JobInv /\ CommitInv /\ FaultInv /\ WireInv /\ PendingInv
  BY DEF IInv
<1>2. /\ mgr' = [mgr EXCEPT ![s][u] = 0] /\ UNCHANGED <<store, job, clients>>
      /\ \/ uip' = uip
         \/ \E srv \in {NoServer, uip[u].srv}, m \in {0, mgr[s][u]} :
               uip' = [uip EXCEPT ![u] = [srv |-> srv, n |-> m]]
      /\ UNCHANGED counts \/ \E ok \in BOOLEAN : Works(ok)
  BY DEF Cleanup
<1>3. /\ UNCHANGED <<applied, friends, threadOf, chat, lastId, texts, job, link, up, down, phase, cache>>
      /\ faults' \in Nat /\ faults <= faults'
  <2>1. UNCHANGED texts /\ faults' \in Nat /\ faults <= faults'
    BY <1>1, <1>2, TryCounts DEF counts, Works, FaultInv
  <2> QED
    BY <1>2, <2>1 DEF store, clients
<1>4. StoreInv' /\ Grows
  BY <1>1, <1>2, <1>3, NothingChanges
<1>5. SessionInv'
  <2>1. /\ link \in [Users -> Links] /\ uip \in [Users -> Links] /\ mgr \in [Servers -> [Users -> Nat]]
        /\ \A t \in Servers, v \in Users : mgr[t][v] <= link[v].n
    BY <1>1 DEF SessionInv
  <2>2. uip' \in [Users -> Links] /\ mgr' \in [Servers -> [Users -> Nat]]
    <3>1. \A srv \in {NoServer, uip[u].srv}, m \in {0, mgr[s][u]} : [srv |-> srv, n |-> m] \in Links
      BY <2>1 DEF Links
    <3>2. uip' \in [Users -> Links]
      BY <1>2, <2>1, <3>1
    <3>3. [mgr[s] EXCEPT ![u] = 0] \in [Users -> Nat] /\ mgr' = [mgr EXCEPT ![s] = [mgr[s] EXCEPT ![u] = 0]]
      BY <1>2, <2>1
    <3> QED
      BY <2>1, <3>2, <3>3
  <2>3. \A t \in Servers, v \in Users : mgr'[t][v] = mgr[t][v] \/ mgr'[t][v] = 0
    BY <1>2, <2>1
  <2>4. \A v \in Users : link[v].n \in Nat
    BY <2>1 DEF Links
  <2>5. \A t \in Servers, v \in Users : mgr'[t][v] <= link[v].n
    BY <2>1, <2>3, <2>4
  <2> QED
    BY <1>1, <1>3, <2>1, <2>2, <2>5 DEF SessionInv
<1>6. JobInv'
  <2>1. UNCHANGED <<friends, threadOf, chat, texts, job, link>>
    BY <1>3
  <2>2. \A v \in Users : /\ FriendsOf(v)' = FriendsOf(v) /\ ThreadsOf(v)' = ThreadsOf(v)
                           /\ StoredOf(v)' = StoredOf(v)
    BY <2>1 DEF FriendsOf, ThreadsOf, StoredOf, AreFriends
  <2>3. \A v \in Users : WorkOf(v)' = WorkOf(v)
    BY <2>1, <2>2 DEF WorkOf
  <2>4. \A t \in Servers : job[t] # Idle => (Fits(job[t]) /\ Current(t, job[t]))'
    BY <1>1, <2>1, <2>3 DEF JobInv, Fits, Current
  <2> QED
    BY <1>1, <2>1, <2>4 DEF JobInv
<1>7. CommitInv'
  BY <1>1, <1>3 DEF CommitInv, At, HasKey, SameKey
<1>8. FaultInv'
  BY <1>1, <1>3 DEF FaultInv, Unfailing
<1>9. WireInv'
  BY <1>1, <1>3, <1>4, WireStep
<1>10. PendingInv'
  BY <1>1, <1>3 DEF PendingInv, UnderWay, CreateOf
<1> QED
  BY <1>4, <1>5, <1>6, <1>7, <1>8, <1>9, <1>10 DEF IInv

-----------------------------------------------------------------------------
(* The conversation of two friends.                                        *)

NextPlace(op, t) == CASE op = "create" -> "answer"
                      [] op = "text" -> IF t = 0 THEN "refuse" ELSE "save"
                      [] op = "auth" -> IF t = 0 THEN "route" ELSE "save"

\* The step after GetOrCreatePrivateChat.
LEMMA WithThreadGoes ==
  ASSUME NEW s, job[s].op \in Conversing, NEW t
  PROVE  WithThread(s, t) = ToThread(job[s], t, NextPlace(job[s].op, t))
BY DEF WithThread, ToThread, NextPlace, Conversing

\* The job it leaves fits.
LEMMA ThreadFits ==
  ASSUME NEW u, NEW F, NEW T, NEW R, NEW n, NEW j \in Work(u, F, T, R, n), j.op \in Conversing,
         j.pc \in {"find", "insert"}, NEW t \in Nat, t = 0 \/ t = T[j.req.to]
  PROVE  LET k == ToThread(j, t, NextPlace(j.op, t)) IN
         /\ k \in Work(u, F, T, R, n) /\ k.n = j.n /\ k.req = j.req /\ k.op = j.op /\ k.by = j.by
         /\ k.pc = NextPlace(j.op, t) /\ k.thread = t
         /\ k.pc \notin {"commit", "find", "insert"}
<1> DEFINE pc == NextPlace(j.op, t)
           k == Moved(j, pc, t, j.retry, j.todo, j.saved, j.dst, j.out)
<1>1. /\ Full(j) /\ j.retry \in BOOLEAN /\ j.todo \in Seq(Unsaved) /\ j.saved \in Seq(Saved)
      /\ j.dst \in Servers \cup {NoServer} /\ j.out \in Logins(F, T)
      /\ Talk(u, j.req.to, F, T, R, n, j.op, j.pc, j.thread, j.todo, j.saved)
  BY WorkParts
<1>2. /\ pc \in Stages(j.op) /\ pc \notin {"confirm", "commit", "find", "insert"}
      /\ pc = "save" => t # 0 /\ j.op # "create"
  BY DEF NextPlace, Conversing, Stages
<1>3. Talk(u, j.req.to, F, T, R, n, j.op, pc, t, j.todo, j.saved)
  BY <1>1, <1>2 DEF Talk, Saving
<1> HIDE DEF pc
<1>4. /\ k \in Work(u, F, T, R, n) /\ k.n = j.n /\ k.req = j.req /\ k.op = j.op /\ k.pc = pc
      /\ k.by = j.by /\ k.thread = t
  BY <1>1, <1>2, <1>3, WorkMoves
<1>5. ToThread(j, t, pc) = k
  BY <1>1, Assignments
<1> HIDE DEF k
<1> QED
  BY <1>2, <1>4, <1>5 DEF pc

\* A place of the conversation comes next.
LEMMA AgainFits ==
  ASSUME NEW u, NEW F, NEW T, NEW R, NEW n, NEW j \in Work(u, F, T, R, n), j.op \in Conversing,
         j.pc \in {"find", "insert"}, NEW pc \in {"find", "insert"}, NEW retry \in BOOLEAN
  PROVE  LET k == Moved(j, pc, j.thread, retry, j.todo, j.saved, j.dst, j.out) IN
         /\ k \in Work(u, F, T, R, n) /\ k.n = j.n /\ k.req = j.req /\ k.op = j.op /\ k.by = j.by
         /\ k.pc = pc /\ k.retry = retry
<1>1. /\ j.todo \in Seq(Unsaved) /\ j.saved \in Seq(Saved) /\ j.thread \in Nat
      /\ j.dst \in Servers \cup {NoServer} /\ j.out \in Logins(F, T)
      /\ Talk(u, j.req.to, F, T, R, n, j.op, j.pc, j.thread, j.todo, j.saved)
  BY WorkParts
<1>2. pc \in Stages(j.op) /\ pc # "confirm"
  BY DEF Conversing, Stages
<1>3. Talk(u, j.req.to, F, T, R, n, j.op, pc, j.thread, j.todo, j.saved)
  BY <1>1 DEF Talk, Saving
<1> QED
  BY <1>1, <1>2, <1>3, WorkMoves

\* Only handlers of a conversation are at these places.
LEMMA ConversingAt ==
  ASSUME NEW op \in Ops, NEW pc \in Stages(op), pc \in {"find", "insert", "commit", "refuse"}
  PROVE  op \in Conversing /\ (pc \in {"commit", "refuse"} => op # "create")
BY DEF Stages, Ops, Conversing

\* The insert of the conversation.
LEMMA ThreadMade ==
  ASSUME StoreInv, StoreAssumption, NEW u \in Users, NEW v \in Users, CreatePrivateChat(u, v),
         texts' = texts
  PROVE  /\ StoreInv' /\ Grows /\ NewThread \in Nat \ {0}
         /\ threadOf'[<<u, v>>] = NewThread /\ threadOf[<<u, v>>] = 0
<1> DEFINE t == NewThread
           all == {threadOf[p] : p \in Pairs}
<1>1. /\ threadOf \in [Pairs -> Nat]
      /\ \A w, x \in Users : threadOf[<<w, x>>] = threadOf[<<x, w>>]
      /\ \A w, x, y, z \in Users :
           threadOf[<<w, x>>] # 0 /\ threadOf[<<w, x>>] = threadOf[<<y, z>>] =>
              (w = y /\ x = z) \/ (w = z /\ x = y)
  BY DEF StoreInv, ThreadsInv
<1>2. all \in SUBSET Nat /\ all # {} /\ IsFiniteSet(all)
  <2>1. IsFiniteSet(Pairs)
    BY FS_Product DEF StoreAssumption, Pairs
  <2>2. IsFiniteSet(all)
    BY <2>1, ValuesAreFinite
  <2>3. <<u, v>> \in Pairs
    BY DEF Pairs
  <2> QED
    BY <1>1, <2>2, <2>3
<1>3. t \in Nat \ {0} /\ \A p \in Pairs : threadOf[p] < t
  <2> HIDE DEF all
  <2>1. PICK b \in Nat : \A y \in all : y <= b
    BY <1>2, FiniteIsBounded
  <2>2. Max(all) \in all /\ \A y \in all : y <= Max(all)
    BY <1>2, <2>1, MaxIsGreatest
  <2>3. t = 1 + Max(all)
    BY DEF NewThread, all
  <2>4. \A p \in Pairs : threadOf[p] \in all
    BY DEF all
  <2>5. Max(all) \in Nat /\ \A y \in all : y \in Nat
    BY <1>2, <2>2
  <2> DEFINE m == Max(all)
  <2> HIDE DEF m, t
  <2>6. m \in Nat /\ t = 1 + m /\ \A y \in all : y \in Nat /\ y <= m
    BY <2>2, <2>3, <2>5 DEF m
  <2> QED
    BY <2>4, <2>6
<1> HIDE DEF t, all
<1>4. /\ threadOf[<<u, v>>] = 0
      /\ threadOf' = [threadOf EXCEPT ![<<u, v>>] = t, ![<<v, u>>] = t]
      /\ UNCHANGED <<applied, friends, chat, lastId>>
  BY DEF CreatePrivateChat, t
<1>5. \A w, x \in Users : <<w, x>> \in Pairs /\
        threadOf'[<<w, x>>] = IF (w = u /\ x = v) \/ (w = v /\ x = u) THEN t ELSE threadOf[<<w, x>>]
  BY <1>1, <1>4 DEF Pairs
<1>6. threadOf' \in [Pairs -> Nat]
  BY <1>1, <1>3, <1>4
<1>7. \A p \in Pairs : threadOf[p] # 0 => threadOf'[p] = threadOf[p]
  <2>1. threadOf[<<v, u>>] = 0
    BY <1>1, <1>4
  <2> QED
    BY <1>1, <1>4, <2>1
<1>8. ThreadsInv'
  <2>1. \A w, x \in Users : threadOf'[<<w, x>>] = threadOf'[<<x, w>>]
    <3> SUFFICES ASSUME NEW w \in Users, NEW x \in Users
                 PROVE  threadOf'[<<w, x>>] = threadOf'[<<x, w>>]
      OBVIOUS
    <3>1. threadOf[<<w, x>>] = threadOf[<<x, w>>]
      BY <1>1
    <3>2. /\ threadOf'[<<w, x>>] = IF (w = u /\ x = v) \/ (w = v /\ x = u) THEN t ELSE threadOf[<<w, x>>]
          /\ threadOf'[<<x, w>>] = IF (x = u /\ w = v) \/ (x = v /\ w = u) THEN t ELSE threadOf[<<x, w>>]
      BY <1>5
    <3> QED
      BY <3>1, <3>2
  <2>2. ASSUME NEW w \in Users, NEW x \in Users, NEW y \in Users, NEW z \in Users,
               threadOf'[<<w, x>>] # 0, threadOf'[<<w, x>>] = threadOf'[<<y, z>>]
        PROVE  (w = y /\ x = z) \/ (w = z /\ x = y)
    <3>1. threadOf[<<w, x>>] # t /\ threadOf[<<y, z>>] # t
      BY <1>1, <1>3, <1>5
    <3> QED
      BY <1>1, <1>5, <2>2, <3>1
  <2> QED
    BY <1>6, <2>1, <2>2 DEF ThreadsInv
<1>9. ChatInv'
  <2>1. ASSUME NEW r \in chat
        PROVE  Row(r)'
    <3>1. Row(r)
      BY DEF StoreInv, ChatInv
    <3>2. <<r.from, r.to>> \in Pairs /\ threadOf[<<r.from, r.to>>] # 0
      BY <3>1 DEF Row, Pairs
    <3>3. threadOf'[<<r.from, r.to>>] = threadOf[<<r.from, r.to>>]
      BY <1>7, <3>2
    <3> QED
      BY <1>4, <3>1, <3>3 DEF Row
  <2> QED
    BY <1>4, <2>1 DEF StoreInv, ChatInv, SameKey
<1>10. FriendsInv'
  BY <1>4 DEF StoreInv, FriendsInv, AreFriends
<1>11. StoreInv'
  BY <1>8, <1>9, <1>10 DEF StoreInv
<1>12. Grows
  <2>1. texts <= texts'
    BY DEF StoreInv, ChatInv
  <2> QED
    BY <1>4, <1>7, <1>11, <2>1, TablesGrow
<1> QED
  BY <1>3, <1>4, <1>5, <1>11, <1>12 DEF t

\* What is known where a conversation is looked for.
LEMMA Finding ==
  ASSUME IInv, NEW s \in Servers, NEW pc \in {"find", "insert"}, At(s, pc), NEW u, u = job[s].by
  PROVE  LET j == job[s] IN
         /\ j # Idle /\ j.pc = pc /\ j.op \in Conversing /\ u \in Users /\ j.req.to \in FriendsOf(u)
         /\ j.req.to \in Users /\ AreFriends(u, j.req.to) /\ j.retry \in BOOLEAN
         /\ threadOf[<<u, j.req.to>>] = ThreadsOf(u)[j.req.to] /\ threadOf[<<u, j.req.to>>] \in Nat
         /\ j \in Work(u, FriendsOf(u), ThreadsOf(u), StoredOf(u), texts)
         /\ faults = 0 => (pc = "find" /\ j.retry => threadOf[<<u, j.req.to>>] # 0)
                          /\ (pc = "insert" => ~j.retry)
<1>1. job[s] # Idle /\ job[s].pc = pc
  BY AtWork DEF At
<1>2. /\ job[s].op \in Ops /\ job[s].pc \in Stages(job[s].op) /\ u \in Users /\ job[s].retry \in BOOLEAN
      /\ job[s] \in Work(u, FriendsOf(u), ThreadsOf(u), StoredOf(u), texts)
      /\ job[s].op \in Conversing /\ job[s].pc # "confirm" =>
           Talk(u, job[s].req.to, FriendsOf(u), ThreadsOf(u), StoredOf(u), texts,
                job[s].op, job[s].pc, job[s].thread, job[s].todo, job[s].saved)
  BY <1>1, Working
<1>3. job[s].op \in Conversing
  BY <1>1, <1>2, ConversingAt
<1>4. job[s].req.to \in FriendsOf(u)
  BY <1>1, <1>2, <1>3 DEF Talk
<1>5. job[s].req.to \in Users /\ AreFriends(u, job[s].req.to)
  BY <1>4 DEF FriendsOf
<1>6. threadOf[<<u, job[s].req.to>>] \in Nat
  BY <1>2, <1>5 DEF IInv, StoreInv, ThreadsInv, Pairs
<1>7. faults = 0 => Unfailing(job[s])
  BY <1>1 DEF IInv, FaultInv
<1> QED
  BY <1>1, <1>2, <1>3, <1>4, <1>5, <1>6, <1>7 DEF Unfailing, ThreadsOf

\* An attempt that failed leaves a job that fits.
LEMMA RetryFits ==
  ASSUME IInv, NEW s \in Servers, NEW pc \in {"find", "insert"}, At(s, pc), RetryThread(s),
         StoreInv', Grows, chat' = chat, UNCHANGED <<uip, mgr, clients>>,
         faults' \in Nat, faults <= faults',
         faults' = 0 => ~job[s].retry /\ threadOf'[<<job[s].by, job[s].req.to>>] # 0
  PROVE  IInv'
<1> DEFINE u == job[s].by
           j == job[s]
           F == FriendsOf(u)
           T == ThreadsOf(u)
           R == StoredOf(u)
<1>1. /\ j # Idle /\ j.pc = pc /\ j.op \in Conversing /\ u \in Users /\ j.retry \in BOOLEAN
      /\ j \in Work(u, F, T, R, texts)
  BY Finding
<1>2. SessionInv'
  BY SessionStep DEF IInv, clients
<1>3. UNCHANGED <<up, down, cache, link, phase>>
  BY DEF clients
<1>4. CASE j.retry
  <2> DEFINE k == ToThread(j, 0, NextPlace(j.op, 0))
  <2>1. job' = [job EXCEPT ![s] = k]
    BY <1>1, <1>4, WithThreadGoes DEF RetryThread
  <2>2. k \in Work(u, F, T, R, texts) /\ k.n = j.n /\ k.req = j.req /\ k.pc # "commit"
    BY <1>1, ThreadFits
  <2> HIDE DEF k
  <2>3. faults' # 0
    BY <1>4
  <2>4. PICK made : made = k
    OBVIOUS
  <2> QED
    BY <1>1, <1>2, <1>3, <2>1, <2>2, <2>3, <2>4, MovesOn DEF WorkOf
<1>5. CASE ~j.retry
  <2>1. PICK yes \in BOOLEAN : yes = TRUE
    OBVIOUS
  <2> DEFINE k == Moved(j, "find", j.thread, yes, j.todo, j.saved, j.dst, j.out)
  <2>2. k = ToRetry(j, "find", yes)
    <3>1. Full(j)
      BY <1>1, WorkParts
    <3> HIDE DEF j
    <3> QED
      BY <3>1, Assignments
  <2>3. job' = [job EXCEPT ![s] = k]
    <3> HIDE DEF k
    <3> QED
      BY <1>5, <2>1, <2>2 DEF RetryThread, ToRetry
  <2>4. /\ k \in Work(u, F, T, R, texts) /\ k.n = j.n /\ k.req = j.req /\ k.op = j.op /\ k.by = j.by
        /\ k.pc = "find"
    <3>1. j.pc \in {"find", "insert"}
      BY <1>1
    <3> HIDE DEF j
    <3> QED
      BY <1>1, <3>1, AgainFits
  <2> HIDE DEF k
  <2>5. PICK made : made = k
    OBVIOUS
  <2>6. faults' = 0 => Unfailing(made)'
    BY <2>4, <2>5 DEF Unfailing
  <2> QED
    BY <1>1, <1>2, <1>3, <2>3, <2>4, <2>5, <2>6, MovesOn DEF WorkOf
<1> QED
  BY <1>1, <1>4, <1>5

\* Looking for the conversation.
LEMMA FindThreadKeeps ==
  ASSUME IInv, NEW s \in Servers, FindThread(s)
  PROVE  IInv'
<1> DEFINE u == job[s].by
           j == job[s]
           F == FriendsOf(u)
           T == ThreadsOf(u)
           R == StoredOf(u)
           t == threadOf[<<u, j.req.to>>]
<1>1. At(s, "find") /\ UNCHANGED <<store, uip, mgr, clients>>
  BY DEF FindThread
<1>2. /\ j # Idle /\ j.op \in Conversing /\ u \in Users /\ AreFriends(u, j.req.to)
      /\ t = T[j.req.to] /\ t \in Nat /\ j \in Work(u, F, T, R, texts) /\ j.retry \in BOOLEAN
      /\ j.pc = "find" /\ (faults = 0 => (j.retry => t # 0))
  BY <1>1, Finding
<1>3. SessionInv'
  BY <1>1, SessionStep DEF IInv, clients
<1>4. UNCHANGED <<up, down, cache, link, phase>>
  BY <1>1 DEF clients
<1>5. PICK ok \in BOOLEAN :
        /\ Works(ok)
        /\ IF ~ok THEN \/ RetryThread(s)
                       \/ /\ j.op = "text" /\ ~j.retry
                          /\ job' = [job EXCEPT ![s] = WithThread(s, 0)]
           ELSE job' = [job EXCEPT ![s] =
                          IF ~AreFriends(j.by, j.req.to) THEN WithThread(s, 0)
                          ELSE IF t # 0 THEN WithThread(s, t)
                          ELSE [j EXCEPT !.pc = "insert"]]
  BY DEF FindThread
<1>6. faults' \in Nat /\ faults <= faults' /\ texts' = texts /\ (~ok => faults' # 0)
  <2>1. FaultInv /\ Try(ok)
    BY <1>5 DEF IInv, Works
  <2> QED
    BY <2>1, TryCounts
<1>7. ASSUME NEW x \in Nat, x = 0 \/ x = T[j.req.to], x = 0 => faults' # 0,
             job' = [job EXCEPT ![s] = WithThread(s, x)]
      PROVE  IInv'
  <2> DEFINE k == ToThread(j, x, NextPlace(j.op, x))
  <2>1. job' = [job EXCEPT ![s] = k]
    BY <1>2, <1>7, WithThreadGoes
  <2>2. /\ k \in Work(u, F, T, R, texts) /\ k.n = j.n /\ k.req = j.req
        /\ k.pc \notin {"commit", "find", "insert"} /\ k.thread = x
    BY <1>2, <1>7, ThreadFits
  <2> HIDE DEF k
  <2>3. faults' = 0 => Unfailing(k)
    BY <1>7, <2>2 DEF Unfailing
  <2> QED
    BY <1>1, <1>2, <1>3, <1>4, <1>6, <2>1, <2>2, <2>3, Moves DEF WorkOf
<1>8. CASE ~ok /\ RetryThread(s)
  <2>1. StoreInv' /\ Grows /\ chat' = chat
    BY <1>1, <1>6, NothingChanges DEF IInv, store
  <2> QED
    BY <1>1, <1>6, <1>8, <2>1, RetryFits
<1>9. CASE ~ok /\ job' = [job EXCEPT ![s] = WithThread(s, 0)]
  BY <1>6, <1>7, <1>9
<1>10. CASE ok /\ t # 0
  <2>1. job' = [job EXCEPT ![s] = WithThread(s, t)]
    BY <1>2, <1>5, <1>10
  <2> QED
    BY <1>2, <1>7, <1>10, <2>1
<1>11. CASE ok /\ t = 0
  <2> DEFINE k == Moved(j, "insert", j.thread, j.retry, j.todo, j.saved, j.dst, j.out)
  <2>1. k = ToPc(j, "insert")
    BY <1>2, WorkParts, Assignments
  <2>2. job' = [job EXCEPT ![s] = k]
    <3> HIDE DEF k
    <3>1. job' = [job EXCEPT ![s] = [j EXCEPT !.pc = "insert"]]
      BY <1>2, <1>5, <1>11
    <3> QED
      BY <2>1, <3>1 DEF ToPc
  <2>3. /\ k \in Work(u, F, T, R, texts) /\ k.n = j.n /\ k.req = j.req /\ k.op = j.op
        /\ k.pc = "insert" /\ k.retry = j.retry
    BY <1>2, AgainFits
  <2> HIDE DEF k
  <2>4. faults' = 0 => ~j.retry
    <3>1. faults \in Nat
      BY DEF IInv, FaultInv
    <3> QED
      BY <1>2, <1>6, <1>11, <3>1
  <2>5. faults' = 0 => Unfailing(k)
    BY <2>3, <2>4 DEF Unfailing
  <2> QED
    BY <1>1, <1>2, <1>3, <1>4, <1>6, <2>2, <2>3, <2>5, Moves DEF WorkOf
<1> QED
  BY <1>5, <1>8, <1>9, <1>10, <1>11

\* The conversation is made, or was.
LEMMA InsertThreadKeeps ==
  ASSUME IInv, StoreAssumption, NEW s \in Servers, InsertThread(s)
  PROVE  IInv'
<1> DEFINE u == job[s].by
           j == job[s]
           t == threadOf[<<u, j.req.to>>]
<1>1. At(s, "insert") /\ UNCHANGED <<uip, mgr, clients>>
  BY DEF InsertThread
<1>2. /\ j # Idle /\ j.op \in Conversing /\ u \in Users /\ j.pc = "insert" /\ j.req.to \in Users
      /\ j \in Work(u, FriendsOf(u), ThreadsOf(u), StoredOf(u), texts) /\ (faults = 0 => ~j.retry)
  BY <1>1, Finding
<1>3. \/ /\ CreatePrivateChat(u, j.req.to)
         /\ job' = [job EXCEPT ![s] = WithThread(s, NewThread)] /\ UNCHANGED counts
      \/ t # 0 /\ RetryThread(s) /\ UNCHANGED <<store, counts>>
      \/ /\ Works(FALSE) /\ RetryThread(s)
         /\ CreatePrivateChat(u, j.req.to) \/ UNCHANGED store
  BY DEF InsertThread, OrNot
<1>4. StoreInv /\ SessionInv /\ JobInv /\ CommitInv /\ FaultInv
  BY DEF IInv
<1>5. faults' \in Nat /\ faults <= faults' /\ texts' = texts
  <2>1. CASE UNCHANGED counts
    BY <1>4, <2>1 DEF counts, FaultInv
  <2>2. CASE Works(FALSE)
    BY <1>4, <2>2, TryCounts DEF Works
  <2> QED
    BY <1>3, <2>1, <2>2
<1>6. CASE /\ CreatePrivateChat(u, j.req.to)
           /\ job' = [job EXCEPT ![s] = WithThread(s, NewThread)] /\ UNCHANGED counts
  <2>1. CreatePrivateChat(u, j.req.to) /\ job' = [job EXCEPT ![s] = WithThread(s, NewThread)]
    BY <1>6
  <2> DEFINE n == NewThread
             k == ToThread(j, n, NextPlace(j.op, n))
  <2>2. /\ StoreInv' /\ Grows /\ n \in Nat \ {0} /\ threadOf'[<<u, j.req.to>>] = n
    BY <1>2, <1>4, <1>5, <2>1, ThreadMade
  <2>3. chat' = chat
    BY <2>1 DEF CreatePrivateChat
  <2> HIDE DEF n
  <2>4. job' = [job EXCEPT ![s] = k]
    BY <1>2, <2>1, WithThreadGoes DEF n
  <2>5. PICK w \in Users : w = u
    BY <1>2
  <2>6. PICK i : i = j
    OBVIOUS
  <2>7. i \in Work(w, FriendsOf(w), ThreadsOf(w), StoredOf(w), texts)'
    BY <1>2, <2>2, <2>5, <2>6, AllGrow DEF WorkOf
  <2>8. n = ThreadsOf(w)'[i.req.to]
    BY <1>2, <2>2, <2>5, <2>6 DEF ThreadsOf
  <2>9. i.op \in Conversing /\ i.pc \in {"find", "insert"} /\ n \in Nat
    BY <1>2, <2>2, <2>6
  <2> DEFINE ki == ToThread(i, n, NextPlace(i.op, n))
  <2>10. /\ ki \in Work(w, FriendsOf(w), ThreadsOf(w), StoredOf(w), texts)'
         /\ ki.n = i.n /\ ki.req = i.req
         /\ ki.pc \notin {"commit", "find", "insert"} /\ ki.thread = n
    <3> DEFINE F2 == FriendsOf(w)'
               T2 == ThreadsOf(w)'
               R2 == StoredOf(w)'
               n2 == texts'
    <3>1. i \in Work(w, F2, T2, R2, n2) /\ n = T2[i.req.to]
      BY <2>7, <2>8
    <3> HIDE DEF F2, T2, R2, n2
    <3>2. /\ ki \in Work(w, F2, T2, R2, n2) /\ ki.n = i.n /\ ki.req = i.req
          /\ ki.pc \notin {"commit", "find", "insert"} /\ ki.thread = n
      BY <2>9, <3>1, ThreadFits
    <3> QED
      BY <3>2 DEF F2, T2, R2, n2
  <2> HIDE DEF ki
  <2>11. PICK kk : kk = ki
    OBVIOUS
  <2>12. kk \in WorkOf(w)' /\ kk.n = job[s].n /\ kk.req = job[s].req /\ kk.pc # "commit"
    BY <2>6, <2>10, <2>11 DEF WorkOf
  <2>13. Unfailing(kk)'
    BY <2>2, <2>10, <2>11 DEF Unfailing
  <2>14. job' = [job EXCEPT ![s] = kk]
    BY <2>4, <2>6, <2>11 DEF ki
  <2>15. CommitInv'
    BY <1>4, <2>3, <2>12, <2>14, CommitStep
  <2>16. SessionInv' /\ UNCHANGED <<up, down, cache, link, phase>>
    BY <1>1, <1>4, SessionStep DEF clients
  <2> QED
    BY <1>2, <1>5, <2>2, <2>5, <2>12, <2>13, <2>14, <2>15, <2>16, GoesOn
<1>7. CASE t # 0 /\ RetryThread(s) /\ UNCHANGED <<store, counts>>
  <2>1. faults' = 0 => ~j.retry /\ threadOf'[<<u, j.req.to>>] # 0
    BY <1>2, <1>4, <1>5, <1>7 DEF FaultInv, store
  <2>2. StoreInv' /\ Grows /\ chat' = chat
    BY <1>4, <1>5, <1>7, NothingChanges DEF store
  <2> QED
    BY <1>1, <1>5, <1>7, <2>1, <2>2, RetryFits
<1>8. CASE Works(FALSE) /\ RetryThread(s) /\ (CreatePrivateChat(u, j.req.to) \/ UNCHANGED store)
  <2>1. faults' # 0
    BY <1>4, <1>8, TryCounts DEF Works
  <2>2. StoreInv' /\ Grows
    BY <1>2, <1>4, <1>5, <1>8, ThreadMade, NothingChanges
  <2>3. chat' = chat
    BY <1>8 DEF CreatePrivateChat, store
  <2> QED
    BY <1>1, <1>5, <1>8, <2>1, <2>2, <2>3, RetryFits
<1> QED
  BY <1>3, <1>6, <1>7, <1>8

-----------------------------------------------------------------------------
(* Saving messages.                                                        *)

\* What is left to save after one message.
LEMMA RestFits ==
  ASSUME NEW u, NEW to, NEW n, NEW todo \in Seq(Unsaved), todo # <<>>, NEW saved,
         ToSave(todo, u, to, n), Apart(saved, todo)
  PROVE  /\ Tail(todo) \in Seq(Unsaved) /\ (Len(todo) # 1 => Tail(todo) # <<>>)
         /\ ToSave(Tail(todo), u, to, n) /\ Apart(saved, Tail(todo))
<1> DEFINE rest == Tail(todo)
<1>1. Len(todo) \in Nat /\ DOMAIN todo = 1..Len(todo) /\ Len(todo) # 0
  BY LenProperties, EmptySeq
<1>2. rest \in Seq(Unsaved) /\ Len(rest) = Len(todo) - 1
      /\ \A i \in 1..Len(rest) : rest[i] = todo[i + 1]
  BY HeadTailProperties
<1> HIDE DEF rest
<1>3. DOMAIN rest = 1..(Len(todo) - 1) /\ \A i \in DOMAIN rest : i + 1 \in DOMAIN todo /\ rest[i] = todo[i + 1]
  BY <1>1, <1>2, LenProperties
<1>4. Len(todo) # 1 => rest # <<>>
  BY <1>1, <1>2, EmptySeq
<1>5. ToSave(rest, u, to, n)
  BY <1>3 DEF ToSave
<1>6. Distinct(rest)
  <2>1. Distinct(todo)
    BY DEF Apart
  <2> QED
    BY <1>3, <2>1 DEF Distinct
<1>7. \A i \in DOMAIN saved, k \in DOMAIN rest : saved[i].cid # rest[k].cid
  BY <1>3 DEF Apart
<1>8. Apart(saved, rest)
  BY <1>6, <1>7 DEF Apart
<1> QED
  BY <1>2, <1>4, <1>5, <1>8 DEF rest

\* What is left to save and what is saved after one message.
LEMMA SavedFits ==
  ASSUME NEW u, NEW to, NEW n, NEW Rv, NEW todo \in Seq(Unsaved), todo # <<>>,
         NEW saved \in Seq(Saved), ToSave(todo, u, to, n), AsStored(saved, Rv), Apart(saved, todo),
         NEW x \in Saved, x.cid = Head(todo).cid,
         \A st \in Statuses : [cid |-> x.cid, id |-> x.id, from |-> x.from, status |-> st] \in Rv
  PROVE  /\ Tail(todo) \in Seq(Unsaved) /\ (Len(todo) # 1 => Tail(todo) # <<>>)
         /\ ToSave(Tail(todo), u, to, n) /\ Apart(saved, Tail(todo))
         /\ Append(saved, x) \in Seq(Saved) /\ AsStored(Append(saved, x), Rv)
         /\ Apart(Append(saved, x), Tail(todo))
<1> DEFINE rest == Tail(todo)
           more == Append(saved, x)
<1>1. Len(todo) \in Nat /\ DOMAIN todo = 1..Len(todo) /\ Len(todo) # 0
  BY LenProperties, EmptySeq
<1>2. Len(saved) \in Nat /\ DOMAIN saved = 1..Len(saved)
  BY LenProperties
<1>3. rest \in Seq(Unsaved) /\ Len(rest) = Len(todo) - 1 /\ Head(todo) = todo[1]
      /\ \A i \in 1..Len(rest) : rest[i] = todo[i + 1]
  BY HeadTailProperties
<1>4. more \in Seq(Saved) /\ Len(more) = Len(saved) + 1 /\ more[Len(saved) + 1] = x
      /\ \A i \in 1..Len(saved) : more[i] = saved[i]
  BY AppendProperties
<1> HIDE DEF rest, more
<1>5. DOMAIN rest = 1..(Len(todo) - 1) /\ \A i \in DOMAIN rest : i + 1 \in DOMAIN todo /\ rest[i] = todo[i + 1]
  BY <1>1, <1>3, LenProperties
<1>6. DOMAIN more = 1..(Len(saved) + 1)
      /\ \A i \in DOMAIN more : (i \in DOMAIN saved /\ more[i] = saved[i]) \/ (i = Len(saved) + 1 /\ more[i] = x)
  BY <1>2, <1>4, LenProperties
<1>7. Len(todo) # 1 => rest # <<>>
  BY <1>1, <1>3, EmptySeq
<1>8. ToSave(rest, u, to, n)
  BY <1>5 DEF ToSave
<1>9. AsStored(more, Rv)
  BY <1>6 DEF AsStored
<1>10. Distinct(rest)
  <2>1. Distinct(todo)
    BY DEF Apart
  <2> QED
    BY <1>5, <2>1 DEF Distinct
<1>11. Distinct(more)
  <2>1. /\ Distinct(saved) /\ \A i \in DOMAIN saved : saved[i].cid # x.cid
    <3>1. 1 \in DOMAIN todo
      BY <1>1
    <3> QED
      BY <1>3, <3>1 DEF Apart
  <2> QED
    BY <1>2, <1>6, <2>1 DEF Distinct
<1>12. \A i \in DOMAIN more, k \in DOMAIN rest : more[i].cid # rest[k].cid
  <2>1. \A k \in DOMAIN rest : rest[k].cid # x.cid
    <3>1. 1 \in DOMAIN todo /\ Distinct(todo)
      BY <1>1 DEF Apart
    <3> QED
      BY <1>3, <1>5, <3>1 DEF Distinct
  <2>2. \A i \in DOMAIN saved, k \in DOMAIN rest : saved[i].cid # rest[k].cid
    BY <1>5 DEF Apart
  <2> QED
    BY <1>6, <2>1, <2>2
<1>13. Apart(saved, rest)
  <2>1. \A i \in DOMAIN saved, k \in DOMAIN rest : saved[i].cid # rest[k].cid
    BY <1>5 DEF Apart
  <2>2. Distinct(saved)
    BY DEF Apart
  <2> QED
    BY <1>10, <2>1, <2>2 DEF Apart
<1> QED
  BY <1>3, <1>4, <1>7, <1>8, <1>9, <1>10, <1>11, <1>12, <1>13 DEF Apart, rest, more

\* The job once a message is dealt with.
LEMMA NextSaveFits ==
  ASSUME NEW u, NEW F, NEW T, NEW R, NEW n, NEW j \in Work(u, F, T, R, n),
         j.op \in {"text", "auth"}, j.pc = "commit", NEW saved \in Seq(Saved),
         NEW todo \in Seq(Unsaved), Len(j.todo) # 1 => todo # <<>>,
         ToSave(todo, u, j.req.to, n), AsStored(saved, R[j.req.to]), Apart(saved, todo)
  PROVE  LET pc == IF Len(j.todo) = 1 THEN "route" ELSE "save"
             k == ToNext(j, todo, saved, pc) IN
         /\ k \in Work(u, F, T, R, n) /\ k.n = j.n /\ k.req = j.req /\ k.op = j.op
         /\ k.pc # "commit" /\ k.pc \in {"route", "save"} /\ k.thread # 0
<1> DEFINE pc == IF Len(j.todo) = 1 THEN "route" ELSE "save"
           k == Moved(j, pc, j.thread, j.retry, todo, saved, j.dst, j.out)
<1>1. j.op \in Conversing /\ j.pc # "confirm"
  BY DEF Conversing
<1>2. /\ Full(j) /\ j.retry \in BOOLEAN /\ j.thread \in Nat
      /\ j.dst \in Servers \cup {NoServer} /\ j.out \in Logins(F, T)
      /\ Talk(u, j.req.to, F, T, R, n, j.op, j.pc, j.thread, j.todo, j.saved)
  BY <1>1, WorkParts
<1>3. pc \in Stages(j.op) /\ pc # "confirm" /\ pc # "commit" /\ pc \in {"route", "save"}
  BY DEF Stages
<1>4. Talk(u, j.req.to, F, T, R, n, j.op, pc, j.thread, todo, saved) /\ j.thread # 0
  BY <1>2 DEF Talk, Saving
<1> HIDE DEF pc
<1>5. /\ k \in Work(u, F, T, R, n) /\ k.n = j.n /\ k.req = j.req /\ k.op = j.op /\ k.pc = pc
      /\ k.thread = j.thread
  BY <1>2, <1>3, <1>4, WorkMoves
<1>6. ToNext(j, todo, saved, pc) = k
  BY <1>2, Assignments
<1> HIDE DEF k
<1> QED
  BY <1>3, <1>4, <1>5, <1>6 DEF pc

\* A client id of from for to.
IsCid(cid, from, to, n) == \E k \in 0..n : cid = <<from, to, k>>

\* What is known where a message is saved.
LEMMA SavingAt ==
  ASSUME IInv, NEW s \in Servers, NEW pc \in {"save", "commit"}, At(s, pc),
         job[s].op \in {"text", "auth"}, NEW u, u = job[s].by
  PROVE  LET j == job[s]
             m == Head(j.todo)
             to == Peer(u, j.req.to, m.from) IN
         /\ j # Idle /\ j.pc = pc /\ u \in Users /\ j.req.to \in Users /\ u # j.req.to
         /\ j \in Work(u, FriendsOf(u), ThreadsOf(u), StoredOf(u), texts)
         /\ Talk(u, j.req.to, FriendsOf(u), ThreadsOf(u), StoredOf(u), texts, j.op, j.pc, j.thread,
                 j.todo, j.saved)
         /\ j.thread \in Nat \ {0} /\ j.thread = threadOf[<<u, j.req.to>>]
         /\ j.thread = threadOf[<<m.from, to>>]
         /\ j.todo \in Seq(Unsaved) /\ j.todo # <<>> /\ j.saved \in Seq(Saved)
         /\ m.from \in {u, j.req.to} /\ m.from \in Users /\ to \in Users /\ m.from # to
         /\ m.cid \in Cids /\ IsCid(m.cid, m.from, to, texts)
         /\ Between([from |-> m.from, to |-> to], u, j.req.to)
<1> DEFINE j == job[s]
           m == Head(j.todo)
           to == Peer(u, j.req.to, m.from)
<1>1. j # Idle /\ j.pc = pc
  BY AtWork DEF At
<1>2. /\ u \in Users /\ j.thread \in Nat /\ j.todo \in Seq(Unsaved) /\ j.saved \in Seq(Saved)
      /\ j \in Work(u, FriendsOf(u), ThreadsOf(u), StoredOf(u), texts)
      /\ j.op \in Conversing /\ j.pc # "confirm" =>
           Talk(u, j.req.to, FriendsOf(u), ThreadsOf(u), StoredOf(u), texts, j.op, j.pc, j.thread,
                j.todo, j.saved)
  BY <1>1, Working
<1>3. Talk(u, j.req.to, FriendsOf(u), ThreadsOf(u), StoredOf(u), texts, j.op, j.pc, j.thread,
           j.todo, j.saved)
  BY <1>1, <1>2 DEF Conversing
<1>4. j.req.to \in FriendsOf(u) /\ j.thread \in {0, ThreadsOf(u)[j.req.to]} /\ j.thread # 0
      /\ j.todo # <<>> /\ ToSave(j.todo, u, j.req.to, texts)
  BY <1>1, <1>3 DEF Talk, Saving
<1>5. j.req.to \in Users /\ u # j.req.to /\ AreFriends(u, j.req.to)
  BY <1>2, <1>4 DEF FriendsOf, IInv, StoreInv, FriendsInv
<1>6. j.thread = threadOf[<<u, j.req.to>>] /\ threadOf[<<u, j.req.to>>] = threadOf[<<j.req.to, u>>]
  BY <1>2, <1>4, <1>5 DEF ThreadsOf, IInv, StoreInv, ThreadsInv
<1>7. 1 \in DOMAIN j.todo /\ m = j.todo[1] /\ m \in Unsaved
  <2> DEFINE todo == j.todo
  <2>1. todo \in Seq(Unsaved) /\ todo # <<>>
    BY <1>2, <1>4
  <2> HIDE DEF todo
  <2>2. Len(todo) \in Nat /\ Len(todo) # 0 /\ DOMAIN todo = 1..Len(todo)
    BY <2>1, LenProperties, EmptySeq
  <2>3. Head(todo) = todo[1] /\ 1 \in DOMAIN todo
    BY <2>1, <2>2, HeadTailProperties
  <2>4. todo[1] \in Unsaved
    BY <2>1, <2>2, <2>3, ElementOfSeq
  <2> QED
    BY <2>3, <2>4 DEF todo
<1>8. m.from \in {u, j.req.to} /\ IsCid(m.cid, m.from, to, texts)
  BY <1>4, <1>7 DEF ToSave, IsCid
<1>9. m.from \in Users /\ m.cid \in Cids
  BY <1>7 DEF Unsaved
<1>10. to \in Users /\ m.from # to /\ threadOf[<<m.from, to>>] = j.thread
       /\ Between([from |-> m.from, to |-> to], u, j.req.to)
  BY <1>2, <1>5, <1>6, <1>8 DEF Peer, Between
<1> QED
  BY <1>1, <1>2, <1>3, <1>4, <1>5, <1>6, <1>8, <1>9, <1>10

\* The insert of a message.
LEMMA MessageInserted ==
  ASSUME StoreInv, NEW from \in Users, NEW to \in Users, from # to, NEW thread \in Nat \ {0},
         thread = threadOf[<<from, to>>], NEW cid \in Cids,
         IsCid(cid, from, to, texts),
         InsertMessage(thread, from, to, cid), texts' = texts
  PROVE  /\ StoreInv' /\ Grows /\ chat \subseteq chat' /\ \E r \in chat' : SameKey(r, thread, from, cid)
         /\ \A r \in chat : SameKey(r, thread, from, cid) => r.live
         /\ \A r \in chat' : r \in chat \/ (SameKey(r, thread, from, cid)
                                           /\ \A q \in chat : ~SameKey(q, thread, from, cid))
<1> DEFINE same == {r \in chat : SameKey(r, thread, from, cid)}
           new == [id |-> lastId + 1, thread |-> thread, from |-> from, to |-> to, cid |-> cid,
                   live |-> FALSE]
<1>1. /\ lastId \in Nat /\ texts \in Nat /\ IsFiniteSet(chat) /\ \A r \in chat : Row(r)
      /\ \A r, q \in chat : r.id = q.id \/ SameKey(r, q.thread, q.from, q.cid) => r = q
  BY DEF StoreInv, ChatInv
<1>2. /\ \A r \in same : r.live
      /\ same # {} => UNCHANGED <<chat, lastId>>
      /\ same = {} => lastId' = lastId + 1 /\ chat' = chat \cup {new}
      /\ UNCHANGED <<applied, friends, threadOf>>
  BY DEF InsertMessage
<1>3. FriendsInv' /\ ThreadsInv'
  BY <1>2 DEF StoreInv, FriendsInv, ThreadsInv, AreFriends
<1>4. CASE same # {}
  <2>1. ChatInv'
    BY <1>1, <1>2, <1>4 DEF ChatInv, Row, SameKey
  <2>2. StoreInv'
    BY <1>3, <2>1 DEF StoreInv
  <2>3. Grows
    BY <1>1, <1>2, <1>4, <2>2, TablesGrow
  <2> QED
    BY <1>2, <1>4, <2>2, <2>3
<1>5. CASE same = {}
  <2>1. PICK w : w = new
    OBVIOUS
  <2>2. lastId' = lastId + 1 /\ chat' = chat \cup {w}
    BY <1>2, <1>5, <2>1
  <2>3. \A q \in chat : ~SameKey(q, thread, from, cid)
    BY <1>5
  <2>4. /\ w.id = lastId + 1 /\ w.thread = thread /\ w.from = from /\ w.to = to /\ w.cid = cid
        /\ w \in [id : Nat, thread : Nat, from : Users, to : Users, cid : Cids, live : BOOLEAN]
    BY <1>1, <2>1
  <2> HIDE DEF new
  <2>5. Row(w)'
    BY <1>1, <1>2, <2>2, <2>4 DEF Row, IsCid
  <2>6. ASSUME NEW r \in chat
        PROVE  Row(r)' /\ r.id # w.id
    <3>1. Row(r)
      BY <1>1
    <3>2. r.id \in 1..lastId
      BY <3>1 DEF Row
    <3>3. lastId \in Nat /\ UNCHANGED <<threadOf, texts>>
      BY <1>1, <1>2
    <3> QED
      BY <1>1, <2>2, <2>4, <3>1, <3>2, <3>3 DEF Row
  <2>7. \A r \in chat' : Row(r)'
    BY <2>2, <2>5, <2>6
  <2>8. ASSUME NEW r \in chat', NEW q \in chat', r.id = q.id \/ SameKey(r, q.thread, q.from, q.cid)
        PROVE  r = q
    <3>1. CASE r \in chat /\ q \in chat
      BY <1>1, <2>8, <3>1
    <3>2. CASE r = w /\ q \in chat
      BY <2>3, <2>4, <2>6, <2>8, <3>2 DEF SameKey
    <3>3. CASE r \in chat /\ q = w
      BY <2>3, <2>4, <2>6, <2>8, <3>3 DEF SameKey
    <3> QED
      BY <2>2, <3>1, <3>2, <3>3
  <2>9. IsFiniteSet(chat')
    BY <1>1, <2>2, FS_AddElement
  <2>10. ChatInv'
    BY <1>1, <2>2, <2>7, <2>8, <2>9 DEF ChatInv, SameKey
  <2>11. StoreInv'
    BY <1>3, <2>10 DEF StoreInv
  <2>12. Grows
    BY <1>1, <1>2, <2>2, <2>11, TablesGrow
  <2>13. SameKey(w, thread, from, cid)
    BY <2>4 DEF SameKey
  <2> QED
    BY <2>2, <2>3, <2>11, <2>12, <2>13
<1> QED
  BY <1>4, <1>5

\* The commit.
LEMMA MessageCommitted ==
  ASSUME StoreInv, NEW thread, NEW from, NEW cid, CommitMessage(thread, from, cid), texts' = texts
  PROVE  /\ StoreInv' /\ Grows
         /\ \A r \in chat : \E q \in chat' : /\ q.id = r.id /\ q.thread = r.thread /\ q.from = r.from
                                             /\ q.to = r.to /\ q.cid = r.cid
                                             /\ (q.live <=> r.live \/ SameKey(r, thread, from, cid))
         /\ \A q \in chat' : \E r \in chat : /\ q.id = r.id /\ q.thread = r.thread /\ q.from = r.from
                                             /\ q.to = r.to /\ q.cid = r.cid
                                             /\ (q.live <=> r.live \/ SameKey(r, thread, from, cid))
<1> DEFINE next(r) == IF SameKey(r, thread, from, cid) THEN [r EXCEPT !.live = TRUE] ELSE r
<1>1. /\ lastId \in Nat /\ texts \in Nat /\ IsFiniteSet(chat) /\ \A r \in chat : Row(r)
      /\ \A r, q \in chat : r.id = q.id \/ SameKey(r, q.thread, q.from, q.cid) => r = q
  BY DEF StoreInv, ChatInv
<1>2. chat' = {next(r) : r \in chat} /\ UNCHANGED <<applied, friends, threadOf, lastId>>
  BY DEF CommitMessage
<1>3. ASSUME NEW r \in chat
      PROVE  /\ next(r).id = r.id /\ next(r).thread = r.thread /\ next(r).from = r.from
             /\ next(r).to = r.to /\ next(r).cid = r.cid
             /\ (next(r).live <=> r.live \/ SameKey(r, thread, from, cid))
             /\ r.live => next(r) = r
             /\ next(r) \in [id : Nat, thread : Nat, from : Users, to : Users, cid : Cids, live : BOOLEAN]
  <2>1. r \in [id : Nat, thread : Nat, from : Users, to : Users, cid : Cids, live : BOOLEAN]
    BY <1>1 DEF Row
  <2>2. CASE SameKey(r, thread, from, cid)
    <3>1. next(r) = [r EXCEPT !.live = TRUE]
      BY <2>2
    <3>2. r.live => [r EXCEPT !.live = TRUE] = r
      BY <2>1
    <3> QED
      BY <2>1, <2>2, <3>1, <3>2
  <2>3. CASE ~SameKey(r, thread, from, cid)
    BY <2>1, <2>3
  <2> QED
    BY <2>2, <2>3
<1>4. FriendsInv' /\ ThreadsInv'
  BY <1>2 DEF StoreInv, FriendsInv, ThreadsInv, AreFriends
<1>5. IsFiniteSet(chat')
  <2> DEFINE f == [r \in chat |-> next(r)]
  <2>1. chat' = {f[r] : r \in chat}
    BY <1>2
  <2> HIDE DEF f
  <2>2. IsFiniteSet({f[r] : r \in chat})
    BY <1>1, ValuesAreFinite
  <2> QED
    BY <2>1, <2>2
<1> HIDE DEF next
<1>6. ASSUME NEW r \in chat
      PROVE  Row(next(r))'
  <2>1. Row(r)
    BY <1>1
  <2> QED
    BY <1>2, <1>3, <2>1 DEF Row
<1>7. \A r, q \in chat' : r.id = q.id \/ SameKey(r, q.thread, q.from, q.cid) => r = q
  BY <1>1, <1>2, <1>3 DEF SameKey
<1>8. ChatInv'
  BY <1>1, <1>2, <1>5, <1>6, <1>7 DEF ChatInv, SameKey
<1>9. StoreInv'
  BY <1>4, <1>8 DEF StoreInv
<1>10. \A r \in chat : r.live => r \in chat'
  BY <1>2, <1>3
<1>11. Grows
  BY <1>1, <1>2, <1>9, <1>10, TablesGrow
<1> QED
  BY <1>2, <1>3, <1>9, <1>11

\* The rollback.
LEMMA MessageRolledBack ==
  ASSUME StoreInv, NEW thread, NEW from, NEW cid, RollbackMessage(thread, from, cid), texts' = texts
  PROVE  StoreInv' /\ Grows
<1>1. /\ lastId \in Nat /\ texts \in Nat /\ IsFiniteSet(chat) /\ \A r \in chat : Row(r)
      /\ \A r, q \in chat : r.id = q.id \/ SameKey(r, q.thread, q.from, q.cid) => r = q
  BY DEF StoreInv, ChatInv
<1>2. /\ chat' = {r \in chat : r.live \/ ~SameKey(r, thread, from, cid)}
      /\ UNCHANGED <<applied, friends, threadOf, lastId>>
  BY DEF RollbackMessage
<1>3. IsFiniteSet(chat')
  BY <1>1, <1>2, FS_Subset
<1>4. FriendsInv' /\ ThreadsInv'
  BY <1>2 DEF StoreInv, FriendsInv, ThreadsInv, AreFriends
<1>5. \A r \in chat' : Row(r)'
  BY <1>1, <1>2 DEF Row
<1>6. ChatInv'
  BY <1>1, <1>2, <1>3, <1>5 DEF ChatInv, SameKey
<1>7. StoreInv'
  BY <1>4, <1>6 DEF StoreInv
<1> QED
  BY <1>1, <1>2, <1>7, TablesGrow

\* What the rows are after a commit or a rollback of s.
Like(r, q) == /\ q.id = r.id /\ q.thread = r.thread /\ q.from = r.from /\ q.to = r.to
              /\ q.cid = r.cid /\ (r.live => q.live)
RowsStay(s) == /\ \A r \in chat : \/ \E q \in chat' : Like(r, q)
                                  \/ ~r.live /\ HasKey(r, job[s])
               /\ \A q \in chat' : \E r \in chat : Like(r, q)

\* A message of s is no longer between its insert and its commit.
LEMMA CommitEnds ==
  ASSUME CommitInv, JobInv, NEW s \in Servers, At(s, "commit"), NEW k, k.pc # "commit",
         job' = [job EXCEPT ![s] = k], RowsStay(s)
  PROVE  CommitInv'
<1>1. \A t \in Servers : job'[t] = IF t = s THEN k ELSE job[t]
  BY DEF JobInv
<1>2. \A t \in Servers : At(t, "commit")' => t # s /\ At(t, "commit") /\ job'[t] = job[t]
  BY <1>1 DEF At
<1>3. \A r, q, j : Like(r, q) => (HasKey(q, j) <=> HasKey(r, j))
  BY DEF Like, HasKey, SameKey
<1>4. ASSUME NEW t \in Servers, At(t, "commit")'
      PROVE  \E q \in chat' : HasKey(q, job'[t])
  <2>1. t # s /\ At(t, "commit") /\ job'[t] = job[t]
    BY <1>2, <1>4
  <2>2. PICK r \in chat : HasKey(r, job[t])
    BY <2>1 DEF CommitInv
  <2>3. HasKey(r, job[s]) => r.live
    BY <2>1, <2>2 DEF CommitInv
  <2>4. PICK q \in chat' : Like(r, q)
    BY <2>3 DEF RowsStay
  <2> QED
    BY <1>3, <2>1, <2>2, <2>4
<1>5. ASSUME NEW t \in Servers, NEW t2 \in Servers, NEW q \in chat', t # t2,
             At(t, "commit")', At(t2, "commit")', HasKey(q, job'[t]), HasKey(q, job'[t2])
      PROVE  q.live
  <2>1. PICK r \in chat : Like(r, q)
    BY DEF RowsStay
  <2>2. At(t, "commit") /\ At(t2, "commit") /\ job'[t] = job[t] /\ job'[t2] = job[t2]
    BY <1>2, <1>5
  <2>3. HasKey(r, job[t]) /\ HasKey(r, job[t2])
    BY <1>3, <1>5, <2>1, <2>2
  <2>4. r.live
    BY <1>5, <2>2, <2>3 DEF CommitInv
  <2> QED
    BY <2>1, <2>4 DEF Like
<1>6. \A r : \A t : HasKey(r, job[t])' <=> HasKey(r, job'[t])
  BY DEF HasKey, SameKey
<1> QED
  BY <1>4, <1>5, <1>6 DEF CommitInv

\* What is saved: nothing more, or the message, as it is now stored.
SavedIn(saved, j, Rv) ==
    \/ saved = j.saved
    \/ \E x \in Saved : /\ saved = Append(j.saved, x) /\ x.cid = Head(j.todo).cid
                        /\ \A st \in Statuses :
                             [cid |-> x.cid, id |-> x.id, from |-> x.from, status |-> st] \in Rv

\* The handler goes on to the next message.
LEMMA SavedGoesOn ==
  ASSUME IInv, NEW s \in Servers, At(s, "commit"), job[s].op \in {"text", "auth"}, StoreInv', Grows,
         RowsStay(s), NEW u, u = job[s].by, NEW i, i = job[s], NEW saved, NextSave(s, saved),
         SavedIn(saved, i, StoredOf(u)'[i.req.to]),
         UNCHANGED <<uip, mgr, clients>>, texts' = texts, faults' \in Nat, faults <= faults'
  PROVE  IInv'
<1>1. StoreInv /\ SessionInv /\ JobInv /\ CommitInv /\ FaultInv
  BY DEF IInv
<1>2. /\ i # Idle /\ i.pc = "commit" /\ u \in Users /\ i \in WorkOf(u) /\ i.op \in {"text", "auth"}
  <2>1. job[s] # Idle /\ job[s].pc = "commit"
    BY AtWork DEF At
  <2> QED
    BY <1>1, <2>1, JobFits
<1>3. i \in WorkOf(u)'
  BY <1>2, AllGrow
<1> DEFINE F == FriendsOf(u)'
           T == ThreadsOf(u)'
           R == StoredOf(u)'
           n == texts'
           todo == Tail(i.todo)
           pc == IF Len(i.todo) = 1 THEN "route" ELSE "save"
           k == ToNext(i, todo, saved, pc)
<1>4. i \in Work(u, F, T, R, n)
  BY <1>3 DEF WorkOf
<1>5. SavedIn(saved, i, R[i.req.to])
  OBVIOUS
<1> HIDE DEF F, T, R, n
<1>6. /\ Full(i) /\ i.todo \in Seq(Unsaved) /\ i.saved \in Seq(Saved)
      /\ Talk(u, i.req.to, F, T, R, n, i.op, i.pc, i.thread, i.todo, i.saved)
  <2>1. i.op \in Conversing /\ i.pc # "confirm"
    BY <1>2 DEF Conversing
  <2> QED
    BY <1>4, <2>1, WorkParts
<1>7. /\ i.todo # <<>> /\ ToSave(i.todo, u, i.req.to, n) /\ AsStored(i.saved, R[i.req.to])
      /\ Apart(i.saved, i.todo)
  BY <1>2, <1>6 DEF Talk, Saving
<1>8. /\ todo \in Seq(Unsaved) /\ (Len(i.todo) # 1 => todo # <<>>) /\ ToSave(todo, u, i.req.to, n)
      /\ saved \in Seq(Saved) /\ AsStored(saved, R[i.req.to]) /\ Apart(saved, todo)
  <2> DEFINE old == i.todo
             had == i.saved
             to == i.req.to
             Rv == R[to]
  <2>1. CASE saved = i.saved
    <3>1. /\ Tail(old) \in Seq(Unsaved) /\ ToSave(Tail(old), u, to, n) /\ Apart(had, Tail(old))
          /\ Len(old) # 1 => Tail(old) # <<>>
      <4>1. old \in Seq(Unsaved) /\ old # <<>> /\ ToSave(old, u, to, n) /\ Apart(had, old)
        BY <1>6, <1>7
      <4> HIDE DEF old, had, to
      <4> QED
        BY <4>1, RestFits
    <3> QED
      BY <1>6, <1>7, <2>1, <3>1
  <2>2. ASSUME NEW x \in Saved, saved = Append(i.saved, x), x.cid = Head(i.todo).cid,
               \A st \in Statuses :
                 [cid |-> x.cid, id |-> x.id, from |-> x.from, status |-> st] \in R[i.req.to]
        PROVE  /\ todo \in Seq(Unsaved) /\ (Len(i.todo) # 1 => todo # <<>>) /\ ToSave(todo, u, i.req.to, n)
               /\ saved \in Seq(Saved) /\ AsStored(saved, R[i.req.to]) /\ Apart(saved, todo)
    <3>1. /\ old \in Seq(Unsaved) /\ old # <<>> /\ ToSave(old, u, to, n) /\ Apart(had, old)
          /\ had \in Seq(Saved) /\ AsStored(had, Rv) /\ x.cid = Head(old).cid
          /\ \A st \in Statuses :
               [cid |-> x.cid, id |-> x.id, from |-> x.from, status |-> st] \in Rv
      BY <1>6, <1>7, <2>2
    <3> HIDE DEF old, had, to, Rv
    <3>2. /\ Tail(old) \in Seq(Unsaved) /\ (Len(old) # 1 => Tail(old) # <<>>)
          /\ ToSave(Tail(old), u, to, n)
          /\ Append(had, x) \in Seq(Saved) /\ AsStored(Append(had, x), Rv)
          /\ Apart(Append(had, x), Tail(old))
      BY <3>1, SavedFits
    <3> QED
      BY <2>2, <3>2 DEF old, had, to, Rv
  <2> QED
    BY <1>5, <2>1, <2>2 DEF SavedIn
<1> HIDE DEF todo
<1>9. /\ k \in Work(u, F, T, R, n) /\ k.n = i.n /\ k.req = i.req /\ k.op = i.op
      /\ k.pc # "commit" /\ k.pc \in {"route", "save"} /\ k.thread # 0
  BY <1>2, <1>4, <1>8, NextSaveFits
<1>10. job' = [job EXCEPT ![s] = k]
  <2>1. job = [t \in Servers |-> job[t]]
    BY <1>1 DEF JobInv
  <2> QED
    BY <2>1 DEF NextSave, ToNext, todo
<1> HIDE DEF k
<1>11. PICK kk : kk = k
  OBVIOUS
<1>12. kk \in WorkOf(u)' /\ kk.n = job[s].n /\ kk.req = job[s].req /\ kk.pc # "commit"
       /\ job' = [job EXCEPT ![s] = kk]
  BY <1>9, <1>10, <1>11 DEF WorkOf, F, T, R, n
<1>13. Unfailing(kk)'
  BY <1>9, <1>11 DEF Unfailing
<1>14. CommitInv'
  BY <1>1, <1>12, CommitEnds
<1>15. SessionInv' /\ UNCHANGED <<up, down, cache, link, phase>>
  BY <1>1, SessionStep DEF clients
<1> QED
  BY <1>2, <1>12, <1>13, <1>14, <1>15, GoesOn

\* The job after the insert.
LEMMA CommitFits ==
  ASSUME NEW u, NEW F, NEW T, NEW R, NEW n, NEW j \in Work(u, F, T, R, n),
         j.op \in {"text", "auth"}, j.pc = "save"
  PROVE  LET k == ToPc(j, "commit") IN
         /\ k \in Work(u, F, T, R, n) /\ k.n = j.n /\ k.req = j.req /\ k.op = j.op /\ k.pc = "commit"
         /\ k.thread = j.thread /\ k.todo = j.todo
<1> DEFINE k == Moved(j, "commit", j.thread, j.retry, j.todo, j.saved, j.dst, j.out)
<1>1. j.op \in Conversing /\ j.pc # "confirm"
  BY DEF Conversing
<1>2. /\ Full(j) /\ j.retry \in BOOLEAN /\ j.thread \in Nat
      /\ j.todo \in Seq(Unsaved) /\ j.saved \in Seq(Saved)
      /\ j.dst \in Servers \cup {NoServer} /\ j.out \in Logins(F, T)
      /\ Talk(u, j.req.to, F, T, R, n, j.op, j.pc, j.thread, j.todo, j.saved)
  BY <1>1, WorkParts
<1>3. PICK pc : pc = "commit"
  OBVIOUS
<1>4. pc \in Stages(j.op) /\ pc # "confirm"
  BY <1>3 DEF Stages
<1>5. Talk(u, j.req.to, F, T, R, n, j.op, pc, j.thread, j.todo, j.saved)
  BY <1>2, <1>3 DEF Talk, Saving
<1>6. LET q == Moved(j, pc, j.thread, j.retry, j.todo, j.saved, j.dst, j.out)
      IN  /\ q \in Work(u, F, T, R, n) /\ q.n = j.n /\ q.req = j.req /\ q.op = j.op /\ q.pc = pc
          /\ q.thread = j.thread /\ q.todo = j.todo
  BY <1>2, <1>4, <1>5, WorkMoves
<1>7. ToPc(j, "commit") = k
  BY <1>2, Assignments
<1> QED
  BY <1>3, <1>6, <1>7

\* A message is inserted.
LEMMA SaveMessageKeeps ==
  ASSUME IInv, NEW s \in Servers, SaveMessage(s)
  PROVE  IInv'
<1> DEFINE u == job[s].by
           j == job[s]
           m == Head(j.todo)
           to == Peer(u, j.req.to, m.from)
<1>1. StoreInv /\ SessionInv /\ JobInv /\ CommitInv /\ FaultInv
  BY DEF IInv
<1>2. At(s, "save") /\ j.op \in {"text", "auth"} /\ UNCHANGED counts
  BY DEF SaveMessage
<1>3. /\ j # Idle /\ j.pc = "save" /\ u \in Users /\ u # j.req.to
      /\ j \in Work(u, FriendsOf(u), ThreadsOf(u), StoredOf(u), texts)
      /\ j.thread \in Nat \ {0} /\ j.thread = threadOf[<<m.from, to>>]
      /\ m.from \in Users /\ to \in Users /\ m.from # to
      /\ m.cid \in Cids /\ IsCid(m.cid, m.from, to, texts)
  BY <1>2, SavingAt
<1>4. faults' \in Nat /\ faults <= faults' /\ texts' = texts /\ faults' = faults
  BY <1>1, <1>2 DEF counts, FaultInv
<1>5. CASE ~IsMember(j.thread, j.by, j.req.to)
  <2>1. Refuse(s) /\ UNCHANGED store
    BY <1>5 DEF SaveMessage
  <2> QED
    BY <1>2, <1>3, <1>4, <2>1, Refuses
<1>6. CASE IsMember(j.thread, j.by, j.req.to)
  <2>1. /\ InsertMessage(j.thread, m.from, Other(s, m.from), m.cid) /\ GoTo(s, "commit")
        /\ UNCHANGED <<uip, mgr, clients>>
    BY <1>6 DEF SaveMessage
  <2>2. Other(s, m.from) = to
    BY DEF Other, Peer
  <2>3. PICK th \in Nat \ {0}, from \in Users, x \in Users, cid \in Cids :
          th = j.thread /\ from = m.from /\ x = to /\ cid = m.cid
    BY <1>3
  <2>4. InsertMessage(th, from, x, cid) /\ from # x /\ th = threadOf[<<from, x>>]
        /\ IsCid(cid, from, x, texts)
    BY <1>3, <2>1, <2>2, <2>3
  <2>5. /\ StoreInv' /\ Grows /\ chat \subseteq chat' /\ \E r \in chat' : SameKey(r, th, from, cid)
        /\ \A r \in chat : SameKey(r, th, from, cid) => r.live
        /\ \A r \in chat' : r \in chat \/ (SameKey(r, th, from, cid)
                                           /\ \A q \in chat : ~SameKey(q, th, from, cid))
    BY <1>1, <1>4, <2>4, MessageInserted
  <2> DEFINE k == ToPc(j, "commit")
  <2>6. /\ k \in WorkOf(u) /\ k.n = j.n /\ k.req = j.req /\ k.op = j.op /\ k.pc = "commit"
        /\ k.thread = j.thread /\ k.todo = j.todo
    BY <1>2, <1>3, CommitFits DEF WorkOf
  <2>7. job' = [job EXCEPT ![s] = k]
    <3>1. job = [t \in Servers |-> job[t]]
      BY <1>1 DEF JobInv
    <3> QED
      BY <2>1, <3>1 DEF GoTo, ToPc
  <2> HIDE DEF k
  <2>8. PICK kk : kk = k
    OBVIOUS
  <2>9. PICK w \in Users : w = u
    BY <1>3
  <2>10. kk \in WorkOf(w)'
    BY <2>5, <2>6, <2>8, <2>9, AllGrow
  <2>11. /\ kk.n = job[s].n /\ kk.req = job[s].req /\ kk.pc = "commit"
         /\ job' = [job EXCEPT ![s] = kk] /\ kk.thread = th /\ Head(kk.todo).from = from
         /\ Head(kk.todo).cid = cid
    BY <2>3, <2>6, <2>7, <2>8
  <2>12. \A t \in Servers : job'[t] = IF t = s THEN kk ELSE job[t]
    BY <1>1, <2>11 DEF JobInv
  <2>13. \A r : HasKey(r, kk) <=> SameKey(r, th, from, cid)
    BY <2>11 DEF HasKey
  <2>14. \A t \in Servers : t # s /\ At(t, "commit")' => At(t, "commit") /\ job'[t] = job[t]
    BY <2>12 DEF At
  <2>15. ASSUME NEW t \in Servers, At(t, "commit")'
         PROVE  \E r \in chat' : HasKey(r, job'[t])
    <3>1. CASE t = s
      BY <2>5, <2>12, <2>13, <3>1
    <3>2. CASE t # s
      BY <1>1, <2>5, <2>14, <2>15, <3>2 DEF CommitInv
    <3> QED
      BY <3>1, <3>2
  <2>16. ASSUME NEW t \in Servers, t # s, At(t, "commit")', NEW r \in chat', HasKey(r, job'[t])
         PROVE  r \in chat
    <3>1. PICK q \in chat : HasKey(q, job[t])
      BY <1>1, <2>14, <2>16 DEF CommitInv
    <3>2. HasKey(r, job[t])
      BY <2>14, <2>16
    <3> QED
      BY <2>5, <3>1, <3>2 DEF HasKey, SameKey
  <2>17. ASSUME NEW t \in Servers, NEW t2 \in Servers, NEW r \in chat', t # t2,
                At(t, "commit")', At(t2, "commit")', HasKey(r, job'[t]), HasKey(r, job'[t2])
         PROVE  r.live
    <3>1. CASE t # s /\ t2 # s
      BY <1>1, <2>14, <2>16, <2>17, <3>1 DEF CommitInv
    <3>2. CASE t = s
      <4>1. t2 # s /\ r \in chat /\ HasKey(r, kk)
        BY <2>12, <2>16, <2>17, <3>2
      <4> QED
        BY <2>5, <2>13, <4>1
    <3>3. CASE t2 = s
      <4>1. t # s /\ r \in chat /\ HasKey(r, kk)
        BY <2>12, <2>16, <2>17, <3>3
      <4> QED
        BY <2>5, <2>13, <4>1
    <3> QED
      BY <3>1, <3>2, <3>3
  <2>18. \A r : \A t : HasKey(r, job[t])' <=> HasKey(r, job'[t])
    BY DEF HasKey, SameKey
  <2>19. CommitInv'
    BY <2>15, <2>17, <2>18 DEF CommitInv
  <2>20. SessionInv' /\ UNCHANGED <<up, down, cache, link, phase>>
    BY <1>1, <2>1, SessionStep DEF clients
  <2>21. Unfailing(kk)'
    BY <2>11 DEF Unfailing
  <2> QED
    BY <1>3, <1>4, <2>5, <2>9, <2>10, <2>11, <2>19, <2>20, <2>21, GoesOn
<1> QED
  BY <1>5, <1>6

\* What is known of the row of a message that is about to be committed.
LEMMA RowOf ==
  ASSUME IInv, NEW s \in Servers, At(s, "commit"), job[s].op \in {"text", "auth"}
  PROVE  LET j == job[s]
             m == Head(j.todo) IN
         \E r \in chat : /\ HasKey(r, j) /\ r.id = IdOf(j.thread, m.from, m.cid)
                         /\ r.id \in Nat /\ r.from = m.from /\ r.cid = m.cid
                         /\ Between(r, j.by, j.req.to)
<1> DEFINE j == job[s]
           m == Head(j.todo)
           u == j.by
           to == Peer(u, j.req.to, m.from)
<1>1. StoreInv /\ CommitInv
  BY DEF IInv
<1>2. /\ m.from \in Users /\ to \in Users /\ IsCid(m.cid, m.from, to, texts)
      /\ Between([from |-> m.from, to |-> to], u, j.req.to)
  BY SavingAt
<1>3. \E r \in chat : SameKey(r, j.thread, m.from, m.cid)
  BY <1>1 DEF CommitInv, HasKey
<1> DEFINE r == CHOOSE x \in chat : SameKey(x, j.thread, m.from, m.cid)
<1>4. r \in chat /\ SameKey(r, j.thread, m.from, m.cid)
  BY <1>3
<1>5. r.id = IdOf(j.thread, m.from, m.cid)
  BY DEF IdOf
<1> HIDE DEF r
<1>6. Row(r)
  BY <1>1, <1>4 DEF StoreInv, ChatInv
<1>7. r.id \in Nat /\ \E k \in 0..texts : r.cid = <<r.from, r.to, k>>
  BY <1>6 DEF Row
<1>8. r.from = m.from /\ r.cid = m.cid
  BY <1>4 DEF SameKey
<1>9. r.to = to
  <2>1. PICK k : m.cid = <<m.from, to, k>>
    BY <1>2 DEF IsCid
  <2>2. PICK l : r.cid = <<r.from, r.to, l>>
    BY <1>7
  <2> QED
    BY <1>8, <2>1, <2>2
<1>10. Between(r, u, j.req.to)
  BY <1>2, <1>8, <1>9 DEF Between
<1> QED
  BY <1>4, <1>5, <1>7, <1>8, <1>10 DEF HasKey

\* A message is committed.
LEMMA CommitSaveKeeps ==
  ASSUME IInv, NEW s \in Servers, CommitSave(s), job[s].op \in {"text", "auth"}
  PROVE  IInv'
<1> DEFINE j == job[s]
           m == Head(j.todo)
           id == IdOf(j.thread, m.from, m.cid)
<1>1. /\ At(s, "commit") /\ CommitMessage(j.thread, m.from, m.cid)
      /\ NextSave(s, Append(j.saved, [from |-> m.from, cid |-> m.cid, id |-> id]))
      /\ UNCHANGED <<uip, mgr, clients, counts>>
  BY DEF CommitSave
<1>2. StoreInv /\ FaultInv
  BY DEF IInv
<1>3. texts' = texts /\ faults' \in Nat /\ faults <= faults'
  BY <1>1, <1>2 DEF counts, FaultInv
<1>4. StoreInv' /\ Grows /\ RowsStay(s)
  <2>1. PICK th, from, cid : th = j.thread /\ from = m.from /\ cid = m.cid
    OBVIOUS
  <2>2. CommitMessage(th, from, cid)
    BY <1>1, <2>1
  <2>3. /\ StoreInv' /\ Grows
        /\ \A r \in chat : \E q \in chat' : /\ q.id = r.id /\ q.thread = r.thread /\ q.from = r.from
                                            /\ q.to = r.to /\ q.cid = r.cid
                                            /\ (q.live <=> r.live \/ SameKey(r, th, from, cid))
        /\ \A q \in chat' : \E r \in chat : /\ q.id = r.id /\ q.thread = r.thread /\ q.from = r.from
                                            /\ q.to = r.to /\ q.cid = r.cid
                                            /\ (q.live <=> r.live \/ SameKey(r, th, from, cid))
    BY <1>2, <1>3, <2>2, MessageCommitted
  <2> QED
    BY <2>3 DEF RowsStay, Like
<1>5. PICK r \in chat : /\ HasKey(r, j) /\ r.id = id /\ r.id \in Nat /\ r.from = m.from /\ r.cid = m.cid
                        /\ Between(r, j.by, j.req.to)
  BY <1>1, RowOf
<1>6. PICK q \in chat' : q.id = r.id /\ q.from = r.from /\ q.to = r.to /\ q.cid = r.cid /\ q.live
  <2> DEFINE next(x) == IF SameKey(x, j.thread, m.from, m.cid) THEN [x EXCEPT !.live = TRUE] ELSE x
  <2>1. chat' = {next(x) : x \in chat}
    BY <1>1 DEF CommitMessage
  <2>2. next(r) = [r EXCEPT !.live = TRUE]
    BY <1>5 DEF HasKey
  <2>3. r \in [id : Nat, thread : Nat, from : Users, to : Users, cid : Cids, live : BOOLEAN]
    BY <1>2 DEF StoreInv, ChatInv, Row
  <2>4. /\ next(r).id = r.id /\ next(r).from = r.from /\ next(r).to = r.to /\ next(r).cid = r.cid
        /\ next(r).live
    BY <2>2, <2>3
  <2> QED
    BY <2>1, <2>4
<1>7. PICK x \in Saved : x = [from |-> m.from, cid |-> m.cid, id |-> id]
  <2>1. m.from \in Users /\ m.cid \in Cids
    BY <1>1, SavingAt
  <2> QED
    BY <1>5, <2>1 DEF Saved
<1>8. x.cid = m.cid /\ x.id = id /\ x.from = m.from
  BY <1>7
<1>9. PICK u, i : u = job[s].by /\ i = job[s]
  OBVIOUS
<1>10. i.req.to \in Users
  BY <1>1, <1>9, SavingAt
<1>11. ASSUME NEW st \in Statuses
       PROVE  [cid |-> x.cid, id |-> x.id, from |-> x.from, status |-> st] \in StoredOf(u)'[i.req.to]
  <2> DEFINE y == [cid |-> x.cid, id |-> x.id, from |-> x.from, status |-> st]
  <2>1. y \in Message
    BY DEF Message, Saved, Cids
  <2>2. y.cid = q.cid /\ y.id = q.id /\ y.from = q.from
    BY <1>5, <1>6, <1>8
  <2> HIDE DEF y
  <2>3. Between(q, u, i.req.to) /\ IsCopy(y, q)
    BY <1>5, <1>6, <1>9, <2>2 DEF Between, IsCopy
  <2> QED
    BY <1>10, <2>1, <2>3 DEF StoredOf, y
<1>12. PICK saved : saved = Append(j.saved, x)
  OBVIOUS
<1>13. SavedIn(saved, i, StoredOf(u)'[i.req.to])
  BY <1>8, <1>9, <1>11, <1>12 DEF SavedIn
<1>14. NextSave(s, saved)
  BY <1>1, <1>7, <1>12
<1> QED
  BY <1>1, <1>3, <1>4, <1>9, <1>13, <1>14, SavedGoesOn

\* The transaction failed: it was rolled back or its answer was lost.
LEMMA SaveFailsKeeps ==
  ASSUME IInv, NEW s \in Servers, SaveFails(s), job[s].op \in {"text", "auth"}
  PROVE  IInv'
<1> DEFINE j == job[s]
           u == job[s].by
           m == Head(j.todo)
<1>1. StoreInv /\ SessionInv /\ JobInv /\ CommitInv /\ FaultInv
  BY DEF IInv
<1>2. /\ At(s, "commit") /\ Try(FALSE)
      /\ RollbackMessage(j.thread, m.from, m.cid) \/ CommitMessage(j.thread, m.from, m.cid)
      /\ IF j.op = "text" THEN Refuse(s) ELSE NextSave(s, j.saved) /\ UNCHANGED <<uip, mgr, clients>>
  BY DEF SaveFails
<1>3. texts' = texts /\ faults' \in Nat /\ faults <= faults'
  BY <1>1, <1>2, TryCounts
<1>4. StoreInv' /\ Grows /\ RowsStay(s)
  <2>1. PICK th, from, cid : th = j.thread /\ from = m.from /\ cid = m.cid
    OBVIOUS
  <2>2. CASE CommitMessage(th, from, cid)
    <3>1. /\ StoreInv' /\ Grows
          /\ \A r \in chat : \E q \in chat' : /\ q.id = r.id /\ q.thread = r.thread /\ q.from = r.from
                                              /\ q.to = r.to /\ q.cid = r.cid
                                              /\ (q.live <=> r.live \/ SameKey(r, th, from, cid))
          /\ \A q \in chat' : \E r \in chat : /\ q.id = r.id /\ q.thread = r.thread /\ q.from = r.from
                                              /\ q.to = r.to /\ q.cid = r.cid
                                              /\ (q.live <=> r.live \/ SameKey(r, th, from, cid))
      BY <1>1, <1>3, <2>2, MessageCommitted
    <3> QED
      BY <3>1 DEF RowsStay, Like
  <2>3. CASE RollbackMessage(th, from, cid)
    <3>1. StoreInv' /\ Grows
      BY <1>1, <1>3, <2>3, MessageRolledBack
    <3>2. chat' = {r \in chat : r.live \/ ~SameKey(r, th, from, cid)}
      BY <2>3 DEF RollbackMessage
    <3>3. \A r : HasKey(r, j) <=> SameKey(r, th, from, cid)
      BY <2>1 DEF HasKey
    <3>4. \A r : Like(r, r)
      BY DEF Like
    <3> QED
      BY <3>1, <3>2, <3>3, <3>4 DEF RowsStay
  <2> QED
    BY <1>2, <2>1, <2>2, <2>3
<1>5. CASE j.op = "text"
  <2> DEFINE f == [op |-> "text", ok |-> FALSE, peer |-> j.req.to, cid |-> j.req.cid]
  <2>1. Finish(s, f)
    BY <1>2, <1>5 DEF Refuse
  <2>2. j # Idle /\ u \in Users
    BY <1>1, <1>2, AtWork, JobFits
  <2>3. j.req.to \in FriendsOf(u) /\ j.req.cid \in Cids
    <3>1. j.op = j.req.op /\ Asks(u, FriendsOf(u), ThreadsOf(u), texts, j.req)
      BY <2>2, Working
    <3> QED
      BY <1>5, <3>1 DEF Asks
  <2>4. f \in Refusals(FriendsOf(u))
    BY <2>3 DEF Refusals
  <2> HIDE DEF f
  <2>5. f \in AnswersOf(u)
    BY <2>4 DEF AnswersOf, Answers
  <2>6. PICK w, g : w \in Users /\ w = u /\ g = f
    BY <2>2
  <2>7. g \in AnswersOf(w)' /\ w = job[s].by /\ Finish(s, g)
    BY <1>4, <2>1, <2>5, <2>6, AllGrow
  <2>8. CommitInv'
    <3>1. job' = [job EXCEPT ![s] = Idle]
      BY <2>1 DEF Finish
    <3>2. PICK k : k = Idle
      OBVIOUS
    <3>3. k.pc # "commit" /\ job' = [job EXCEPT ![s] = k]
      BY <3>1, <3>2 DEF Idle
    <3> QED
      BY <1>1, <1>2, <1>4, <3>3, CommitEnds
  <2> QED
    BY <1>3, <1>4, <1>5, <2>2, <2>7, <2>8, Ends
<1>6. CASE j.op # "text"
  <2>1. PICK w, i, saved : w = job[s].by /\ i = job[s] /\ saved = i.saved
    OBVIOUS
  <2>2. NextSave(s, saved) /\ UNCHANGED <<uip, mgr, clients>>
    BY <1>2, <1>6, <2>1
  <2>3. SavedIn(saved, i, StoredOf(w)'[i.req.to])
    BY <2>1 DEF SavedIn
  <2> QED
    BY <1>2, <1>3, <1>4, <2>1, <2>2, <2>3, SavedGoesOn
<1> QED
  BY <1>5, <1>6

\* A text is refused.
LEMMA RefuseTextKeeps ==
  ASSUME IInv, NEW s \in Servers, RefuseText(s)
  PROVE  IInv'
<1>1. At(s, "refuse") /\ Refuse(s) /\ UNCHANGED <<store, counts>>
  BY DEF RefuseText
<1>2. job[s] # Idle /\ job[s].pc = "refuse"
  BY <1>1, AtWork DEF At
<1>3. job[s].op \in Ops /\ job[s].pc \in Stages(job[s].op)
  BY <1>2, Working
<1>4. job[s].op # "create"
  BY <1>2, <1>3, ConversingAt
<1>5. texts' = texts /\ faults' \in Nat /\ faults <= faults'
  BY <1>1 DEF counts, IInv, FaultInv
<1> QED
  BY <1>1, <1>2, <1>4, <1>5, Refuses

-----------------------------------------------------------------------------
(* Applications.                                                           *)

\* A job that goes on from a place that is not of a conversation.
LEMMA StepFits ==
  ASSUME NEW u, NEW F, NEW T, NEW R, NEW n, NEW j \in Work(u, F, T, R, n),
         NEW pc \in Stages(j.op), pc \notin {"confirm", "find", "insert", "save", "commit"},
         j.op \in Conversing => j.pc # "confirm"
  PROVE  LET k == ToPc(j, pc) IN
         /\ k \in Work(u, F, T, R, n) /\ k.n = j.n /\ k.req = j.req /\ k.op = j.op /\ k.pc = pc
         /\ k.thread = j.thread
<1> DEFINE k == Moved(j, pc, j.thread, j.retry, j.todo, j.saved, j.dst, j.out)
<1>1. /\ Full(j) /\ j.retry \in BOOLEAN /\ j.thread \in Nat
      /\ j.todo \in Seq(Unsaved) /\ j.saved \in Seq(Saved)
      /\ j.dst \in Servers \cup {NoServer} /\ j.out \in Logins(F, T)
      /\ j.op \in Conversing =>
           Talk(u, j.req.to, F, T, R, n, j.op, j.pc, j.thread, j.todo, j.saved)
  BY WorkParts
<1>2. j.op \in Conversing => Talk(u, j.req.to, F, T, R, n, j.op, pc, j.thread, j.todo, j.saved)
  BY <1>1 DEF Talk, Saving
<1>3. /\ k \in Work(u, F, T, R, n) /\ k.n = j.n /\ k.req = j.req /\ k.op = j.op /\ k.pc = pc
      /\ k.thread = j.thread
  BY <1>1, <1>2, WorkMoves
<1>4. ToPc(j, pc) = k
  BY <1>1, Assignments
<1> QED
  BY <1>3, <1>4

\* The application is stored.
LEMMA ApplyStored ==
  ASSUME StoreInv, NEW u \in Users, NEW v \in Users, u # v, StoreApply(u, v), texts' = texts
  PROVE  StoreInv' /\ Grows
<1>1. /\ applied' = [applied EXCEPT ![<<u, v>>] = IF @ = NoApply THEN 0 ELSE @]
      /\ UNCHANGED <<friends, threadOf, chat, lastId>>
  BY DEF StoreApply
<1>2. /\ applied \in [Pairs -> {NoApply, 0, 1}] /\ friends \subseteq Pairs /\ <<u, v>> \in Pairs
      /\ \A w, x \in Users : applied[<<w, x>>] # NoApply => w # x
  BY DEF StoreInv, FriendsInv, Pairs
<1>3. applied' \in [Pairs -> {NoApply, 0, 1}]
  BY <1>1, <1>2
<1>4. \A w, x \in Users : applied'[<<w, x>>] # NoApply => w # x
  BY <1>1, <1>2 DEF Pairs
<1>5. FriendsInv'
  BY <1>1, <1>2, <1>3, <1>4 DEF StoreInv, FriendsInv, AreFriends
<1>6. StoreInv'
  BY <1>1, <1>5 DEF StoreInv, ThreadsInv, ChatInv, Row, SameKey
<1>7. texts <= texts'
  BY DEF StoreInv, ChatInv
<1> QED
  BY <1>1, <1>6, <1>7, TablesGrow

\* The friendship is stored, in both directions.
LEMMA ApplyConfirmed ==
  ASSUME StoreInv, NEW u \in Users, NEW v \in Users, ConfirmApply(u, v), texts' = texts
  PROVE  StoreInv' /\ Grows /\ u # v /\ AreFriends(u, v)'
<1>1. /\ applied[<<v, u>>] # NoApply /\ applied' = [applied EXCEPT ![<<v, u>>] = 1]
      /\ friends' = friends \cup {<<u, v>>, <<v, u>>} /\ UNCHANGED <<threadOf, chat, lastId>>
  BY DEF ConfirmApply, HasApply
<1>2. /\ applied \in [Pairs -> {NoApply, 0, 1}] /\ friends \subseteq Pairs
      /\ \A w, x \in Users : applied[<<w, x>>] # NoApply => w # x
      /\ \A w, x \in Users : <<w, x>> \in friends => <<x, w>> \in friends /\ w # x
  BY DEF StoreInv, FriendsInv, AreFriends
<1>3. u # v
  BY <1>1, <1>2
<1>4. applied' \in [Pairs -> {NoApply, 0, 1}] /\ friends' \subseteq Pairs
  BY <1>1, <1>2 DEF Pairs
<1>5. \A w, x \in Users : applied'[<<w, x>>] # NoApply => w # x
  BY <1>1, <1>2, <1>3 DEF Pairs
<1>6. \A w, x \in Users : <<w, x>> \in friends' => <<x, w>> \in friends' /\ w # x
  BY <1>1, <1>2, <1>3
<1>7. FriendsInv'
  BY <1>4, <1>5, <1>6 DEF FriendsInv, AreFriends
<1>8. StoreInv'
  BY <1>1, <1>7 DEF StoreInv, ThreadsInv, ChatInv, Row, SameKey
<1>9. texts <= texts'
  BY DEF StoreInv, ChatInv
<1>10. Grows
  BY <1>1, <1>8, <1>9, TablesGrow
<1> QED
  BY <1>1, <1>3, <1>8, <1>10 DEF AreFriends

\* AddFriendApply.
LEMMA SaveApplyKeeps ==
  ASSUME IInv, NEW s \in Servers, SaveApply(s)
  PROVE  IInv'
<1> DEFINE u == job[s].by
           j == job[s]
<1>1. At(s, "save") /\ j.op = "apply" /\ StoreInv /\ SessionInv /\ JobInv /\ CommitInv /\ FaultInv
  BY DEF SaveApply, IInv
<1>2. j # Idle /\ j.pc = "save"
  BY <1>1, AtWork DEF At
<1>3. /\ u \in Users /\ j \in WorkOf(u) /\ j.req.to \in Users /\ j.req.to # u
  <2>1. /\ u \in Users /\ j \in WorkOf(u) /\ j.op = j.req.op
        /\ Asks(u, FriendsOf(u), ThreadsOf(u), texts, j.req)
    BY <1>2, Working
  <2> QED
    BY <1>1, <2>1 DEF Asks
<1>4. CASE Works(FALSE) /\ Refuse(s) /\ (StoreApply(u, j.req.to) \/ UNCHANGED store)
  <2>1. texts' = texts /\ faults' \in Nat /\ faults <= faults'
    BY <1>1, <1>4, TryCounts DEF Works
  <2>2. StoreInv' /\ Grows
    BY <1>1, <1>3, <1>4, <2>1, ApplyStored, NothingChanges
  <2>3. chat' = chat
    BY <1>4 DEF StoreApply, store
  <2> QED
    BY <1>1, <1>2, <1>4, <2>1, <2>2, <2>3, RefusesOn
<1>5. CASE StoreApply(u, j.req.to) /\ GoTo(s, "route") /\ UNCHANGED <<uip, mgr, clients, counts>>
  <2>1. texts' = texts /\ faults' \in Nat /\ faults <= faults' /\ chat' = chat
    BY <1>1, <1>5 DEF counts, FaultInv, StoreApply
  <2>2. PICK w, v, i : w \in Users /\ v \in Users /\ w = u /\ v = j.req.to /\ i = j
    BY <1>3
  <2>3. StoreInv' /\ Grows
    BY <1>1, <1>3, <1>5, <2>1, <2>2, ApplyStored
  <2>4. i \in WorkOf(w)'
    BY <1>3, <2>2, <2>3, AllGrow
  <2>5. PICK k, pc : k = ToPc(i, pc) /\ pc = "route"
    OBVIOUS
  <2>6. k \in WorkOf(w)' /\ k.n = i.n /\ k.req = i.req /\ k.op = i.op /\ k.pc = "route"
    <3> DEFINE F == FriendsOf(w)'
               T == ThreadsOf(w)'
               R == StoredOf(w)'
               n == texts'
    <3>1. i \in Work(w, F, T, R, n)
      BY <2>4 DEF WorkOf
    <3>2. i.op = "apply" /\ pc \in Stages(i.op) /\ pc \notin {"confirm", "find", "insert", "save", "commit"}
      BY <1>1, <2>2, <2>5 DEF Stages
    <3>3. i.op \notin Conversing
      BY <3>2 DEF Conversing
    <3> HIDE DEF F, T, R, n
    <3>4. k \in Work(w, F, T, R, n) /\ k.n = i.n /\ k.req = i.req /\ k.op = i.op /\ k.pc = pc
      BY <2>5, <3>1, <3>2, <3>3, StepFits
    <3> QED
      BY <2>5, <3>4 DEF WorkOf, F, T, R, n
  <2>7. job' = [job EXCEPT ![s] = k]
    <3>1. job = [t \in Servers |-> job[t]]
      BY <1>1 DEF JobInv
    <3> QED
      BY <1>5, <2>2, <2>5, <3>1 DEF GoTo, ToPc
  <2>8. CommitInv'
    BY <1>1, <2>1, <2>6, <2>7, CommitStep
  <2>9. SessionInv' /\ UNCHANGED <<up, down, cache, link, phase>>
    BY <1>1, <1>5, SessionStep DEF clients
  <2>10. Unfailing(k)'
    BY <1>1, <2>2, <2>6 DEF Unfailing, Conversing
  <2> QED
    BY <1>2, <2>1, <2>2, <2>3, <2>6, <2>7, <2>8, <2>9, <2>10, GoesOn
<1> QED
  BY <1>4, <1>5 DEF SaveApply, OrNot

\* The welcome messages are two, of the two.
LEMMA WelcomesFit ==
  ASSUME NEW u \in Users, NEW v \in Users, u # v, NEW n \in Nat, NEW Rv
  PROVE  LET todo == Welcomes(u, v) IN
         /\ todo \in Seq(Unsaved) /\ todo # <<>> /\ ToSave(todo, u, v, n)
         /\ AsStored(<<>>, Rv) /\ Apart(<<>>, todo)
<1>1. PICK x, y : /\ x = [from |-> v, cid |-> <<v, u, 0>>]
                  /\ y = [from |-> u, cid |-> <<u, v, 0>>]
  OBVIOUS
<1>2. Welcomes(u, v) = <<x, y>>
  BY <1>1 DEF Welcomes
<1>3. /\ x \in Unsaved /\ y \in Unsaved /\ x.cid # y.cid
      /\ x.from = v /\ y.from = u /\ x.cid = <<v, u, 0>> /\ y.cid = <<u, v, 0>>
  BY <1>1 DEF Unsaved, Cids
<1> DEFINE todo == <<x, y>>
<1>4. /\ todo \in Seq(Unsaved) /\ todo # <<>> /\ DOMAIN todo = {1, 2}
      /\ todo[1] = x /\ todo[2] = y
  BY <1>3
<1> HIDE DEF todo
<1>5. ASSUME NEW i \in {1, 2}
      PROVE  todo[i].from \in {u, v}
             /\ \E k \in 0..n : todo[i].cid = <<todo[i].from, Peer(u, v, todo[i].from), k>>
  <2>1. 0 \in 0..n
    OBVIOUS
  <2>2. CASE i = 1
    BY <1>3, <1>4, <2>1, <2>2 DEF Peer
  <2>3. CASE i = 2
    BY <1>3, <1>4, <2>1, <2>3 DEF Peer
  <2> QED
    BY <2>2, <2>3
<1>6. ToSave(todo, u, v, n)
  BY <1>4, <1>5 DEF ToSave
<1>7. Distinct(todo)
  BY <1>3, <1>4 DEF Distinct
<1>8. AsStored(<<>>, Rv) /\ Apart(<<>>, todo)
  BY <1>7 DEF AsStored, Apart, Distinct
<1> QED
  BY <1>2, <1>4, <1>6, <1>8 DEF todo

\* The job that goes on to save them.
LEMMA ConfirmFits ==
  ASSUME NEW u, u \in Users, NEW F, F \in SUBSET Users, NEW T, NEW R, NEW n \in Nat,
         NEW j \in Work(u, F, T, R, n), j.op = "auth", j.pc = "confirm", NEW v \in F, u # v,
         v = j.req.to
  PROVE  LET k == ToTodo(j, "find", Welcomes(u, v)) IN
         /\ k \in Work(u, F, T, R, n) /\ k.n = j.n /\ k.req = j.req /\ k.op = j.op /\ k.pc = "find"
         /\ k.retry = j.retry
<1>1. /\ Full(j) /\ j.retry \in BOOLEAN /\ j.thread \in Nat /\ j.saved = <<>> /\ j.thread = 0 /\ ~j.retry
      /\ j.saved \in Seq(Saved)
      /\ j.dst \in Servers \cup {NoServer} /\ j.out \in Logins(F, T)
  BY WorkParts
<1>2. v \in Users
  OBVIOUS
<1>3. PICK todo, pc : todo = Welcomes(u, v) /\ pc = "find"
  OBVIOUS
<1>4. /\ todo \in Seq(Unsaved) /\ todo # <<>> /\ ToSave(todo, u, v, n)
      /\ AsStored(<<>>, R[v]) /\ Apart(<<>>, todo)
  BY <1>2, <1>3, WelcomesFit
<1>5. Talk(u, j.req.to, F, T, R, n, j.op, pc, j.thread, todo, j.saved)
  BY <1>1, <1>3, <1>4 DEF Talk
<1>6. pc \in Stages(j.op) /\ pc # "confirm"
  BY <1>3 DEF Stages
<1>7. LET q == Moved(j, pc, j.thread, j.retry, todo, j.saved, j.dst, j.out)
      IN  /\ q \in Work(u, F, T, R, n) /\ q.n = j.n /\ q.req = j.req /\ q.op = j.op /\ q.pc = pc
          /\ q.retry = j.retry
  <2>1. PICK thread \in Nat, retry \in BOOLEAN, saved \in Seq(Saved), dst \in Servers \cup {NoServer},
             out \in Logins(F, T) :
          thread = j.thread /\ retry = j.retry /\ saved = j.saved /\ dst = j.dst /\ out = j.out
    BY <1>1
  <2>2. j.op \in Conversing => Talk(u, j.req.to, F, T, R, n, j.op, pc, thread, todo, saved)
    BY <1>5, <2>1
  <2>3. todo \in Seq(Unsaved)
    BY <1>4
  <2>4. LET q == Moved(j, pc, thread, retry, todo, saved, dst, out)
        IN  /\ q \in Work(u, F, T, R, n) /\ q.n = j.n /\ q.req = j.req /\ q.op = j.op /\ q.pc = pc
            /\ q.retry = retry
    BY <1>6, <2>2, <2>3, WorkMoves
  <2> QED
    BY <2>1, <2>4
<1>8. ToTodo(j, pc, todo) = Moved(j, pc, j.thread, j.retry, todo, j.saved, j.dst, j.out)
  BY <1>1, Assignments
<1> QED
  BY <1>3, <1>7, <1>8

\* AuthFriendApply: the friendship.
LEMMA ConfirmKeeps ==
  ASSUME IInv, NEW s \in Servers, Confirm(s)
  PROVE  IInv'
<1> DEFINE u == job[s].by
           j == job[s]
<1>1. At(s, "confirm") /\ StoreInv /\ SessionInv /\ JobInv /\ CommitInv /\ FaultInv
  BY DEF Confirm, IInv
<1>2. j # Idle /\ j.pc = "confirm"
  BY <1>1, AtWork DEF At
<1>3. /\ u \in Users /\ j \in WorkOf(u) /\ j.req.to \in Users /\ j.op = "auth" /\ j.retry \in BOOLEAN
  <2>1. /\ u \in Users /\ j \in WorkOf(u) /\ j.op = j.req.op /\ j.op \in Ops /\ j.pc \in Stages(j.op)
        /\ Asks(u, FriendsOf(u), ThreadsOf(u), texts, j.req) /\ j.retry \in BOOLEAN
    BY <1>2, Working
  <2>2. j.op = "auth"
    BY <1>2, <2>1 DEF Ops, Stages
  <2> QED
    BY <2>1, <2>2 DEF Asks
<1>4. CASE Works(FALSE) /\ Refuse(s) /\ (ConfirmApply(u, j.req.to) \/ UNCHANGED store)
  <2>1. texts' = texts /\ faults' \in Nat /\ faults <= faults'
    BY <1>1, <1>4, TryCounts DEF Works
  <2>2. StoreInv' /\ Grows
    BY <1>1, <1>3, <1>4, <2>1, ApplyConfirmed, NothingChanges
  <2>3. chat' = chat
    BY <1>4 DEF ConfirmApply, store
  <2> QED
    BY <1>2, <1>3, <1>4, <2>1, <2>2, <2>3, RefusesOn
<1>5. CASE /\ ConfirmApply(u, j.req.to)
           /\ job' = [job EXCEPT ![s].pc = "find", ![s].todo = Welcomes(u, j.req.to)]
           /\ UNCHANGED <<uip, mgr, clients, counts>>
  <2>1. texts' = texts /\ faults' \in Nat /\ faults <= faults' /\ faults' = faults /\ chat' = chat
    BY <1>1, <1>5 DEF counts, FaultInv, ConfirmApply
  <2>2. PICK w, v, i : w \in Users /\ v \in Users /\ w = u /\ v = j.req.to /\ i = j
    BY <1>3
  <2>3. StoreInv' /\ Grows /\ w # v /\ AreFriends(w, v)'
    BY <1>1, <1>5, <2>1, <2>2, ApplyConfirmed
  <2>4. i \in WorkOf(w)'
    BY <1>3, <2>2, <2>3, AllGrow
  <2>5. PICK k : k = ToTodo(i, "find", Welcomes(w, v))
    OBVIOUS
  <2>6. /\ k \in WorkOf(w)' /\ k.n = i.n /\ k.req = i.req /\ k.op = i.op /\ k.pc = "find"
        /\ k.retry = i.retry
    <3> DEFINE F == FriendsOf(w)'
               T == ThreadsOf(w)'
               R == StoredOf(w)'
               n == texts'
    <3>1. i \in Work(w, F, T, R, n)
      BY <2>4 DEF WorkOf
    <3>2. i.op = "auth" /\ i.pc = "confirm" /\ v = i.req.to
      BY <1>2, <1>3, <2>2
    <3>3. v \in F /\ F \in SUBSET Users
      BY <2>2, <2>3 DEF FriendsOf
    <3>4. n \in Nat
      BY <2>3 DEF StoreInv, ChatInv
    <3> HIDE DEF F, T, R, n
    <3>5. w \in Users /\ w # v
      BY <2>2, <2>3
    <3>6. LET d == ToTodo(i, "find", Welcomes(w, v))
          IN  /\ d \in Work(w, F, T, R, n) /\ d.n = i.n /\ d.req = i.req /\ d.op = i.op /\ d.pc = "find"
              /\ d.retry = i.retry
      BY <3>1, <3>2, <3>3, <3>4, <3>5, ConfirmFits
    <3>7. /\ k \in Work(w, F, T, R, n) /\ k.n = i.n /\ k.req = i.req /\ k.op = i.op /\ k.pc = "find"
          /\ k.retry = i.retry
      BY <2>5, <3>6
    <3> QED
      BY <3>7 DEF WorkOf, F, T, R, n
  <2>7. job' = [job EXCEPT ![s] = k]
    <3>1. job = [t \in Servers |-> job[t]]
      BY <1>1 DEF JobInv
    <3> QED
      BY <1>5, <2>2, <2>5, <3>1 DEF ToTodo
  <2>8. CommitInv'
    BY <1>1, <2>1, <2>6, <2>7, CommitStep
  <2>9. SessionInv' /\ UNCHANGED <<up, down, cache, link, phase>>
    BY <1>1, <1>5, SessionStep DEF clients
  <2>10. faults' = 0 => Unfailing(k)'
    <3>1. ~j.retry
      BY <1>2, Working
    <3> QED
      BY <2>2, <2>6, <3>1 DEF Unfailing
  <2> QED
    BY <1>2, <2>1, <2>2, <2>3, <2>6, <2>7, <2>8, <2>9, <2>10, GoesOn
<1> QED
  BY <1>4, <1>5 DEF Confirm, OrNot

-----------------------------------------------------------------------------
(* Pushes and answers.                                                     *)

\* The job that knows where the other one is.
LEMMA DstFits ==
  ASSUME NEW u, NEW F, NEW T, NEW R, NEW n, NEW j \in Work(u, F, T, R, n), j.pc # "confirm",
         NEW dst \in Servers \cup {NoServer}, NEW pc \in Stages(j.op), pc \in {"answer", "push"}
  PROVE  LET k == ToDst(j, dst, pc) IN
         /\ k \in Work(u, F, T, R, n) /\ k.n = j.n /\ k.req = j.req /\ k.op = j.op /\ k.pc = pc
         /\ k.by = j.by /\ k.thread = j.thread
<1> DEFINE k == Moved(j, pc, j.thread, j.retry, j.todo, j.saved, dst, j.out)
<1>1. /\ Full(j) /\ j.retry \in BOOLEAN /\ j.thread \in Nat
      /\ j.todo \in Seq(Unsaved) /\ j.saved \in Seq(Saved) /\ j.out \in Logins(F, T)
      /\ j.op \in Conversing =>
           Talk(u, j.req.to, F, T, R, n, j.op, j.pc, j.thread, j.todo, j.saved)
  BY WorkParts
<1>2. j.op \in Conversing => Talk(u, j.req.to, F, T, R, n, j.op, pc, j.thread, j.todo, j.saved)
  BY <1>1 DEF Talk, Saving
<1>3. /\ k \in Work(u, F, T, R, n) /\ k.n = j.n /\ k.req = j.req /\ k.op = j.op /\ k.pc = pc
      /\ k.by = j.by /\ k.thread = j.thread
  BY <1>1, <1>2, WorkMoves
<1>4. ToDst(j, dst, pc) = k
  BY <1>1, Assignments
<1> QED
  BY <1>3, <1>4

\* A handler that pushes or answers.
LEMMA PushingAt ==
  ASSUME IInv, NEW s \in Servers, NEW pc \in {"route", "push", "answer"}, At(s, pc), NEW u, u = job[s].by
  PROVE  LET j == job[s] IN
         /\ j # Idle /\ j.pc = pc /\ u \in Users /\ j.req.to \in Users
         /\ j.op \in {"text", "auth", "apply", "create"} /\ (pc # "answer" => j.op # "create")
         /\ j \in WorkOf(u) /\ j.op = j.req.op /\ j.thread \in Nat
         /\ faults = 0 /\ j.op # "apply" => j.thread # 0
<1>1. job[s].pc = pc /\ job[s] # Idle
  BY AtWork DEF At
<1>2. /\ u \in Users /\ job[s] \in WorkOf(u) /\ job[s].op = job[s].req.op /\ job[s].thread \in Nat
      /\ Asks(u, FriendsOf(u), ThreadsOf(u), texts, job[s].req)
      /\ job[s].op \in Ops /\ job[s].pc \in Stages(job[s].op)
  BY <1>1, Working
<1>3. job[s].op \in {"text", "auth", "apply", "create"} /\ (pc # "answer" => job[s].op # "create")
  BY <1>1, <1>2 DEF Ops, Stages
<1>4. job[s].req.to \in Users
  BY <1>2, <1>3 DEF Asks
<1>5. faults = 0 /\ job[s].op # "apply" => job[s].thread # 0
  BY <1>1, <1>3 DEF IInv, FaultInv, Unfailing, Conversing
<1> QED
  BY <1>1, <1>2, <1>3, <1>4, <1>5

\* The other one is looked for.
LEMMA RouteKeeps ==
  ASSUME IInv, NEW s \in Servers, Route(s)
  PROVE  IInv'
<1>1. PICK u, j : u = job[s].by /\ j = job[s]
  OBVIOUS
<1>2. At(s, "route") /\ UNCHANGED <<store, uip, mgr, clients>>
  BY DEF Route
<1>3. /\ j # Idle /\ j.pc = "route" /\ u \in Users /\ j.req.to \in Users
      /\ j.op \in {"text", "auth", "apply"} /\ j \in WorkOf(u)
      /\ faults = 0 /\ j.op # "apply" => j.thread # 0
  <2>1. PICK pc \in {"route", "push", "answer"} : pc = "route"
    OBVIOUS
  <2>2. LET i == job[s] IN
         /\ i # Idle /\ i.pc = pc /\ u \in Users /\ i.req.to \in Users
         /\ i.op \in {"text", "auth", "apply", "create"} /\ (pc # "answer" => i.op # "create")
         /\ i \in WorkOf(u) /\ i.op = i.req.op /\ i.thread \in Nat
         /\ faults = 0 /\ i.op # "apply" => i.thread # 0
    BY <1>1, <1>2, <2>1, PushingAt
  <2> QED
    BY <1>1, <2>1, <2>2
<1>4. texts' = texts /\ faults' \in Nat /\ faults <= faults'
  <2>1. (texts' = texts /\ faults' = faults) \/ Try(FALSE)
    BY DEF Route, counts
  <2>2. FaultInv
    BY DEF IInv
  <2>3. CASE Try(FALSE)
    BY <2>2, <2>3, TryCounts
  <2>4. CASE texts' = texts /\ faults' = faults
    BY <2>2, <2>4 DEF FaultInv
  <2> QED
    BY <2>1, <2>3, <2>4
<1>5. CASE j.op = "text" /\ ~Open(j.by, s, j.n) /\ job' = [job EXCEPT ![s] = Idle]
  <2>1. Refuse(s)
    BY <1>1, <1>2, <1>5 DEF Refuse, Finish, Sent, clients
  <2> QED
    BY <1>1, <1>2, <1>3, <1>4, <1>5, <2>1, Refuses
<1>6. ASSUME NEW dst \in Servers \cup {NoServer}, NEW pc \in {"answer", "push"},
             job' = [job EXCEPT ![s] = ToDst(j, dst, pc)]
      PROVE  IInv'
  <2>1. pc \in Stages(j.op)
    BY <1>3 DEF Stages
  <2>2. PICK k : k = ToDst(j, dst, pc)
    OBVIOUS
  <2>3. /\ k \in WorkOf(u) /\ k.n = j.n /\ k.req = j.req /\ k.op = j.op /\ k.pc = pc
        /\ k.by = j.by /\ k.thread = j.thread
    <3> DEFINE F == FriendsOf(u)
               T == ThreadsOf(u)
               R == StoredOf(u)
    <3>1. j \in Work(u, F, T, R, texts)
      BY <1>3 DEF WorkOf
    <3> HIDE DEF F, T, R
    <3>2. /\ k \in Work(u, F, T, R, texts) /\ k.n = j.n /\ k.req = j.req /\ k.op = j.op /\ k.pc = pc
          /\ k.by = j.by /\ k.thread = j.thread
      BY <1>3, <2>1, <2>2, <3>1, DstFits
    <3> QED
      BY <3>2 DEF WorkOf, F, T, R
  <2>4. job' = [job EXCEPT ![s] = k]
    BY <1>6, <2>2
  <2>5. SessionInv' /\ UNCHANGED <<up, down, cache, link, phase>>
    BY <1>2, SessionStep DEF IInv, clients
  <2>6. faults' = 0 => Unfailing(k)
    <3>1. faults' = 0 => faults = 0
      BY <1>4 DEF IInv, FaultInv
    <3> QED
      BY <1>3, <2>1, <2>3, <3>1 DEF Unfailing, Conversing
  <2>7. UNCHANGED <<store, texts>> /\ k.pc # "commit"
    BY <1>2, <1>4, <2>1, <2>3
  <2> QED
    BY <1>1, <1>3, <1>4, <2>3, <2>4, <2>5, <2>6, <2>7, Moves
<1>7. CASE job' = [job EXCEPT ![s].dst = uip[j.req.to].srv, ![s].pc =
                     IF uip[j.req.to].srv = NoServer THEN "answer" ELSE "push"]
  <2>1. PICK dst, pc : /\ dst = uip[j.req.to].srv
                       /\ pc = IF uip[j.req.to].srv = NoServer THEN "answer" ELSE "push"
    OBVIOUS
  <2>2. dst \in Servers \cup {NoServer} /\ pc \in {"answer", "push"}
    BY <1>3, <2>1 DEF IInv, SessionInv, Links
  <2>3. job' = [job EXCEPT ![s] = ToDst(j, dst, pc)]
    <3>1. job = [t \in Servers |-> job[t]]
      BY DEF IInv, JobInv
    <3> QED
      BY <1>1, <1>7, <2>1, <3>1 DEF ToDst
  <2> QED
    BY <1>6, <2>2, <2>3
<1>8. CASE GoTo(s, "answer")
  <2>1. PICK dst, pc : dst = j.dst /\ pc = "answer"
    OBVIOUS
  <2>2. dst \in Servers \cup {NoServer} /\ Full(j)
    BY <1>1, <1>3, <2>1, Working
  <2>3. ToDst(j, dst, pc) = ToPc(j, pc)
    BY <2>1, <2>2, Assignments
  <2>4. job' = [job EXCEPT ![s] = ToPc(j, pc)]
    <3>1. job = [t \in Servers |-> job[t]]
      BY DEF IInv, JobInv
    <3> QED
      BY <1>1, <1>8, <2>1, <3>1 DEF GoTo, ToPc
  <2> QED
    BY <1>6, <2>1, <2>2, <2>3, <2>4
<1> QED
  BY <1>1, <1>5, <1>7, <1>8 DEF Route

\* What has been saved, as it is shown to one of the two.
LEMMA ShownFits ==
  ASSUME NEW s, NEW Rv, NEW saved, saved = job[s].saved, saved \in Seq(Saved), AsStored(saved, Rv),
         Distinct(saved), NEW w
  PROVE  Shown(s, w) \in Seq(Rv) /\ Distinct(Shown(s, w))
<1> DEFINE status(i) == IF saved[i].from = w THEN "sent" ELSE "unread"
           q == [i \in DOMAIN saved |-> [cid |-> saved[i].cid, id |-> saved[i].id, from |-> saved[i].from,
                                         status |-> status(i)]]
<1>1. \A i : status(i) \in Statuses
  BY DEF Statuses
<1>2. Shown(s, w) = q
  BY DEF Shown
<1> HIDE DEF status
<1>3. \A i \in DOMAIN saved : q[i] \in Rv /\ q[i].cid = saved[i].cid
  BY <1>1 DEF AsStored
<1>4. q = [i \in DOMAIN saved |-> q[i]]
  OBVIOUS
<1> HIDE DEF q
<1>5. q \in Seq(Rv) /\ DOMAIN q = DOMAIN saved
  BY <1>3, <1>4, Replaced
<1>6. Distinct(q)
  BY <1>3, <1>5 DEF Distinct
<1> QED
  BY <1>2, <1>5, <1>6

\* The tables say the same to both.
LEMMA BothAlike ==
  ASSUME StoreInv, NEW u \in Users, NEW v \in FriendsOf(u)
  PROVE  /\ u \in FriendsOf(v) /\ v \in Users /\ ThreadsOf(v)[u] = ThreadsOf(u)[v]
         /\ StoredOf(v)[u] = StoredOf(u)[v]
<1>1. v \in Users /\ AreFriends(v, u)
  BY DEF FriendsOf, StoreInv, FriendsInv
<1>2. ThreadsOf(v)[u] = ThreadsOf(u)[v]
  BY <1>1 DEF ThreadsOf, StoreInv, ThreadsInv
<1>3. \A r : Between(r, u, v) <=> Between(r, v, u)
  BY DEF Between
<1>4. StoredOf(v)[u] = StoredOf(u)[v]
  BY <1>1, <1>3 DEF StoredOf
<1> QED
  BY <1>1, <1>2, <1>4 DEF FriendsOf

\* What a handler tells of the chat of its two users is fit for each of them.
LEMMA TellsOf ==
  ASSUME IInv, NEW s \in Servers, NEW pc \in {"push", "answer"}, At(s, pc), NEW u, u = job[s].by,
         job[s].op # "apply", NEW v, v = job[s].req.to
  PROVE  /\ u \in Users /\ v \in Users /\ v \in FriendsOf(u) /\ u \in FriendsOf(v)
         /\ job[s].thread \in Nat
         /\ job[s].thread \in {0, ThreadsOf(u)[v]} /\ job[s].thread \in {0, ThreadsOf(v)[u]}
         /\ Shown(s, u) \in Seq(MsgsOf(u)[v]) /\ Distinct(Shown(s, u)) /\ Shown(s, u) \in Seq(Message)
         /\ Shown(s, v) \in Seq(MsgsOf(v)[u]) /\ Distinct(Shown(s, v)) /\ Shown(s, v) \in Seq(Message)
<1>1. job[s].pc = pc /\ job[s] # Idle
  BY AtWork DEF At
<1>2. PICK j : j = job[s]
  OBVIOUS
<1>3. /\ u \in Users /\ j.op \in Ops /\ j.pc \in Stages(j.op) /\ j.thread \in Nat /\ j.saved \in Seq(Saved)
      /\ j.op \in Conversing /\ j.pc # "confirm" =>
           Talk(u, j.req.to, FriendsOf(u), ThreadsOf(u), StoredOf(u), texts,
                j.op, j.pc, j.thread, j.todo, j.saved)
  BY <1>1, <1>2, Working
<1>4. j.op \in Conversing
  BY <1>1, <1>2, <1>3 DEF Ops, Stages, Conversing
<1>5. /\ v \in FriendsOf(u) /\ j.thread \in {0, ThreadsOf(u)[v]}
      /\ AsStored(j.saved, StoredOf(u)[v]) /\ Distinct(j.saved)
  BY <1>1, <1>2, <1>3, <1>4 DEF Talk, Apart
<1>6. StoreInv
  BY DEF IInv
<1>7. /\ u \in FriendsOf(v) /\ v \in Users /\ ThreadsOf(v)[u] = ThreadsOf(u)[v]
      /\ StoredOf(v)[u] = StoredOf(u)[v]
  BY <1>3, <1>5, <1>6, BothAlike
<1>8. PICK Rv, saved : Rv = StoredOf(u)[v] /\ saved = j.saved
  OBVIOUS
<1>9. ASSUME NEW w
      PROVE  Shown(s, w) \in Seq(Rv) /\ Distinct(Shown(s, w))
  BY <1>2, <1>3, <1>5, <1>8, ShownFits
<1>10. Rv \subseteq Message
  BY <1>3, <1>6, <1>7, <1>8, TablesFit
<1>11. Rv \subseteq MsgsOf(u)[v] /\ Rv \subseteq MsgsOf(v)[u]
  BY <1>3, <1>7, <1>8 DEF MsgsOf, Msgs
<1>12. Seq(Rv) \subseteq Seq(Message) /\ Seq(Rv) \subseteq Seq(MsgsOf(u)[v]) /\ Seq(Rv) \subseteq Seq(MsgsOf(v)[u])
  BY <1>10, <1>11, SeqMonotonic
<1> QED
  BY <1>2, <1>3, <1>5, <1>7, <1>9, <1>12

\* The notice is one for the other of the two.
LEMMA NoticeFits ==
  ASSUME IInv, NEW s \in Servers, At(s, "push"), NEW v, v = job[s].req.to
  PROVE  Notice(s) \in AnswersOf(v)
<1>1. PICK u, pc : pc \in {"route", "push", "answer"} /\ u = job[s].by /\ pc = "push"
  OBVIOUS
<1>2. u \in Users /\ job[s].op \in {"text", "auth", "apply"}
  <2>1. LET j == job[s] IN
         /\ j # Idle /\ j.pc = pc /\ u \in Users /\ j.req.to \in Users
         /\ j.op \in {"text", "auth", "apply", "create"} /\ (pc # "answer" => j.op # "create")
         /\ j \in WorkOf(u) /\ j.op = j.req.op /\ j.thread \in Nat
         /\ faults = 0 /\ j.op # "apply" => j.thread # 0
    BY <1>1, PushingAt
  <2> QED
    BY <1>1, <2>1
<1>3. CASE job[s].op = "apply"
  <2>1. Notice(s) = [op |-> "notifyApply", peer |-> u]
    BY <1>1, <1>3 DEF Notice, NotifyAddFriend
  <2> QED
    BY <1>2, <2>1 DEF AnswersOf, Answers, Notices
<1>4. CASE job[s].op # "apply"
  <2>1. PICK p \in {"push", "answer"} : p = "push"
    OBVIOUS
  <2>2. /\ u \in FriendsOf(v) /\ job[s].thread \in Nat /\ job[s].thread \in {0, ThreadsOf(v)[u]}
        /\ Shown(s, v) \in Seq(MsgsOf(v)[u]) /\ Distinct(Shown(s, v)) /\ Shown(s, v) \in Seq(Message)
    BY <1>1, <1>4, <2>1, TellsOf
  <2>3. PICK op, thread, msgs : /\ op = IF job[s].op = "auth" THEN "notifyAuth" ELSE "notifyText"
                                /\ thread = job[s].thread /\ msgs = Shown(s, v)
    OBVIOUS
  <2>4. Notice(s) = [op |-> op, peer |-> u, thread |-> thread, msgs |-> msgs]
    BY <1>1, <1>2, <1>4, <2>3 DEF Notice, NotifyAuthFriend, NotifyTextChatMsg
  <2>5. [op |-> op, peer |-> u, thread |-> thread, msgs |-> msgs]
          \in Notices(FriendsOf(v), ThreadsOf(v), MsgsOf(v))
    BY <2>2, <2>3 DEF Notices, About
  <2> QED
    BY <2>4, <2>5 DEF AnswersOf, Answers
<1> QED
  BY <1>3, <1>4

\* A push, whatever has come of it: the handler goes on to its answer.
LEMMA Pushed ==
  ASSUME IInv, NEW s \in Servers, At(s, "push"), GoTo(s, "answer"),
         UNCHANGED <<store, uip, mgr, link, up, phase, cache, texts>>, faults' \in Nat, faults <= faults',
         NEW v, v = job[s].req.to, down' = down \/ Sends(v, Notice(s))
  PROVE  IInv'
<1>1. PICK u, j, i : /\ i \in {"route", "push", "answer"} /\ i = "push"
                     /\ u = job[s].by /\ j = job[s]
  OBVIOUS
<1>2. /\ j # Idle /\ j.pc = "push" /\ u \in Users /\ v \in Users /\ j.op \in {"text", "auth", "apply"}
      /\ j \in WorkOf(u)
      /\ faults = 0 /\ j.op # "apply" => j.thread # 0
  <2>1. LET k == job[s] IN
         /\ k # Idle /\ k.pc = i /\ u \in Users /\ k.req.to \in Users
         /\ k.op \in {"text", "auth", "apply", "create"} /\ (i # "answer" => k.op # "create")
         /\ k \in WorkOf(u) /\ k.op = k.req.op /\ k.thread \in Nat
         /\ faults = 0 /\ k.op # "apply" => k.thread # 0
    BY <1>1, PushingAt
  <2> QED
    BY <1>1, <2>1
<1>3. StoreInv /\ SessionInv /\ JobInv /\ CommitInv /\ FaultInv
  BY DEF IInv
<1>4. StoreInv' /\ Grows
  BY <1>3, NothingChanges
<1>5. SessionInv'
  BY <1>3, SessionStep
<1>6. PICK k, pc : k = ToPc(j, pc) /\ pc = "answer"
  OBVIOUS
<1>7. k \in WorkOf(u) /\ k.n = j.n /\ k.req = j.req /\ k.op = j.op /\ k.pc = pc /\ k.thread = j.thread
  <2> DEFINE F == FriendsOf(u)
             T == ThreadsOf(u)
             R == StoredOf(u)
  <2>1. j \in Work(u, F, T, R, texts)
    BY <1>2 DEF WorkOf
  <2>2. /\ pc \in Stages(j.op) /\ pc \notin {"confirm", "find", "insert", "save", "commit"}
        /\ j.op \in Conversing => j.pc # "confirm"
    BY <1>2, <1>6 DEF Stages
  <2> HIDE DEF F, T, R
  <2>3. /\ k \in Work(u, F, T, R, texts) /\ k.n = j.n /\ k.req = j.req /\ k.op = j.op /\ k.pc = pc
        /\ k.thread = j.thread
    BY <1>6, <2>1, <2>2, StepFits
  <2> QED
    BY <2>3 DEF WorkOf, F, T, R
<1>8. k \in WorkOf(u)'
  BY <1>2, <1>4, <1>7, AllGrow
<1>9. job' = [job EXCEPT ![s] = k]
  <2>1. job = [t \in Servers |-> job[t]]
    BY <1>3 DEF JobInv
  <2> QED
    BY <1>1, <1>6, <2>1 DEF GoTo, ToPc
<1>10. CommitInv'
  <2>1. chat' = chat /\ k.pc # "commit"
    BY <1>6, <1>7 DEF store
  <2> QED
    BY <1>3, <1>9, <2>1, CommitStep
<1>11. down' = down \/ \E w \in Users : \E f \in AnswersOf(w)' : Sends(w, f)
  <2>1. Notice(s) \in AnswersOf(v)
    BY NoticeFits
  <2>2. PICK f : f = Notice(s)
    OBVIOUS
  <2>3. AnswersOf(v) \subseteq AnswersOf(v)'
    BY <1>2, <1>4, AllGrow
  <2>4. PICK w \in Users : w = v
    BY <1>2
  <2>5. f \in AnswersOf(w) /\ AnswersOf(w) \subseteq AnswersOf(w)' /\ (down' = down \/ Sends(w, f))
    BY <2>1, <2>2, <2>4, <1>2, <1>4, AllGrow
  <2> QED
    BY <2>5
<1>12. faults' = 0 => Unfailing(k)'
  <2>1. faults' = 0 => faults = 0
    BY <1>3 DEF FaultInv
  <2> QED
    BY <1>2, <1>6, <1>7, <2>1 DEF Unfailing, Conversing
<1> QED
  BY <1>1, <1>2, <1>4, <1>5, <1>7, <1>8, <1>9, <1>10, <1>11, <1>12, GoesOn

\* The push, or the call or the notice that fails.
LEMMA PushKeeps ==
  ASSUME IInv, NEW s \in Servers, Push(s) \/ PushFails(s) \/ NoticeFails(s)
  PROVE  IInv'
<1>1. /\ At(s, "push") /\ GoTo(s, "answer") /\ UNCHANGED <<store, uip, mgr, link, up, phase, cache>>
      /\ down' = down \/ Notify(job[s].dst, job[s].req.to, Notice(s))
  BY DEF Push, PushFails, NoticeFails, clients
<1>2. texts' = texts /\ faults' \in Nat /\ faults <= faults'
  <2>1. FaultInv
    BY DEF IInv
  <2>2. CASE Push(s)
    BY <2>1, <2>2 DEF Push, counts, FaultInv
  <2>3. CASE PushFails(s)
    BY <2>1, <2>3, TryCounts DEF PushFails
  <2>4. CASE NoticeFails(s)
    BY <2>1, <2>4, TryCounts DEF NoticeFails
  <2> QED
    BY <2>2, <2>3, <2>4
<1>3. down' = down \/ Sends(job[s].req.to, Notice(s))
  BY <1>1 DEF Notify, Sent, Sends
<1> QED
  BY <1>1, <1>2, <1>3, Pushed

\* The answer.
LEMMA AnswerKeeps ==
  ASSUME IInv, NEW s \in Servers, Answer(s)
  PROVE  IInv'
<1>1. PICK u, v, j, i : /\ i \in {"route", "push", "answer"} /\ i = "answer"
                        /\ u = job[s].by /\ v = job[s].req.to /\ j = job[s]
  OBVIOUS
<1>2. /\ At(s, "answer") /\ UNCHANGED <<store, scenario, texts, clicks, faults>>
      /\ Finish(s, [op |-> j.op, ok |-> j.op = "create" => j.thread # 0, peer |-> v,
                    thread |-> j.thread, msgs |-> Shown(s, u)])
  BY <1>1 DEF Answer
<1>3. j # Idle /\ j.op \in {"text", "auth", "apply", "create"}
  <2>1. LET k == job[s] IN
         /\ k # Idle /\ k.pc = i /\ u \in Users /\ k.req.to \in Users
         /\ k.op \in {"text", "auth", "apply", "create"} /\ (i # "answer" => k.op # "create")
         /\ k \in WorkOf(u) /\ k.op = k.req.op /\ k.thread \in Nat
         /\ faults = 0 /\ k.op # "apply" => k.thread # 0
    BY <1>1, <1>2, PushingAt
  <2> QED
    BY <1>1, <2>1
<1>4. PICK ok \in BOOLEAN : ok <=> (j.op = "create" => j.thread # 0)
  OBVIOUS
<1>5. PICK msgs, f : /\ msgs = Shown(s, u)
                     /\ f = [op |-> j.op, ok |-> ok, peer |-> v, thread |-> j.thread, msgs |-> msgs]
  OBVIOUS
<1>6. Finish(s, f)
  <2>1. f = [op |-> j.op, ok |-> j.op = "create" => j.thread # 0, peer |-> v,
             thread |-> j.thread, msgs |-> Shown(s, u)]
    <3>1. ok = (j.op = "create" => j.thread # 0)
      BY <1>4
    <3> QED
      BY <1>5, <3>1
  <2> QED
    BY <1>2, <2>1
<1>7. j.op # "apply" => f \in AnswersOf(u)
  <2> SUFFICES ASSUME j.op # "apply" PROVE f \in AnswersOf(u)
    OBVIOUS
  <2>1. PICK p \in {"push", "answer"} : p = "answer"
    OBVIOUS
  <2>2. /\ v \in FriendsOf(u) /\ j.thread \in Nat /\ j.thread \in {0, ThreadsOf(u)[v]}
        /\ msgs \in Seq(MsgsOf(u)[v]) /\ Distinct(msgs) /\ msgs \in Seq(Message)
    BY <1>1, <1>2, <1>5, <2>1, TellsOf
  <2>3. f \in Results(FriendsOf(u), ThreadsOf(u), MsgsOf(u))
    BY <1>3, <1>5, <1>4, <2>2 DEF Results, About
  <2> QED
    BY <2>3 DEF AnswersOf, Answers
<1>8. f.op = j.op /\ f.peer = v
  BY <1>5
<1>9. texts' = texts /\ faults' \in Nat /\ faults <= faults'
  BY <1>2 DEF IInv, FaultInv
<1> QED
  BY <1>1, <1>2, <1>3, <1>6, <1>7, <1>8, <1>9, AnswersOnly

-----------------------------------------------------------------------------
(* Pages.                                                                  *)

\* LoadChatThreads.
LEMMA LoadThreadsKeeps ==
  ASSUME IInv, StoreAssumption, NEW s \in Servers, LoadThreads(s)
  PROVE  IInv'
<1>1. PICK u, after : u = job[s].by /\ after = job[s].req.after
  OBVIOUS
<1>2. At(s, "read") /\ job[s].op = "threads" /\ UNCHANGED store
  BY DEF LoadThreads
<1>3. job[s] # Idle
  BY <1>2, AtWork
<1>4. u \in Users /\ after \in Nat
  <2>1. u \in Users /\ job[s].op = job[s].req.op /\ Asks(u, FriendsOf(u), ThreadsOf(u), texts, job[s].req)
    BY <1>1, <1>3, Working
  <2> QED
    BY <1>1, <1>2, <2>1 DEF Asks
<1>5. StoreInv /\ FaultInv
  BY DEF IInv
<1>6. PICK page, more : page = ChatThreads(u, after).page /\ more = ChatThreads(u, after).more
  OBVIOUS
<1>7. page \in Seq(ThreadRow(ThreadsOf(u))) /\ more \in BOOLEAN
  BY <1>4, <1>5, <1>6, ThreadsRead
<1>8. PICK f : f = [op |-> "threads", ok |-> TRUE, threads |-> page, more |-> more]
  OBVIOUS
<1>9. PICK ok \in BOOLEAN : /\ Works(ok)
                            /\ IF ok THEN Finish(s, f) ELSE Refuse(s)
  BY <1>1, <1>6, <1>8 DEF LoadThreads
<1>10. texts' = texts /\ faults' \in Nat /\ faults <= faults'
  BY <1>5, <1>9, TryCounts DEF Works
<1>11. CASE ok
  <2>1. f \in AnswersOf(u)
    BY <1>7, <1>8 DEF AnswersOf, Answers, Pages
  <2> QED
    BY <1>1, <1>2, <1>3, <1>9, <1>10, <1>11, <2>1, AnswersOnly
<1>12. CASE ~ok
  BY <1>2, <1>3, <1>9, <1>10, <1>12, Refuses
<1> QED
  BY <1>11, <1>12

\* The page as LoadMessages shows it to w.
PageShown(page, w) ==
    [i \in DOMAIN page |->
        [cid |-> page[i].cid, id |-> page[i].id, from |-> page[i].from,
         status |-> IF page[i].from = w THEN "sent" ELSE "unread"]]

\* A page of messages is of the conversation, and not empty when more follow.
LEMMA MessagesRead ==
  ASSUME StoreInv, StoreAssumption, NEW u \in Users, NEW v \in Users, NEW thread \in Nat \ {0},
         threadOf[<<u, v>>] = thread, NEW after \in Nat, NEW w
  PROVE  LET got == ChatMessages(thread, after)
             msgs == PageShown(got.page, w)
         IN  /\ msgs \in Seq(StoredOf(u)[v]) /\ msgs \in Seq(Message) /\ got.more \in BOOLEAN
             /\ got.more => msgs # <<>>
<1> DEFINE later == {r \in chat : r.live /\ r.thread = thread /\ r.id > after}
           all == {r.id : r \in later}
           ids == Page(all)
           row(id) == CHOOSE r \in later : r.id = id
           got == ChatMessages(thread, after)
           shown(r) == [cid |-> r.cid, id |-> r.id, from |-> r.from,
                        status |-> IF r.from = w THEN "sent" ELSE "unread"]
           msgs == [i \in DOMAIN ids |-> shown(row(ids[i]))]
<1>1. IsFiniteSet(chat) /\ \A r \in chat : Row(r)
  BY DEF StoreInv, ChatInv
<1>2. IsFiniteSet(later)
  BY <1>1, FS_Subset
<1>3. all \in SUBSET Nat
  BY <1>1 DEF Row
<1>4. IsFiniteSet(all)
  <2> DEFINE f == [r \in later |-> r.id]
  <2>1. all = {f[r] : r \in later}
    OBVIOUS
  <2>2. later \subseteq later
    OBVIOUS
  <2> HIDE DEF f, later, all
  <2>3. IsFiniteSet({f[r] : r \in later})
    BY <1>2, ValuesAreFinite
  <2> QED
    BY <2>1, <2>3
<1>5. ASSUME NEW r \in later
      PROVE  shown(r) \in StoredOf(u)[v] /\ shown(r) \in Message
  <2>1. r \in chat /\ r.live /\ Row(r) /\ r.thread = thread
    BY <1>1
  <2>2. r.cid \in Cids /\ r.id \in Nat /\ r.from \in Users /\ r.to \in Users
        /\ r.thread = threadOf[<<r.from, r.to>>]
    BY <2>1 DEF Row
  <2>3. Between(r, u, v)
    BY <2>1, <2>2 DEF StoreInv, ThreadsInv, Between
  <2>4. shown(r) \in Message
    BY <2>2 DEF Message, Statuses, Cids
  <2>5. IsCopy(shown(r), r)
    BY <2>1 DEF IsCopy
  <2> QED
    BY <2>1, <2>3, <2>4, <2>5 DEF StoredOf
<1>6. ASSUME NEW id \in all
      PROVE  row(id) \in later
  <2>1. \E r \in later : r.id = id
    OBVIOUS
  <2> QED
    BY <2>1
<1> HIDE DEF shown, row
<1>7. ids \in Seq(all)
  <2> HIDE DEF all
  <2> QED
    BY <1>3, <1>4, PageLists
<1>8. Cardinality(later) > PageSize => 1 \in DOMAIN ids
  <2>1. Cardinality(later) > PageSize => later # {}
    BY <1>2, FS_EmptySet DEF StoreAssumption
  <2>2. later # {} => all # {}
    OBVIOUS
  <2> HIDE DEF all, later
  <2>3. Cardinality(all) \in Nat /\ (all # {} => Cardinality(all) # 0)
    BY <1>4, FS_CardinalityType, FS_EmptySet
  <2>4. all # {} => 1 \in DOMAIN Page(all)
    BY <2>3 DEF Page, StoreAssumption
  <2> QED
    BY <2>1, <2>2, <2>4
<1> HIDE DEF ids
<1>9. \A i \in DOMAIN ids : ids[i] \in all
  BY <1>7, ElementOfSeq, LenProperties
<1>10. msgs = [i \in DOMAIN ids |-> msgs[i]]
       /\ \A i \in DOMAIN ids : msgs[i] \in StoredOf(u)[v] /\ msgs[i] \in Message
  BY <1>5, <1>6, <1>9
<1>11. got = [page |-> [i \in DOMAIN ids |-> row(ids[i])], more |-> Cardinality(later) > PageSize]
  BY DEF ChatMessages, ids, row
<1>12. msgs = PageShown(got.page, w)
  BY <1>11 DEF shown, PageShown
<1> HIDE DEF msgs
<1>13. msgs \in Seq(StoredOf(u)[v]) /\ msgs \in Seq(Message) /\ DOMAIN msgs = DOMAIN ids
  BY <1>7, <1>10, Replaced
<1>14. got.more \in BOOLEAN /\ (got.more => msgs # <<>>)
  <2>1. 1 \in DOMAIN ids => msgs # <<>>
    BY <1>13
  <2> HIDE DEF later
  <2>2. PICK big \in BOOLEAN : big <=> Cardinality(later) > PageSize
    OBVIOUS
  <2>3. big = (Cardinality(later) > PageSize)
    BY <2>2
  <2>4. got.more = big
    BY <1>11, <2>3
  <2>5. big => msgs # <<>>
    BY <1>8, <2>1, <2>2
  <2> QED
    BY <2>2, <2>4, <2>5
<1> QED
  BY <1>12, <1>13, <1>14

\* LoadChatMessages.
LEMMA LoadMessagesKeeps ==
  ASSUME IInv, StoreAssumption, NEW s \in Servers, LoadMessages(s)
  PROVE  IInv'
<1>1. PICK u, thread, after : u = job[s].by /\ thread = job[s].req.thread /\ after = job[s].req.after
  OBVIOUS
<1>2. At(s, "read") /\ job[s].op = "load" /\ UNCHANGED store
  BY DEF LoadMessages
<1>3. job[s] # Idle
  BY <1>2, AtWork
<1>4. u \in Users /\ after \in Nat /\ thread \in Nat \ {0}
  <2>1. u \in Users /\ job[s].op = job[s].req.op /\ Asks(u, FriendsOf(u), ThreadsOf(u), texts, job[s].req)
    BY <1>1, <1>3, Working
  <2> QED
    BY <1>1, <1>2, <2>1 DEF Asks
<1>5. StoreInv /\ FaultInv
  BY DEF IInv
<1> DEFINE got == ChatMessages(thread, after)
<1>6. PICK msgs, more, f : /\ msgs = PageShown(got.page, u) /\ more = got.more
                           /\ f = [op |-> "load", ok |-> TRUE, thread |-> thread, more |-> more,
                                   msgs |-> msgs]
  OBVIOUS
<1>7. PICK ok \in BOOLEAN : /\ Works(ok)
                            /\ IF ok /\ \E v \in Users : IsMember(thread, u, v)
                                 THEN Finish(s, f) ELSE Refuse(s)
  BY <1>1, <1>6 DEF LoadMessages, PageShown
<1>8. texts' = texts /\ faults' \in Nat /\ faults <= faults'
  BY <1>5, <1>7, TryCounts DEF Works
<1>9. CASE Refuse(s)
  BY <1>2, <1>3, <1>8, <1>9, Refuses
<1>10. CASE ok /\ (\E v \in Users : IsMember(thread, u, v)) /\ Finish(s, f)
  <2>1. PICK v \in Users : threadOf[<<u, v>>] = thread
    BY <1>10 DEF IsMember
  <2>2. /\ msgs \in Seq(StoredOf(u)[v]) /\ msgs \in Seq(Message) /\ more \in BOOLEAN
        /\ more => msgs # <<>>
    BY <1>4, <1>5, <1>6, <2>1, MessagesRead
  <2>3. StoredOf(u)[v] \subseteq MsgsOf(u)[v]
    BY DEF MsgsOf, Msgs
  <2>4. msgs \in Seq(MsgsOf(u)[v])
    BY <2>2, <2>3, SeqMonotonic
  <2>5. thread = ThreadsOf(u)[v]
    BY <2>1 DEF ThreadsOf
  <2>6. f \in [op : {"load"}, ok : {TRUE}, thread : Nat \ {0}, more : BOOLEAN, msgs : Seq(Message)]
        /\ f.thread = thread /\ f.msgs = msgs /\ f.more = more
    BY <1>4, <1>6, <2>2
  <2>7. f \in Histories(ThreadsOf(u), MsgsOf(u))
    BY <2>2, <2>4, <2>5, <2>6 DEF Histories
  <2>8. f \in AnswersOf(u)
    BY <2>7 DEF AnswersOf, Answers
  <2> QED
    BY <1>1, <1>2, <1>3, <1>8, <1>10, <2>8, AnswersOnly
<1> QED
  BY <1>7, <1>9, <1>10

-----------------------------------------------------------------------------
(* The next frame.                                                         *)

\* The new job is of the request's kind, at the first place of its handler.
FirstOf(req) == CASE req.op = "login" -> "threads"
                  [] req.op = "text"  -> IF req.thread = 0 THEN "find" ELSE "save"
                  [] req.op = "apply" -> "save"
                  [] req.op = "auth"  -> "confirm"
                  [] req.op = "create" -> "find"
                  [] OTHER -> "read"
JobFor(u, n, req) ==
    [op |-> req.op, by |-> u, n |-> n, pc |-> FirstOf(req), req |-> req,
     thread |-> IF req.op = "text" THEN req.thread ELSE 0, retry |-> FALSE,
     todo |-> IF req.op = "text" THEN <<[from |-> u, cid |-> req.cid]>> ELSE <<>>,
     saved |-> <<>>, dst |-> NoServer, out |-> NoLists]
\* The job for a request fits the tables.
LEMMA JobForFits ==
  ASSUME NEW u \in Users, NEW F, F \in SUBSET Users, NEW T, T \in [Users -> Nat], NEW R, NEW n \in Nat,
         NEW m \in Nat, NEW req, req \in Requests(u, F, T, n)
  PROVE  LET k == JobFor(u, m, req) IN
         /\ k \in Work(u, F, T, R, n) /\ k.op = req.op /\ k.by = u /\ k.n = m /\ k.req = req
         /\ k.pc \notin {"commit", "answer", "refuse", "route", "push", "insert"} /\ ~k.retry
<1> DEFINE k == JobFor(u, m, req)
<1>1. Asks(u, F, T, n, req)
  BY RequestParts
<1>2. req.op \in Ops
  BY DEF Requests, Ops
<1>3. FirstOf(req) \in Stages(req.op)
      /\ FirstOf(req) \notin {"commit", "answer", "refuse", "route", "push", "insert"}
  BY <1>2 DEF FirstOf, Stages, Ops
<1>4. FirstOf(req) \in Places
  BY <1>2, <1>3, PlacesOfAHandler
<1>5. NoLists \in Logins(F, T)
  BY DEF NoLists, Logins
<1>6. PICK todo : todo = IF req.op = "text" THEN <<[from |-> u, cid |-> req.cid]>> ELSE <<>>
  OBVIOUS
<1>7. todo \in Seq(Unsaved)
  <2>1. CASE req.op = "text"
    <3>1. [from |-> u, cid |-> req.cid] \in Unsaved
      BY <1>1, <2>1 DEF Asks, Unsaved
    <3> QED
      BY <1>6, <2>1, <3>1
  <2>2. CASE req.op # "text"
    BY <1>6, <2>2
  <2> QED
    BY <2>1, <2>2
<1>8. PICK thread \in Nat : thread = IF req.op = "text" THEN req.thread ELSE 0
  BY <1>1 DEF Asks
<1>9. PICK pc, saved, dst, out : pc = FirstOf(req) /\ saved = <<>> /\ dst = NoServer /\ out = NoLists
  OBVIOUS
<1>10. k = [op |-> req.op, by |-> u, n |-> m, pc |-> pc, req |-> req, thread |-> thread, retry |-> FALSE,
            todo |-> todo, saved |-> saved, dst |-> dst, out |-> out]
  BY <1>6, <1>8, <1>9 DEF JobFor
<1> HIDE DEF k
<1>11. /\ k.op = req.op /\ k.by = u /\ k.n = m /\ k.pc = pc /\ k.req = req /\ k.thread = thread
       /\ ~k.retry /\ k.todo = todo /\ k.saved = saved
  BY <1>10
<1>12. saved \in Seq(Saved) /\ dst \in Servers \cup {NoServer} /\ out \in Logins(F, T)
  BY <1>5, <1>9
<1>13. k \in [op : Ops, by : {u}, n : Nat, pc : Places, req : Requests(u, F, T, n), thread : Nat,
              retry : BOOLEAN, todo : Seq(Unsaved), saved : Seq(Saved),
              dst : Servers \cup {NoServer}, out : Logins(F, T)]
  BY <1>2, <1>4, <1>7, <1>9, <1>10, <1>12
<1>14. pc = "confirm" => saved = <<>> /\ thread = 0 /\ ~k.retry
  BY <1>8, <1>9, <1>11 DEF FirstOf
<1>15. ASSUME req.op \in Conversing, pc # "confirm"
       PROVE  /\ req.to \in F /\ thread \in {0, T[req.to]}
              /\ ToSave(todo, u, req.to, n) /\ AsStored(saved, R[req.to]) /\ Apart(saved, todo)
              /\ pc \in {"save", "commit"} => thread # 0
              /\ req.op # "create" /\ pc \in Saving => todo # <<>>
  <2>1. req.op \in {"text", "create"}
    BY <1>9, <1>15 DEF Conversing, FirstOf
  <2>2. req.to \in F /\ thread \in {0, T[req.to]}
    BY <1>1, <1>8, <2>1 DEF Asks
  <2>3. pc \in {"save", "commit"} => thread # 0
    BY <1>8, <1>9, <2>1 DEF FirstOf
  <2>4. CASE req.op = "create"
    BY <1>6, <1>9, <2>2, <2>3, <2>4 DEF ToSave, AsStored, Apart, Distinct
  <2>5. CASE req.op = "text"
    <3>1. PICK x : x = [from |-> u, cid |-> req.cid]
      OBVIOUS
    <3>2. x.from = u /\ \E i \in 0..n : x.cid = <<u, req.to, i>>
      <4>1. PICK i \in 1..n : req.cid = <<u, req.to, i>>
        BY <1>1, <2>5 DEF Asks
      <4> QED
        BY <3>1, <4>1
    <3>3. todo = <<x>>
      BY <1>6, <2>5, <3>1
    <3>4. DOMAIN todo = {1} /\ todo[1] = x /\ todo # <<>>
      BY <3>3
    <3>5. ToSave(todo, u, req.to, n)
      BY <3>2, <3>4 DEF ToSave, Peer
    <3>6. AsStored(saved, R[req.to]) /\ Apart(saved, todo)
      BY <1>9, <3>4 DEF AsStored, Apart, Distinct
    <3> QED
      BY <2>2, <2>3, <3>4, <3>5, <3>6
  <2> QED
    BY <2>1, <2>4, <2>5
<1>16. k \in Work(u, F, T, R, n)
  BY <1>3, <1>9, <1>11, <1>13, <1>14, <1>15 DEF Work
<1> QED
  BY <1>3, <1>9, <1>11, <1>16 DEF k

\* One user's wires and cache change.
LEMMA WiresFit ==
  ASSUME WireInv, Grows, NEW u \in Users,
         NEW x, up' = [up EXCEPT ![u] = x], x \in Seq(RequestsOf(u)'),
         NEW y, down' = [down EXCEPT ![u] = y], y \in Seq(AnswersOf(u)'),
         NEW c, cache' = [cache EXCEPT ![u] = c], c \in CachesOf(u)'
  PROVE  WireInv'
<1>1. up = [v \in Users |-> up[v]] /\ down = [v \in Users |-> down[v]] /\ cache = [v \in Users |-> cache[v]]
  BY DEF WireInv
<1>2. up' = [v \in Users |-> up'[v]] /\ down' = [v \in Users |-> down'[v]]
      /\ cache' = [v \in Users |-> cache'[v]]
  BY <1>1
<1>3. up'[u] = x /\ down'[u] = y /\ cache'[u] = c
  BY <1>1
<1>4. ASSUME NEW v \in Users
      PROVE  /\ up'[v] \in Seq(RequestsOf(v)') /\ down'[v] \in Seq(AnswersOf(v)')
             /\ cache'[v] \in CachesOf(v)'
  <2>1. CASE v = u
    BY <1>3, <2>1
  <2>2. CASE v # u
    <3>1. up'[v] = up[v] /\ down'[v] = down[v] /\ cache'[v] = cache[v]
      BY <1>1, <2>2
    <3>2. up[v] \in Seq(RequestsOf(v)) /\ down[v] \in Seq(AnswersOf(v)) /\ cache[v] \in CachesOf(v)
      BY DEF WireInv
    <3>3. /\ Seq(RequestsOf(v)) \subseteq Seq(RequestsOf(v)')
          /\ Seq(AnswersOf(v)) \subseteq Seq(AnswersOf(v)') /\ CachesOf(v) \subseteq CachesOf(v)'
      BY AllGrow
    <3> QED
      BY <3>1, <3>2, <3>3
  <2> QED
    BY <2>1, <2>2
<1> QED
  BY <1>2, <1>4 DEF WireInv

\* A server takes the next frame of a connection.
LEMMA DealMsgKeeps ==
  ASSUME IInv, NEW s \in Servers, NEW u \in Users, DealMsg(s, u)
  PROVE  IInv'
<1>1. PICK n, req : n = link[u].n /\ req = Head(up[u])
  OBVIOUS
<1>2. /\ At(s, "idle") /\ link[u].srv = s /\ up[u] # <<>>
      /\ up' = [up EXCEPT ![u] = Tail(@)]
      /\ UNCHANGED <<store, uip, mgr, link, down, phase, cache, synced, counts>>
  BY DEF DealMsg
<1>3. job' = [job EXCEPT ![s] = JobFor(u, n, req)]
  BY <1>1 DEF DealMsg, JobFor, FirstOf
<1>4. StoreInv /\ SessionInv /\ JobInv /\ CommitInv /\ FaultInv /\ WireInv /\ PendingInv
  BY DEF IInv
<1>5. StoreInv' /\ Grows
  BY <1>2, <1>4, NothingChanges DEF counts
<1>6. up[u] \in Seq(RequestsOf(u)) /\ down[u] \in Seq(AnswersOf(u)) /\ cache[u] \in CachesOf(u)
  BY <1>4 DEF WireInv
<1>7. req \in RequestsOf(u) /\ Tail(up[u]) \in Seq(RequestsOf(u))
  BY <1>1, <1>2, <1>6, HeadTailProperties
<1>8. n \in Nat /\ texts \in Nat
  BY <1>1, <1>4 DEF SessionInv, Links, StoreInv, ChatInv
<1>9. PICK k : k = JobFor(u, n, req)
  OBVIOUS
<1>10. /\ k \in WorkOf(u) /\ k.op = req.op /\ k.by = u /\ k.n = n /\ k.req = req
       /\ k.pc \notin {"commit", "answer", "refuse", "route", "push", "insert"} /\ ~k.retry
  <2> DEFINE F == FriendsOf(u)
             T == ThreadsOf(u)
             R == StoredOf(u)
  <2>1. F \in SUBSET Users /\ T \in [Users -> Nat]
    BY <1>4 DEF FriendsOf, ThreadsOf, StoreInv, ThreadsInv, Pairs
  <2>2. req \in Requests(u, F, T, texts)
    BY <1>7 DEF RequestsOf
  <2> HIDE DEF F, T, R
  <2>3. /\ k \in Work(u, F, T, R, texts) /\ k.op = req.op /\ k.by = u /\ k.n = n /\ k.req = req
        /\ k.pc \notin {"commit", "answer", "refuse", "route", "push", "insert"} /\ ~k.retry
    BY <1>8, <1>9, <2>1, <2>2, JobForFits
  <2> QED
    BY <2>3 DEF WorkOf, F, T, R
<1>11. job' = [job EXCEPT ![s] = k]
  BY <1>3, <1>9
<1>12. SessionInv'
  BY <1>2, <1>4, SessionStep
<1>13. Fits(k)'
  BY <1>5, <1>10, AllGrow DEF Fits
<1>14. Current(s, k)
  BY <1>1, <1>2, <1>8, <1>10 DEF Current
<1>15. JobInv'
  BY <1>2, <1>4, <1>5, <1>11, <1>13, <1>14, JobStep
<1>16. CommitInv'
  BY <1>2, <1>4, <1>10, <1>11, CommitStep DEF store
<1>17. FaultInv'
  <2>1. Unfailing(k)'
    BY <1>10 DEF Unfailing
  <2>2. faults' \in Nat /\ faults <= faults'
    BY <1>2, <1>4 DEF counts, FaultInv
  <2> QED
    BY <1>4, <1>5, <1>11, <2>1, <2>2, FaultStep
<1>18. WireInv'
  <2>1. PICK x, y, c : x = Tail(up[u]) /\ y = down[u] /\ c = cache[u]
    OBVIOUS
  <2>2. /\ up' = [up EXCEPT ![u] = x] /\ down' = [down EXCEPT ![u] = y]
        /\ cache' = [cache EXCEPT ![u] = c]
    BY <1>2, <1>4, <2>1 DEF WireInv
  <2>3. x \in Seq(RequestsOf(u)') /\ y \in Seq(AnswersOf(u)') /\ c \in CachesOf(u)'
    BY <1>5, <1>6, <1>7, <2>1, AllGrow
  <2> QED
    BY <1>4, <1>5, <2>2, <2>3, WiresFit
<1>19. PendingInv'
  <2> SUFFICES ASSUME NEW w \in Users, NEW v \in cache[w].pending, phase[w] # "off"
               PROVE  UnderWay(w, v)'
    BY <1>2 DEF PendingInv
  <2>1. UnderWay(w, v)
    BY <1>4 DEF PendingInv
  <2>2. job = [t \in Servers |-> job[t]] /\ up = [x \in Users |-> up[x]]
    BY <1>4 DEF JobInv, WireInv
  <2>3. job[s].op # "create"
    <3>1. job[s] = Idle
      <4>1. ASSUME job[s] # Idle
            PROVE  FALSE
        <5>1. job[s].op \in Ops /\ job[s].pc \in Stages(job[s].op)
          BY <4>1, Working
        <5> QED
          BY <1>2, <5>1 DEF At, Ops, Stages
      <4> QED
        BY <4>1
    <3> QED
      BY <3>1 DEF Idle
  <2>4. job'[s] = k /\ \A t \in Servers : t # s => job'[t] = job[t]
    BY <1>11, <2>2
  <2>5. CASE \E t \in Servers : /\ job[t].op = "create" /\ job[t].by = w /\ job[t].n = link[w].n
                                /\ job[t].req.to = v
    BY <1>2, <2>3, <2>4, <2>5 DEF UnderWay
  <2>6. CASE \E i \in DOMAIN down[w] : down[w][i].op = "create" /\ down[w][i].peer = v
    BY <1>2, <2>6 DEF UnderWay
  <2>7. CASE \E i \in DOMAIN up[w] : CreateOf(w, v, up[w][i])
    <3>1. CASE w # u
      BY <1>2, <2>2, <2>7, <3>1 DEF UnderWay
    <3>2. CASE w = u
      <4>1. PICK i \in DOMAIN up[u] : CreateOf(u, v, up[u][i])
        BY <2>7, <3>2
      <4>2. PICK q : q = up[u] /\ q \in Seq(RequestsOf(u)) /\ q # <<>>
        BY <1>2, <1>6
      <4>3. CASE i = 1
        <5>1. req = q[1]
          BY <1>1, <4>2
        <5>2. k.op = "create" /\ k.req.to = v
          BY <1>10, <4>1, <4>2, <4>3, <5>1 DEF CreateOf
        <5> QED
          BY <1>1, <1>2, <1>10, <2>4, <3>2, <5>2 DEF UnderWay
      <4>4. CASE i # 1
        <5>1. i - 1 \in DOMAIN Tail(q) /\ Tail(q)[i - 1] = q[i]
          BY <4>1, <4>2, <4>4
        <5>2. up'[u] = Tail(q)
          BY <1>2, <2>2, <4>2
        <5> QED
          BY <3>2, <4>1, <4>2, <5>1, <5>2 DEF UnderWay, CreateOf
      <4> QED
        BY <4>3, <4>4
    <3> QED
      BY <3>1, <3>2
  <2> QED
    BY <2>1, <2>5, <2>6, <2>7 DEF UnderWay
<1> QED
  BY <1>5, <1>12, <1>15, <1>16, <1>17, <1>18, <1>19 DEF IInv

\* The handlers keep the invariant.
LEMMA ServerStepKeeps ==
  ASSUME IInv, StoreAssumption, NEW s \in Servers, ServerStep(s)
  PROVE  IInv'
<1>1. CASE LoginHandler(s)
  BY <1>1, LoginReads, LoginLocateKeeps, LoginUnlockedKeeps, LoginBindKeeps, LoginGreetKeeps
     DEF LoginHandler
<1>2. CASE PushAndAnswer(s)
  BY <1>2, RouteKeeps, PushKeeps, AnswerKeeps DEF PushAndAnswer
<1>3. CASE GetOrCreatePrivateChat(s)
  BY <1>3, FindThreadKeeps, InsertThreadKeeps DEF GetOrCreatePrivateChat
<1>4. CASE SaveChatMessages(s) /\ job[s].op \in {"text", "auth"}
  BY <1>4, SaveMessageKeeps, CommitSaveKeeps, SaveFailsKeeps DEF SaveChatMessages
<1>5. CASE AddFriendApply(s)
  BY <1>2, <1>5, SaveApplyKeeps DEF AddFriendApply
<1>6. CASE AuthFriendApply(s)
  BY <1>2, <1>3, <1>4, <1>6, ConfirmKeeps DEF AuthFriendApply
<1>7. CASE DealChatTextMsg(s)
  BY <1>2, <1>3, <1>4, <1>7, RefuseTextKeeps DEF DealChatTextMsg
<1>8. CASE CreateChat(s)
  BY <1>3, <1>8, AnswerKeeps DEF CreateChat
<1> QED
  BY <1>1, <1>5, <1>6, <1>7, <1>8, LoadThreadsKeeps, LoadMessagesKeeps DEF ServerStep

-----------------------------------------------------------------------------
(* The clients.                                                            *)

\* The chats that wait did so before, or their request is among the frames, ...
AskedFor(u, c, frames) ==
    \A v \in c.pending : v \in cache[u].pending \/ \E i \in DOMAIN frames : CreateOf(u, v, frames[i])
\* ... and the answers to them that were under way still are, in y.
StillAnswered(u, c, y) ==
    \A v \in c.pending : \A i \in DOMAIN down[u] :
        down[u][i].op = "create" /\ down[u][i].peer = v =>
            \E k \in DOMAIN y : y[k].op = "create" /\ y[k].peer = v

\* What a chat waits for is still there when the jobs and the other users'
\* wires stay, and of this one's only a frame that answers nothing goes.
LEMMA PendingClient ==
  ASSUME PendingInv, WireInv, NEW u \in Users, NEW frames, NEW y, NEW S, up[u] \in Seq(S), frames \in Seq(S),
         up' = [up EXCEPT ![u] = up[u] \o frames], down' = [down EXCEPT ![u] = y],
         NEW c, cache' = [cache EXCEPT ![u] = c], UNCHANGED <<job, link>>,
         \A v \in Users : phase'[v] # "off" => phase[v] # "off",
         AskedFor(u, c, frames), StillAnswered(u, c, y)
  PROVE  PendingInv'
<1>1. up = [v \in Users |-> up[v]] /\ down = [v \in Users |-> down[v]] /\ cache = [v \in Users |-> cache[v]]
  BY DEF WireInv
<1> SUFFICES ASSUME NEW w \in Users, NEW v \in cache'[w].pending, phase'[w] # "off"
             PROVE  UnderWay(w, v)'
  BY DEF PendingInv
<1>2. CASE w # u
  <2>1. up'[w] = up[w] /\ down'[w] = down[w] /\ cache'[w] = cache[w]
    BY <1>1, <1>2
  <2>2. UnderWay(w, v)
    BY <2>1 DEF PendingInv
  <2> QED
    BY <2>1, <2>2 DEF UnderWay
<1>3. CASE w = u
  <2>1. up'[u] = up[u] \o frames /\ down'[u] = y /\ cache'[u] = c
    BY <1>1
  <2>2. v \in cache[u].pending \/ \E i \in DOMAIN frames : CreateOf(u, v, frames[i])
    BY <1>3, <2>1 DEF AskedFor
  <2>3. PICK p : p = up[u] /\ p \in Seq(S)
    OBVIOUS
  <2>4. /\ \A i \in DOMAIN p : i \in DOMAIN (p \o frames) /\ (p \o frames)[i] = p[i]
        /\ \A i \in DOMAIN frames : Len(p) + i \in DOMAIN (p \o frames) /\ (p \o frames)[Len(p) + i] = frames[i]
    BY <2>3, ConcatProperties, LenProperties
  <2>5. CASE \E i \in DOMAIN frames : CreateOf(u, v, frames[i])
    <3>1. PICK i \in DOMAIN frames : CreateOf(u, v, frames[i])
      BY <2>5
    <3>2. PICK k : k = Len(p) + i
      OBVIOUS
    <3>3. k \in DOMAIN up'[u] /\ CreateOf(u, v, up'[u][k])
      BY <2>1, <2>3, <2>4, <3>1, <3>2
    <3> QED
      BY <1>3, <3>3 DEF UnderWay, CreateOf
  <2>6. CASE v \in cache[u].pending
    <3>1. UnderWay(u, v)
      BY <1>3, <2>6 DEF PendingInv
    <3>2. CASE \E i \in DOMAIN up[u] : CreateOf(u, v, up[u][i])
      <4>1. PICK i \in DOMAIN p : CreateOf(u, v, p[i])
        BY <2>3, <3>2
      <4>2. i \in DOMAIN up'[u] /\ CreateOf(u, v, up'[u][i])
        BY <2>1, <2>3, <2>4, <4>1
      <4> QED
        BY <1>3, <4>2 DEF UnderWay, CreateOf
    <3>3. CASE \E s \in Servers : /\ job[s].op = "create" /\ job[s].by = u /\ job[s].n = link[u].n
                                  /\ job[s].req.to = v
      BY <1>3, <3>3 DEF UnderWay
    <3>4. CASE \E i \in DOMAIN down[u] : down[u][i].op = "create" /\ down[u][i].peer = v
      <4>1. \E k \in DOMAIN y : y[k].op = "create" /\ y[k].peer = v
        BY <1>3, <2>1, <3>4 DEF StillAnswered
      <4> QED
        BY <1>3, <2>1, <4>1 DEF UnderWay
    <3> QED
      BY <3>1, <3>2, <3>3, <3>4 DEF UnderWay
  <2> QED
    BY <2>5, <2>6, <2>2
<1> QED
  BY <1>2, <1>3

\* A step of a client leaves the tables and the servers alone.
LEMMA ClientMoves ==
  ASSUME IInv, UNCHANGED <<store, job, faults>>, StoreInv', Grows, SessionInv',
         \A s \in Servers : job[s] # Idle => Current(s, job[s])', WireInv', PendingInv'
  PROVE  IInv'
<1>1. JobInv /\ CommitInv /\ FaultInv
  BY DEF IInv
<1>2. JobInv'
  <2>1. ASSUME NEW s \in Servers, job[s] # Idle
        PROVE  Fits(job[s])'
    <3>1. PICK u, j : u \in Users /\ j = job[s] /\ j \in WorkOf(u)
      BY <1>1, <2>1 DEF JobInv, Fits
    <3>2. j \in WorkOf(u)'
      BY <3>1, AllGrow
    <3>3. Fits(j)'
      BY <3>1, <3>2 DEF Fits
    <3> QED
      BY <3>1, <3>3 DEF Fits
  <2> QED
    BY <1>1, <2>1 DEF JobInv
<1>3. CommitInv'
  BY <1>1 DEF CommitInv, At, HasKey, SameKey, store
<1>4. FaultInv'
  BY <1>1 DEF FaultInv, Unfailing, store
<1> QED
  BY <1>2, <1>3, <1>4 DEF IInv

\* A client takes the next frame.
LEMMA ReceiveKeeps ==
  ASSUME IInv, NEW u \in Users, NEW op, NEW c, NEW frames, Receive(u, op, c, frames),
         c \in CachesOf(u), c.pending \subseteq cache[u].pending, frames \in Seq(RequestsOf(u)),
         op = "create" => Head(down[u]).peer \notin c.pending,
         phase' = phase \/ (phase[u] = "connecting" /\ phase' = [phase EXCEPT ![u] = "ready"])
  PROVE  IInv'
<1>1. /\ down[u] # <<>> /\ Head(down[u]).op = op
      /\ down' = [down EXCEPT ![u] = Tail(@)] /\ cache' = [cache EXCEPT ![u] = c]
      /\ up' = [up EXCEPT ![u] = @ \o frames]
      /\ UNCHANGED <<store, job, uip, mgr, link, texts, faults>>
  BY DEF Receive, Request, servers, counts
<1>2. StoreInv /\ SessionInv /\ JobInv /\ WireInv /\ PendingInv
  BY DEF IInv
<1>3. StoreInv' /\ Grows
  BY <1>1, <1>2, NothingChanges
<1>4. /\ phase \in [Users -> {"off", "connecting", "ready"}]
      /\ phase' \in [Users -> {"off", "connecting", "ready"}]
      /\ \A v \in Users : phase'[v] = "off" <=> phase[v] = "off"
  BY <1>2 DEF SessionInv
<1>5. SessionInv'
  BY <1>1, <1>2, <1>4 DEF SessionInv
<1>6. up[u] \in Seq(RequestsOf(u)) /\ down[u] \in Seq(AnswersOf(u))
  BY <1>2 DEF WireInv
<1>7. PICK x, y : x = up[u] \o frames /\ y = Tail(down[u])
  OBVIOUS
<1>8. x \in Seq(RequestsOf(u)) /\ y \in Seq(AnswersOf(u))
  BY <1>1, <1>6, <1>7, ConcatProperties, HeadTailProperties
<1>9. WireInv'
  <2>1. /\ up' = [up EXCEPT ![u] = x] /\ down' = [down EXCEPT ![u] = y]
    BY <1>1, <1>7
  <2>2. x \in Seq(RequestsOf(u)') /\ y \in Seq(AnswersOf(u)') /\ c \in CachesOf(u)'
    BY <1>3, <1>8, AllGrow
  <2> QED
    BY <1>1, <1>2, <1>3, <2>1, <2>2, WiresFit
<1>10. PendingInv'
  <2>1. ASSUME NEW v \in c.pending, NEW i \in DOMAIN down[u],
               down[u][i].op = "create", down[u][i].peer = v
        PROVE  \E k \in DOMAIN y : y[k].op = "create" /\ y[k].peer = v
    <3>1. PICK d : d = down[u] /\ d \in Seq(AnswersOf(u)) /\ d # <<>>
      BY <1>1, <1>6
    <3>2. i # 1
      BY <1>1, <2>1, <3>1
    <3>3. i - 1 \in DOMAIN Tail(d) /\ Tail(d)[i - 1] = d[i]
      BY <3>1, <3>2
    <3> QED
      BY <1>7, <2>1, <3>1, <3>3
  <2>2. PICK S : S = RequestsOf(u)
    OBVIOUS
  <2>3. up[u] \in Seq(S) /\ frames \in Seq(S)
    BY <1>6, <2>2
  <2>4. /\ up' = [up EXCEPT ![u] = up[u] \o frames] /\ down' = [down EXCEPT ![u] = y]
    BY <1>1, <1>7
  <2>5. \A v \in Users : phase'[v] # "off" => phase[v] # "off"
    BY <1>4
  <2>6. AskedFor(u, c, frames)
    BY DEF AskedFor
  <2>7. StillAnswered(u, c, y)
    BY <2>1 DEF StillAnswered
  <2> QED
    BY <1>1, <1>2, <2>3, <2>4, <2>5, <2>6, <2>7, PendingClient
<1>11. \A s \in Servers : job[s] # Idle => Current(s, job[s])'
  BY <1>1, <1>2 DEF JobInv, Current
<1> QED
  BY <1>1, <1>3, <1>5, <1>9, <1>10, <1>11, ClientMoves

\* The messages of a push, or of the answer to an approval, are shown with
\* their sender, whom the client knows.
Delivered(f, c, d) ==
    f.op \in {"notifyText", "notifyAuth"} \/ (f.op = "auth" /\ f.ok) =>
        (Entry(c, f.peer) # 0 => \A x, i : Shows(f.msgs, x, i) => ShownWith(d, f.peer, x, i))
\* Histories are asked for from their start, but for the next page of one.
AsksPages(op, frames) == \A i \in DOMAIN frames :
    /\ op \in {"login", "threads", "load"} /\ frames[i].op \in {"load", "threads"}
    /\ frames[i].op = "load" => op = "load" \/ frames[i].after = 0

\* What a client does with a frame, when it does not close the connection:
\* what is shown stays, what waits does so for longer at most.
ArrivesAs(u, op, c, frames) ==
    /\ Receive(u, op, c, frames)
    /\ c \in CachesOf(u) /\ Keeps(cache[u], c) /\ c.pending \subseteq cache[u].pending
    /\ frames \in Seq(RequestsOf(u)) /\ AsksPages(op, frames)
    /\ op # "login" => Retains(cache[u], c) /\ Delivered(Head(down[u]), cache[u], c)
    /\ op = "create" => Head(down[u]).peer \notin c.pending
    /\ phase' = phase \/ (phase[u] = "connecting" /\ phase' = [phase EXCEPT ![u] = "ready"])
Arrives(u) == \E op, c, frames : ArrivesAs(u, op, c, frames)
\* A frame that arrives so keeps the invariant.
LEMMA ArrivesKeeps ==
  ASSUME IInv, NEW u \in Users, Arrives(u)
  PROVE  IInv'
<1>1. PICK op, c, frames : ArrivesAs(u, op, c, frames)
  BY DEF Arrives
<1> QED
  BY <1>1, ReceiveKeeps DEF ArrivesAs

\* Most frames are not answered.
LEMMA ArrivesSo ==
  ASSUME NEW u, NEW op, NEW d, Receive(u, op, d, <<>>), UNCHANGED phase,
         NEW F, F = FriendsOf(u), NEW T, T = ThreadsOf(u), NEW G, G = MsgsOf(u), d \in Caches(F, T, G),
         NEW c, c = cache[u], Keeps(c, d), d.pending \subseteq c.pending,
         Retains(c, d), NEW f, f = Head(down[u]), Delivered(f, c, d), op = "create" => f.peer \notin d.pending
  PROVE  Arrives(u)
<1>1. PICK frames : frames = <<>>
  OBVIOUS
<1>2. frames \in Seq(RequestsOf(u)) /\ AsksPages(op, frames)
  BY <1>1 DEF AsksPages
<1>3. d \in CachesOf(u)
  BY DEF CachesOf
<1>4. ArrivesAs(u, op, d, frames)
  BY <1>1, <1>2, <1>3 DEF ArrivesAs
<1> QED
  BY <1>4 DEF Arrives

\* What a client has received, and what it shows.
LEMMA ClientAt ==
  ASSUME IInv, NEW u \in Users
  PROVE  /\ Scope(FriendsOf(u), ThreadsOf(u), MsgsOf(u)) /\ cache[u] \in CachesOf(u)
         /\ up[u] \in Seq(RequestsOf(u))
         /\ down[u] # <<>> => Head(down[u]) \in AnswersOf(u)
<1>1. StoreInv /\ WireInv
  BY DEF IInv
<1>2. Scope(FriendsOf(u), ThreadsOf(u), MsgsOf(u))
  BY <1>1, TablesFit
<1>3. /\ cache[u] \in CachesOf(u) /\ up[u] \in Seq(RequestsOf(u)) /\ down[u] \in Seq(AnswersOf(u))
  BY <1>1 DEF WireInv
<1>4. down[u] # <<>> => Head(down[u]) \in AnswersOf(u)
  BY <1>3, HeadTailProperties
<1> QED
  BY <1>2, <1>3, <1>4

\* The kinds of frames by their names.
LEMMA FrameKinds ==
  ASSUME NEW F, NEW T, NEW G, NEW f \in Answers(F, T, G)
  PROVE  /\ f.op = "login" => f \in Logins(F, T) \cup Refusals(F)
         /\ f.op = "threads" => f \in Pages(T) \cup Refusals(F)
         /\ f.op = "load" => f \in Histories(T, G) \cup Refusals(F)
         /\ f.op \in {"text", "auth"} => f \in Results(F, T, G) \cup Refusals(F)
         /\ f.op = "create" => f \in Results(F, T, G)
         /\ f.op = "notifyApply" => f \in [op : {"notifyApply"}, peer : Users]
         /\ f.op \in {"notifyAuth", "notifyText"} =>
              /\ f \in [op : {"notifyAuth", "notifyText"}, peer : F, thread : Nat, msgs : Seq(Message)]
              /\ About(f, T, G)
<1>1. CASE f \in Logins(F, T)
  BY <1>1 DEF Logins
<1>2. CASE f \in Refusals(F)
  BY <1>2 DEF Refusals
<1>3. CASE f \in Pages(T)
  BY <1>3 DEF Pages
<1>4. CASE f \in Histories(T, G)
  <2>1. f.op = "load"
    BY <1>4 DEF Histories
  <2> QED
    BY <1>4, <2>1
<1>5. CASE f \in Results(F, T, G)
  <2>1. f.op \in {"text", "auth", "create"}
    BY <1>5 DEF Results
  <2> QED
    BY <1>5, <2>1
<1>6. CASE f \in Notices(F, T, G)
  BY <1>6 DEF Notices
<1> QED
  BY <1>1, <1>2, <1>3, <1>4, <1>5, <1>6 DEF Answers

\* The two kinds of results and refusals by whether the answer is an error.
LEMMA AnswerParts ==
  ASSUME NEW F, NEW T, NEW G, NEW f \in Answers(F, T, G)
  PROVE  /\ f.op \in {"text", "auth"} /\ f.ok =>
              f.peer \in F /\ f.thread \in {0, T[f.peer]} /\ f.msgs \in Seq(G[f.peer]) /\ Distinct(f.msgs)
         /\ f.op \in {"notifyAuth", "notifyText"} =>
              f.peer \in F /\ f.thread \in {0, T[f.peer]} /\ f.msgs \in Seq(G[f.peer]) /\ Distinct(f.msgs)
         /\ f.op = "create" => f.peer \in F /\ f.thread \in {0, T[f.peer]}
         /\ f.op = "notifyApply" => f.peer \in Users
         /\ f.op = "threads" /\ f.ok => f \in Pages(T)
         /\ f.op = "login" /\ f.ok => f \in Logins(F, T)
         /\ f.op = "load" /\ f.ok => f \in Histories(T, G)
<1>1. \A g \in Refusals(F) : ~g.ok
  BY DEF Refusals
<1>2. \A g \in Results(F, T, G) : g.peer \in F /\ About(g, T, G)
  BY DEF Results
<1>3. /\ f.op = "login" => f \in Logins(F, T) \cup Refusals(F)
      /\ f.op = "threads" => f \in Pages(T) \cup Refusals(F)
      /\ f.op = "load" => f \in Histories(T, G) \cup Refusals(F)
      /\ f.op \in {"text", "auth"} => f \in Results(F, T, G) \cup Refusals(F)
      /\ f.op = "create" => f \in Results(F, T, G)
      /\ f.op = "notifyApply" => f \in [op : {"notifyApply"}, peer : Users]
      /\ f.op \in {"notifyAuth", "notifyText"} =>
              /\ f \in [op : {"notifyAuth", "notifyText"}, peer : F, thread : Nat, msgs : Seq(Message)]
              /\ About(f, T, G)
  BY FrameKinds
<1>4. f.op \in {"text", "auth"} /\ f.ok => f \in Results(F, T, G)
  BY <1>1, <1>3
<1>5. f.op \in {"notifyAuth", "notifyText"} => f.peer \in F /\ About(f, T, G)
  BY <1>3
<1>6. f.op = "notifyApply" => f.peer \in Users
  BY <1>3
<1> QED
  BY <1>1, <1>2, <1>3, <1>4, <1>5, <1>6 DEF About

\* sig_private_chat_created.
LEMMA OnCreatedArrives ==
  ASSUME IInv, NEW u \in Users, OnCreated(u)
  PROVE  Arrives(u)
<1>1. PICK F, T, G, c, f : /\ F = FriendsOf(u) /\ T = ThreadsOf(u) /\ G = MsgsOf(u)
                           /\ c = cache[u] /\ f = Head(down[u])
  OBVIOUS
<1>2. /\ down[u] # <<>> /\ f.op = "create" /\ UNCHANGED <<phase, synced>>
      /\ Receive(u, "create", IF f.ok THEN SetThreadId(c, f.peer, f.thread)
                              ELSE MarkPrivateChatPending(c, f.peer, FALSE), <<>>)
  BY <1>1 DEF OnCreated
<1>3. Scope(F, T, G) /\ c \in Caches(F, T, G) /\ f \in Answers(F, T, G)
  BY <1>1, <1>2, ClientAt DEF CachesOf, AnswersOf
<1>4. f.peer \in F /\ f.peer \in Users /\ f.thread \in {0, T[f.peer]}
  BY <1>2, <1>3, AnswerParts DEF Scope
<1>5. PICK d : d = IF f.ok THEN SetThreadId(c, f.peer, f.thread)
                   ELSE MarkPrivateChatPending(c, f.peer, FALSE)
  OBVIOUS
<1>6. d \in Caches(F, T, G) /\ Keeps(c, d) /\ d.pending = c.pending \ {f.peer} /\ Retains(c, d)
  <2>1. CASE f.ok
    <3>1. PICK v, t, k : v = f.peer /\ t = f.thread /\ k = 0
      OBVIOUS
    <3>2. c \in Loose(F, T, G) /\ OrderedBut(c, k)
      BY <1>3, <3>1 DEF Caches
    <3>3. LET e == SetThreadId(c, v, t) IN
           /\ e \in Loose(F, T, G) /\ OrderedBut(e, k) /\ Keeps(c, e) /\ Retains(c, e)
           /\ e.pending = c.pending \ {v} /\ Entry(e, v) = Entry(c, v)
      BY <1>3, <1>4, <3>1, <3>2, SetThreadIdKeeps
    <3>4. d = SetThreadId(c, v, t)
      BY <1>5, <2>1, <3>1
    <3>5. d \in Loose(F, T, G) /\ OrderedBut(d, k) /\ Keeps(c, d) /\ d.pending = c.pending \ {v}
          /\ Retains(c, d)
      BY <3>3, <3>4
    <3> QED
      BY <3>1, <3>5 DEF Caches
  <2>2. CASE ~f.ok
    <3>1. PICK v \in Users : v = f.peer
      BY <1>4
    <3>2. d = WaitsNot(c, v)
      BY <1>5, <2>2, <3>1 DEF WaitsNot
    <3> QED
      BY <1>3, <3>1, <3>2, WaitsNotKeeps
  <2> QED
    BY <2>1, <2>2
<1>7. /\ Receive(u, "create", d, <<>>) /\ d.pending \subseteq c.pending
      /\ "create" = "create" => f.peer \notin d.pending
  BY <1>2, <1>5, <1>6
<1>8. Delivered(f, c, d)
  BY <1>2 DEF Delivered
<1> QED
  BY <1>1, <1>2, <1>6, <1>7, <1>8, ArrivesSo

\* sig_chat_msg_failed.
LEMMA OnTextFailedArrives ==
  ASSUME IInv, NEW u \in Users, OnTextFailed(u)
  PROVE  Arrives(u)
<1>1. PICK F, T, G, c, f : /\ F = FriendsOf(u) /\ T = ThreadsOf(u) /\ G = MsgsOf(u)
                           /\ c = cache[u] /\ f = Head(down[u])
  OBVIOUS
<1>2. PICK d : d = UpdateChatMessage(c, f.peer, f.cid, 0, "failed")
  OBVIOUS
<1>3. down[u] # <<>> /\ f.op = "text" /\ UNCHANGED phase /\ Receive(u, "text", d, <<>>)
  BY <1>1, <1>2 DEF OnTextFailed
<1>4. Scope(F, T, G) /\ c \in Caches(F, T, G)
  BY <1>1, ClientAt DEF CachesOf
<1>5. d \in Caches(F, T, G) /\ Keeps(c, d) /\ d.pending = c.pending /\ Retains(c, d)
  BY <1>2, <1>4, UpdateFailedKeeps
<1>6. "text" = "create" => f.peer \notin d.pending
  OBVIOUS
<1>7. Delivered(f, c, d)
  BY <1>3 DEF Delivered
<1> QED
  BY <1>1, <1>3, <1>5, <1>6, <1>7, ArrivesSo

\* sig_friend_apply.
LEMMA OnApplyArrives ==
  ASSUME IInv, NEW u \in Users, OnApply(u)
  PROVE  Arrives(u)
<1>1. PICK F, T, G, c, f : /\ F = FriendsOf(u) /\ T = ThreadsOf(u) /\ G = MsgsOf(u)
                           /\ c = cache[u] /\ f = Head(down[u])
  OBVIOUS
<1>2. PICK d : d = FriendApply(c, f.peer)
  OBVIOUS
<1>3. down[u] # <<>> /\ f.op = "notifyApply" /\ UNCHANGED phase /\ Receive(u, "notifyApply", d, <<>>)
  BY <1>1, <1>2 DEF OnApply
<1>4. c \in Caches(F, T, G) /\ f \in Answers(F, T, G)
  BY <1>1, <1>3, ClientAt DEF CachesOf, AnswersOf
<1>5. PICK v \in Users : v = f.peer
  BY <1>3, <1>4, AnswerParts
<1>6. d \in Caches(F, T, G) /\ Keeps(c, d) /\ d.pending = c.pending /\ Retains(c, d)
  <2>1. CASE AlreadyApply(c, v)
    BY <1>2, <1>4, <1>5, <2>1 DEF FriendApply, Keeps, Retains
  <2>2. CASE ~AlreadyApply(c, v)
    <3>1. d = AddApplyList(c, v)
      BY <1>2, <1>5, <2>2 DEF FriendApply
    <3> QED
      BY <1>4, <3>1, AddApplyListKeeps
  <2> QED
    BY <2>1, <2>2
<1>7. "notifyApply" = "create" => f.peer \notin d.pending
  OBVIOUS
<1>8. Delivered(f, c, d)
  BY <1>3 DEF Delivered
<1> QED
  BY <1>1, <1>3, <1>6, <1>7, <1>8, ArrivesSo

\* sig_text_chat_msg.
LEMMA OnTextArrives ==
  ASSUME IInv, NEW u \in Users, OnTextRsp(u) \/ OnTextNotify(u)
  PROVE  Arrives(u)
<1>1. PICK F, T, G, c, f : /\ F = FriendsOf(u) /\ T = ThreadsOf(u) /\ G = MsgsOf(u)
                           /\ c = cache[u] /\ f = Head(down[u])
  OBVIOUS
<1>2. PICK b, d : b = SetThreadId(c, f.peer, f.thread) /\ d = AppendFriendChatMsg(b, f.peer, f.msgs)
  OBVIOUS
<1>3. PICK op : /\ op \in {"text", "notifyText"} /\ down[u] # <<>> /\ f.op = op /\ (op = "text" => f.ok)
                /\ UNCHANGED phase /\ Receive(u, op, d, <<>>)
  BY <1>1, <1>2 DEF OnTextRsp, OnTextNotify, OnText
<1>4. Scope(F, T, G) /\ c \in Caches(F, T, G) /\ f \in Answers(F, T, G)
  BY <1>1, <1>3, ClientAt DEF CachesOf, AnswersOf
<1>5. f.peer \in F /\ f.thread \in {0, T[f.peer]} /\ f.msgs \in Seq(G[f.peer])
  BY <1>3, <1>4, AnswerParts
<1>6. PICK v, t, msgs : v = f.peer /\ t = f.thread /\ msgs = f.msgs
  OBVIOUS
<1>7. v \in Users /\ t \in {0, T[v]} /\ msgs \in Seq(G[v])
  BY <1>4, <1>5, <1>6 DEF Scope
<1>8. b \in Loose(F, T, G) /\ OrderedBut(b, Entry(b, v)) /\ Keeps(c, b) /\ b.pending = c.pending \ {v}
      /\ Retains(c, b) /\ Entry(b, v) = Entry(c, v)
  <2>1. PICK k : k = Entry(c, v)
    OBVIOUS
  <2>2. c \in Loose(F, T, G) /\ OrderedBut(c, k)
    BY <1>4 DEF Caches, OrderedBut, Loose
  <2>3. LET e == SetThreadId(c, v, t) IN
         /\ e \in Loose(F, T, G) /\ OrderedBut(e, k) /\ Keeps(c, e) /\ Retains(c, e)
         /\ e.pending = c.pending \ {v} /\ Entry(e, v) = Entry(c, v)
    BY <1>4, <1>7, <2>2, SetThreadIdKeeps
  <2> QED
    BY <1>2, <1>6, <2>1, <2>3
<1>9. /\ d \in Caches(F, T, G) /\ Keeps(b, d) /\ d.pending = b.pending /\ Retains(b, d)
      /\ Entry(b, v) # 0 => \A x, i : Shows(msgs, x, i) => ShownWith(d, v, x, i)
  <2>1. LET e == AppendFriendChatMsg(b, v, msgs) IN
          /\ e \in Caches(F, T, G) /\ Keeps(b, e) /\ e.pending = b.pending /\ Retains(b, e)
          /\ Entry(b, v) # 0 => \A x, i : Shows(msgs, x, i) => ShownWith(e, v, x, i)
    BY <1>4, <1>7, <1>8, AppendFriendChatMsgKeeps
  <2> QED
    BY <1>2, <1>6, <2>1
<1>10. Keeps(c, d) /\ Retains(c, d)
  BY <1>8, <1>9, KeepsOn
<1>11. d.pending \subseteq c.pending /\ (op = "create" => f.peer \notin d.pending)
  BY <1>3, <1>8, <1>9
<1>12. Delivered(f, c, d)
  BY <1>6, <1>8, <1>9 DEF Delivered
<1> QED
  BY <1>1, <1>3, <1>9, <1>10, <1>11, <1>12, ArrivesSo

\* sig_auth_rsp and sig_add_auth_friend.
LEMMA OnAuthArrives ==
  ASSUME IInv, NEW u \in Users, OnAuthRsp(u) \/ OnAuthNotify(u)
  PROVE  Arrives(u)
<1>1. PICK F, T, G, c, f : /\ F = FriendsOf(u) /\ T = ThreadsOf(u) /\ G = MsgsOf(u)
                           /\ c = cache[u] /\ f = Head(down[u])
  OBVIOUS
<1>2. PICK op, d : /\ op \in {"auth", "notifyAuth"} /\ down[u] # <<>> /\ f.op = op
                   /\ d = IF op = "notifyAuth" THEN Befriend(c, f)
                          ELSE IF f.ok THEN Befriend(SetApplyStatus(c, f.peer, 1), f) ELSE c
                   /\ UNCHANGED phase /\ Receive(u, op, d, <<>>)
  BY <1>1 DEF OnAuthRsp, OnAuthNotify, OnAuth
<1>3. Scope(F, T, G) /\ c \in Caches(F, T, G) /\ f \in Answers(F, T, G)
  BY <1>1, <1>2, ClientAt DEF CachesOf, AnswersOf
<1>4. ASSUME NEW b \in Caches(F, T, G), f.op = "notifyAuth" \/ f.ok
      PROVE  Befriend(b, f) \in Caches(F, T, G) /\ Keeps(b, Befriend(b, f)) /\ Retains(b, Befriend(b, f))
             /\ Befriend(b, f).pending \subseteq b.pending
             /\ \A x, i : Shows(f.msgs, x, i) => ShownWith(Befriend(b, f), f.peer, x, i)
  <2>1. /\ f.peer \in F /\ f.thread \in {0, T[f.peer]} /\ f.msgs \in Seq(G[f.peer]) /\ Distinct(f.msgs)
    BY <1>2, <1>3, <1>4, AnswerParts
  <2>2. PICK v, t, msgs : v = f.peer /\ t = f.thread /\ msgs = f.msgs
    OBVIOUS
  <2>3. v \in F /\ t \in {0, T[v]} /\ msgs \in Seq(G[v]) /\ Distinct(msgs)
    BY <2>1, <2>2
  <2>4. LET e == AppendFriendChatMsg(SetThreadId(AddFriend(b, v, t, msgs), v, t), v, msgs) IN
          /\ e \in Caches(F, T, G) /\ Keeps(b, e) /\ e.pending = b.pending \ {v} /\ Retains(b, e)
          /\ \A x, i : Shows(msgs, x, i) => ShownWith(e, v, x, i)
    BY <1>3, <2>3, BefriendKeeps
  <2>5. Befriend(b, f) = AppendFriendChatMsg(SetThreadId(AddFriend(b, v, t, msgs), v, t), v, msgs)
    BY <2>2 DEF Befriend
  <2> QED
    BY <2>2, <2>4, <2>5
<1>5. /\ d \in Caches(F, T, G) /\ Keeps(c, d) /\ d.pending \subseteq c.pending /\ Retains(c, d)
      /\ Delivered(f, c, d)
  <2>1. CASE op = "notifyAuth"
    BY <1>2, <1>3, <1>4, <2>1 DEF Delivered
  <2>2. CASE op # "notifyAuth" /\ ~f.ok
    BY <1>2, <1>3, <2>2 DEF Keeps, Retains, Delivered
  <2>3. CASE op # "notifyAuth" /\ f.ok
    <3>1. PICK b, v, st : b = SetApplyStatus(c, v, st) /\ v = f.peer /\ st = 1
      OBVIOUS
    <3>2. b \in Caches(F, T, G) /\ Keeps(c, b) /\ b.pending = c.pending /\ Retains(c, b)
      BY <1>3, <3>1, SetApplyStatusKeeps
    <3>3. d = Befriend(b, f)
      BY <1>2, <2>3, <3>1
    <3>4. /\ d \in Caches(F, T, G) /\ Keeps(b, d) /\ d.pending \subseteq b.pending /\ Retains(b, d)
          /\ \A x, i : Shows(f.msgs, x, i) => ShownWith(d, f.peer, x, i)
      BY <1>4, <2>3, <3>2, <3>3
    <3> QED
      BY <3>2, <3>4, KeepsOn DEF Delivered
  <2> QED
    BY <2>1, <2>2, <2>3
<1>6. op = "create" => f.peer \notin d.pending
  BY <1>2
<1> QED
  BY <1>1, <1>2, <1>5, <1>6, ArrivesSo

\* A list that starts with one frame, or has none.
LEMMA OneFrame ==
  ASSUME NEW S, NEW q \in S
  PROVE  <<q>> \in Seq(S)
OBVIOUS

\* What a client asks after a page of conversations: the history of each and
\* the next page.
LEMMA AsksFit ==
  ASSUME NEW u \in Users, NEW F, NEW T, NEW n, NEW f, f.threads \in Seq(ThreadRow(T))
  PROVE  /\ Loads(f.threads) \o MoreThreads(f) \in Seq(Requests(u, F, T, n))
         /\ \A op \in {"login", "threads"} : AsksPages(op, Loads(f.threads) \o MoreThreads(f))
<1>1. PICK threads, S : threads = f.threads /\ S = Requests(u, F, T, n)
  OBVIOUS
<1>2. /\ Len(threads) \in Nat /\ DOMAIN threads = 1..Len(threads)
      /\ \A i \in DOMAIN threads : threads[i] \in ThreadRow(T)
  BY <1>1, LenProperties, ElementOfSeq
<1>3. ASSUME NEW i \in DOMAIN threads
      PROVE  [op |-> "load", thread |-> threads[i].thread, after |-> 0] \in S
  <2>1. PICK t, v : t = threads[i].thread /\ v \in Users /\ t = T[v] /\ t \in Nat \ {0}
    BY <1>2 DEF ThreadRow
  <2>2. PICK q : q = [op |-> "load", thread |-> t, after |-> 0]
    OBVIOUS
  <2>3. q \in [op : {"load"}, thread : Nat \ {0}, after : Nat] /\ q.thread = T[v]
    BY <2>1, <2>2
  <2> QED
    BY <1>1, <2>1, <2>2, <2>3 DEF Requests
<1>4. Loads(threads) \in Seq(S)
  BY <1>2, <1>3 DEF Loads
<1>5. MoreThreads(f) \in Seq(S)
  <2>1. CASE f.more /\ threads # <<>>
    <3>1. threads[Len(threads)] \in ThreadRow(T)
      BY <1>1, <1>2, <2>1
    <3>2. PICK q : q = [op |-> "threads", after |-> threads[Len(threads)].thread]
      OBVIOUS
    <3>3. q \in S
      BY <1>1, <3>1, <3>2 DEF Requests, ThreadRow
    <3>4. MoreThreads(f) = <<q>>
      BY <1>1, <2>1, <3>2 DEF MoreThreads, Last
    <3> QED
      BY <3>3, <3>4, OneFrame
  <2>2. CASE ~(f.more /\ threads # <<>>)
    BY <1>1, <2>2 DEF MoreThreads
  <2> QED
    BY <2>1, <2>2
<1>6. PICK p, q : p = Loads(threads) /\ q = MoreThreads(f)
  OBVIOUS
<1>7. \A i \in DOMAIN p : p[i].op = "load" /\ p[i].after = 0
  BY <1>6 DEF Loads
<1>8. \A i \in DOMAIN q : q[i].op = "threads"
  BY <1>6 DEF MoreThreads
<1>9. /\ p \o q \in Seq(S) /\ DOMAIN (p \o q) = 1..(Len(p) + Len(q))
      /\ \A i \in DOMAIN (p \o q) : (p \o q)[i] = IF i <= Len(p) THEN p[i] ELSE q[i - Len(p)]
  BY <1>4, <1>5, <1>6, Concatenated
<1>10. /\ Len(p) \in Nat /\ DOMAIN p = 1..Len(p) /\ Len(q) \in Nat /\ DOMAIN q = 1..Len(q)
  BY <1>4, <1>5, <1>6, LenProperties
<1>11. PICK r : r = p \o q
  OBVIOUS
<1>12. ASSUME NEW i \in DOMAIN r
       PROVE  r[i].op \in {"load", "threads"} /\ (r[i].op = "load" => r[i].after = 0)
  <2>1. i \in 1..(Len(p) + Len(q)) /\ r[i] = IF i <= Len(p) THEN p[i] ELSE q[i - Len(p)]
    BY <1>9, <1>11
  <2>2. CASE i <= Len(p)
    BY <1>7, <1>10, <2>1, <2>2
  <2>3. CASE ~(i <= Len(p))
    <3>1. i - Len(p) \in DOMAIN q
      BY <1>10, <2>1, <2>3
    <3> QED
      BY <1>8, <2>1, <2>3, <3>1
  <2> QED
    BY <2>2, <2>3
<1>13. \A op \in {"login", "threads"} : AsksPages(op, r)
  BY <1>12 DEF AsksPages
<1> QED
  BY <1>1, <1>6, <1>9, <1>11, <1>13

\* A frame that is answered with others.
LEMMA ArrivesWith ==
  ASSUME NEW u, NEW op, NEW d, NEW frames, Receive(u, op, d, frames), op # "create",
         phase' = phase \/ (phase[u] = "connecting" /\ phase' = [phase EXCEPT ![u] = "ready"]),
         NEW F, F = FriendsOf(u), NEW T, T = ThreadsOf(u), NEW G, G = MsgsOf(u), d \in Caches(F, T, G),
         NEW c, c = cache[u], Keeps(c, d), d.pending = c.pending, AsksPages(op, frames),
         op # "login" => Retains(c, d) /\ Delivered(Head(down[u]), c, d),
         frames \in Seq(Requests(u, F, T, texts))
  PROVE  Arrives(u)
<1>1. d \in CachesOf(u) /\ frames \in Seq(RequestsOf(u))
  BY DEF CachesOf, RequestsOf
<1>2. ArrivesAs(u, op, d, frames)
  BY <1>1 DEF ArrivesAs
<1> QED
  BY <1>2 DEF Arrives

\* sig_chat_threads.
LEMMA OnThreadsArrives ==
  ASSUME IInv, NEW u \in Users, OnThreads(u)
  PROVE  Arrives(u)
<1>1. PICK F, T, G, c, f : /\ F = FriendsOf(u) /\ T = ThreadsOf(u) /\ G = MsgsOf(u)
                           /\ c = cache[u] /\ f = Head(down[u])
  OBVIOUS
<1>2. /\ down[u] # <<>> /\ f.op = "threads" /\ UNCHANGED phase
      /\ f.ok => Receive(u, "threads", AppendChatThreads(c, f.threads), Loads(f.threads) \o MoreThreads(f))
      /\ ~f.ok => Receive(u, "threads", c, <<>>)
  BY <1>1 DEF OnThreads
<1>3. Scope(F, T, G) /\ c \in Caches(F, T, G) /\ f \in Answers(F, T, G)
  BY <1>1, <1>2, ClientAt DEF CachesOf, AnswersOf
<1>4. CASE f.ok
  <2>1. f \in Pages(T)
    BY <1>2, <1>3, <1>4, AnswerParts
  <2>2. f.threads \in Seq(ThreadRow(T))
    BY <2>1 DEF Pages
  <2>3. PICK threads, d, frames : /\ threads = f.threads /\ d = AppendChatThreads(c, threads)
                                  /\ frames = Loads(f.threads) \o MoreThreads(f)
    OBVIOUS
  <2>4. frames \in Seq(Requests(u, F, T, texts)) /\ AsksPages("threads", frames)
    BY <2>2, <2>3, AsksFit
  <2>5. d \in Caches(F, T, G) /\ Keeps(c, d) /\ d.pending = c.pending /\ Retains(c, d)
    BY <1>3, <2>2, <2>3, AppendChatThreadsKeeps
  <2>6. Receive(u, "threads", d, frames) /\ "threads" # "create"
    BY <1>2, <1>4, <2>3
  <2>7. Delivered(f, c, d)
    BY <1>2 DEF Delivered
  <2> QED
    BY <1>1, <1>2, <2>4, <2>5, <2>6, <2>7, ArrivesWith
<1>5. CASE ~f.ok
  <2>1. Receive(u, "threads", c, <<>>) /\ Keeps(c, c) /\ Retains(c, c) /\ Delivered(f, c, c)
    BY <1>2, <1>5 DEF Keeps, Retains, Delivered
  <2>2. "threads" = "create" => f.peer \notin c.pending
    OBVIOUS
  <2>3. c.pending \subseteq c.pending
    OBVIOUS
  <2> QED
    BY <1>1, <1>2, <1>3, <2>1, <2>2, <2>3, ArrivesSo
<1> QED
  BY <1>4, <1>5

\* onChatLoggedIn.
LEMMA OnLoginArrives ==
  ASSUME IInv, NEW u \in Users, OnLogin(u), Head(down[u]).ok
  PROVE  Arrives(u)
<1>1. PICK F, T, G, c, f : /\ F = FriendsOf(u) /\ T = ThreadsOf(u) /\ G = MsgsOf(u)
                           /\ c = cache[u] /\ f = Head(down[u])
  OBVIOUS
<1>2. PICK a, b, d, frames :
        /\ a = AppendApplyList(c, f.applies) /\ b = AppendFriendList(a, f.friends)
        /\ d = SetChatThreads(b, f.threads) /\ frames = Loads(f.threads) \o MoreThreads(f)
  OBVIOUS
<1>3. /\ down[u] # <<>> /\ f.op = "login" /\ phase[u] = "connecting"
      /\ phase' = [phase EXCEPT ![u] = "ready"] /\ Receive(u, "login", d, frames)
  BY <1>1, <1>2 DEF OnLogin
<1>4. Scope(F, T, G) /\ c \in Caches(F, T, G) /\ f \in Answers(F, T, G)
  BY <1>1, <1>3, ClientAt DEF CachesOf, AnswersOf
<1>5. f \in Logins(F, T)
  BY <1>1, <1>3, <1>4, AnswerParts
<1>6. f.threads \in Seq(ThreadRow(T)) /\ f.applies \in Seq(ApplyRow) /\ f.friends \in Seq(F)
  BY <1>5 DEF Logins
<1>7. PICK threads, applies, friendList :
        threads = f.threads /\ applies = f.applies /\ friendList = f.friends
  OBVIOUS
<1>8. a \in Caches(F, T, G) /\ Keeps(c, a) /\ a.pending = c.pending
  BY <1>2, <1>4, <1>6, <1>7, AppendApplyListKeeps
<1>9. b \in Caches(F, T, G) /\ Keeps(a, b) /\ b.pending = a.pending
  BY <1>2, <1>4, <1>6, <1>7, <1>8, AppendFriendListKeeps
<1>10. d \in Caches(F, T, G) /\ Keeps(b, d) /\ d.pending = b.pending
  BY <1>2, <1>4, <1>6, <1>7, <1>9, SetChatThreadsKeeps
<1>11. Keeps(c, d) /\ d.pending = c.pending
  BY <1>8, <1>9, <1>10, KeepsOn
<1>12. frames \in Seq(Requests(u, F, T, texts)) /\ AsksPages("login", frames)
  BY <1>2, <1>6, AsksFit
<1>13. "login" # "create"
  OBVIOUS
<1> QED
  BY <1>1, <1>3, <1>10, <1>11, <1>12, <1>13, ArrivesWith

\* Two users with the same conversation with u are the same.
LEMMA ThreadNamesPeer ==
  ASSUME ThreadsInv, NEW u \in Users, NEW v \in Users, NEW w \in Users,
         ThreadsOf(u)[v] = ThreadsOf(u)[w], ThreadsOf(u)[v] # 0
  PROVE  v = w
BY DEF ThreadsInv, ThreadsOf

\* The friend with a conversation.
LEMMA FriendFound ==
  ASSUME NEW F, NEW T, NEW G, Scope(F, T, G), NEW c \in Caches(F, T, G), NEW t \in Nat \ {0},
         FriendIdByThread(c, t) # "none"
  PROVE  FriendIdByThread(c, t) \in F /\ T[FriendIdByThread(c, t)] = t
<1> DEFINE at == {i \in DOMAIN c.list : c.list[i].thread = t}
<1>1. /\ c.list \in Seq(Chat(F, T, G)) /\ \A i \in DOMAIN c.list : c.list[i] \in Chat(F, T, G)
  BY CacheParts
<1>2. DOMAIN c.list = 1..Len(c.list) /\ Len(c.list) \in Nat
  BY <1>1, LenProperties
<1>3. at # {} /\ FriendIdByThread(c, t) = c.list[Min(at)].uid
  BY DEF FriendIdByThread
<1>4. at \in SUBSET Nat
  BY <1>2
<1>5. Min(at) \in at
  BY <1>3, <1>4, MinIsLeast
<1>6. PICK i \in DOMAIN c.list : i = Min(at) /\ c.list[i].thread = t
  BY <1>5
<1>7. c.list[i].uid \in F /\ c.list[i].thread \in {0, T[c.list[i].uid]}
  BY <1>1, <1>6 DEF Chat
<1> HIDE DEF at
<1> QED
  BY <1>3, <1>6, <1>7

\* What a client asks after a page of history: the next one, if there is more.
LEMMA NextPageFits ==
  ASSUME NEW u \in Users, NEW F, NEW T, NEW G, Scope(F, T, G), NEW n, NEW f \in Histories(T, G)
  PROVE  (IF f.more THEN <<[op |-> "load", thread |-> f.thread, after |-> Last(f.msgs).id]>> ELSE <<>>)
           \in Seq(Requests(u, F, T, n))
<1>1. /\ f.thread \in Nat \ {0} /\ f.more \in BOOLEAN /\ f.msgs \in Seq(Message)
      /\ f.more => f.msgs # <<>>
  BY DEF Histories
<1>2. PICK v \in Users : f.thread = T[v]
  BY DEF Histories
<1>3. CASE f.more
  <2>1. PICK msgs, k : msgs = f.msgs /\ msgs \in Seq(Message) /\ msgs # <<>> /\ k = Len(msgs)
    BY <1>1, <1>3
  <2>2. msgs[k] \in Message
    BY <2>1
  <2>3. PICK q : q = [op |-> "load", thread |-> f.thread, after |-> msgs[k].id]
    OBVIOUS
  <2>4. q \in [op : {"load"}, thread : Nat \ {0}, after : Nat] /\ q.thread = T[v]
    BY <1>1, <1>2, <2>2, <2>3 DEF Message
  <2>5. q \in Requests(u, F, T, n)
    BY <2>4 DEF Requests
  <2>6. [op |-> "load", thread |-> f.thread, after |-> Last(f.msgs).id] = q
    BY <2>1, <2>3 DEF Last
  <2> QED
    BY <1>3, <2>5, <2>6, OneFrame
<1>4. CASE ~f.more
  BY <1>4
<1> QED
  BY <1>1, <1>3, <1>4

\* sig_chat_messages.
LEMMA OnMessagesArrives ==
  ASSUME IInv, NEW u \in Users, OnMessages(u)
  PROVE  Arrives(u)
<1>1. PICK F, T, G, c, f : /\ F = FriendsOf(u) /\ T = ThreadsOf(u) /\ G = MsgsOf(u)
                           /\ c = cache[u] /\ f = Head(down[u])
  OBVIOUS
<1>2. PICK v, d, frames :
        /\ v = FriendIdByThread(c, f.thread) /\ d = AppendFriendChatMsg(c, v, f.msgs)
        /\ frames = IF f.more THEN <<[op |-> "load", thread |-> f.thread, after |-> Last(f.msgs).id]>>
                    ELSE <<>>
  OBVIOUS
<1>3. /\ down[u] # <<>> /\ f.op = "load" /\ UNCHANGED phase
      /\ ~f.ok \/ v = "none" => Receive(u, "load", c, <<>>)
      /\ ~(~f.ok \/ v = "none") => Receive(u, "load", d, frames)
  BY <1>1, <1>2 DEF OnMessages
<1>4. Scope(F, T, G) /\ c \in Caches(F, T, G) /\ f \in Answers(F, T, G)
  BY <1>1, <1>3, ClientAt DEF CachesOf, AnswersOf
<1>5. CASE ~f.ok \/ v = "none"
  <2>1. Receive(u, "load", c, <<>>) /\ Keeps(c, c) /\ Retains(c, c) /\ Delivered(f, c, c)
    BY <1>3, <1>5 DEF Keeps, Retains, Delivered
  <2>2. "load" = "create" => f.peer \notin c.pending
    OBVIOUS
  <2>3. c.pending \subseteq c.pending
    OBVIOUS
  <2> QED
    BY <1>1, <1>3, <1>4, <2>1, <2>2, <2>3, ArrivesSo
<1>6. CASE f.ok /\ v # "none"
  <2>1. f \in Histories(T, G)
    BY <1>3, <1>4, <1>6, AnswerParts
  <2>2. f.thread \in Nat \ {0}
    BY <2>1 DEF Histories
  <2>3. PICK w \in Users : f.thread = T[w] /\ f.msgs \in Seq(G[w])
    BY <2>1 DEF Histories
  <2>4. v \in F /\ v \in Users /\ T[v] = f.thread
    <3>1. PICK t \in Nat \ {0} : t = f.thread
      BY <2>2
    <3>2. v \in F /\ T[v] = t
      BY <1>2, <1>4, <1>6, <3>1, FriendFound
    <3> QED
      BY <1>4, <3>1, <3>2 DEF Scope
  <2>5. ThreadsInv
    BY DEF IInv, StoreInv
  <2>6. v = w
    BY <1>1, <2>2, <2>3, <2>4, <2>5, ThreadNamesPeer
  <2>7. c \in Loose(F, T, G) /\ OrderedBut(c, Entry(c, v))
    BY <1>4 DEF Caches, OrderedBut, Loose
  <2>8. PICK msgs : msgs = f.msgs /\ msgs \in Seq(G[v])
    BY <2>3, <2>6
  <2>9. d \in Caches(F, T, G) /\ Keeps(c, d) /\ d.pending = c.pending /\ Retains(c, d)
    BY <1>2, <1>4, <2>4, <2>7, <2>8, AppendFriendChatMsgKeeps
  <2>10. frames \in Seq(Requests(u, F, T, texts))
    BY <1>2, <1>4, <2>1, NextPageFits
  <2>11. Receive(u, "load", d, frames) /\ "load" # "create"
    BY <1>3, <1>6
  <2>12. Delivered(f, c, d)
    BY <1>3 DEF Delivered
  <2>13. AsksPages("load", frames)
    BY <1>2 DEF AsksPages
  <2> QED
    BY <1>1, <1>3, <2>9, <2>10, <2>11, <2>12, <2>13, ArrivesWith
<1> QED
  BY <1>5, <1>6

\* A connection is closed, or made anew: nothing is on its way then but what
\* the client sends first, and no chat of a client with a connection waits.
LEMMA LinkChangeKeeps ==
  ASSUME IInv, NEW u \in Users, UNCHANGED <<store, servers, counts>>,
         NEW l \in Links, link' = [link EXCEPT ![u] = l],
         (l.srv = NoServer /\ l.n = link[u].n) \/ link[u].n < l.n,
         NEW ph \in {"off", "connecting"}, phase' = [phase EXCEPT ![u] = ph],
         ph = "off" <=> l.srv = NoServer,
         NEW x \in Seq(RequestsOf(u)), up' = [up EXCEPT ![u] = x], down' = [down EXCEPT ![u] = <<>>],
         NEW c \in CachesOf(u), cache' = [cache EXCEPT ![u] = c],
         ph = "off" \/ c.pending = {}
  PROVE  IInv'
<1>1. StoreInv /\ SessionInv /\ JobInv /\ WireInv /\ PendingInv
  BY DEF IInv
<1>2. UNCHANGED <<store, job, uip, mgr, texts, faults>>
  BY DEF servers, counts
<1>3. StoreInv' /\ Grows
  BY <1>1, <1>2, NothingChanges
<1>4. /\ link \in [Users -> Links] /\ phase \in [Users -> {"off", "connecting", "ready"}]
      /\ mgr \in [Servers -> [Users -> Nat]] /\ uip \in [Users -> Links]
      /\ \A s \in Servers, v \in Users : mgr[s][v] <= link[v].n
      /\ \A v \in Users : phase[v] = "off" <=> link[v].srv = NoServer
  BY <1>1 DEF SessionInv
<1>5. link[u].n \in Nat /\ l.n \in Nat /\ link[u].n <= l.n
  BY <1>4 DEF Links
<1>6. \A v \in Users : /\ link'[v] = IF v = u THEN l ELSE link[v]
                       /\ phase'[v] = IF v = u THEN ph ELSE phase[v]
  BY <1>4
<1>7. SessionInv'
  <2>1. link' \in [Users -> Links] /\ phase' \in [Users -> {"off", "connecting", "ready"}]
    BY <1>4
  <2>2. \A v \in Users : phase'[v] = "off" <=> link'[v].srv = NoServer
    BY <1>4, <1>6
  <2>3. ASSUME NEW s \in Servers, NEW v \in Users
        PROVE  mgr[s][v] <= link'[v].n
    <3>1. PICK m, k, h : m = mgr[s][v] /\ k = link[v].n /\ h = link'[v].n
      OBVIOUS
    <3>2. m \in Nat /\ k \in Nat /\ h \in Nat /\ m <= k
      BY <1>4, <2>1, <3>1 DEF Links
    <3>3. k <= h
      BY <1>5, <1>6, <3>1, <3>2
    <3> QED
      BY <3>1, <3>2, <3>3
  <2> QED
    BY <1>2, <1>4, <2>1, <2>2, <2>3 DEF SessionInv
<1>8. ASSUME NEW s \in Servers, job[s] # Idle
      PROVE  Current(s, job[s])'
  <2>1. /\ job[s].by \in Users /\ job[s].n \in Nat /\ job[s].n <= link[job[s].by].n
        /\ job[s].n = link[job[s].by].n => link[job[s].by].srv \in {s, NoServer}
    BY <1>1, <1>8, JobFits DEF Current
  <2>2. CASE job[s].by = u
    <3>1. PICK k, h : k = job[s].n /\ h = link[u].n
      OBVIOUS
    <3>2. k \in Nat /\ h \in Nat /\ k <= h /\ (k = h => link[u].srv \in {s, NoServer})
      BY <1>5, <2>1, <2>2, <3>1
    <3>3. k <= l.n /\ (k = l.n => l.srv \in {s, NoServer})
      BY <1>5, <3>1, <3>2
    <3>4. job'[s].by = u /\ job'[s].n = k /\ link'[u] = l
      BY <1>2, <1>6, <2>2, <3>1
    <3> QED
      BY <3>3, <3>4 DEF Current
  <2>3. CASE job[s].by # u
    <3>1. link'[job[s].by] = link[job[s].by]
      BY <1>6, <2>1, <2>3
    <3> QED
      BY <1>2, <2>1, <3>1 DEF Current
  <2> QED
    BY <2>2, <2>3
<1>9. WireInv'
  <2>1. PICK y : y = <<>>
    OBVIOUS
  <2>2. x \in Seq(RequestsOf(u)') /\ y \in Seq(AnswersOf(u)') /\ c \in CachesOf(u)'
    BY <1>3, <2>1, AllGrow
  <2> QED
    BY <1>1, <1>3, <2>1, <2>2, WiresFit
<1>10. PendingInv'
  <2> SUFFICES ASSUME NEW w \in Users, NEW v \in cache'[w].pending, phase'[w] # "off"
               PROVE  UnderWay(w, v)'
    BY DEF PendingInv
  <2>1. up = [z \in Users |-> up[z]] /\ down = [z \in Users |-> down[z]] /\ cache = [z \in Users |-> cache[z]]
    BY <1>1 DEF WireInv
  <2>2. w # u
    BY <1>6, <2>1
  <2>3. /\ up'[w] = up[w] /\ down'[w] = down[w] /\ cache'[w] = cache[w] /\ phase'[w] = phase[w]
        /\ link'[w] = link[w]
    BY <1>6, <2>1, <2>2
  <2>4. UnderWay(w, v)
    BY <1>1, <2>3 DEF PendingInv
  <2> QED
    BY <1>2, <2>3, <2>4 DEF UnderWay
<1> QED
  BY <1>2, <1>3, <1>7, <1>8, <1>9, <1>10, ClientMoves

\* CloseConnection.
LEMMA CloseKeeps ==
  ASSUME IInv, NEW u \in Users, CloseConnection(u), UNCHANGED <<store, servers, counts>>,
         NEW c \in CachesOf(u), cache' = [cache EXCEPT ![u] = c]
  PROVE  IInv'
<1>1. /\ link' = [link EXCEPT ![u].srv = NoServer]
      /\ up' = [up EXCEPT ![u] = <<>>] /\ down' = [down EXCEPT ![u] = <<>>]
      /\ phase' = [phase EXCEPT ![u] = "off"]
  BY DEF CloseConnection
<1>2. link \in [Users -> Links]
  BY DEF IInv, SessionInv
<1>3. PICK l, ph, x : /\ l = [srv |-> NoServer, n |-> link[u].n] /\ ph = "off" /\ x = <<>>
  OBVIOUS
<1>4. l \in Links /\ l.srv = NoServer /\ l.n = link[u].n
  BY <1>2, <1>3 DEF Links
<1>5. link' = [link EXCEPT ![u] = l]
  <2>1. link[u] = [srv |-> link[u].srv, n |-> link[u].n]
    BY <1>2 DEF Links
  <2>2. [link[u] EXCEPT !.srv = NoServer] = l
    BY <1>3, <2>1
  <2> QED
    BY <1>1, <2>2
<1>6. x \in Seq(RequestsOf(u)) /\ ph \in {"off", "connecting"}
  BY <1>3
<1> QED
  BY <1>1, <1>3, <1>4, <1>5, <1>6, LinkChangeKeeps

\* onChatLoginFailed.
LEMMA LoginFailedKeeps ==
  ASSUME IInv, NEW u \in Users, OnLogin(u), ~Head(down[u]).ok
  PROVE  IInv'
<1>1. CloseConnection(u) /\ UNCHANGED <<store, servers, cache, counts>>
  BY DEF OnLogin
<1>2. PICK c : c = cache[u]
  OBVIOUS
<1>3. c \in CachesOf(u) /\ cache = [v \in Users |-> cache[v]]
  BY <1>2 DEF IInv, WireInv
<1>4. cache' = [cache EXCEPT ![u] = c]
  BY <1>1, <1>2, <1>3
<1> QED
  BY <1>1, <1>3, <1>4, CloseKeeps

\* The connection is lost or ended.
LEMMA DisconnectedShows ==
  ASSUME IInv, NEW u \in Users, NEW c, c = FailPendingMessages(cache[u])
  PROVE  c \in CachesOf(u) /\ Keeps(cache[u], c)
<1>1. PICK F, T, G, b : F = FriendsOf(u) /\ T = ThreadsOf(u) /\ G = MsgsOf(u) /\ b = cache[u]
  OBVIOUS
<1>2. Scope(F, T, G) /\ b \in Caches(F, T, G)
  BY <1>1, ClientAt DEF CachesOf
<1>3. c \in Caches(F, T, G) /\ Keeps(b, c)
  BY <1>1, <1>2, FailPendingKeeps
<1> QED
  BY <1>1, <1>3 DEF CachesOf

\* The invariant is kept when the connection ends.
LEMMA DisconnectedKeeps ==
  ASSUME IInv, NEW u \in Users, Disconnected(u)
  PROVE  IInv'
<1>1. PICK c : c = FailPendingMessages(cache[u])
  OBVIOUS
<1>2. /\ CloseConnection(u) /\ cache' = [cache EXCEPT ![u] = c]
      /\ UNCHANGED <<store, servers, counts>>
  BY <1>1 DEF Disconnected
<1>3. c \in CachesOf(u)
  BY <1>1, DisconnectedShows
<1> QED
  BY <1>2, <1>3, CloseKeeps

\* A session starts with nothing of the one before.
LEMMA ConnectKeeps ==
  ASSUME IInv, MessagingAssumption, NEW u \in Users, NEW s \in Servers, ConnectToChat(u, s)
  PROVE  IInv'
<1>1. link \in [Users -> Links]
  BY DEF IInv, SessionInv
<1>2. PICK l, ph, q, x, c :
        /\ l = [srv |-> s, n |-> link[u].n + 1] /\ ph = "connecting"
        /\ q = [op |-> "login"] /\ x = <<q>> /\ c = ClearSession
  OBVIOUS
<1>3. /\ link' = [link EXCEPT ![u] = l] /\ up' = [up EXCEPT ![u] = x]
      /\ down' = [down EXCEPT ![u] = <<>>] /\ phase' = [phase EXCEPT ![u] = ph]
      /\ cache' = [cache EXCEPT ![u] = c] /\ UNCHANGED <<store, servers, counts>>
  BY <1>1, <1>2 DEF ConnectToChat
<1>4. l \in Links /\ link[u].n < l.n /\ l.srv # NoServer
  BY <1>1, <1>2 DEF Links, MessagingAssumption
<1>5. x \in Seq(RequestsOf(u))
  <2>1. q \in RequestsOf(u)
    BY <1>2 DEF RequestsOf, Requests
  <2> QED
    BY <1>2, <2>1, OneFrame
<1>6. c \in CachesOf(u) /\ c.pending = {}
  BY <1>2 DEF ClearSession, CachesOf, Caches, Loose, OrderedBut
<1>7. ph \in {"off", "connecting"} /\ ph # "off"
  BY <1>2
<1> QED
  BY <1>3, <1>4, <1>5, <1>6, <1>7, LinkChangeKeeps

-----------------------------------------------------------------------------
(* The users.                                                              *)

\* A client asks for something.
LEMMA AsksKeeps ==
  ASSUME IInv, NEW u \in Users, StoreInv', Grows,
         UNCHANGED <<store, servers, link, down, phase, faults>>,
         NEW frames, Request(u, frames), frames \in Seq(RequestsOf(u)'),
         NEW c, cache' = [cache EXCEPT ![u] = c], c \in CachesOf(u)', AskedFor(u, c, frames)
  PROVE  IInv'
<1>1. SessionInv /\ JobInv /\ WireInv /\ PendingInv
  BY DEF IInv
<1>2. UNCHANGED <<store, job, uip, mgr, link, phase, faults>>
  BY DEF servers
<1>3. PICK x, y, S : x = up[u] \o frames /\ y = down[u] /\ S = RequestsOf(u)'
  OBVIOUS
<1>4. up' = [up EXCEPT ![u] = x] /\ down' = [down EXCEPT ![u] = y]
  <2>1. down = [v \in Users |-> down[v]]
    BY <1>1 DEF WireInv
  <2>2. down = [down EXCEPT ![u] = y]
    BY <1>3, <2>1
  <2> QED
    BY <1>3, <2>2 DEF Request
<1>5. up[u] \in Seq(S) /\ frames \in Seq(S) /\ y \in Seq(AnswersOf(u)')
  BY <1>1, <1>3, AllGrow DEF WireInv
<1>6. x \in Seq(RequestsOf(u)')
  BY <1>3, <1>5, ConcatProperties
<1>7. WireInv'
  BY <1>1, <1>4, <1>5, <1>6, WiresFit
<1>8. StillAnswered(u, c, y)
  BY <1>3 DEF StillAnswered
<1>9. PendingInv'
  BY <1>1, <1>2, <1>3, <1>4, <1>5, <1>8, PendingClient
<1>10. SessionInv'
  BY <1>1, <1>2, SessionStep
<1>11. \A s \in Servers : job[s] # Idle => Current(s, job[s])'
  BY <1>1, <1>2 DEF JobInv, Current
<1> QED
  BY <1>2, <1>7, <1>9, <1>10, <1>11, ClientMoves

\* The conversation a cache knows is the one with that user.
LEMMA FriendKnown ==
  ASSUME NEW F, NEW T, NEW G, NEW c \in Caches(F, T, G), NEW v
  PROVE  /\ CheckFriendById(c, v) => v \in F
         /\ ThreadId(c, v) \in {0, T[v]}
<1>1. /\ c.list \in Seq(Chat(F, T, G)) /\ \A i \in DOMAIN c.list : c.list[i] \in Chat(F, T, G)
  BY CacheParts
<1>2. PICK k : k = Entry(c, v)
  OBVIOUS
<1>3. k # 0 => k \in DOMAIN c.list /\ c.list[k].uid = v
  BY <1>1, <1>2, EntryFinds
<1>4. k # 0 => v \in F /\ c.list[k].thread \in {0, T[v]}
  BY <1>1, <1>3 DEF Chat
<1> QED
  BY <1>2, <1>4 DEF CheckFriendById, ThreadId

\* ensurePrivateChat asks for the conversation, or it is known or asked for.
LEMMA EnsureFits ==
  ASSUME NEW u \in Users, NEW F, NEW T, NEW n, NEW v \in F
  PROVE  /\ Ensure(u, v) \in Seq(Requests(u, F, T, n))
         /\ Ensure(u, v) # <<>> => 1 \in DOMAIN Ensure(u, v) /\ CreateOf(u, v, Ensure(u, v)[1])
<1>1. PICK q : q = [op |-> "create", to |-> v]
  OBVIOUS
<1>2. q \in Requests(u, F, T, n)
  BY <1>1 DEF Requests
<1>3. Ensure(u, v) = <<>> \/ Ensure(u, v) = <<q>>
  BY <1>1 DEF Ensure
<1>4. CreateOf(u, v, q)
  BY <1>1 DEF CreateOf
<1>5. PICK S : S = Requests(u, F, T, n)
  OBVIOUS
<1>6. CASE Ensure(u, v) = <<>>
  BY <1>6
<1>7. CASE Ensure(u, v) = <<q>>
  <2>1. PICK x : x = <<q>>
    OBVIOUS
  <2>2. x \in Seq(S) /\ 1 \in DOMAIN x /\ x[1] = q
    BY <1>2, <1>5, <2>1, OneFrame
  <2>3. Ensure(u, v) = x
    BY <1>7, <2>1
  <2> QED
    BY <1>4, <1>5, <2>2, <2>3
<1> QED
  BY <1>3, <1>6, <1>7

\* A click that asks something of the server.
LEMMA ClickKeeps ==
  ASSUME IInv, NEW u \in Users, NEW c \in CachesOf(u), NEW frames \in Seq(RequestsOf(u)),
         Click(u, c, frames), AskedFor(u, c, frames)
  PROVE  IInv'
<1>1. /\ UNCHANGED <<store, servers, link, down, phase, texts, faults>>
      /\ Request(u, frames) /\ cache' = [cache EXCEPT ![u] = c]
  BY DEF Click
<1>2. StoreInv
  BY DEF IInv
<1>3. StoreInv' /\ Grows
  BY <1>1, <1>2, NothingChanges
<1>4. frames \in Seq(RequestsOf(u)') /\ c \in CachesOf(u)'
  BY <1>3, AllGrow
<1> QED
  BY <1>1, <1>3, <1>4, AsksKeeps

\* applyFriend and authFriend.
LEMMA ApplyFriendKeeps ==
  ASSUME IInv, NEW u \in Users, NEW v \in Users, ApplyFriend(u, v) \/ AuthFriend(u, v)
  PROVE  IInv' /\ cache' = cache
<1>1. PICK q, c, frames :
        /\ q \in {[op |-> "apply", to |-> v], [op |-> "auth", to |-> v]} /\ frames = <<q>>
        /\ c = cache[u] /\ Click(u, c, frames) /\ (q.op = "apply" => u # v)
  <2>1. CASE ApplyFriend(u, v)
    BY <2>1 DEF ApplyFriend
  <2>2. CASE AuthFriend(u, v)
    BY <2>2 DEF AuthFriend
  <2> QED
    BY <2>1, <2>2
<1>2. q \in RequestsOf(u)
  BY <1>1 DEF RequestsOf, Requests
<1>3. c \in CachesOf(u) /\ frames \in Seq(RequestsOf(u)) /\ AskedFor(u, c, frames)
  BY <1>1, <1>2, OneFrame, ClientAt DEF AskedFor
<1>4. cache = [w \in Users |-> cache[w]]
  BY DEF IInv, WireInv
<1>5. cache' = cache
  BY <1>1, <1>4 DEF Click
<1> QED
  BY <1>1, <1>3, <1>5, ClickKeeps

\* openChat.
LEMMA OpenChatKeeps ==
  ASSUME IInv, NEW u \in Users, NEW v \in Users, OpenChat(u, v)
  PROVE  /\ IInv'
         /\ \E c : cache' = [cache EXCEPT ![u] = c] /\ Keeps(cache[u], c) /\ Retains(cache[u], c)
<1>1. PICK F, T, G, b, c, frames :
        /\ F = FriendsOf(u) /\ T = ThreadsOf(u) /\ G = MsgsOf(u) /\ b = cache[u]
        /\ c = Waits(b, v) /\ frames = Ensure(u, v)
  OBVIOUS
<1>2. CheckFriendById(b, v) /\ frames # <<>> /\ Click(u, c, frames)
  BY <1>1 DEF OpenChat, Waits
<1>3. b \in Caches(F, T, G)
  BY <1>1, ClientAt DEF CachesOf
<1>4. v \in F
  BY <1>2, <1>3, FriendKnown
<1>5. c \in Caches(F, T, G) /\ Keeps(b, c) /\ Retains(b, c) /\ c.pending = b.pending \cup {v}
  BY <1>1, <1>3, WaitsKeeps
<1>6. /\ frames \in Seq(Requests(u, F, T, texts))
      /\ 1 \in DOMAIN frames /\ CreateOf(u, v, frames[1])
  BY <1>1, <1>2, <1>4, EnsureFits
<1>7. c \in CachesOf(u) /\ frames \in Seq(RequestsOf(u))
  BY <1>1, <1>5, <1>6 DEF CachesOf, RequestsOf
<1>8. AskedFor(u, c, frames)
  BY <1>1, <1>5, <1>6 DEF AskedFor
<1>9. cache' = [cache EXCEPT ![u] = c]
  BY <1>2 DEF Click
<1> QED
  BY <1>1, <1>2, <1>5, <1>7, <1>8, <1>9, ClickKeeps

\* Another text is typed.
LEMMA TypedMore ==
  ASSUME StoreInv, UNCHANGED store, texts' = texts + 1
  PROVE  StoreInv' /\ Grows
<1>1. UNCHANGED <<applied, friends, threadOf, chat, lastId>>
  BY DEF store
<1>2. texts \in Nat /\ texts' \in Nat /\ texts <= texts' /\ (\A k : k \in 0..texts => k \in 0..texts')
  BY DEF StoreInv, ChatInv
<1>3. FriendsInv' /\ ThreadsInv'
  BY <1>1 DEF StoreInv, FriendsInv, ThreadsInv, AreFriends
<1>4. ASSUME NEW r \in chat
      PROVE  Row(r)'
  <2>1. Row(r)
    BY DEF StoreInv, ChatInv
  <2> QED
    BY <1>1, <1>2, <2>1 DEF Row
<1>5. ChatInv'
  BY <1>1, <1>2, <1>4 DEF StoreInv, ChatInv, SameKey
<1>6. StoreInv'
  BY <1>3, <1>5 DEF StoreInv
<1> QED
  BY <1>1, <1>2, <1>6, TablesGrow

\* What has been typed is fit for the chat and for the wire.
LEMMA TextFits ==
  ASSUME NEW u \in Users, NEW F, NEW T \in [Users -> Nat], F \subseteq Users, NEW R, NEW n \in Nat \ {0},
         NEW v \in F, NEW t \in {0, T[v]}, NEW cid, cid = <<u, v, n>>
  PROVE  /\ [cid |-> cid, id |-> 0, from |-> u, status |-> "sending"] \in Msgs(u, R, n)[v]
         /\ [op |-> "text", to |-> v, cid |-> cid, thread |-> t] \in Requests(u, F, T, n)
<1>1. v \in Users /\ t \in Nat /\ n \in 1..n /\ cid \in Cids
  BY DEF Cids
<1>2. PICK m : m = [cid |-> cid, id |-> 0, from |-> u, status |-> "sending"]
  OBVIOUS
<1>3. m \in Message
  BY <1>1, <1>2 DEF Message, Statuses
<1>4. m \in Typed(u, v, n)
  BY <1>1, <1>2, <1>3 DEF Typed
<1>5. Msgs(u, R, n)[v] = R[v] \cup Typed(u, v, n)
  BY <1>1 DEF Msgs
<1>6. PICK q : q = [op |-> "text", to |-> v, cid |-> cid, thread |-> t]
  OBVIOUS
<1>7. q \in [op : {"text"}, to : F, cid : Cids, thread : Nat] /\ q.to = v /\ q.thread = t /\ q.cid = cid
  BY <1>1, <1>6
<1>8. q \in Requests(u, F, T, n)
  BY <1>1, <1>7 DEF Requests
<1> QED
  BY <1>2, <1>4, <1>5, <1>6, <1>8

\* sendText.
LEMMA SendTextKeeps ==
  ASSUME IInv, NEW u \in Users, NEW v \in Users, SendText(u, v)
  PROVE  /\ IInv'
         /\ \E c : cache' = [cache EXCEPT ![u] = c] /\ Keeps(cache[u], c) /\ Retains(cache[u], c)
<1>1. PICK F, T, R, n, G, b, t, cid, m, q :
        /\ F = FriendsOf(u) /\ T = ThreadsOf(u) /\ R = StoredOf(u) /\ n = texts + 1
        /\ G = Msgs(u, R, n) /\ b = cache[u] /\ t = ThreadId(b, v) /\ cid = <<u, v, n>>
        /\ m = [cid |-> cid, id |-> 0, from |-> u, status |-> "sending"]
        /\ q = [op |-> "text", to |-> v, cid |-> cid, thread |-> t]
  OBVIOUS
<1>2. PICK e, frames, d, c :
        /\ e = Ensure(u, v) /\ frames = e \o <<q>>
        /\ d = (IF e = <<>> THEN b ELSE Waits(b, v)) /\ c = AppendFriendChatMsg(d, v, <<m>>)
  OBVIOUS
<1>3. /\ CheckFriendById(b, v) /\ texts' = n /\ Request(u, frames)
      /\ UNCHANGED <<store, servers, link, down, phase, faults>>
  BY <1>1, <1>2 DEF SendText
<1>4. cache' = [cache EXCEPT ![u] = c]
  <2>1. cache' = [cache EXCEPT ![u] = AppendFriendChatMsg(
          IF Ensure(u, v) = <<>> THEN @ ELSE MarkPrivateChatPending(@, v, TRUE), v,
          <<[cid |-> <<u, v, texts + 1>>, id |-> 0, from |-> u, status |-> "sending"]>>)]
    BY DEF SendText
  <2> QED
    BY <1>1, <1>2, <2>1 DEF Waits
<1>5. StoreInv /\ texts \in Nat
  BY DEF IInv, StoreInv, ChatInv
<1>6. StoreInv' /\ Grows
  BY <1>1, <1>3, <1>5, TypedMore
<1>7. /\ FriendsOf(u)' = F /\ ThreadsOf(u)' = T /\ MsgsOf(u)' = G
      /\ CachesOf(u)' = Caches(F, T, G) /\ RequestsOf(u)' = Requests(u, F, T, n)
  BY <1>1, <1>3 DEF store, FriendsOf, ThreadsOf, StoredOf, MsgsOf, AreFriends, CachesOf, RequestsOf
<1>8. Scope(F, T, G)
  BY <1>1, <1>5, TablesFitAny
<1>9. b \in Caches(F, T, G)
  BY <1>1, <1>6, <1>7, ClientAt, AllGrow
<1>10. v \in F /\ t \in {0, T[v]}
  BY <1>1, <1>3, <1>9, FriendKnown
<1>11. m \in G[v] /\ q \in Requests(u, F, T, n)
  <2>1. F \subseteq Users /\ T \in [Users -> Nat] /\ n \in Nat \ {0}
    BY <1>1, <1>5, <1>8 DEF Scope
  <2> QED
    BY <1>1, <1>10, <2>1, TextFits
<1>12. /\ d \in Caches(F, T, G) /\ Keeps(b, d) /\ Retains(b, d)
       /\ d.pending = IF e = <<>> THEN b.pending ELSE b.pending \cup {v}
  <2>1. CASE e = <<>>
    BY <1>2, <1>9, <2>1 DEF Keeps, Retains
  <2>2. CASE e # <<>>
    BY <1>2, <1>9, <2>2, WaitsKeeps
  <2> QED
    BY <2>1, <2>2
<1>13. c \in Caches(F, T, G) /\ Keeps(d, c) /\ c.pending = d.pending /\ Retains(d, c)
  <2>1. PICK batch : batch = <<m>> /\ batch \in Seq(G[v])
    BY <1>11, OneFrame
  <2>2. d \in Loose(F, T, G) /\ OrderedBut(d, Entry(d, v))
    BY <1>12 DEF Caches, OrderedBut, Loose
  <2>3. LET a == AppendFriendChatMsg(d, v, batch) IN
          a \in Caches(F, T, G) /\ Keeps(d, a) /\ a.pending = d.pending /\ Retains(d, a)
    BY <1>8, <2>1, <2>2, AppendFriendChatMsgKeeps
  <2>4. c = AppendFriendChatMsg(d, v, batch)
    BY <1>2, <2>1
  <2> QED
    BY <2>3, <2>4
<1>14. Keeps(b, c) /\ Retains(b, c)
  <2>1. Retains(b, c)
    BY <1>12, <1>13 DEF Retains
  <2> QED
    BY <1>12, <1>13, <2>1, KeepsOn
<1>15. PICK S, x : S = Requests(u, F, T, n) /\ x = <<q>>
  OBVIOUS
<1>16. /\ e \in Seq(S) /\ (e # <<>> => 1 \in DOMAIN e /\ CreateOf(u, v, e[1]))
       /\ x \in Seq(S)
  BY <1>2, <1>10, <1>11, <1>15, EnsureFits, OneFrame
<1>17. frames \in Seq(S) /\ \A i \in DOMAIN e : i \in DOMAIN frames /\ frames[i] = e[i]
  <2>1. frames = e \o x
    BY <1>2, <1>15
  <2>2. e \in Seq(S) /\ x \in Seq(S)
    BY <1>16
  <2> QED
    BY <2>1, <2>2, ConcatProperties, LenProperties
<1>18. AskedFor(u, c, frames)
  BY <1>1, <1>12, <1>13, <1>16, <1>17 DEF AskedFor
<1>19. IInv'
  BY <1>3, <1>4, <1>6, <1>7, <1>13, <1>15, <1>17, <1>18, AsksKeeps
<1> QED
  BY <1>1, <1>4, <1>14, <1>19

-----------------------------------------------------------------------------
(* The invariant holds at the start and is kept.                           *)

\* The frames a client takes.
LEMMA ClientStepShows ==
  ASSUME IInv, NEW u \in Users, ClientStep(u)
  PROVE  Arrives(u) \/ (OnLogin(u) /\ ~Head(down[u]).ok)
BY OnLoginArrives, OnThreadsArrives, OnMessagesArrives, OnTextFailedArrives, OnTextArrives,
   OnCreatedArrives, OnApplyArrives, OnAuthArrives DEF ClientStep

\* A frame that a client takes keeps the invariant.
LEMMA ClientStepKeeps ==
  ASSUME IInv, NEW u \in Users, ClientStep(u)
  PROVE  IInv'
BY ClientStepShows, ArrivesKeeps, LoginFailedKeeps

\* What a user does keeps the invariant.
LEMMA UserStepKeeps ==
  ASSUME IInv, MessagingAssumption, NEW u \in Users, UserStep(u)
  PROVE  IInv'
BY ConnectKeeps, DisconnectedKeeps, SendTextKeeps, OpenChatKeeps, ApplyFriendKeeps DEF UserStep

\* Every step keeps the invariant.
LEMMA NextKeeps ==
  ASSUME IInv, StoreAssumption, MessagingAssumption, Next
  PROVE  IInv'
BY ServerStepKeeps, DealMsgKeeps, CleanupKeeps, ClientStepKeeps, UserStepKeeps DEF Next

\* A step that changes nothing.
LEMMA StutterKeeps ==
  ASSUME IInv, UNCHANGED vars
  PROVE  IInv'
<1>1. /\ StoreInv /\ SessionInv /\ JobInv /\ WireInv /\ PendingInv
      /\ UNCHANGED <<store, job, uip, mgr, link, up, down, phase, cache, texts, faults>>
  BY DEF IInv, vars, servers, clients, counts
<1>2. StoreInv' /\ Grows
  BY <1>1, NothingChanges
<1>3. SessionInv'
  BY <1>1, SessionStep
<1>4. WireInv'
  BY <1>1, <1>2, WireStep
<1>5. PendingInv'
  BY <1>1 DEF PendingInv, UnderWay
<1>6. \A s \in Servers : job[s] # Idle => Current(s, job[s])'
  BY <1>1 DEF JobInv, Current
<1> QED
  BY <1>1, <1>2, <1>3, <1>4, <1>5, <1>6, ClientMoves

\* The threads of a scenario are numbered.
LEMMA ThreadsNumbered ==
  ASSUME Init, StoreAssumption, MessagingAssumption
  PROVE  ThreadsInv
<1> DEFINE older == SetToSeq(scenario.threads)
           no(p) == CHOOSE i \in DOMAIN older : older[i] = {p[1], p[2]}
<1>1. scenario.threads \subseteq SUBSET Users
  <2>1. \A f \in scenario.friends : \E p \in Pairs : f = {p[1], p[2]}
    BY DEF Init, MessagingAssumption
  <2>2. \A p \in Pairs : {p[1], p[2]} \subseteq Users
    BY DEF Pairs
  <2>3. scenario.threads \subseteq scenario.friends
    BY DEF Init, MessagingAssumption
  <2> QED
    BY <2>1, <2>2, <2>3
<1>2. IsFiniteSet(scenario.threads)
  BY <1>1, FS_SUBSET, FS_Subset DEF StoreAssumption
<1>3. older \in Seq(scenario.threads) /\ \A f \in scenario.threads : \E i \in DOMAIN older : older[i] = f
  <2>1. PICK S : S = scenario.threads
    OBVIOUS
  <2>2. SetToSeq(S) \in Seq(S) /\ \A f \in S : \E i \in DOMAIN SetToSeq(S) : SetToSeq(S)[i] = f
    BY <1>2, <2>1, SetToSeqLists
  <2> QED
    BY <2>1, <2>2
<1>4. DOMAIN older \subseteq Nat \ {0}
  <2>1. PICK s, S : s = older /\ s \in Seq(S)
    BY <1>3
  <2>2. DOMAIN s \subseteq Nat \ {0}
    BY <2>1, LenProperties
  <2> QED
    BY <2>1, <2>2
<1>5. threadOf = [p \in Pairs |-> IF {p[1], p[2]} \in scenario.threads THEN no(p) ELSE 0]
  BY DEF Init
<1>6. ASSUME NEW p \in Pairs, {p[1], p[2]} \in scenario.threads
      PROVE  no(p) \in DOMAIN older /\ older[no(p)] = {p[1], p[2]}
  BY <1>3, <1>6
<1> HIDE DEF older, no
<1>7. ASSUME NEW u \in Users, NEW v \in Users
      PROVE  /\ threadOf[<<u, v>>] \in Nat
             /\ threadOf[<<u, v>>] # 0 => older[threadOf[<<u, v>>]] = {u, v}
  <2>1. PICK p : p = <<u, v>>
    OBVIOUS
  <2>2. p \in Pairs /\ p[1] = u /\ p[2] = v
    BY <2>1 DEF Pairs
  <2>3. threadOf[p] = IF {u, v} \in scenario.threads THEN no(p) ELSE 0
    BY <1>5, <2>2
  <2> QED
    BY <1>4, <1>6, <2>1, <2>2, <2>3
<1>8. threadOf \in [Pairs -> Nat]
  BY <1>4, <1>5, <1>6
<1>9. ASSUME NEW u \in Users, NEW v \in Users
      PROVE  threadOf[<<u, v>>] = threadOf[<<v, u>>]
  <2>1. PICK p, q : p = <<u, v>> /\ q = <<v, u>>
    OBVIOUS
  <2>2. p \in Pairs /\ q \in Pairs /\ {p[1], p[2]} = {u, v} /\ {q[1], q[2]} = {u, v}
    BY <2>1 DEF Pairs
  <2>3. no(p) = no(q)
    BY <2>2 DEF no
  <2> QED
    BY <1>5, <2>1, <2>2, <2>3
<1>10. ASSUME NEW u \in Users, NEW v \in Users, NEW w \in Users, NEW x \in Users,
              threadOf[<<u, v>>] # 0, threadOf[<<u, v>>] = threadOf[<<w, x>>]
       PROVE  (u = w /\ v = x) \/ (u = x /\ v = w)
  <2>1. {u, v} = {w, x}
    BY <1>7, <1>10
  <2> QED
    BY <2>1
<1> QED
  BY <1>8, <1>9, <1>10 DEF ThreadsInv

\* The invariant holds at the start.
LEMMA InitKeeps ==
  ASSUME Init, StoreAssumption, MessagingAssumption
  PROVE  IInv
<1>1. /\ scenario \in Scenarios
      /\ friends = {p \in Pairs : {p[1], p[2]} \in scenario.friends}
      /\ applied = [p \in Pairs |-> IF p \in scenario.asked THEN 0 ELSE NoApply]
      /\ chat = {} /\ lastId = 0
      /\ job = [s \in Servers |-> Idle]
      /\ uip = [u \in Users |-> [srv |-> NoServer, n |-> 0]]
      /\ mgr = [s \in Servers |-> [u \in Users |-> 0]]
      /\ link = [u \in Users |-> [srv |-> NoServer, n |-> 0]]
      /\ up = [u \in Users |-> <<>>] /\ down = [u \in Users |-> <<>>]
      /\ phase = [u \in Users |-> "off"]
      /\ cache = [u \in Users |-> ClearSession]
      /\ texts = 0 /\ faults = 0
  BY DEF Init
<1>2. /\ \A f \in scenario.friends : \E p \in Pairs : p[1] # p[2] /\ f = {p[1], p[2]}
      /\ \A p \in scenario.asked : p \in Pairs /\ p[1] # p[2]
  BY <1>1 DEF MessagingAssumption
<1>3. FriendsInv
  <2>1. applied \in [Pairs -> {NoApply, 0, 1}] /\ friends \subseteq Pairs
    BY <1>1
  <2>2. ASSUME NEW u \in Users, NEW v \in Users
        PROVE  /\ applied[<<u, v>>] # NoApply => u # v
               /\ AreFriends(u, v) => AreFriends(v, u) /\ u # v
    <3>1. PICK p, q : p = <<u, v>> /\ q = <<v, u>>
      OBVIOUS
    <3>2. p \in Pairs /\ q \in Pairs /\ p[1] = u /\ p[2] = v /\ q[1] = v /\ q[2] = u
      BY <3>1 DEF Pairs
    <3>3. applied[p] # NoApply => u # v
      BY <1>1, <1>2, <3>2
    <3>4. p \in friends => {u, v} \in scenario.friends
      BY <1>1, <3>2
    <3>5. {u, v} \in scenario.friends => q \in friends /\ u # v
      <4>1. {u, v} = {q[1], q[2]}
        BY <3>2
      <4>2. {u, v} \in scenario.friends => q \in friends
        BY <1>1, <3>2, <4>1
      <4>3. {u, v} \in scenario.friends => u # v
        BY <1>2
      <4> QED
        BY <4>2, <4>3
    <3> QED
      BY <3>1, <3>3, <3>4, <3>5 DEF AreFriends
  <2> QED
    BY <2>1, <2>2 DEF FriendsInv
<1>4. ThreadsInv
  BY ThreadsNumbered
<1>5. ChatInv
  BY <1>1, FS_EmptySet DEF ChatInv
<1>6. SessionInv
  BY <1>1 DEF SessionInv, Links
<1>7. JobInv /\ CommitInv /\ FaultInv
  <2>1. \A s \in Servers : job[s] = Idle /\ ~At(s, "commit")
    BY <1>1 DEF Idle, At
  <2>2. job = [s \in Servers |-> job[s]]
    BY <1>1
  <2> QED
    BY <1>1, <2>1, <2>2 DEF JobInv, CommitInv, FaultInv
<1>8. WireInv
  <2>1. \A u \in Users : up[u] = <<>> /\ down[u] = <<>> /\ cache[u] = ClearSession
    BY <1>1
  <2>2. \A F, T, G : ClearSession \in Caches(F, T, G)
    BY DEF ClearSession, Caches, Loose, OrderedBut
  <2>3. up = [u \in Users |-> up[u]] /\ down = [u \in Users |-> down[u]] /\ cache = [u \in Users |-> cache[u]]
    BY <1>1
  <2>4. ASSUME NEW u \in Users
        PROVE  up[u] \in Seq(RequestsOf(u)) /\ down[u] \in Seq(AnswersOf(u)) /\ cache[u] \in CachesOf(u)
    <3>1. PICK F, T, G, P, Q : /\ F = FriendsOf(u) /\ T = ThreadsOf(u) /\ G = MsgsOf(u)
                               /\ P = RequestsOf(u) /\ Q = AnswersOf(u)
      OBVIOUS
    <3>2. <<>> \in Seq(P) /\ <<>> \in Seq(Q) /\ ClearSession \in Caches(F, T, G)
      BY <2>2
    <3> QED
      BY <2>1, <3>1, <3>2 DEF CachesOf
  <2> QED
    BY <2>3, <2>4 DEF WireInv
<1>9. PendingInv
  BY <1>1 DEF PendingInv
<1> QED
  BY <1>3, <1>4, <1>5, <1>6, <1>7, <1>8, <1>9 DEF IInv, StoreInv

\* The invariant.
THEOREM InductiveInvariant == Spec => []IInv
<1>1. Init => IInv
  BY InitKeeps, StoreAssumption, MessagingAssumption
<1>2. IInv /\ [Next]_vars => IInv'
  BY NextKeeps, StutterKeeps, StoreAssumption, MessagingAssumption
<1> QED
  BY <1>1, <1>2, PTL DEF Spec

-----------------------------------------------------------------------------
(* The properties.                                                         *)

\* The rows have distinct ids below the counter, a pair has one conversation,
\* UserMgr knows sessions the user has had, a client without a connection is off.
THEOREM TypeCorrect == Spec => []TypeOK
<1>1. IInv => TypeOK
  <2> SUFFICES ASSUME IInv PROVE TypeOK
    OBVIOUS
  <2>1. StoreInv /\ SessionInv
    BY DEF IInv
  <2>2. \A r, q \in chat : r.id \in 1..lastId /\ (r.id = q.id => r = q)
    BY <2>1 DEF StoreInv, ChatInv, Row
  <2>3. \A p \in Pairs : threadOf[p] = threadOf[<<p[2], p[1]>>]
    <3> SUFFICES ASSUME NEW p \in Pairs PROVE threadOf[p] = threadOf[<<p[2], p[1]>>]
      OBVIOUS
    <3>1. p = <<p[1], p[2]>> /\ p[1] \in Users /\ p[2] \in Users
      BY DEF Pairs
    <3>2. PICK v, w : v = p[1] /\ w = p[2]
      OBVIOUS
    <3>3. threadOf[<<v, w>>] = threadOf[<<w, v>>]
      BY <2>1, <3>1, <3>2 DEF StoreInv, ThreadsInv
    <3> QED
      BY <3>1, <3>2, <3>3
  <2>4. ASSUME NEW s \in Servers, NEW u \in Users
        PROVE  mgr[s][u] \in 0..link[u].n
    <3>1. mgr[s][u] \in Nat /\ link[u].n \in Nat /\ mgr[s][u] <= link[u].n
      BY <2>1 DEF SessionInv, Links
    <3> QED
      BY <3>1
  <2>5. \A u \in Users : phase[u] = "off" <=> link[u].srv = NoServer
    BY <2>1 DEF SessionInv
  <2> QED
    BY <2>2, <2>3, <2>4, <2>5 DEF TypeOK
<1> QED
  BY <1>1, InductiveInvariant, PTL

\* Both welcome messages of a pair are stored once: whoever approves, and
\* however often, they have the same client ids, and one conversation to be in.
THEOREM EachIsWelcomedOnce == Spec => []WelcomedOnce
<1>1. IInv => WelcomedOnce
  <2> SUFFICES ASSUME IInv, NEW p \in Pairs
               PROVE  Cardinality({r \in chat : <<r.from, r.to>> = p /\ r.cid \notin Text(p)}) <= 1
    BY DEF WelcomedOnce
  <2> DEFINE S == {r \in chat : <<r.from, r.to>> = p /\ r.cid \notin Text(p)}
  <2>1. ChatInv
    BY DEF IInv, StoreInv
  <2>2. ASSUME NEW r \in S
        PROVE  r \in chat /\ r.from = p[1] /\ r.thread = threadOf[p] /\ r.cid = <<p[1], p[2], 0>>
    <3>1. Row(r) /\ <<r.from, r.to>> = p /\ r.cid \notin Text(p)
      BY <2>1 DEF ChatInv
    <3>2. r.from = p[1] /\ r.to = p[2]
      BY <3>1
    <3>3. PICK k \in 0..texts : r.cid = <<r.from, r.to, k>>
      BY <3>1 DEF Row
    <3>4. texts \in Nat
      BY <2>1 DEF ChatInv
    <3>5. k = 0
      <4>1. SUFFICES ASSUME k # 0 PROVE FALSE
        OBVIOUS
      <4>2. k \in 1..texts
        BY <3>3, <3>4, <4>1
      <4> QED
        BY <3>1, <3>2, <3>3, <4>2 DEF Text
    <3> QED
      BY <3>1, <3>2, <3>3, <3>5 DEF Row
  <2>3. ASSUME NEW r \in S, NEW q \in S
        PROVE  r = q
    <3>1. /\ r \in chat /\ q \in chat /\ r.from = q.from /\ r.thread = q.thread /\ r.cid = q.cid
      BY <2>2
    <3> QED
      BY <2>1, <3>1 DEF ChatInv, SameKey
  <2> HIDE DEF S
  <2>4. CASE S = {}
    BY <2>4, FS_EmptySet DEF S
  <2>5. CASE S # {}
    <3>1. PICK r : S = {r}
      BY <2>3, <2>5
    <3>2. Cardinality(S) = 1
      BY <3>1, FS_Singleton
    <3> QED
      BY <3>2 DEF S
  <2> QED
    BY <2>4, <2>5
<1> QED
  BY <1>1, InductiveInvariant, PTL

\* Friends are refused a conversation only when a statement has failed: who
\* loses the race for the pair finds what the other one made.
THEOREM FriendsAreNotRefused == Spec => []FriendsGetAThread
<1>1. IInv => FriendsGetAThread
  <2> SUFFICES ASSUME IInv, NEW s \in Servers, NoThread(s), faults = 0 PROVE FALSE
    BY DEF FriendsGetAThread
  <2>1. job[s] # Idle
    BY DEF NoThread, Idle
  <2>2. Unfailing(job[s])
    BY <2>1 DEF IInv, FaultInv
  <2> QED
    BY <2>2 DEF NoThread, Unfailing, Conversing
<1> QED
  BY <1>1, InductiveInvariant, PTL

\* A chat that waits for its conversation will be answered, if the connection
\* stays: the request, the work on it or its answer is there.
THEOREM PendingIsAnswered == Spec => []PendingIsUnderWay
<1>1. IInv => PendingIsUnderWay
  <2> SUFFICES ASSUME IInv, NEW u \in Users, NEW v \in cache[u].pending, Ready(u)
               PROVE  \/ \E i \in DOMAIN up[u] : CreateOf(u, v, up[u][i])
                      \/ \E s \in Servers : /\ job[s].by = u /\ job[s].n = link[u].n
                                            /\ CreateOf(u, v, job[s].req)
                      \/ \E i \in DOMAIN down[u] : down[u][i].op = "create" /\ down[u][i].peer = v
    BY DEF PendingIsUnderWay
  <2>1. phase[u] # "off"
    BY DEF Ready
  <2>2. UnderWay(u, v)
    BY <2>1 DEF IInv, PendingInv
  <2>3. ASSUME NEW s \in Servers, job[s].op = "create", job[s].by = u, job[s].n = link[u].n,
               job[s].req.to = v
        PROVE  CreateOf(u, v, job[s].req)
    <3>1. job[s] # Idle
      BY <2>3 DEF Idle
    <3>2. job[s] \in WorkOf(job[s].by)
      BY <3>1, JobFits DEF IInv
    <3>3. job[s].op = job[s].req.op
      BY <3>2 DEF WorkOf, Work
    <3> QED
      BY <2>3, <3>3 DEF CreateOf
  <2> QED
    BY <2>2, <2>3 DEF UnderWay
<1> QED
  BY <1>1, InductiveInvariant, PTL

\* The messages of every chat are in the order of the server's ids, each once,
\* and of one of the two, whatever they came by.
THEOREM ChatsAreInOrder == Spec => []CacheInOrder
<1>1. IInv => CacheInOrder
  <2> SUFFICES ASSUME IInv, NEW u \in Users, NEW i \in DOMAIN cache[u].list
               PROVE  LET e == cache[u].list[i]
                          m == e.msgs
                      IN  /\ \A j \in DOMAIN m : m[j].from \in {u, e.uid}
                          /\ \A j, k \in DOMAIN m :
                               j < k => /\ m[j].cid # m[k].cid
                                        /\ m[k].id > 0 => 0 < m[j].id /\ m[j].id < m[k].id
    BY DEF CacheInOrder
  <2>1. PICK F, T, G, c : F = FriendsOf(u) /\ T = ThreadsOf(u) /\ G = MsgsOf(u) /\ c = cache[u]
    OBVIOUS
  <2>2. Scope(F, T, G) /\ c \in Caches(F, T, G)
    BY <2>1, ClientAt DEF CachesOf
  <2>3. PICK e, m : e = c.list[i] /\ m = e.msgs
    OBVIOUS
  <2>4. e \in Chat(F, T, G) /\ Ordered(m)
    BY <2>1, <2>2, <2>3, CacheParts
  <2>5. e.uid \in F /\ e.uid \in Users /\ m \in Seq(G[e.uid]) /\ Distinct(m)
    BY <2>2, <2>3, <2>4 DEF Chat, Scope
  <2>6. \A x \in G[e.uid] : x.from \in {u, e.uid} /\ x \in Message
    BY <2>1, <2>5 DEF MsgsOf, Msgs, StoredOf, Typed, Between, IsCopy
  <2>7. DOMAIN m = 1..Len(m) /\ Len(m) \in Nat /\ \A j \in DOMAIN m : m[j] \in G[e.uid]
    BY <2>5, LenProperties, ElementOfSeq
  <2>8. \A j, k \in DOMAIN m :
           j < k => /\ m[j].cid # m[k].cid
                    /\ m[k].id > 0 => 0 < m[j].id /\ m[j].id < m[k].id
    BY <2>4, <2>5, <2>6, <2>7 DEF Ordered, Distinct, Message
  <2> QED
    BY <2>1, <2>3, <2>6, <2>7, <2>8
<1> QED
  BY <1>1, InductiveInvariant, PTL
=============================================================================
